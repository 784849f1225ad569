----------------------------- MODULE Onboarding -----------------------------
(***************************************************************************)
(* How a new client gets from the signup form to a live account: Signup,   *)
(* Login, QuickSetup and the seven steps of the Onboarding wizard, in one  *)
(* browser; the client row the API keeps; Stripe's checkout page and the   *)
(* purchase of a phone number.  The wizard calls fetch directly: there is  *)
(* no timeout, and a call outlives the page that made it.                  *)
(*                                                                         *)
(* Steps: 0 hours, 1 services, 2 agent, 3 CRM, 4 plan, 5 phone, 6 go live. *)
(***************************************************************************)
EXTENDS App

CONSTANTS
  MaxBreaks,  \* bound: failed calls, lost answers, reloads under way
  MaxEdits,   \* bound: changes the user makes to the form
  Edited      \* bound: the groups of settings the user changes

ASSUME BoundsAssumption == MaxBreaks \in Nat /\ MaxEdits \in Nat

VARIABLES
  browser,  \* the address asked for, and localStorage
  wizard,   \* state of the mounted Onboarding component
  calls,    \* HTTP requests under way
  client,   \* the client row
  bought,   \* phone numbers bought from the carrier for this client
  breaks, edits

onboardingVars == <<browser, wizard, calls, client, bought, breaks, edits>>

-----------------------------------------------------------------------------
(* The settings are told apart by group, and their values by whose they     *)
(* are: the program's default, the user's choice, the user's return to an   *)
(* empty or default value, or the name the wizard saves for an empty one.   *)
Groups == {"hours", "after", "services", "agent"}
Values == {"default", "chosen", "cleared", "fallback"}
Configs == [Groups -> Values]
DefaultConfig == [g \in Groups |-> "default"]
StoredConfigs == [Groups -> Values \union {"unset"}]

Stored(g, v) ==
  IF g = "agent" /\ v \in {"default", "cleared"} THEN "fallback" ELSE v

(* Wrong: the services are not restored either.                             *)
RestoredLess(g, stored, prev) ==
  IF stored = "unset" \/ g \in {"after", "services"} THEN prev ELSE stored

(* after_hours_handling is saved under hours and looked for under           *)
(* hours.business: it is never restored.                                    *)
Restored(g, stored, prev) ==
  IF stored = "unset" \/ g = "after" THEN prev ELSE stored

NoStep == -1
Steps == 0..6
Asked == {"signup", "login", "quick-setup", "onboarding", "dashboard", "stripe"}

Browsers ==
  [asked : Asked, success : BOOLEAN, token : BOOLEAN, unfinished : BOOLEAN,
   step : Steps \union {NoStep}, gmb : BOOLEAN, found : BOOLEAN]

NoWizard == [step |-> NoStep, config |-> DefaultConfig, phone |-> FALSE,
             plans |-> FALSE, untouched |-> TRUE, clean |-> FALSE]
Wizards ==
  [step : Steps, config : Configs, phone : BOOLEAN, plans : BOOLEAN,
   untouched : BOOLEAN, clean : BOOLEAN] \union {NoWizard}

Ops == {"signup", "lookup", "load", "save", "crm", "plans", "checkout", "provision", "golive"}
Lasting == {"save", "crm", "provision", "golive"}

(* life is 0 while the page that made the call waits for it; afterwards it  *)
(* is the number of the break that orphaned it.  data is what a save sends  *)
(* or what a load has read; clean, whether the wizard that saves had loaded *)
(* the stored settings before the user did anything.                        *)
Calls ==
  [op : Ops, at : {"search", "sent", "buying", "bought", "done", "failed"},
   life : 0..MaxBreaks, data : StoredConfigs, phone : BOOLEAN, clean : BOOLEAN]

Call(op) == [op |-> op, at |-> "sent", life |-> 0, data |-> DefaultConfig,
             phone |-> FALSE, clean |-> FALSE]

Waiting(cs, op) == \E c \in cs : c.op = op /\ c.life = 0
Saving == Waiting(calls, "save") \/ Waiting(calls, "crm")

Clients ==
  [status : {"none", "pending", "in_progress", "live"}, config : StoredConfigs,
   phone : BOOLEAN, paid : BOOLEAN]

Page(b) ==
  IF b.asked = "stripe" THEN "stripe"
  ELSE Shows(IF b.token THEN "client" ELSE "nobody", b.unfinished, b.asked)

OnboardingTypeOK ==
  /\ browser \in Browsers
  /\ wizard \in Wizards
  /\ calls \subseteq Calls
  /\ client \in Clients
  /\ bought \in Nat
  /\ breaks \in 0..MaxBreaks
  /\ edits \in 0..MaxEdits

OnboardingInit ==
  /\ browser = [asked |-> "signup", success |-> FALSE, token |-> FALSE,
                unfinished |-> FALSE, step |-> NoStep, gmb |-> FALSE, found |-> FALSE]
  /\ wizard = NoWizard
  /\ calls = {}
  /\ client = [status |-> "none", config |-> [g \in Groups |-> "unset"],
               phone |-> FALSE, paid |-> FALSE]
  /\ bought = 0
  /\ breaks = 0
  /\ edits = 0

-----------------------------------------------------------------------------
(* What the effects of the wizard ask for after a render.                   *)

EntersPlans(w) == w.step = 4 /\ wizard.step # 4 /\ ~w.plans

WantsNumber(w, cs) == w.step = 5 /\ ~w.phone /\ ~Waiting(cs, "provision")

Effects(w, cs) ==
  (IF EntersPlans(w) THEN {Call("plans")} ELSE {})
    \union
  (IF WantsNumber(w, cs) THEN {[Call("provision") EXCEPT !.at = "search"]} ELSE {})

(* The mounted wizard renders as w; the step is saved.                      *)
Render(w, cs) ==
  /\ wizard' = w
  /\ calls' = cs \union Effects(w, cs)
  /\ browser' = [browser EXCEPT !.step = w.step]

InitialStep(b) ==
  IF b.success THEN 5 ELSE IF b.step = NoStep THEN 0 ELSE b.step

Prefilled(b) ==
  [DefaultConfig EXCEPT !["services"] = IF b.gmb THEN "chosen" ELSE @]

(* The wizard mounts: the saved step, the business profile, and a request   *)
(* for the stored settings.                                                 *)
Mounted(b, cs) ==
  [step |-> InitialStep(b), config |-> Prefilled(b), phone |-> FALSE, plans |-> FALSE,
   untouched |-> ~\E c \in cs : c.op = "save", clean |-> FALSE]

(* The page that waited is gone: requests that change the server go on,     *)
(* the search for a number was the page's own.                              *)
Orphaned(cs, n) ==
  {[c EXCEPT !.life = IF @ = 0 THEN n ELSE @] :
     c \in {d \in cs : d.op \in Lasting /\ d.at # "search" /\ d.at \notin {"done", "failed"}}}

(* The browser goes to another page, or loads the same one again.           *)
Visit(b, cs) ==
  LET orphans == Orphaned(cs, breaks + 1)
      broken == \E c \in orphans : c.life = breaks + 1
      w == Mounted(b, orphans)
      all == orphans \union {Call("load")} \union
               (IF w.step = 4 THEN {Call("plans")} ELSE {}) \union
               (IF WantsNumber(w, orphans) THEN {[Call("provision") EXCEPT !.at = "search"]}
                ELSE {})
  IN /\ broken => breaks < MaxBreaks
     /\ breaks' = IF broken THEN breaks + 1 ELSE breaks
     /\ IF Page(b) = "onboarding"
        THEN /\ wizard' = w
             /\ browser' = [b EXCEPT !.asked = "onboarding", !.step = w.step,
                                      !.gmb = FALSE, !.found = FALSE]
             /\ calls' = all
        ELSE /\ wizard' = NoWizard
             /\ browser' = [b EXCEPT !.found = FALSE]
             /\ calls' = orphans

Go(asked) == [browser EXCEPT !.asked = asked, !.success = FALSE]

OnPage(p) == Page(browser) = p
InWizard == OnPage("onboarding")

ServerUnchanged == UNCHANGED <<client, bought>>

-----------------------------------------------------------------------------
(* Signup, Login, QuickSetup.                                               *)

SubmitSignup ==
  /\ OnPage("signup")
  /\ ~Waiting(calls, "signup")
  /\ calls' = calls \union {Call("signup")}
  /\ UNCHANGED <<browser, wizard, client, bought, breaks, edits>>

SignupAnswer(c) ==
  /\ c.op = "signup"
  /\ \/ /\ c.at = "done"
        /\ Visit([Go("quick-setup") EXCEPT !.token = TRUE, !.unfinished = TRUE], calls \ {c})
     \/ /\ c.at = "failed"
        /\ calls' = calls \ {c}
        /\ UNCHANGED <<browser, wizard, breaks>>
  /\ ServerUnchanged
  /\ UNCHANGED edits

AlreadyRegistered ==
  /\ OnPage("signup")
  /\ client.status # "none"
  /\ ~Waiting(calls, "signup")
  /\ browser' = Go("login")
  /\ UNCHANGED <<wizard, calls, client, bought, breaks, edits>>

(* Login writes the token and asks for the dashboard; the onboarding status *)
(* in localStorage stays what it was.                                       *)
LogIn ==
  /\ OnPage("login")
  /\ client.status # "none"
  /\ Visit([Go("dashboard") EXCEPT !.token = TRUE], calls)
  /\ ServerUnchanged
  /\ UNCHANGED edits

LookUp ==
  /\ OnPage("quick-setup")
  /\ ~browser.found
  /\ ~Waiting(calls, "lookup")
  /\ calls' = calls \union {Call("lookup")}
  /\ UNCHANGED <<browser, wizard, client, bought, breaks, edits>>

LookupAnswer(c) ==
  /\ c.op = "lookup"
  /\ calls' = calls \ {c}
  /\ browser' = [browser EXCEPT !.found = @ \/ c.at = "done"]
  /\ UNCHANGED <<wizard, client, bought, breaks, edits>>

ConfirmBusiness ==
  /\ OnPage("quick-setup")
  /\ browser.found
  /\ Visit([Go("onboarding") EXCEPT !.gmb = TRUE], calls)
  /\ ServerUnchanged
  /\ UNCHANGED edits

NotMyBusiness ==
  /\ OnPage("quick-setup")
  /\ browser.found
  /\ browser' = [browser EXCEPT !.found = FALSE]
  /\ UNCHANGED <<wizard, calls, client, bought, breaks, edits>>

SkipSetup ==
  /\ OnPage("quick-setup")
  /\ Visit(Go("onboarding"), calls)
  /\ ServerUnchanged
  /\ UNCHANGED edits

-----------------------------------------------------------------------------
(* The wizard's controls.                                                   *)

GroupsOf(s) ==
  CASE s = 0 -> {"hours", "after"} [] s = 1 -> {"services"} [] s = 2 -> {"agent"}
    [] OTHER -> {}

Touched(w) == [w EXCEPT !.untouched = FALSE]

EditConfig(g, v) ==
  /\ InWizard
  /\ g \in Edited
  /\ g \in GroupsOf(wizard.step)
  /\ v # wizard.config[g]
  /\ edits < MaxEdits
  /\ edits' = edits + 1
  /\ wizard' = Touched([wizard EXCEPT !.config[g] = v])
  /\ UNCHANGED <<browser, calls, client, bought, breaks>>

(* Wrong: the phone step can be left without a number.                      *)
AdvanceUnchecked(w) ==
  CASE w.step = 1 -> w.config["services"] = "chosen"
    [] w.step = 2 -> w.config["agent"] \in {"chosen", "fallback"}
    [] w.step = 4 -> FALSE
    [] OTHER -> TRUE

CanAdvance(w) ==
  CASE w.step = 1 -> w.config["services"] = "chosen"
    [] w.step = 2 -> w.config["agent"] \in {"chosen", "fallback"}
    [] w.step = 4 -> FALSE
    [] w.step = 5 -> w.phone
    [] OTHER -> TRUE

SaveCall == [Call("save") EXCEPT !.data = wizard.config, !.clean = wizard.clean]

AdvanceStep ==
  /\ InWizard
  /\ wizard.step < 6
  /\ CanAdvance(wizard)
  /\ ~Saving
  /\ IF wizard.step = 5
     THEN Render([wizard EXCEPT !.step = 6], calls)
     ELSE /\ calls' = calls \union {IF wizard.step = 3 THEN Call("crm") ELSE SaveCall}
          /\ wizard' = Touched(wizard)
          /\ UNCHANGED browser
  /\ UNCHANGED <<client, bought, breaks, edits>>

(* Wrong: also before the first step.                                       *)
BackAnywhere ==
  /\ InWizard
  /\ wizard.step \in {0, 1, 2, 3, 5}
  /\ Render([wizard EXCEPT !.step = @ - 1], calls)
  /\ UNCHANGED <<client, bought, breaks, edits>>

(* Not disabled while a save is under way.                                  *)
Back ==
  /\ InWizard
  /\ wizard.step \in {1, 2, 3, 5}
  /\ Render([wizard EXCEPT !.step = @ - 1], calls)
  /\ UNCHANGED <<client, bought, breaks, edits>>

SkipForNow ==
  /\ InWizard
  /\ wizard.step < 4
  /\ Visit(Go("dashboard"), calls)
  /\ ServerUnchanged
  /\ UNCHANGED edits

Checkout ==
  /\ InWizard
  /\ wizard.step = 4
  /\ wizard.plans
  /\ ~Waiting(calls, "checkout")
  /\ calls' = calls \union {Call("checkout")}
  /\ UNCHANGED <<browser, wizard, client, bought, breaks, edits>>

GoLive ==
  /\ InWizard
  /\ wizard.step = 6
  /\ ~Waiting(calls, "golive")
  /\ calls' = calls \union {Call("golive")}
  /\ UNCHANGED <<browser, wizard, client, bought, breaks, edits>>

(* The user reloads the page: the address keeps ?success=true.              *)
Reload ==
  /\ InWizard
  /\ Visit(browser, calls)
  /\ ServerUnchanged
  /\ UNCHANGED edits

(* The banner of DashboardLayout while billing is pending.                  *)
ContinueOnboarding ==
  /\ OnPage("dashboard")
  /\ ~client.paid
  /\ Visit(Go("onboarding"), calls)
  /\ ServerUnchanged
  /\ UNCHANGED edits

SignOut ==
  /\ OnPage("dashboard")
  /\ Visit([Go("login") EXCEPT !.token = FALSE], calls)
  /\ ServerUnchanged
  /\ UNCHANGED edits

-----------------------------------------------------------------------------
(* Answers to the wizard.                                                   *)

LoadAnswer(c) ==
  /\ c.op = "load"
  /\ IF c.at = "done"
     THEN Render([wizard EXCEPT
                    !.config = [g \in Groups |-> Restored(g, c.data[g], @[g])],
                    !.phone = @ \/ c.phone,
                    !.clean = wizard.untouched,
                    !.untouched = FALSE], calls \ {c})
     ELSE /\ wizard' = Touched(wizard)
          /\ calls' = calls \ {c}
          /\ UNCHANGED browser
  /\ UNCHANGED <<client, bought, breaks, edits>>

(* Wrong: the wizard goes on without looking at the answer.                 *)
SaveAnswerIgnored(c) ==
  /\ c.op \in {"save", "crm"}
  /\ Render([wizard EXCEPT !.step = @ + 1], calls \ {c})
  /\ UNCHANGED <<client, bought, breaks, edits>>

(* setStep(s => s + 1): from wherever the user has gone meanwhile.          *)
SaveAnswer(c) ==
  /\ c.op \in {"save", "crm"}
  /\ IF c.at = "done"
     THEN Render([wizard EXCEPT !.step = @ + 1], calls \ {c})
     ELSE /\ calls' = calls \ {c}
          /\ UNCHANGED <<browser, wizard>>
  /\ UNCHANGED <<client, bought, breaks, edits>>

PlansAnswer(c) ==
  /\ c.op = "plans"
  /\ wizard' = [wizard EXCEPT !.plans = @ \/ c.at = "done"]
  /\ calls' = calls \ {c}
  /\ UNCHANGED <<browser, client, bought, breaks, edits>>

CheckoutAnswer(c) ==
  /\ c.op = "checkout"
  /\ IF c.at = "done"
     THEN Visit([browser EXCEPT !.asked = "stripe"], calls \ {c})
     ELSE calls' = calls \ {c} /\ UNCHANGED <<browser, wizard, breaks>>
  /\ ServerUnchanged
  /\ UNCHANGED edits

(* Wrong: a failed purchase changes nothing the effect depends on.          *)
ProvisionAnswerKept(c) ==
  /\ c.op = "provision"
  /\ wizard' = [wizard EXCEPT !.phone = @ \/ c.at = "done"]
  /\ calls' = calls \ {c}
  /\ UNCHANGED <<browser, client, bought, breaks, edits>>

ProvisionAnswer(c) ==
  /\ c.op = "provision"
  /\ Render([wizard EXCEPT !.phone = @ \/ c.at = "done"], calls \ {c})
  /\ UNCHANGED <<client, bought, breaks, edits>>

GoLiveAnswer(c) ==
  /\ c.op = "golive"
  /\ IF c.at = "done"
     THEN Visit([Go("dashboard") EXCEPT !.step = NoStep], calls \ {c})
     ELSE calls' = calls \ {c} /\ UNCHANGED <<browser, wizard, breaks>>
  /\ ServerUnchanged
  /\ UNCHANGED edits

Answer(c) ==
  /\ c.life = 0
  /\ c.at \in {"done", "failed"}
  /\ \/ SignupAnswer(c) \/ LookupAnswer(c) \/ LoadAnswer(c) \/ SaveAnswer(c)
     \/ PlansAnswer(c) \/ CheckoutAnswer(c) \/ ProvisionAnswer(c) \/ GoLiveAnswer(c)

-----------------------------------------------------------------------------
(* The API.                                                                 *)

(* c is finished as d; nobody waits for an orphan.                          *)
Finish(c, d) == calls' = (calls \ {c}) \union (IF c.life = 0 THEN {d} ELSE {})

Done(c) == Finish(c, [c EXCEPT !.at = "done"])

ServeSignup(c) ==
  /\ c.op = "signup"
  /\ Finish(c, [c EXCEPT !.at = IF client.status = "none" THEN "done" ELSE "failed"])
  /\ client' = [client EXCEPT !.status = IF @ = "none" THEN "pending" ELSE @]

ServeLoad(c) ==
  /\ c.op = "load"
  /\ Finish(c, [c EXCEPT !.at = "done", !.data = client.config, !.phone = client.phone])
  /\ UNCHANGED client

ServeSave(c) ==
  /\ c.op = "save"
  /\ Done(c)
  /\ client' = [client EXCEPT !.config = [g \in Groups |-> Stored(g, c.data[g])]]

ServeOnboarding(c) ==
  /\ c.op \in {"crm", "golive"}
  /\ Done(c)
  /\ client' = [client EXCEPT !.status =
       IF c.op = "golive" THEN "live" ELSE IF @ = "pending" THEN "in_progress" ELSE @]

ServeOther(c) ==
  /\ c.op \in {"lookup", "plans", "checkout"}
  /\ Done(c)
  /\ UNCHANGED client

Serve(c) ==
  /\ c.at = "sent"
  /\ ServeSignup(c) \/ ServeLoad(c) \/ ServeSave(c) \/ ServeOnboarding(c) \/ ServeOther(c)
  /\ UNCHANGED <<browser, wizard, bought, breaks, edits>>

(* The search has found a number: the wizard asks to buy the first one.     *)
Found(c) ==
  /\ c.at = "search"
  /\ calls' = (calls \ {c}) \union {[c EXCEPT !.at = "sent"]}
  /\ UNCHANGED <<client, bought>>

(* Wrong: the row is not looked at.                                         *)
RowUnchecked(c) ==
  /\ c.at = "sent"
  /\ calls' = (calls \ {c}) \union {[c EXCEPT !.at = "buying"]}
  /\ UNCHANGED <<client, bought>>

(* provision_number: the check of the row, the purchase, the commit.        *)
CheckRow(c) ==
  /\ c.at = "sent"
  /\ IF client.phone
     THEN Finish(c, [c EXCEPT !.at = "failed"])
     ELSE calls' = (calls \ {c}) \union {[c EXCEPT !.at = "buying"]}
  /\ UNCHANGED <<client, bought>>

Buy(c) ==
  /\ c.at = "buying"
  /\ calls' = (calls \ {c}) \union {[c EXCEPT !.at = "bought"]}
  /\ bought' = bought + 1
  /\ UNCHANGED client

CommitNumber(c) ==
  /\ c.at = "bought"
  /\ Done(c)
  /\ client' = [client EXCEPT !.phone = TRUE]
  /\ UNCHANGED bought

Provision(c) ==
  /\ c.op = "provision"
  /\ Found(c) \/ CheckRow(c) \/ Buy(c) \/ CommitNumber(c)
  /\ UNCHANGED <<browser, wizard, breaks, edits>>

(* A request is lost or refused, the answer to a handled one is lost, or    *)
(* the commit after a purchase fails.                                       *)
Break(c) ==
  /\ c.at # "failed"
  /\ breaks < MaxBreaks
  /\ breaks' = breaks + 1
  /\ Finish(c, [c EXCEPT !.at = "failed"])
  /\ UNCHANGED <<browser, wizard, client, bought, edits>>

-----------------------------------------------------------------------------
(* Stripe's page: subscribe and return, cancel, or close the tab (having    *)
(* subscribed or not) and come back to the site later.                      *)
LeaveStripe(paid, b) ==
  /\ OnPage("stripe")
  /\ client' = [client EXCEPT !.paid = @ \/ paid]
  /\ Visit(b, calls)
  /\ UNCHANGED <<bought, edits>>

Subscribe == LeaveStripe(TRUE, [Go("onboarding") EXCEPT !.success = TRUE])
(* Wrong: both ways back have the same address.                             *)
CancelAsSuccess == LeaveStripe(FALSE, [Go("onboarding") EXCEPT !.success = TRUE])

Cancel == LeaveStripe(FALSE, Go("onboarding"))
CloseStripe == \E paid \in BOOLEAN : LeaveStripe(paid, Go("dashboard"))

-----------------------------------------------------------------------------
UserStep ==
  \/ SubmitSignup \/ AlreadyRegistered \/ LogIn
  \/ LookUp \/ ConfirmBusiness \/ NotMyBusiness \/ SkipSetup
  \/ \E g \in Groups, v \in {"chosen", "cleared"} : EditConfig(g, v)
  \/ AdvanceStep \/ Back \/ SkipForNow \/ Checkout \/ GoLive \/ Reload
  \/ ContinueOnboarding \/ SignOut
  \/ Subscribe \/ Cancel \/ CloseStripe

CallStep == \E c \in calls : Answer(c) \/ Serve(c) \/ Provision(c)

OnboardingNext == UserStep \/ CallStep \/ \E c \in calls : Break(c)

(* The server and the network finish what they have; the user need not.     *)
OnboardingFairness ==
  \A op \in Ops : WF_onboardingVars(\E c \in calls : c.op = op /\ (Answer(c) \/ Serve(c) \/ Provision(c)))

OnboardingSpec == OnboardingInit /\ [][OnboardingNext]_onboardingVars /\ OnboardingFairness

-----------------------------------------------------------------------------
(* A number is bought only for a client that has subscribed: the wizard's   *)
(* "Must pay to advance" (canAdvance) holds across reloads, the back button *)
(* and answers that come late, because only ?success=true skips step 4.     *)
NumbersArePaidFor == bought > 0 => client.paid

(* The API takes an account live without looking at anything, so that a     *)
(* live client has a number rests on the wizard's order of steps alone.     *)
LiveHasNumber == client.status = "live" => client.phone

(* provision_number buys before it commits: each number beyond the first    *)
(* needs a failure, or a page that went away during a purchase.             *)
PurchasesAreExplained == bought <= 1 + breaks

(* The step kept in localStorage is never ahead of the server: whoever gets *)
(* past step 0 has settings stored, and past step 3 an onboarding begun.    *)
StepIsSaved ==
  /\ wizard.step >= 1 => \A g \in Groups : client.config[g] # "unset"
  /\ wizard.step >= 4 => client.status \in {"in_progress", "live"}

(* A setting the user chose is replaced by the program's default only by a  *)
(* save of a wizard that had not loaded the settings before the user did    *)
(* anything, by a save whose page is gone, or if it is the after-hours      *)
(* handling, which is never restored.                                       *)
LoadedSettingsSurvive ==
  [][\A g \in Groups \ {"after"} :
       client.config[g] = "chosen" /\ client'.config[g] # "chosen" =>
         \E c \in calls :
           /\ c.op = "save"
           /\ ~c.clean \/ c.life > 0 \/ c.data[g] = "cleared"]_client

(* The phone step ends: the number is shown, the user leaves, or the client *)
(* has a number that this wizard was not told of (it then asks for ever,    *)
(* each time refused, and a reload would show the number).                  *)
PhoneStepEnds ==
  (wizard.step = 5) ~> (wizard.phone \/ wizard.step # 5 \/ client.phone)

(* "Check if onboarding is incomplete - redirect to onboarding" (App.jsx):  *)
(* a client that is live, and was told so, gets the dashboard it asks for.  *)
GateIsForUnfinished ==
  browser.token /\ client.status = "live" /\ ~Waiting(calls, "golive") =>
    Shows("client", browser.unfinished, "dashboard") = "dashboard"
=============================================================================
