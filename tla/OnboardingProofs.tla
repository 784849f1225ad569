-------------------------- MODULE OnboardingProofs --------------------------
(***************************************************************************)
(* Proofs about Onboarding, for any number of broken calls and any edits:  *)
(* its type, that nobody gets a number unpaid, goes live without one, or   *)
(* is ahead of what the server has stored, and that each number bought     *)
(* beyond the first needs a failure, or a page that went away.             *)
(***************************************************************************)
EXTENDS Onboarding, FiniteSetTheorems, TLAPS

(* What the server has, and the two facts that never become false again     *)
(* besides paid and phone.                                                  *)
IsSet(cl) == \A g \in Groups : cl.config[g] # "unset"
IsBegun(cl) == cl.status \in {"in_progress", "live"}

(* Whoever stands at step s has done what the steps before it ask for.      *)
Earned(s, cl) ==
  /\ s >= 1 => IsSet(cl)
  /\ s >= 4 => IsBegun(cl)
  /\ s >= 5 => cl.paid
  /\ s = 6 => cl.phone

(* The step in localStorage, Stripe's page and ?success=true are earned;    *)
(* a token belongs to an account, and without one there is no wizard.       *)
BrowserOK(b, cl) ==
  /\ Earned(b.step, cl)
  /\ b.success \/ b.asked = "stripe" => IsSet(cl) /\ IsBegun(cl)
  /\ b.success => cl.paid
  /\ b.token => cl.status # "none"
  /\ ~b.token => b.asked \in {"signup", "login"}

WizardOK(w, cl) == Earned(w.step, cl) /\ (w.phone => cl.phone)

ClientOK(cl, n) == (cl.status = "live" => cl.phone) /\ (n > 0 => cl.paid)

(* A call was made by who had earned it, and what it answers is true.       *)
CallOK(c, cl) ==
  /\ c.op = "save" => c.data \in Configs
  /\ c.op \in {"save", "crm"} => cl.status # "none"
  /\ c.op = "crm" => IsSet(cl)
  /\ c.op = "provision" => cl.paid
  /\ c.op = "golive" => cl.phone
  /\ c.op = "checkout" => IsSet(cl) /\ IsBegun(cl)
  /\ c.phone => cl.phone
  /\ c.at = "done" => /\ c.op = "signup" => cl.status # "none"
                      /\ c.op = "save" => IsSet(cl)
                      /\ c.op = "crm" => IsBegun(cl)
                      /\ c.op = "provision" => cl.phone

(* Somebody waits for it: which step it can have been made at.              *)
WaitedFor(c, w) ==
  c.life = 0 =>
    /\ c.op \notin {"signup", "lookup"} => w.step \in Steps
    /\ c.op = "save" => w.step <= 2
    /\ c.op = "crm" => w.step <= 3

Saves(c) == c.life = 0 /\ c.op \in {"save", "crm"}
OneSave(cs) == \A c, d \in cs : Saves(c) /\ Saves(d) => c = d

CallsOK(cs, w, cl) ==
  OneSave(cs) /\ \A c \in cs : c \in Calls /\ CallOK(c, cl) /\ WaitedFor(c, w)

OnboardingInv ==
  /\ OnboardingTypeOK
  /\ InWizard <=> wizard.step \in Steps
  /\ BrowserOK(browser, client)
  /\ WizardOK(wizard, client)
  /\ ClientOK(client, bought)
  /\ CallsOK(calls, wizard, client)

-----------------------------------------------------------------------------
LEMMA ConfigValues == \A f \in Configs, g \in Groups : f[g] \in Values /\ f[g] # "unset"
BY DEF Configs, Values

LEMMA WizardFields ==
  ASSUME NEW w \in Wizards
  PROVE  /\ w = [step |-> w.step, config |-> w.config, phone |-> w.phone, plans |-> w.plans,
                 untouched |-> w.untouched, clean |-> w.clean]
         /\ w.step \in Steps \cup {NoStep} /\ w.config \in Configs /\ w.phone \in BOOLEAN
         /\ w.plans \in BOOLEAN /\ w.untouched \in BOOLEAN /\ w.clean \in BOOLEAN
<1>1. DefaultConfig \in Configs
  BY DEF DefaultConfig, Configs, Values
<1>2. CASE w = NoWizard
  BY <1>1, <1>2 DEF NoWizard, Steps, NoStep
<1>3. CASE w # NoWizard
  BY <1>3 DEF Wizards
<1> QED
  BY <1>2, <1>3

(* The page shown tells whether there is a token.                           *)
LEMMA PageFacts ==
  ASSUME NEW b \in Browsers, ~b.token => b.asked \in {"signup", "login"}
  PROVE  /\ Page(b) = "stripe" <=> b.asked = "stripe"
         /\ Page(b) \in {"signup", "login"} => ~b.token
         /\ Page(b) \in {"onboarding", "quick-setup", "dashboard", "stripe"} => b.token
<1>1. b.asked \in Asked /\ b.token \in BOOLEAN
  BY DEF Browsers
<1>2. CASE b.asked = "stripe"
  BY <1>1, <1>2 DEF Page
<1>3. CASE b.asked # "stripe" /\ ~b.token
  <2>1. Page(b) = b.asked
    BY <1>3 DEF Page, Shows, SignedOutShows, Routed, PublicPages
  <2> QED
    BY <2>1, <1>3
<1>4. CASE b.asked # "stripe" /\ b.token /\ b.unfinished
  <2>1. Page(b) \in SetupPages
    BY <1>4 DEF Page, Shows, UnfinishedShows, Routed, SetupPages
  <2> QED
    BY <2>1, <1>4 DEF SetupPages, StaticPages
<1>5. CASE b.asked # "stripe" /\ b.token /\ ~b.unfinished
  <2>1. Page(b) \in ClientPages \cup {"onboarding", "verify-email", "privacy", "terms"}
    BY <1>5 DEF Page, Shows, ClientShows, Routed, ClientPages
  <2> QED
    BY <2>1, <1>5 DEF ClientPages
<1> QED
  BY <1>1, <1>2, <1>3, <1>4, <1>5

(* What the server has only grows.                                          *)
Grows(cl, new) ==
  /\ IsSet(cl) => IsSet(new)
  /\ IsBegun(cl) => IsBegun(new)
  /\ cl.status # "none" => new.status # "none"
  /\ cl.paid => new.paid
  /\ cl.phone => new.phone

LEMMA EarnedGrows ==
  ASSUME NEW s, NEW cl, NEW new, Grows(cl, new), Earned(s, cl)
  PROVE  Earned(s, new)
BY DEF Grows, Earned

LEMMA BrowserGrows ==
  ASSUME NEW b, NEW cl, NEW new, Grows(cl, new), BrowserOK(b, cl)
  PROVE  BrowserOK(b, new)
BY EarnedGrows DEF Grows, BrowserOK

LEMMA WizardGrows ==
  ASSUME NEW w, NEW cl, NEW new, Grows(cl, new), WizardOK(w, cl)
  PROVE  WizardOK(w, new)
BY EarnedGrows DEF Grows, WizardOK

LEMMA CallGrows ==
  ASSUME NEW c, NEW cl, NEW new, Grows(cl, new), CallOK(c, cl)
  PROVE  CallOK(c, new)
BY DEF Grows, CallOK

-----------------------------------------------------------------------------
(* One call is added, moved on, or done with.                               *)
LEMMA CallAdded ==
  ASSUME NEW cs, NEW w, NEW cl, CallsOK(cs, w, cl),
         NEW d \in Calls, CallOK(d, cl), WaitedFor(d, w), 
         Saves(d) => \A c \in cs : ~Saves(c)
  PROVE  CallsOK(cs \cup {d}, w, cl)
BY DEF CallsOK, OneSave

LEMMA CallDropped ==
  ASSUME NEW cs, NEW w, NEW cl, CallsOK(cs, w, cl), NEW c
  PROVE  CallsOK(cs \ {c}, w, cl)
BY DEF CallsOK, OneSave

LEMMA CallMoved ==
  ASSUME NEW cs, NEW w, NEW cl, CallsOK(cs, w, cl), NEW c \in cs,
         NEW d \in Calls, CallOK(d, cl), d.op = c.op, d.life = c.life
  PROVE  CallsOK((cs \ {c}) \cup {d}, w, cl)
<1>1. WaitedFor(d, w)
  BY DEF CallsOK, WaitedFor
<1>2. CallsOK(cs \ {c}, w, cl)
  BY CallDropped
<1>3. Saves(d) => \A e \in cs \ {c} : ~Saves(e)
  BY DEF CallsOK, OneSave, Saves
<1> QED
  BY <1>1, <1>2, <1>3, CallAdded

-----------------------------------------------------------------------------
(* What the wizard asks for after a render.                                 *)
LEMMA NewCalls ==
  /\ \A op \in Ops : Call(op) \in Calls /\ Call(op).op = op /\ Call(op).life = 0
                       /\ ~Call(op).phone /\ Call(op).at = "sent"
  /\ [Call("provision") EXCEPT !.at = "search"] \in Calls
<1>1. DefaultConfig \in StoredConfigs
  BY DEF DefaultConfig, StoredConfigs, Values
<1>2. 0 \in 0..MaxBreaks
  BY BoundsAssumption
<1> QED
  BY <1>1, <1>2 DEF Call, Calls, Ops

LEMMA EffectIsOK ==
  ASSUME NEW w, NEW cl, Earned(w.step, cl), w.step \in Steps
  PROVE  /\ WaitedFor(Call("plans"), w) /\ CallOK(Call("plans"), cl)
         /\ ~Saves(Call("plans"))
         /\ w.step = 5 =>
              /\ WaitedFor([Call("provision") EXCEPT !.at = "search"], w)
              /\ CallOK([Call("provision") EXCEPT !.at = "search"], cl)
         /\ ~Saves([Call("provision") EXCEPT !.at = "search"])
BY DEF Call, WaitedFor, CallOK, Earned, Saves

LEMMA RenderOK ==
  ASSUME browser \in Browsers, BrowserOK(browser, client), InWizard,
         NEW STATE w, w \in Wizards, w.step \in Steps, WizardOK(w, client),
         NEW STATE cs, CallsOK(cs, w, client),
         Render(w, cs)
  PROVE  /\ browser' \in Browsers /\ wizard' = w
         /\ BrowserOK(browser', client)
         /\ InWizard'
         /\ CallsOK(calls', w, client)
<1>1. wizard' = w /\ calls' = cs \cup Effects(w, cs) /\ browser' = [browser EXCEPT !.step = w.step]
  BY DEF Render
<1>2. Earned(w.step, client)
  BY DEF WizardOK
<1>3. browser' \in Browsers /\ BrowserOK(browser', client)
  BY <1>1, <1>2 DEF BrowserOK, Browsers
<1>4. InWizard'
  <2>1. browser'.asked = browser.asked /\ browser'.token = browser.token
          /\ browser'.unfinished = browser.unfinished
    BY <1>1 DEF Browsers
  <2> QED
    BY <2>1 DEF InWizard, OnPage, Page
<1>5. CallsOK(calls', w, client)
  <2>1. PICK P, Q : /\ calls' = (cs \cup P) \cup Q
                    /\ P \in {{}, {Call("plans")}}
                    /\ Q = {} \/ (w.step = 5 /\ Q = {[Call("provision") EXCEPT !.at = "search"]})
    <3>1. Effects(w, cs) = (IF EntersPlans(w) THEN {Call("plans")} ELSE {}) \cup
             (IF WantsNumber(w, cs) THEN {[Call("provision") EXCEPT !.at = "search"]} ELSE {})
      BY DEF Effects
    <3>2. WantsNumber(w, cs) => w.step = 5
      BY DEF WantsNumber
    <3> QED
      BY <1>1, <3>1, <3>2
  <2>2. CallsOK(cs \cup P, w, client)
    <3>1. CASE P = {}
      BY <3>1
    <3>2. CASE P = {Call("plans")}
      BY <3>2, <1>2, EffectIsOK, NewCalls, CallAdded DEF Ops
    <3> QED
      BY <2>1, <3>1, <3>2
  <2>3. CASE Q = {}
    BY <2>1, <2>2, <2>3
  <2>4. CASE Q # {}
    BY <2>1, <2>2, <2>4, <1>2, EffectIsOK, NewCalls, CallAdded
  <2> QED
    BY <2>3, <2>4
<1> QED
  BY <1>1, <1>3, <1>4, <1>5

(* The calls that outlive their page.                                       *)
LEMMA OrphansOK ==
  ASSUME NEW cs, NEW cl, \A c \in cs : c \in Calls /\ CallOK(c, cl),
         NEW n \in Nat, n # 0
  PROVE  \A o \in Orphaned(cs, n) :
           /\ CallOK(o, cl) /\ o.life # 0 /\ o.life \in (0..MaxBreaks) \cup {n}
           /\ o.life \in 0..MaxBreaks => o \in Calls
<1> TAKE o \in Orphaned(cs, n)
<1>1. PICK d \in cs : o = [d EXCEPT !.life = IF @ = 0 THEN n ELSE @]
  BY DEF Orphaned
<1>2. d \in Calls /\ CallOK(d, cl)
  OBVIOUS
<1>3. /\ o.op = d.op /\ o.at = d.at /\ o.data = d.data /\ o.phone = d.phone
      /\ o.life = IF d.life = 0 THEN n ELSE d.life
  BY <1>1, <1>2 DEF Calls
<1>4. CallOK(o, cl)
  BY <1>2, <1>3 DEF CallOK
<1>5. o.life # 0 /\ o.life \in (0..MaxBreaks) \cup {n}
  BY <1>2, <1>3 DEF Calls
<1>6. o.life \in 0..MaxBreaks => o \in Calls
  BY <1>1, <1>2, <1>3 DEF Calls
<1> QED
  BY <1>4, <1>5, <1>6

LEMMA VisitOK ==
  ASSUME OnboardingTypeOK, NEW STATE b, b \in Browsers, BrowserOK(b, client'),
         NEW STATE cs, \A c \in cs : c \in Calls /\ CallOK(c, client'),
         Visit(b, cs)
  PROVE  /\ browser' \in Browsers /\ wizard' \in Wizards /\ breaks' \in 0..MaxBreaks
         /\ InWizard' <=> wizard'.step \in Steps
         /\ BrowserOK(browser', client') /\ WizardOK(wizard', client')
         /\ CallsOK(calls', wizard', client')
<1> DEFINE orphans == Orphaned(cs, breaks + 1)
           w == Mounted(b, orphans)
<1> HIDE DEF orphans
<1>1. breaks \in 0..MaxBreaks /\ breaks + 1 \in Nat /\ breaks + 1 # 0
  BY BoundsAssumption DEF OnboardingTypeOK
<1>2. \A o \in orphans :
        /\ CallOK(o, client') /\ o.life # 0 /\ o.life \in (0..MaxBreaks) \cup {breaks + 1}
        /\ o.life \in 0..MaxBreaks => o \in Calls
  BY <1>1, OrphansOK DEF orphans
<1>3. breaks' \in 0..MaxBreaks /\ \A o \in orphans : o \in Calls
  <2>1. (\E o \in orphans : o.life = breaks + 1) => breaks < MaxBreaks
    BY DEF Visit, orphans
  <2>2. breaks' = IF \E o \in orphans : o.life = breaks + 1 THEN breaks + 1 ELSE breaks
    BY DEF Visit, orphans
  <2> QED
    BY <1>1, <1>2, <2>1, <2>2, BoundsAssumption
<1>4. \A v, cl : (\A o \in orphans : CallOK(o, cl)) => CallsOK(orphans, v, cl)
  BY <1>2, <1>3 DEF CallsOK, OneSave, Saves, WaitedFor
<1>5. w \in Wizards /\ w.step \in Steps /\ w.step = InitialStep(b) /\ ~w.phone
  <2>1. InitialStep(b) \in Steps
    BY DEF InitialStep, Browsers, Steps, NoStep
  <2>2. Prefilled(b) \in Configs
    BY DEF Prefilled, DefaultConfig, Configs, Values
  <2> QED
    BY <2>1, <2>2 DEF Mounted, Wizards
<1>6. WizardOK(w, client')
  <2>1. Earned(InitialStep(b), client')
    BY DEF BrowserOK, Earned, InitialStep, NoStep, Steps
  <2> QED
    BY <1>5, <2>1 DEF WizardOK
<1>7. ~b.token => b.asked \in {"signup", "login"}
  BY DEF BrowserOK
<1>8. CASE Page(b) = "onboarding"
  <2>1. /\ wizard' = w
        /\ browser' = [b EXCEPT !.asked = "onboarding", !.step = w.step, !.gmb = FALSE,
                                !.found = FALSE]
        /\ calls' = orphans \cup {Call("load")}
             \cup (IF w.step = 4 THEN {Call("plans")} ELSE {})
             \cup (IF WantsNumber(w, orphans)
                   THEN {[Call("provision") EXCEPT !.at = "search"]} ELSE {})
    BY <1>8 DEF Visit, orphans
  <2> HIDE DEF w
  <2>2. b.token
    BY <1>7, <1>8, PageFacts
  <2>3. browser' \in Browsers /\ browser'.token /\ browser'.asked = "onboarding"
          /\ browser'.success = b.success /\ browser'.step = w.step
    BY <1>5, <2>1, <2>2 DEF Browsers, Asked
  <2>4. BrowserOK(browser', client')
    BY <1>6, <2>2, <2>3 DEF BrowserOK, WizardOK
  <2>5. InWizard'
    BY <2>3 DEF InWizard, OnPage, Page, Shows, UnfinishedShows, ClientShows, Routed, SetupPages
  <2>6. CallsOK(orphans \cup {Call("load")}, w, client')
    <3>1. CallsOK(orphans, w, client')
      BY <1>2, <1>4
    <3>2. WaitedFor(Call("load"), w) /\ CallOK(Call("load"), client') /\ ~Saves(Call("load"))
      BY <1>5 DEF Call, WaitedFor, CallOK, Saves
    <3> QED
      BY <3>1, <3>2, NewCalls, CallAdded DEF Ops
  <2>7. PICK P, Q : /\ calls' = ((orphans \cup {Call("load")}) \cup P) \cup Q
                    /\ P \in {{}, {Call("plans")}}
                    /\ Q = {} \/ (w.step = 5 /\ Q = {[Call("provision") EXCEPT !.at = "search"]})
    BY <2>1 DEF WantsNumber
  <2>8. Earned(w.step, client')
    BY <1>6 DEF WizardOK
  <2>9. CallsOK((orphans \cup {Call("load")}) \cup P, w, client')
    <3>1. CASE P = {}
      BY <3>1, <2>6
    <3>2. CASE P = {Call("plans")}
      BY <3>2, <2>6, <2>8, <1>5, EffectIsOK, NewCalls, CallAdded DEF Ops
    <3> QED
      BY <2>7, <3>1, <3>2
  <2>10. CallsOK(calls', w, client')
    <3>1. CASE Q = {}
      BY <3>1, <2>7, <2>9
    <3>2. CASE Q # {}
      BY <3>2, <2>7, <2>8, <2>9, <1>5, EffectIsOK, NewCalls, CallAdded
    <3> QED
      BY <3>1, <3>2
  <2> QED
    BY <1>3, <1>5, <1>6, <2>1, <2>3, <2>4, <2>5, <2>10
<1>9. CASE Page(b) # "onboarding"
  <2>1. wizard' = NoWizard /\ browser' = [b EXCEPT !.found = FALSE] /\ calls' = orphans
    BY <1>9 DEF Visit, orphans
  <2>2. browser' \in Browsers /\ BrowserOK(browser', client')
    BY <2>1 DEF Browsers, BrowserOK
  <2>3. ~InWizard'
    <3>1. browser'.asked = b.asked /\ browser'.token = b.token /\ browser'.unfinished = b.unfinished
      BY <2>1 DEF Browsers
    <3> QED
      BY <1>9, <3>1 DEF InWizard, OnPage, Page
  <2>4. wizard' \in Wizards /\ wizard'.step \notin Steps /\ WizardOK(wizard', client')
    BY <2>1 DEF Wizards, NoWizard, NoStep, Steps, WizardOK, Earned
  <2>5. CallsOK(calls', wizard', client')
    BY <1>2, <1>4, <2>1
  <2> QED
    BY <1>3, <2>2, <2>3, <2>4, <2>5
<1> QED
  BY <1>8, <1>9

-----------------------------------------------------------------------------
(* The shapes a step has: the server or the network moves, somebody calls,  *)
(* the wizard renders, the browser goes elsewhere.                          *)
LEMMA ServerStep ==
  ASSUME OnboardingInv, UNCHANGED <<browser, wizard>>,
         client' \in Clients, Grows(client, client'),
         bought' \in Nat, ClientOK(client', bought'),
         breaks' \in 0..MaxBreaks, edits' \in 0..MaxEdits,
         CallsOK(calls', wizard, client')
  PROVE  OnboardingInv'
<1>1. BrowserOK(browser, client') /\ WizardOK(wizard, client')
  BY BrowserGrows, WizardGrows DEF OnboardingInv
<1>2. calls' \subseteq Calls
  BY DEF CallsOK
<1>3. OnboardingTypeOK'
  BY <1>2 DEF OnboardingInv, OnboardingTypeOK
<1>4. InWizard' <=> InWizard
  BY DEF InWizard, OnPage, Page
<1> QED
  BY <1>1, <1>3, <1>4 DEF OnboardingInv

LEMMA GrowsRefl == \A cl : Grows(cl, cl)
BY DEF Grows

LEMMA CallsGrow ==
  ASSUME NEW cs, NEW w, NEW cl, NEW new, Grows(cl, new), CallsOK(cs, w, cl)
  PROVE  CallsOK(cs, w, new)
BY CallGrows DEF CallsOK

LEMMA AskStep ==
  ASSUME OnboardingInv, NEW STATE d, d \in Calls, CallOK(d, client), WaitedFor(d, wizard),
         Saves(d) => \A c \in calls : ~Saves(c),
         calls' = calls \cup {d},
         UNCHANGED <<browser, wizard, client, bought, breaks, edits>>
  PROVE  OnboardingInv'
<1>1. CallsOK(calls', wizard, client)
  BY CallAdded DEF OnboardingInv
<1> QED
  BY <1>1, GrowsRefl, ServerStep DEF OnboardingInv, OnboardingTypeOK

LEMMA ForgetStep ==
  ASSUME OnboardingInv, NEW STATE c, c \in calls,
         calls' = calls \ {c},
         UNCHANGED <<browser, wizard, client, bought, breaks, edits>>
  PROVE  OnboardingInv'
<1>1. CallsOK(calls', wizard, client)
  BY CallDropped DEF OnboardingInv
<1> QED
  BY <1>1, GrowsRefl, ServerStep DEF OnboardingInv, OnboardingTypeOK

LEMMA RenderStep ==
  ASSUME OnboardingInv, InWizard,
         NEW STATE w, w \in Wizards, w.step \in Steps, WizardOK(w, client),
         NEW STATE cs, CallsOK(cs, w, client),
         Render(w, cs), UNCHANGED <<client, bought, breaks, edits>>
  PROVE  OnboardingInv'
<1>1. browser \in Browsers /\ BrowserOK(browser, client)
  BY DEF OnboardingInv, OnboardingTypeOK
<1>2. /\ browser' \in Browsers /\ wizard' = w /\ BrowserOK(browser', client)
      /\ InWizard' /\ CallsOK(calls', w, client)
  BY <1>1, RenderOK
<1>3. calls' \subseteq Calls
  BY <1>2 DEF CallsOK
<1>4. OnboardingTypeOK'
  BY <1>2, <1>3 DEF OnboardingInv, OnboardingTypeOK
<1> QED
  BY <1>2, <1>4 DEF OnboardingInv

LEMMA VisitStep ==
  ASSUME OnboardingInv, NEW STATE b, b \in Browsers, BrowserOK(b, client'),
         NEW STATE cs, cs \subseteq calls, Visit(b, cs),
         client' \in Clients, Grows(client, client'), ClientOK(client', bought),
         UNCHANGED <<bought, edits>>
  PROVE  OnboardingInv'
<1>1. \A c \in cs : c \in Calls /\ CallOK(c, client')
  BY CallGrows DEF OnboardingInv, CallsOK
<1>2. /\ browser' \in Browsers /\ wizard' \in Wizards /\ breaks' \in 0..MaxBreaks
      /\ InWizard' <=> wizard'.step \in Steps
      /\ BrowserOK(browser', client') /\ WizardOK(wizard', client')
      /\ CallsOK(calls', wizard', client')
  BY <1>1, VisitOK DEF OnboardingInv
<1>3. calls' \subseteq Calls
  BY <1>2 DEF CallsOK
<1>4. OnboardingTypeOK'
  BY <1>2, <1>3 DEF OnboardingInv, OnboardingTypeOK
<1> QED
  BY <1>2, <1>4 DEF OnboardingInv

LEMMA BrowserStep ==
  ASSUME OnboardingInv, browser' \in Browsers, BrowserOK(browser', client), InWizard' <=> InWizard,
         CallsOK(calls', wizard, client), UNCHANGED <<wizard, client, bought, breaks, edits>>
  PROVE  OnboardingInv'
<1>1. calls' \subseteq Calls
  BY DEF CallsOK
<1>2. OnboardingTypeOK'
  BY <1>1 DEF OnboardingInv, OnboardingTypeOK
<1> QED
  BY <1>2 DEF OnboardingInv

LEMMA TokenFacts ==
  ASSUME OnboardingInv
  PROVE  /\ InWizard \/ OnPage("quick-setup") \/ OnPage("dashboard") \/ OnPage("stripe") =>
              browser.token /\ client.status # "none"
         /\ OnPage("signup") \/ OnPage("login") => ~browser.token
         /\ OnPage("stripe") => IsSet(client) /\ IsBegun(client)
<1>1. browser \in Browsers /\ BrowserOK(browser, client)
  BY DEF OnboardingInv, OnboardingTypeOK
<1> QED
  BY <1>1, PageFacts DEF BrowserOK, InWizard, OnPage

LEMMA GoOK ==
  ASSUME OnboardingInv, NEW a \in Asked, a # "stripe"
  PROVE  /\ Go(a) \in Browsers
         /\ Go(a) = [browser EXCEPT !.asked = a, !.success = FALSE]
         /\ Go(a).asked = a /\ ~Go(a).success /\ Go(a).token = browser.token
         /\ Go(a).step = browser.step
         /\ browser.token => BrowserOK(Go(a), client)
<1>1. browser \in Browsers /\ BrowserOK(browser, client)
  BY DEF OnboardingInv, OnboardingTypeOK
<1>2. /\ Go(a) \in Browsers
      /\ Go(a).asked = a /\ ~Go(a).success /\ Go(a).token = browser.token
      /\ Go(a).step = browser.step
  BY <1>1 DEF Go, Browsers
<1> QED
  BY <1>1, <1>2 DEF BrowserOK, Go

(* From a page that only a token shows to another one.                      *)
LEMMA GoStep ==
  ASSUME OnboardingInv, browser.token, NEW a \in Asked, a # "stripe",
         Visit(Go(a), calls), ServerUnchanged, UNCHANGED edits
  PROVE  OnboardingInv'
<1>1. Go(a) \in Browsers /\ BrowserOK(Go(a), client)
  BY GoOK
<1> QED
  BY <1>1, VisitStep, GrowsRefl DEF ServerUnchanged, OnboardingInv, OnboardingTypeOK

LEMMA StepUpdate ==
  ASSUME NEW w \in Wizards, w.step \in Steps, NEW s \in Steps
  PROVE  LET v == [w EXCEPT !.step = s]
         IN  /\ v \in Wizards /\ v.step = s /\ v.config = w.config /\ v.phone = w.phone
             /\ v.plans = w.plans
<1>1. w # NoWizard
  BY DEF NoWizard, NoStep, Steps
<1> QED
  BY <1>1 DEF Wizards

(* Going back, or on when nothing is being saved.                           *)
LEMMA CallsKeep ==
  ASSUME NEW cs, NEW w, NEW v, NEW cl, CallsOK(cs, w, cl), v.step \in Steps, w.step \in Steps,
         v.step <= w.step \/ \A c \in cs : ~Saves(c)
  PROVE  CallsOK(cs, v, cl)
<1>1. \A c \in cs : WaitedFor(c, v)
  BY DEF CallsOK, WaitedFor, Saves, Steps
<1> QED
  BY <1>1 DEF CallsOK

LEMMA FinishOK ==
  ASSUME NEW w, NEW cl, CallsOK(calls, w, cl), NEW STATE c, c \in calls,
         NEW STATE d, d \in Calls, CallOK(d, cl), d.op = c.op, d.life = c.life,
         Finish(c, d)
  PROVE  CallsOK(calls', w, cl)
<1>1. CASE c.life = 0
  BY <1>1, CallMoved DEF Finish
<1>2. CASE c.life # 0
  <2>1. calls' = calls \ {c}
    BY <1>2 DEF Finish
  <2> QED
    BY <2>1, CallDropped
<1> QED
  BY <1>1, <1>2

-----------------------------------------------------------------------------
LEMMA InitOK == OnboardingInit => OnboardingInv
<1> SUFFICES ASSUME OnboardingInit PROVE OnboardingInv
  OBVIOUS
<1>1. 0 \in 0..MaxBreaks /\ 0 \in 0..MaxEdits
  BY BoundsAssumption
<1>2. browser \in Browsers /\ client \in Clients /\ wizard \in Wizards
  BY DEF OnboardingInit, Browsers, Asked, Clients, StoredConfigs, Wizards
<1>3. OnboardingTypeOK
  BY <1>1, <1>2 DEF OnboardingInit, OnboardingTypeOK
<1>4. Page(browser) = "signup"
  BY DEF OnboardingInit, Page, Shows, SignedOutShows, Routed, PublicPages
<1>5. InWizard <=> wizard.step \in Steps
  BY <1>4 DEF OnboardingInit, InWizard, OnPage, NoWizard, NoStep, Steps
<1>6. BrowserOK(browser, client) /\ WizardOK(wizard, client)
  BY DEF OnboardingInit, BrowserOK, WizardOK, Earned, NoWizard, NoStep
<1>7. ClientOK(client, bought) /\ CallsOK(calls, wizard, client)
  BY DEF OnboardingInit, ClientOK, CallsOK, OneSave
<1> QED
  BY <1>3, <1>5, <1>6, <1>7 DEF OnboardingInv

-----------------------------------------------------------------------------
(* What the user does.                                                      *)
LEMMA SignupUserOK ==
  ASSUME OnboardingInv,
         \/ SubmitSignup \/ AlreadyRegistered \/ LogIn \/ LookUp
         \/ ConfirmBusiness \/ NotMyBusiness \/ SkipSetup
  PROVE  OnboardingInv'
<1>0. browser \in Browsers /\ BrowserOK(browser, client)
  BY DEF OnboardingInv, OnboardingTypeOK
<1>1. CASE SubmitSignup
  <2>1. /\ Call("signup") \in Calls /\ ~Saves(Call("signup"))
        /\ CallOK(Call("signup"), client) /\ WaitedFor(Call("signup"), wizard)
    BY NewCalls DEF Ops, Call, CallOK, WaitedFor, Saves
  <2> QED
    BY <1>1, <2>1, AskStep DEF SubmitSignup
<1>2. CASE AlreadyRegistered
  <2>1. ~browser.token
    BY <1>2, TokenFacts DEF AlreadyRegistered
  <2>2. browser' = Go("login") /\ browser' \in Browsers /\ browser'.asked = "login"
          /\ ~browser'.success /\ ~browser'.token /\ browser'.step = browser.step
    BY <1>2, <2>1, GoOK DEF AlreadyRegistered, Asked
  <2>3. BrowserOK(browser', client)
    BY <1>0, <2>2 DEF BrowserOK
  <2>4. Page(browser)' \in {"signup", "login"}
    BY <2>2 DEF Page, Shows, SignedOutShows, Routed, PublicPages
  <2>5. ~InWizard' /\ ~InWizard
    BY <1>2, <2>4 DEF AlreadyRegistered, InWizard, OnPage
  <2>6. CallsOK(calls', wizard, client)
    BY <1>2 DEF AlreadyRegistered, OnboardingInv
  <2> QED
    BY <1>2, <2>2, <2>3, <2>5, <2>6, BrowserStep DEF AlreadyRegistered
<1>3. CASE LogIn
  <2> DEFINE b == [Go("dashboard") EXCEPT !.token = TRUE]
  <2>1. Go("dashboard") \in Browsers /\ Go("dashboard").asked = "dashboard"
          /\ ~Go("dashboard").success /\ Go("dashboard").step = browser.step
    BY GoOK DEF Asked
  <2>2. b \in Browsers /\ b.asked = "dashboard" /\ ~b.success /\ b.step = browser.step /\ b.token
    BY <2>1 DEF Browsers
  <2>3. BrowserOK(b, client)
    BY <1>0, <1>3, <2>2 DEF BrowserOK, LogIn
  <2>4. Visit(b, calls) /\ client' = client /\ bought' = bought /\ edits' = edits
    BY <1>3 DEF LogIn, ServerUnchanged
  <2> HIDE DEF b
  <2> QED
    BY <2>2, <2>3, <2>4, VisitStep, GrowsRefl DEF OnboardingInv, OnboardingTypeOK
<1>4. CASE LookUp
  <2>1. /\ Call("lookup") \in Calls /\ ~Saves(Call("lookup"))
        /\ CallOK(Call("lookup"), client) /\ WaitedFor(Call("lookup"), wizard)
    BY NewCalls DEF Ops, Call, CallOK, WaitedFor, Saves
  <2> QED
    BY <1>4, <2>1, AskStep DEF LookUp
<1>5. CASE ConfirmBusiness
  <2> DEFINE b == [Go("onboarding") EXCEPT !.gmb = TRUE]
  <2>1. /\ Go("onboarding") \in Browsers /\ BrowserOK(Go("onboarding"), client)
    BY <1>5, TokenFacts, GoOK DEF Asked, ConfirmBusiness
  <2>2. b \in Browsers /\ BrowserOK(b, client)
    BY <2>1 DEF Browsers, BrowserOK
  <2>3. Visit(b, calls) /\ client' = client /\ bought' = bought /\ edits' = edits
    BY <1>5 DEF ConfirmBusiness, ServerUnchanged
  <2> HIDE DEF b
  <2> QED
    BY <2>2, <2>3, VisitStep, GrowsRefl DEF OnboardingInv, OnboardingTypeOK
<1>6. CASE NotMyBusiness
  <2>1. browser' = [browser EXCEPT !.found = FALSE] /\ browser' \in Browsers
    BY <1>0, <1>6 DEF NotMyBusiness, Browsers
  <2>2. BrowserOK(browser', client)
    BY <1>0, <2>1 DEF BrowserOK, Browsers
  <2>3. InWizard' <=> InWizard
    BY <1>0, <2>1 DEF InWizard, OnPage, Page, Browsers
  <2>4. CallsOK(calls', wizard, client)
    BY <1>6 DEF NotMyBusiness, OnboardingInv
  <2> QED
    BY <1>6, <2>1, <2>2, <2>3, <2>4, BrowserStep DEF NotMyBusiness
<1>7. CASE SkipSetup
  BY <1>7, TokenFacts, GoStep DEF SkipSetup, Asked
<1> QED
  BY <1>1, <1>2, <1>3, <1>4, <1>5, <1>6, <1>7

LEMMA WizardUserOK ==
  ASSUME OnboardingInv,
         \/ \E g \in Groups, v \in {"chosen", "cleared"} : EditConfig(g, v)
         \/ AdvanceStep \/ Back \/ SkipForNow \/ Checkout \/ GoLive \/ Reload
  PROVE  OnboardingInv'
<1>0. /\ browser \in Browsers /\ BrowserOK(browser, client)
      /\ wizard \in Wizards /\ WizardOK(wizard, client) /\ wizard.config \in Configs
      /\ CallsOK(calls, wizard, client)
  BY WizardFields DEF OnboardingInv, OnboardingTypeOK
<1>1. InWizard
  BY DEF EditConfig, AdvanceStep, Back, SkipForNow, Checkout, GoLive, Reload
<1>2. wizard.step \in Steps /\ browser.token /\ client.status # "none"
  BY <1>1, TokenFacts DEF OnboardingInv
<1>3. wizard = [step |-> wizard.step, config |-> wizard.config, phone |-> wizard.phone,
                plans |-> wizard.plans, untouched |-> wizard.untouched, clean |-> wizard.clean]
        /\ wizard.phone \in BOOLEAN /\ wizard.plans \in BOOLEAN /\ wizard.clean \in BOOLEAN
        /\ wizard.untouched \in BOOLEAN
  BY <1>0, WizardFields
<1>4. ASSUME NEW g \in Groups, NEW v \in {"chosen", "cleared"}, EditConfig(g, v)
      PROVE  OnboardingInv'
  <2> DEFINE f == [wizard.config EXCEPT ![g] = v]
  <2>1. f \in Configs
    BY <1>0 DEF Configs, Values
  <2>2. wizard' = Touched([wizard EXCEPT !.config = f])
    BY <1>3, <1>4 DEF EditConfig
  <2> HIDE DEF f
  <2>3. wizard' = [step |-> wizard.step, config |-> f, phone |-> wizard.phone,
                   plans |-> wizard.plans, untouched |-> FALSE, clean |-> wizard.clean]
    BY <1>3, <2>2 DEF Touched
  <2>4. wizard' \in Wizards /\ wizard'.step = wizard.step /\ wizard'.phone = wizard.phone
    BY <1>2, <1>3, <2>1, <2>3 DEF Wizards
  <2>5. edits' \in 0..MaxEdits
    BY <1>4, BoundsAssumption DEF EditConfig, OnboardingInv, OnboardingTypeOK
  <2>6. OnboardingTypeOK'
    BY <1>4, <2>4, <2>5 DEF EditConfig, OnboardingInv, OnboardingTypeOK
  <2>7. InWizard' <=> wizard'.step \in Steps
    BY <1>1, <1>2, <1>4, <2>4 DEF EditConfig, InWizard, OnPage, Page
  <2>8. CallsOK(calls', wizard', client)
    BY <1>0, <1>2, <1>4, <2>4, CallsKeep DEF EditConfig, Steps
  <2>9. WizardOK(wizard', client)
    BY <1>0, <2>4 DEF WizardOK
  <2> QED
    BY <1>0, <1>4, <2>6, <2>7, <2>8, <2>9 DEF EditConfig, OnboardingInv
<1>5. CASE AdvanceStep /\ wizard.step = 5
  <2> DEFINE w == [wizard EXCEPT !.step = 6]
  <2>0. 6 \in Steps
    BY DEF Steps
  <2>1. w \in Wizards /\ w.step = 6 /\ w.phone = wizard.phone /\ w.step \in Steps
    BY <1>0, <1>2, <2>0, StepUpdate
  <2>2. wizard.phone
    BY <1>5 DEF AdvanceStep, CanAdvance
  <2>3. WizardOK(w, client)
    BY <1>0, <1>5, <2>1, <2>2 DEF WizardOK, Earned
  <2>4. \A c \in calls : ~Saves(c)
    BY <1>5 DEF AdvanceStep, Saving, Waiting, Saves
  <2>5. CallsOK(calls, w, client)
    BY <1>0, <1>2, <2>1, <2>4, CallsKeep
  <2>6. Render(w, calls) /\ UNCHANGED <<client, bought, breaks, edits>>
    BY <1>5 DEF AdvanceStep
  <2> HIDE DEF w
  <2> QED
    BY <1>1, <2>1, <2>3, <2>5, <2>6, RenderStep
<1>6. CASE AdvanceStep /\ wizard.step # 5
  <2>1. wizard.step \in 0..3 /\ \A c \in calls : ~Saves(c)
    BY <1>2, <1>6 DEF AdvanceStep, CanAdvance, Saving, Waiting, Saves, Steps
  <2> DEFINE d == IF wizard.step = 3 THEN Call("crm") ELSE SaveCall
  <2>2. d \in Calls /\ d.life = 0 /\ ~d.phone /\ d.at = "sent"
          /\ d.op = (IF wizard.step = 3 THEN "crm" ELSE "save")
          /\ (d.op = "save" => d.data \in Configs)
    <3>1. wizard.config \in StoredConfigs
      BY <1>0 DEF Configs, StoredConfigs
    <3>2. CASE wizard.step = 3
      BY <3>2, NewCalls DEF Ops
    <3>3. CASE wizard.step # 3
      <4>1. Call("save") \in Calls /\ Call("save").life = 0 /\ ~Call("save").phone
              /\ Call("save").at = "sent" /\ Call("save").op = "save"
        BY NewCalls DEF Ops
      <4> QED
        BY <1>0, <1>3, <3>1, <3>3, <4>1 DEF SaveCall, Calls
    <3> QED
      BY <3>2, <3>3
  <2>3. calls' = calls \cup {d} /\ wizard' = Touched(wizard)
          /\ UNCHANGED <<browser, client, bought, breaks, edits>>
    BY <1>6 DEF AdvanceStep
  <2> HIDE DEF d
  <2>4. CallOK(d, client) /\ WaitedFor(d, wizard)
    BY <1>0, <1>2, <2>1, <2>2 DEF CallOK, WaitedFor, WizardOK, Earned, Steps
  <2>5. CallsOK(calls', wizard, client)
    BY <1>0, <2>1, <2>2, <2>3, <2>4, CallAdded
  <2>6. wizard' = [step |-> wizard.step, config |-> wizard.config, phone |-> wizard.phone,
                   plans |-> wizard.plans, untouched |-> FALSE, clean |-> wizard.clean]
    BY <1>3, <2>3 DEF Touched
  <2>7. wizard' \in Wizards /\ wizard'.step = wizard.step /\ wizard'.phone = wizard.phone
    BY <1>0, <1>2, <1>3, <2>6 DEF Wizards
  <2>8. CallsOK(calls', wizard', client)
    BY <1>2, <2>5, <2>7, CallsKeep DEF Steps
  <2>9. OnboardingTypeOK'
    BY <2>3, <2>7, <2>8 DEF OnboardingInv, OnboardingTypeOK, CallsOK
  <2>10. InWizard' /\ WizardOK(wizard', client)
    BY <1>0, <1>1, <2>3, <2>7 DEF InWizard, OnPage, Page, WizardOK
  <2> QED
    BY <1>0, <1>2, <2>3, <2>7, <2>8, <2>9, <2>10 DEF OnboardingInv
<1>7. CASE Back
  <2> DEFINE w == [wizard EXCEPT !.step = @ - 1]
  <2>1. wizard.step - 1 \in Steps /\ wizard.step - 1 <= wizard.step
    BY <1>7 DEF Back, Steps
  <2>2. w = [wizard EXCEPT !.step = wizard.step - 1]
    OBVIOUS
  <2>3. w \in Wizards /\ w.step = wizard.step - 1 /\ w.phone = wizard.phone
    BY <1>0, <1>2, <2>1, <2>2, StepUpdate
  <2>4. WizardOK(w, client)
    BY <1>0, <1>7, <2>3 DEF WizardOK, Earned, Back
  <2>5. CallsOK(calls, w, client)
    BY <1>0, <1>2, <2>1, <2>3, CallsKeep
  <2>6. Render(w, calls) /\ UNCHANGED <<client, bought, breaks, edits>>
    BY <1>7 DEF Back
  <2> HIDE DEF w
  <2> QED
    BY <1>1, <2>1, <2>3, <2>4, <2>5, <2>6, RenderStep
<1>8. CASE SkipForNow
  BY <1>2, <1>8, GoStep DEF SkipForNow, Asked
<1>9. CASE Checkout
  <2>1. IsSet(client) /\ IsBegun(client)
    BY <1>0, <1>9 DEF Checkout, WizardOK, Earned
  <2>2. /\ Call("checkout") \in Calls /\ ~Saves(Call("checkout"))
        /\ CallOK(Call("checkout"), client) /\ WaitedFor(Call("checkout"), wizard)
    BY <1>2, <2>1, NewCalls DEF Ops, Call, CallOK, WaitedFor, Saves
  <2> QED
    BY <1>9, <2>2, AskStep DEF Checkout
<1>10. CASE GoLive
  <2>1. client.phone
    BY <1>0, <1>10 DEF GoLive, WizardOK, Earned
  <2>2. /\ Call("golive") \in Calls /\ ~Saves(Call("golive"))
        /\ CallOK(Call("golive"), client) /\ WaitedFor(Call("golive"), wizard)
    BY <1>2, <2>1, NewCalls DEF Ops, Call, CallOK, WaitedFor, Saves
  <2> QED
    BY <1>10, <2>2, AskStep DEF GoLive
<1>11. CASE Reload
  BY <1>0, <1>11, VisitStep, GrowsRefl DEF Reload, ServerUnchanged, OnboardingInv, OnboardingTypeOK
<1> QED
  BY <1>4, <1>5, <1>6, <1>7, <1>8, <1>9, <1>10, <1>11

LEMMA OtherUserOK ==
  ASSUME OnboardingInv,
         ContinueOnboarding \/ SignOut \/ Subscribe \/ Cancel \/ CloseStripe
  PROVE  OnboardingInv'
<1>0. browser \in Browsers /\ BrowserOK(browser, client) /\ client \in Clients
        /\ ClientOK(client, bought)
  BY DEF OnboardingInv, OnboardingTypeOK
<1>1. CASE ContinueOnboarding
  BY <1>1, TokenFacts, GoStep DEF ContinueOnboarding, Asked
<1>2. CASE SignOut
  <2> DEFINE b == [Go("login") EXCEPT !.token = FALSE]
  <2>1. Go("login") \in Browsers /\ Go("login").asked = "login"
          /\ ~Go("login").success /\ Go("login").step = browser.step
    BY GoOK DEF Asked
  <2>2. b \in Browsers /\ b.asked = "login" /\ ~b.success /\ b.step = browser.step /\ ~b.token
    BY <2>1 DEF Browsers
  <2>3. BrowserOK(b, client)
    BY <1>0, <2>2 DEF BrowserOK
  <2>4. Visit(b, calls) /\ client' = client /\ bought' = bought /\ edits' = edits
    BY <1>2 DEF SignOut, ServerUnchanged
  <2> HIDE DEF b
  <2> QED
    BY <2>2, <2>3, <2>4, VisitStep, GrowsRefl DEF OnboardingInv, OnboardingTypeOK
<1>3. ASSUME NEW paid \in BOOLEAN, NEW STATE b, b \in Browsers, BrowserOK(b, client),
             LeaveStripe(paid, b)
      PROVE  OnboardingInv'
  <2>1. /\ client' = [client EXCEPT !.paid = @ \/ paid] /\ client' \in Clients
        /\ Visit(b, calls) /\ bought' = bought /\ edits' = edits
    BY <1>0, <1>3 DEF LeaveStripe, Clients
  <2>2. Grows(client, client') /\ ClientOK(client', bought)
    BY <1>0, <2>1 DEF Clients, Grows, IsSet, IsBegun, ClientOK
  <2>3. BrowserOK(b, client')
    BY <1>3, <2>2, BrowserGrows
  <2> QED
    BY <1>3, <2>1, <2>2, <2>3, VisitStep
<1>4. CASE Cancel
  <2>1. browser.token
    BY <1>4, TokenFacts DEF Cancel, LeaveStripe
  <2>2. Go("onboarding") \in Browsers /\ BrowserOK(Go("onboarding"), client)
    BY <2>1, GoOK DEF Asked
  <2> QED
    BY <1>3, <1>4, <2>2 DEF Cancel
<1>5. CASE CloseStripe
  <2>1. browser.token
    BY <1>5, TokenFacts DEF CloseStripe, LeaveStripe
  <2>2. Go("dashboard") \in Browsers /\ BrowserOK(Go("dashboard"), client)
    BY <2>1, GoOK DEF Asked
  <2> QED
    BY <1>3, <1>5, <2>2 DEF CloseStripe
<1>6. CASE Subscribe
  <2> DEFINE b == [Go("onboarding") EXCEPT !.success = TRUE]
  <2>1. browser.token /\ IsSet(client) /\ IsBegun(client)
    BY <1>6, TokenFacts DEF Subscribe, LeaveStripe
  <2>2. Go("onboarding") \in Browsers /\ Go("onboarding").token = browser.token
          /\ Go("onboarding").step = browser.step
    BY <2>1, GoOK DEF Asked
  <2>3. b \in Browsers /\ b.token /\ b.step = browser.step
    BY <2>1, <2>2 DEF Browsers
  <2>4. /\ client' = [client EXCEPT !.paid = TRUE] /\ client' \in Clients
        /\ Visit(b, calls) /\ bought' = bought /\ edits' = edits
    BY <1>0, <1>6 DEF Subscribe, LeaveStripe, Clients
  <2>5. Grows(client, client') /\ ClientOK(client', bought) /\ client'.paid
    BY <1>0, <2>4 DEF Clients, Grows, IsSet, IsBegun, ClientOK
  <2>6. BrowserOK(b, client')
    <3>1. Earned(b.step, client')
      BY <1>0, <2>3, <2>5, EarnedGrows DEF BrowserOK
    <3>2. client'.status # "none" /\ IsSet(client') /\ IsBegun(client')
      BY <2>1, <2>5 DEF Grows, IsBegun
    <3> QED
      BY <2>3, <2>5, <3>1, <3>2 DEF BrowserOK
  <2> HIDE DEF b
  <2> QED
    BY <2>3, <2>4, <2>5, <2>6, VisitStep
<1> QED
  BY <1>1, <1>2, <1>4, <1>5, <1>6

-----------------------------------------------------------------------------
(* What the server and the carrier do with a call.                          *)
LEMMA CallFacts ==
  ASSUME OnboardingInv, NEW c \in calls
  PROVE  /\ c \in Calls /\ CallOK(c, client) /\ WaitedFor(c, wizard)
         /\ c = [op |-> c.op, at |-> c.at, life |-> c.life, data |-> c.data,
                 phone |-> c.phone, clean |-> c.clean]
         /\ c.op \in Ops /\ c.life \in 0..MaxBreaks /\ c.data \in StoredConfigs
         /\ c.phone \in BOOLEAN /\ c.clean \in BOOLEAN
BY DEF OnboardingInv, CallsOK, Calls

LEMMA ServeOK ==
  ASSUME OnboardingInv, NEW STATE c, c \in calls, Serve(c)
  PROVE  OnboardingInv'
<1>0. client \in Clients /\ ClientOK(client, bought) /\ CallsOK(calls, wizard, client)
        /\ bought \in Nat /\ breaks \in 0..MaxBreaks /\ edits \in 0..MaxEdits
  BY DEF OnboardingInv, OnboardingTypeOK
<1>1. /\ UNCHANGED <<browser, wizard, bought, breaks, edits>>
      /\ c \in Calls /\ CallOK(c, client) /\ c.at = "sent"
  BY CallFacts DEF Serve
<1>2. ASSUME NEW STATE d, d \in Calls, CallOK(d, client'), d.op = c.op, d.life = c.life,
             Finish(c, d), client' \in Clients, Grows(client, client'), ClientOK(client', bought)
      PROVE  OnboardingInv'
  <2>1. CallsOK(calls, wizard, client')
    BY <1>0, <1>2, CallsGrow
  <2>2. CallsOK(calls', wizard, client')
    BY <1>2, <2>1, FinishOK
  <2> QED
    BY <1>0, <1>1, <1>2, <2>2, ServerStep
<1>3. CASE ServeSignup(c)
  <2> DEFINE d == [c EXCEPT !.at = IF client.status = "none" THEN "done" ELSE "failed"]
  <2>1. client' = [client EXCEPT !.status = IF @ = "none" THEN "pending" ELSE @] /\ c.op = "signup"
          /\ Finish(c, d)
    BY <1>3 DEF ServeSignup
  <2>2. client' \in Clients /\ Grows(client, client') /\ ClientOK(client', bought)
          /\ client'.status # "none"
    BY <1>0, <2>1 DEF Clients, Grows, IsSet, IsBegun, ClientOK
  <2>3. d \in Calls /\ d.op = c.op /\ d.life = c.life /\ d.phone = c.phone
    BY <1>1 DEF Calls
  <2>4. CallOK(d, client')
    BY <1>1, <2>1, <2>2, <2>3 DEF CallOK, Grows
  <2> HIDE DEF d
  <2> QED
    BY <1>2, <2>1, <2>2, <2>3, <2>4
<1>4. CASE ServeLoad(c)
  <2> DEFINE d == [c EXCEPT !.at = "done", !.data = client.config, !.phone = client.phone]
  <2>1. client' = client /\ c.op = "load" /\ Finish(c, d)
    BY <1>4 DEF ServeLoad
  <2>2. client.config \in StoredConfigs /\ client.phone \in BOOLEAN
    BY <1>0 DEF Clients
  <2>3. /\ d \in Calls /\ d.op = c.op /\ d.life = c.life
        /\ d.at = "done" /\ d.phone = client.phone
    BY <1>1, <2>2 DEF Calls
  <2> HIDE DEF d
  <2>4. CallOK(d, client)
    BY <2>1, <2>3 DEF CallOK
  <2> QED
    BY <1>0, <1>2, <2>1, <2>3, <2>4, GrowsRefl
<1>5. CASE ServeSave(c)
  <2> DEFINE d == [c EXCEPT !.at = "done"]
             f == [g \in Groups |-> Stored(g, c.data[g])]
  <2>1. client' = [client EXCEPT !.config = f] /\ c.op = "save" /\ Finish(c, d)
    BY <1>5 DEF ServeSave, Done
  <2>2. f \in StoredConfigs /\ \A g \in Groups : f[g] # "unset"
    <3>1. c.data \in Configs
      BY <1>1, <2>1 DEF CallOK
    <3>2. \A g \in Groups : Stored(g, c.data[g]) \in Values
      BY <3>1 DEF Stored, Configs, Values
    <3> QED
      BY <3>2 DEF StoredConfigs, Values
  <2> HIDE DEF f
  <2>3. client' \in Clients /\ client'.config = f /\ client'.status = client.status
          /\ client'.paid = client.paid /\ client'.phone = client.phone
    BY <1>0, <2>1, <2>2 DEF Clients
  <2>4. IsSet(client') /\ Grows(client, client') /\ ClientOK(client', bought)
    BY <1>0, <2>2, <2>3 DEF Grows, IsSet, IsBegun, ClientOK
  <2>5. d \in Calls /\ d.op = c.op /\ d.life = c.life /\ d.phone = c.phone /\ d.data = c.data
    BY <1>1 DEF Calls
  <2>6. CallOK(d, client')
    BY <1>1, <2>1, <2>4, <2>5 DEF CallOK, Grows
  <2> HIDE DEF d
  <2> QED
    BY <1>2, <2>1, <2>3, <2>4, <2>5, <2>6
<1>6. CASE ServeOnboarding(c)
  <2> DEFINE d == [c EXCEPT !.at = "done"]
             s == IF c.op = "golive" THEN "live"
                  ELSE IF client.status = "pending" THEN "in_progress" ELSE client.status
  <2>1. client' = [client EXCEPT !.status = s] /\ c.op \in {"crm", "golive"} /\ Finish(c, d)
    BY <1>6 DEF ServeOnboarding, Done
  <2>2. client.status \in {"none", "pending", "in_progress", "live"}
    BY <1>0 DEF Clients
  <2>3. /\ c.op = "golive" => client.phone
        /\ c.op = "crm" => client.status # "none"
    BY <1>1 DEF CallOK
  <2>4. s \in {"in_progress", "live"} /\ (s = "live" => client.phone)
    BY <1>0, <2>1, <2>2, <2>3 DEF ClientOK
  <2> HIDE DEF s
  <2>5. client' \in Clients /\ client'.config = client.config /\ client'.status = s
          /\ client'.paid = client.paid /\ client'.phone = client.phone
    BY <1>0, <2>1, <2>4 DEF Clients
  <2>6. IsBegun(client') /\ Grows(client, client') /\ ClientOK(client', bought)
    BY <1>0, <2>4, <2>5 DEF Grows, IsSet, IsBegun, ClientOK
  <2>7. d \in Calls /\ d.op = c.op /\ d.life = c.life /\ d.phone = c.phone
    BY <1>1 DEF Calls
  <2>8. CallOK(d, client')
    BY <1>1, <2>1, <2>6, <2>7 DEF CallOK, Grows
  <2> HIDE DEF d
  <2> QED
    BY <1>2, <2>1, <2>5, <2>6, <2>7, <2>8
<1>7. CASE ServeOther(c)
  <2> DEFINE d == [c EXCEPT !.at = "done"]
  <2>1. client' = client /\ c.op \in {"lookup", "plans", "checkout"} /\ Finish(c, d)
    BY <1>7 DEF ServeOther, Done
  <2>2. d \in Calls /\ d.op = c.op /\ d.life = c.life /\ d.phone = c.phone
    BY <1>1 DEF Calls
  <2>3. CallOK(d, client)
    BY <1>1, <2>1, <2>2 DEF CallOK
  <2> HIDE DEF d
  <2> QED
    BY <1>0, <1>2, <2>1, <2>2, <2>3, GrowsRefl
<1> QED
  BY <1>3, <1>4, <1>5, <1>6, <1>7 DEF Serve

LEMMA MovesTo ==
  ASSUME NEW c, c \in Calls, NEW cl, CallOK(c, cl), 
         NEW a \in {"search", "sent", "buying", "bought", "done", "failed"},
         a = "done" => c.op = "provision" /\ cl.phone
  PROVE  LET d == [c EXCEPT !.at = a]
         IN  d \in Calls /\ d.op = c.op /\ d.life = c.life /\ CallOK(d, cl)
<1> DEFINE d == [c EXCEPT !.at = a]
<1>1. d \in Calls /\ d.op = c.op /\ d.life = c.life /\ d.phone = c.phone /\ d.data = c.data
        /\ d.at = a
  BY DEF Calls
<1> HIDE DEF d
<1>2. CallOK(d, cl)
  BY <1>1 DEF CallOK
<1> QED
  BY <1>1, <1>2 DEF d

LEMMA ProvisionOK ==
  ASSUME OnboardingInv, NEW STATE c, c \in calls, Provision(c)
  PROVE  OnboardingInv'
<1>0. client \in Clients /\ ClientOK(client, bought) /\ CallsOK(calls, wizard, client)
        /\ bought \in Nat /\ breaks \in 0..MaxBreaks /\ edits \in 0..MaxEdits
  BY DEF OnboardingInv, OnboardingTypeOK
<1>1. /\ UNCHANGED <<browser, wizard, breaks, edits>> /\ c.op = "provision"
      /\ c \in Calls /\ CallOK(c, client) /\ client.paid
  BY CallFacts DEF Provision, CallOK
<1>2. ASSUME NEW a \in {"sent", "buying", "bought"}, bought' \in {bought, bought + 1},
             calls' = (calls \ {c}) \cup {[c EXCEPT !.at = a]}, client' = client
      PROVE  OnboardingInv'
  <2> DEFINE d == [c EXCEPT !.at = a]
  <2>1. d \in Calls /\ d.op = c.op /\ d.life = c.life /\ CallOK(d, client)
    BY <1>1, MovesTo
  <2>2. calls' = (calls \ {c}) \cup {d}
    BY <1>2
  <2> HIDE DEF d
  <2>3. CallsOK(calls', wizard, client)
    BY <1>0, <2>1, <2>2, CallMoved
  <2>4. ClientOK(client, bought') /\ bought' \in Nat
    BY <1>0, <1>1, <1>2 DEF ClientOK
  <2> QED
    BY <1>0, <1>1, <1>2, <2>3, <2>4, GrowsRefl, ServerStep
<1>3. ASSUME CheckRow(c), client.phone
      PROVE  OnboardingInv'
  <2> DEFINE d == [c EXCEPT !.at = "failed"]
  <2>1. d \in Calls /\ d.op = c.op /\ d.life = c.life /\ CallOK(d, client)
    BY <1>1, MovesTo
  <2>2. Finish(c, d) /\ client' = client /\ bought' = bought
    BY <1>3 DEF CheckRow
  <2> HIDE DEF d
  <2>3. CallsOK(calls', wizard, client)
    BY <1>0, <2>1, <2>2, FinishOK
  <2> QED
    BY <1>0, <1>1, <2>2, <2>3, GrowsRefl, ServerStep
<1>4. CASE CommitNumber(c)
  <2> DEFINE d == [c EXCEPT !.at = "done"]
  <2>1. client' = [client EXCEPT !.phone = TRUE] /\ Finish(c, d) /\ bought' = bought
    BY <1>4 DEF CommitNumber, Done
  <2>2. client' \in Clients /\ Grows(client, client') /\ ClientOK(client', bought)
          /\ client'.phone
    BY <1>0, <2>1 DEF Clients, Grows, IsSet, IsBegun, ClientOK
  <2>3. CallOK(c, client') /\ CallsOK(calls, wizard, client')
    BY <1>0, <1>1, <2>2, CallGrows, CallsGrow
  <2>4. d \in Calls /\ d.op = c.op /\ d.life = c.life /\ CallOK(d, client')
    BY <1>1, <2>2, <2>3, MovesTo
  <2> HIDE DEF d
  <2>5. CallsOK(calls', wizard, client')
    BY <2>1, <2>3, <2>4, FinishOK
  <2> QED
    BY <1>0, <1>1, <2>1, <2>2, <2>5, ServerStep
<1>5. CASE Found(c)
  BY <1>2, <1>5 DEF Found
<1>6. CASE CheckRow(c) /\ ~client.phone
  BY <1>2, <1>6 DEF CheckRow
<1>7. CASE Buy(c)
  BY <1>2, <1>7 DEF Buy
<1> QED
  BY <1>3, <1>4, <1>5, <1>6, <1>7 DEF Provision

LEMMA BreakOK ==
  ASSUME OnboardingInv, NEW STATE c, c \in calls, Break(c)
  PROVE  OnboardingInv'
<1> DEFINE d == [c EXCEPT !.at = "failed"]
<1>0. client \in Clients /\ ClientOK(client, bought) /\ CallsOK(calls, wizard, client)
        /\ bought \in Nat /\ breaks' \in 0..MaxBreaks /\ edits \in 0..MaxEdits
  BY BoundsAssumption DEF OnboardingInv, OnboardingTypeOK, Break
<1>1. d \in Calls /\ d.op = c.op /\ d.life = c.life /\ CallOK(d, client)
  BY CallFacts, MovesTo
<1>2. Finish(c, d) /\ UNCHANGED <<browser, wizard, client, bought, edits>>
  BY DEF Break
<1> HIDE DEF d
<1>3. CallsOK(calls', wizard, client)
  BY <1>0, <1>1, <1>2, FinishOK
<1> QED
  BY <1>0, <1>2, <1>3, GrowsRefl, ServerStep

-----------------------------------------------------------------------------
(* What the pages do with an answer.                                        *)

(* The call that is answered belongs to the wizard, which is mounted.       *)
LEMMA AnswersWizard ==
  ASSUME OnboardingInv, NEW STATE c, c \in calls, c.life = 0, c.op \notin {"signup", "lookup"}
  PROVE  /\ InWizard /\ wizard.step \in Steps /\ browser.token
         /\ wizard \in Wizards /\ WizardOK(wizard, client) /\ CallOK(c, client)
         /\ CallsOK(calls \ {c}, wizard, client)
         /\ browser \in Browsers /\ BrowserOK(browser, client)
<1>1. WaitedFor(c, wizard) /\ CallOK(c, client)
  BY CallFacts
<1>2. wizard.step \in Steps
  BY <1>1 DEF WaitedFor
<1>3. InWizard
  BY <1>2 DEF OnboardingInv
<1>4. CallsOK(calls, wizard, client)
  BY DEF OnboardingInv
<1>5. CallsOK(calls \ {c}, wizard, client)
  BY <1>4, CallDropped
<1> QED
  BY <1>1, <1>2, <1>3, <1>5, TokenFacts DEF OnboardingInv, OnboardingTypeOK

(* The wizard changes, its step does not.                                   *)
LEMMA WizardStep ==
  ASSUME OnboardingInv, InWizard, wizard' \in Wizards, wizard'.step = wizard.step,
         WizardOK(wizard', client), NEW STATE c, calls' = calls \ {c},
         UNCHANGED <<browser, client, bought, breaks, edits>>
  PROVE  OnboardingInv'
<1>1. wizard.step \in Steps /\ CallsOK(calls, wizard, client)
  BY DEF OnboardingInv
<1>2. CallsOK(calls', wizard, client)
  BY <1>1, CallDropped
<1>3. CallsOK(calls', wizard', client)
  BY <1>1, <1>2, CallsKeep DEF Steps
<1>4. OnboardingTypeOK'
  BY <1>3 DEF CallsOK, OnboardingInv, OnboardingTypeOK
<1>5. InWizard'
  BY DEF InWizard, OnPage, Page
<1> QED
  BY <1>1, <1>3, <1>4, <1>5 DEF OnboardingInv

LEMMA PageAnswerOK ==
  ASSUME OnboardingInv, NEW STATE c, c \in calls, c.life = 0,
         SignupAnswer(c) \/ LookupAnswer(c) \/ CheckoutAnswer(c) \/ GoLiveAnswer(c)
  PROVE  OnboardingInv'
<1>0. /\ browser \in Browsers /\ BrowserOK(browser, client) /\ client \in Clients
      /\ ClientOK(client, bought) /\ CallOK(c, client) /\ calls \ {c} \subseteq calls
  BY CallFacts DEF OnboardingInv, OnboardingTypeOK
<1>1. ASSUME NEW STATE b, b \in Browsers, BrowserOK(b, client), Visit(b, calls \ {c}),
             UNCHANGED <<client, bought, edits>>
      PROVE  OnboardingInv'
  BY <1>0, <1>1, VisitStep, GrowsRefl
<1>2. CASE SignupAnswer(c) /\ c.at = "done"
  <2> DEFINE b == [Go("quick-setup") EXCEPT !.token = TRUE, !.unfinished = TRUE]
  <2>1. client.status # "none"
    BY <1>0, <1>2 DEF SignupAnswer, CallOK
  <2>2. /\ Go("quick-setup") \in Browsers /\ Go("quick-setup").asked = "quick-setup"
        /\ ~Go("quick-setup").success /\ Go("quick-setup").step = browser.step
    BY GoOK DEF Asked
  <2>3. b \in Browsers /\ b.asked = "quick-setup" /\ ~b.success /\ b.step = browser.step /\ b.token
    BY <2>2 DEF Browsers
  <2>4. BrowserOK(b, client)
    BY <1>0, <2>1, <2>3 DEF BrowserOK
  <2>5. Visit(b, calls \ {c}) /\ UNCHANGED <<client, bought, edits>>
    BY <1>2 DEF SignupAnswer, ServerUnchanged
  <2> HIDE DEF b
  <2> QED
    BY <1>1, <2>3, <2>4, <2>5
<1>3. CASE SignupAnswer(c) /\ c.at # "done"
  BY <1>3, ForgetStep DEF SignupAnswer, ServerUnchanged
<1>4. CASE LookupAnswer(c)
  <2> DEFINE f == browser.found \/ c.at = "done"
  <2>1. browser' = [browser EXCEPT !.found = f] /\ f \in BOOLEAN
    BY <1>0, <1>4 DEF LookupAnswer, Browsers
  <2> HIDE DEF f
  <2>2. browser' \in Browsers /\ BrowserOK(browser', client)
    BY <1>0, <2>1 DEF Browsers, BrowserOK
  <2>3. InWizard' <=> InWizard
    BY <1>0, <2>1 DEF InWizard, OnPage, Page, Browsers
  <2>4. CallsOK(calls', wizard, client)
    BY <1>4, CallDropped DEF LookupAnswer, OnboardingInv
  <2> QED
    BY <1>4, <2>2, <2>3, <2>4, BrowserStep DEF LookupAnswer
<1>5. CASE CheckoutAnswer(c) /\ c.at = "done"
  <2> DEFINE b == [browser EXCEPT !.asked = "stripe"]
  <2>1. c.op = "checkout" /\ IsSet(client) /\ IsBegun(client)
    BY <1>0, <1>5 DEF CheckoutAnswer, CallOK
  <2>2. browser.token
    BY <2>1, AnswersWizard
  <2>3. b \in Browsers /\ BrowserOK(b, client)
    BY <1>0, <2>1, <2>2 DEF Browsers, Asked, BrowserOK
  <2>4. Visit(b, calls \ {c}) /\ UNCHANGED <<client, bought, edits>>
    BY <1>5 DEF CheckoutAnswer, ServerUnchanged
  <2> HIDE DEF b
  <2> QED
    BY <1>1, <2>3, <2>4
<1>6. CASE CheckoutAnswer(c) /\ c.at # "done"
  BY <1>6, ForgetStep DEF CheckoutAnswer, ServerUnchanged
<1>7. CASE GoLiveAnswer(c) /\ c.at = "done"
  <2> DEFINE b == [Go("dashboard") EXCEPT !.step = NoStep]
  <2>1. browser.token
    BY <1>7, AnswersWizard DEF GoLiveAnswer
  <2>2. Go("dashboard") \in Browsers /\ BrowserOK(Go("dashboard"), client)
    BY <2>1, GoOK DEF Asked
  <2>3. b \in Browsers /\ BrowserOK(b, client)
    BY <2>2 DEF Browsers, BrowserOK, Earned, NoStep, Steps
  <2>4. Visit(b, calls \ {c}) /\ UNCHANGED <<client, bought, edits>>
    BY <1>7 DEF GoLiveAnswer, ServerUnchanged
  <2> HIDE DEF b
  <2> QED
    BY <1>1, <2>3, <2>4
<1>8. CASE GoLiveAnswer(c) /\ c.at # "done"
  BY <1>8, ForgetStep DEF GoLiveAnswer, ServerUnchanged
<1> QED
  BY <1>2, <1>3, <1>4, <1>5, <1>6, <1>7, <1>8

LEMMA WizardAnswerOK ==
  ASSUME OnboardingInv, NEW STATE c, c \in calls, c.life = 0,
         LoadAnswer(c) \/ SaveAnswer(c) \/ PlansAnswer(c) \/ ProvisionAnswer(c)
  PROVE  OnboardingInv'
<1>0. c.op \in {"load", "save", "crm", "plans", "provision"}
  BY DEF LoadAnswer, SaveAnswer, PlansAnswer, ProvisionAnswer
<1>1. /\ InWizard /\ wizard.step \in Steps
      /\ wizard \in Wizards /\ WizardOK(wizard, client) /\ CallOK(c, client)
      /\ CallsOK(calls \ {c}, wizard, client)
  BY <1>0, AnswersWizard
<1>2. wizard = [step |-> wizard.step, config |-> wizard.config, phone |-> wizard.phone,
                plans |-> wizard.plans, untouched |-> wizard.untouched, clean |-> wizard.clean]
        /\ wizard.config \in Configs
        /\ wizard.phone \in BOOLEAN /\ wizard.plans \in BOOLEAN /\ wizard.clean \in BOOLEAN
        /\ wizard.untouched \in BOOLEAN
  BY <1>1, WizardFields
<1>3. CASE LoadAnswer(c) /\ c.at = "done"
  <2> DEFINE f == [g \in Groups |-> Restored(g, c.data[g], wizard.config[g])]
             p == wizard.phone \/ c.phone
             w == [wizard EXCEPT !.config = f, !.phone = p, !.clean = wizard.untouched,
                                 !.untouched = FALSE]
  <2>1. f \in Configs
    <3>1. c.data \in StoredConfigs
      BY CallFacts
    <3>2. \A g \in Groups : Restored(g, c.data[g], wizard.config[g]) \in Values
      BY <1>2, <3>1 DEF Restored, Configs, StoredConfigs, Values
    <3> QED
      BY <3>2 DEF Configs
  <2>2. p \in BOOLEAN /\ (p => client.phone)
    BY <1>1, <1>2, CallFacts DEF WizardOK, CallOK
  <2>3. Render(w, calls \ {c}) /\ UNCHANGED <<client, bought, breaks, edits>>
    BY <1>2, <1>3 DEF LoadAnswer
  <2> HIDE DEF f, p
  <2>4. wizard # NoWizard /\ wizard.untouched \in BOOLEAN
    BY <1>1, <1>2 DEF NoWizard, NoStep, Steps
  <2>5. w \in Wizards /\ w.step = wizard.step /\ w.phone = p
    BY <1>1, <2>1, <2>2, <2>4 DEF Wizards
  <2> HIDE DEF w
  <2>6. WizardOK(w, client)
    BY <1>1, <2>2, <2>5 DEF WizardOK
  <2>7. CallsOK(calls \ {c}, w, client)
    BY <1>1, <2>5, CallsKeep DEF Steps
  <2> QED
    BY <1>1, <2>3, <2>5, <2>6, <2>7, RenderStep
<1>4. CASE LoadAnswer(c) /\ c.at # "done"
  <2>1. wizard' = [step |-> wizard.step, config |-> wizard.config, phone |-> wizard.phone,
                   plans |-> wizard.plans, untouched |-> FALSE, clean |-> wizard.clean]
    BY <1>2, <1>4 DEF LoadAnswer, Touched
  <2>2. wizard' \in Wizards /\ wizard'.step = wizard.step /\ wizard'.phone = wizard.phone
    BY <1>1, <1>2, <2>1 DEF Wizards
  <2>3. WizardOK(wizard', client)
    BY <1>1, <2>2 DEF WizardOK
  <2> QED
    BY <1>1, <1>4, <2>2, <2>3, WizardStep DEF LoadAnswer
<1>5. CASE SaveAnswer(c) /\ c.at = "done"
  <2> DEFINE w == [wizard EXCEPT !.step = @ + 1]
  <2>1. /\ c.op = "save" => wizard.step <= 2
        /\ c.op = "crm" => wizard.step <= 3
        /\ c.op \in {"save", "crm"}
    BY <1>5, CallFacts DEF SaveAnswer, WaitedFor
  <2>2. wizard.step + 1 \in Steps
    BY <1>1, <2>1 DEF Steps
  <2>3. w \in Wizards /\ w.step = wizard.step + 1 /\ w.phone = wizard.phone
    BY <1>1, <2>2, StepUpdate
  <2>4. WizardOK(w, client)
    BY <1>1, <1>5, <2>1, <2>3 DEF WizardOK, Earned, CallOK, Steps
  <2>5. \A d \in calls \ {c} : ~Saves(d)
    BY <2>1 DEF OnboardingInv, CallsOK, OneSave, Saves
  <2>6. CallsOK(calls \ {c}, w, client)
    BY <1>1, <2>2, <2>3, <2>5, CallsKeep
  <2>7. Render(w, calls \ {c}) /\ UNCHANGED <<client, bought, breaks, edits>>
    BY <1>5 DEF SaveAnswer
  <2> HIDE DEF w
  <2> QED
    BY <1>1, <2>2, <2>3, <2>4, <2>6, <2>7, RenderStep
<1>6. CASE SaveAnswer(c) /\ c.at # "done"
  BY <1>6, ForgetStep DEF SaveAnswer
<1>7. CASE PlansAnswer(c)
  <2> DEFINE p == wizard.plans \/ c.at = "done"
  <2>1. wizard' = [wizard EXCEPT !.plans = p] /\ p \in BOOLEAN
    BY <1>2, <1>7 DEF PlansAnswer
  <2> HIDE DEF p
  <2>2. wizard' = [step |-> wizard.step, config |-> wizard.config, phone |-> wizard.phone,
                   plans |-> p, untouched |-> wizard.untouched, clean |-> wizard.clean]
    BY <1>2, <2>1
  <2>3. wizard' \in Wizards /\ wizard'.step = wizard.step /\ wizard'.phone = wizard.phone
    BY <1>1, <1>2, <2>1, <2>2 DEF Wizards
  <2>4. WizardOK(wizard', client)
    BY <1>1, <2>3 DEF WizardOK
  <2> QED
    BY <1>1, <1>7, <2>3, <2>4, WizardStep DEF PlansAnswer
<1>8. CASE ProvisionAnswer(c)
  <2> DEFINE p == wizard.phone \/ c.at = "done"
             w == [wizard EXCEPT !.phone = p]
  <2>1. p \in BOOLEAN /\ (p => client.phone)
    BY <1>1, <1>2, <1>8 DEF ProvisionAnswer, WizardOK, CallOK
  <2>2. Render(w, calls \ {c}) /\ UNCHANGED <<client, bought, breaks, edits>>
    BY <1>8 DEF ProvisionAnswer
  <2> HIDE DEF p
  <2>3. w = [step |-> wizard.step, config |-> wizard.config, phone |-> p,
             plans |-> wizard.plans, untouched |-> wizard.untouched, clean |-> wizard.clean]
    BY <1>2
  <2> HIDE DEF w
  <2>4. w \in Wizards /\ w.step = wizard.step /\ w.phone = p
    BY <1>1, <1>2, <2>1, <2>3 DEF Wizards
  <2>5. WizardOK(w, client)
    BY <1>1, <2>1, <2>4 DEF WizardOK
  <2>6. CallsOK(calls \ {c}, w, client)
    BY <1>1, <2>4, CallsKeep DEF Steps
  <2> QED
    BY <1>1, <2>2, <2>4, <2>5, <2>6, RenderStep
<1> QED
  BY <1>3, <1>4, <1>5, <1>6, <1>7, <1>8

-----------------------------------------------------------------------------
LEMMA StepOK == OnboardingInv /\ [OnboardingNext]_onboardingVars => OnboardingInv'
<1> SUFFICES ASSUME OnboardingInv, [OnboardingNext]_onboardingVars PROVE OnboardingInv'
  OBVIOUS
<1>1. CASE UserStep
  BY <1>1, SignupUserOK, WizardUserOK, OtherUserOK DEF UserStep
<1>2. ASSUME NEW STATE c, c \in calls, Answer(c)
      PROVE  OnboardingInv'
  BY <1>2, PageAnswerOK, WizardAnswerOK DEF Answer
<1>3. CASE CallStep
  BY <1>2, <1>3, ServeOK, ProvisionOK DEF CallStep
<1>4. CASE \E c \in calls : Break(c)
  BY <1>4, BreakOK
<1>5. CASE UNCHANGED onboardingVars
  <2>1. UNCHANGED <<browser, wizard, calls, client, bought, breaks, edits>>
    BY <1>5 DEF onboardingVars
  <2> QED
    BY <2>1, GrowsRefl, ServerStep DEF OnboardingInv, OnboardingTypeOK
<1> QED
  BY <1>1, <1>3, <1>4, <1>5 DEF OnboardingNext

LEMMA InvHolds == OnboardingSpec => []OnboardingInv
BY InitOK, StepOK, PTL DEF OnboardingSpec

(* Every variable of the onboarding keeps to its values.                    *)
THEOREM OnboardingTypes == OnboardingSpec => []OnboardingTypeOK
<1>1. OnboardingInv => OnboardingTypeOK
  BY DEF OnboardingInv
<1> QED
  BY <1>1, InvHolds, PTL

(* However often the wizard is reloaded, left and come back to, whatever    *)
(* answers are lost or late: provision_number buys only for a client that   *)
(* has subscribed on Stripe's page.                                         *)
THEOREM NumbersPaid == OnboardingSpec => []NumbersArePaidFor
<1>1. OnboardingInv => NumbersArePaidFor
  BY DEF OnboardingInv, ClientOK, NumbersArePaidFor
<1> QED
  BY <1>1, InvHolds, PTL

(* complete_onboarding takes a client live unasked; that it has a number    *)
(* then follows from the order of the wizard's steps, for any interleaving. *)
THEOREM LiveNumbered == OnboardingSpec => []LiveHasNumber
<1>1. OnboardingInv => LiveHasNumber
  BY DEF OnboardingInv, ClientOK, LiveHasNumber
<1> QED
  BY <1>1, InvHolds, PTL

(* A step is only shown when the server has what the steps before it save.  *)
THEOREM StepsSaved == OnboardingSpec => []StepIsSaved
<1>1. OnboardingInv => StepIsSaved
  BY DEF OnboardingInv, WizardOK, Earned, IsSet, IsBegun, StepIsSaved
<1> QED
  BY <1>1, InvHolds, PTL

-----------------------------------------------------------------------------
(* The purchases made, and those that may still be made, are counted        *)
(* against the breaks.                                                      *)

(* The purchases the server has in hand, and those of them that can still   *)
(* buy: a call that has not looked at the row yet only if no number is in   *)
(* the row.                                                                 *)
Purchases(cs) == {c \in cs : c.op = "provision" /\ c.at \in {"sent", "buying", "bought"}}

CanBuy(cs, cl) ==
  {c \in Purchases(cs) : c.at = "buying" \/ (c.at = "sent" /\ ~cl.phone)}

(* A page waits for a purchase, or the row has a number: the one purchase   *)
(* that needs no explanation.                                               *)
First(cs, cl) == cl.phone \/ \E c \in Purchases(cs) : c.life = 0

(* A page waits for one purchase at a time, and only for a page is a number *)
(* searched.                                                                *)
Asks(c) == c.op = "provision" /\ c.life = 0
OneAsks(cs) ==
  /\ \A c, d \in cs : Asks(c) /\ Asks(d) => c = d
  /\ \A c \in cs : c.at = "search" => c.life = 0

Within(n, cs, cl, m) ==
  n + Cardinality(CanBuy(cs, cl)) <= m + (IF First(cs, cl) THEN 1 ELSE 0)

PurchasesInv ==
  /\ IsFiniteSet(calls)
  /\ OneAsks(calls)
  /\ Within(bought, calls, client, breaks)

-----------------------------------------------------------------------------
LEMMA BuyersCount ==
  ASSUME NEW cs, IsFiniteSet(cs), NEW cl
  PROVE  /\ IsFiniteSet(Purchases(cs)) /\ IsFiniteSet(CanBuy(cs, cl))
         /\ Cardinality(CanBuy(cs, cl)) \in Nat
<1>1. Purchases(cs) \in SUBSET cs /\ CanBuy(cs, cl) \in SUBSET cs
  BY DEF Purchases, CanBuy
<1> QED
  BY <1>1, FS_Subset, FS_CardinalityType

LEMMA FewerBuyers ==
  ASSUME NEW S, IsFiniteSet(S), NEW T, T \subseteq S
  PROVE  IsFiniteSet(T) /\ Cardinality(T) \in Nat /\ Cardinality(S) \in Nat
           /\ Cardinality(T) <= Cardinality(S)
<1>1. T \in SUBSET S
  OBVIOUS
<1> QED
  BY <1>1, FS_Subset, FS_CardinalityType

LEMMA Numbers ==
  ASSUME OnboardingInv, PurchasesInv
  PROVE  /\ bought \in Nat /\ breaks \in Nat /\ MaxBreaks \in Nat
         /\ breaks + 1 # 0 /\ breaks + 1 \in Nat
         /\ client \in Clients /\ client.phone \in BOOLEAN
         /\ Cardinality(CanBuy(calls, client)) \in Nat
BY BuyersCount, BoundsAssumption
DEF OnboardingInv, OnboardingTypeOK, PurchasesInv, Clients

(* Nothing about purchases changes, but there may be more breaks.           *)
LEMMA SamePurchases ==
  ASSUME OnboardingInv, PurchasesInv,
         Purchases(calls') = Purchases(calls), client'.phone = client.phone,
         bought' = bought, breaks' \in Nat, breaks' >= breaks,
         IsFiniteSet(calls'), OneAsks(calls')
  PROVE  PurchasesInv'
<1>1. CanBuy(calls', client') = CanBuy(calls, client) /\ First(calls', client') = First(calls, client)
  BY DEF CanBuy, First
<1>2. Within(bought', calls', client', breaks')
  BY <1>1, Numbers DEF Within, PurchasesInv
<1> QED
  BY <1>2 DEF PurchasesInv

(* A call that has nothing to do with a purchase in hand.                   *)
Idle(c) == c.op # "provision" \/ c.at \in {"search", "done", "failed"}

LEMMA DropIdle ==
  ASSUME NEW cs, IsFiniteSet(cs), OneAsks(cs), NEW c, c \in cs => Idle(c)
  PROVE  /\ IsFiniteSet(cs \ {c}) /\ OneAsks(cs \ {c})
         /\ Purchases(cs \ {c}) = Purchases(cs)
<1>1. IsFiniteSet(cs \ {c})
  BY FS_RemoveElement
<1>2. OneAsks(cs \ {c})
  BY DEF OneAsks
<1>3. Purchases(cs \ {c}) = Purchases(cs)
  BY DEF Purchases, Idle
<1> QED
  BY <1>1, <1>2, <1>3

LEMMA AddIdle ==
  ASSUME NEW cs, IsFiniteSet(cs), OneAsks(cs), NEW d, Idle(d),
         Asks(d) => \A c \in cs : ~Asks(c), d.at = "search" => d.life = 0
  PROVE  /\ IsFiniteSet(cs \cup {d}) /\ OneAsks(cs \cup {d})
         /\ Purchases(cs \cup {d}) = Purchases(cs)
<1>1. IsFiniteSet(cs \cup {d})
  BY FS_AddElement
<1>2. OneAsks(cs \cup {d})
  BY DEF OneAsks
<1>3. Purchases(cs \cup {d}) = Purchases(cs)
  BY DEF Purchases, Idle
<1> QED
  BY <1>1, <1>2, <1>3

(* What a render, or a page that mounts, asks for.                          *)
NewPlans == Call("plans")
NewSearch == [Call("provision") EXCEPT !.at = "search"]

LEMMA NewIdle ==
  /\ \A op \in Ops : Call(op).at = "sent" /\ (op # "provision" => Idle(Call(op)) /\ ~Asks(Call(op)))
  /\ Idle(NewSearch) /\ NewSearch.life = 0
BY DEF Idle, Asks, Call, NewSearch

LEMMA AddEffects ==
  ASSUME NEW cs, IsFiniteSet(cs), OneAsks(cs), NEW P, P \in {{}, {NewPlans}},
         NEW Q, Q = {} \/ (Q = {NewSearch} /\ ~Waiting(cs, "provision"))
  PROVE  /\ IsFiniteSet((cs \cup P) \cup Q) /\ OneAsks((cs \cup P) \cup Q)
         /\ Purchases((cs \cup P) \cup Q) = Purchases(cs)
<1>1. /\ IsFiniteSet(cs \cup P) /\ OneAsks(cs \cup P) /\ Purchases(cs \cup P) = Purchases(cs)
      /\ ~Waiting(cs, "provision") => ~Waiting(cs \cup P, "provision")
  <2>1. CASE P = {}
    BY <2>1
  <2>2. CASE P = {NewPlans}
    <3>1. Idle(NewPlans) /\ ~Asks(NewPlans) /\ NewPlans.at = "sent"
      BY NewIdle DEF NewPlans, Ops
    <3>2. NewPlans.op # "provision"
      BY DEF NewPlans, Call
    <3> QED
      BY <2>2, <3>1, <3>2, AddIdle DEF Waiting
  <2> QED
    BY <2>1, <2>2
<1>2. CASE Q = {}
  BY <1>1, <1>2
<1>3. CASE Q # {}
  <2>1. \A c \in cs \cup P : ~Asks(c)
    BY <1>1, <1>3 DEF Waiting, Asks
  <2>2. Q = {NewSearch} /\ Idle(NewSearch) /\ NewSearch.life = 0
    BY <1>3, NewIdle
  <2> HIDE DEF NewSearch
  <2> QED
    BY <1>1, <2>1, <2>2, AddIdle
<1> QED
  BY <1>2, <1>3

LEMMA RenderCounts ==
  ASSUME OnboardingInv, PurchasesInv, NEW STATE w, NEW STATE cs, Render(w, cs),
         IsFiniteSet(cs), OneAsks(cs), Purchases(cs) = Purchases(calls),
         UNCHANGED <<client, bought, breaks>>
  PROVE  PurchasesInv'
<1>1. calls' = cs \cup Effects(w, cs)
  BY DEF Render
<1>2. PICK P, Q : /\ calls' = (cs \cup P) \cup Q
                  /\ P \in {{}, {NewPlans}}
                  /\ Q = {} \/ (Q = {NewSearch} /\ ~Waiting(cs, "provision"))
  <2>1. Effects(w, cs) = (IF EntersPlans(w) THEN {NewPlans} ELSE {}) \cup
           (IF WantsNumber(w, cs) THEN {NewSearch} ELSE {})
    BY DEF Effects, NewPlans, NewSearch
  <2>2. WantsNumber(w, cs) => ~Waiting(cs, "provision")
    BY DEF WantsNumber
  <2> QED
    BY <1>1, <2>1, <2>2
<1>3. IsFiniteSet(calls') /\ OneAsks(calls') /\ Purchases(calls') = Purchases(calls)
  BY <1>2, AddEffects
<1> QED
  BY <1>3, SamePurchases, Numbers

-----------------------------------------------------------------------------
(* The page goes: a purchase it waited for costs a break, and there are no  *)
(* more calls that can buy than before.                                     *)
LEMMA OrphansCount ==
  ASSUME NEW cs, cs \subseteq Calls, IsFiniteSet(cs), NEW n \in Nat, n # 0, NEW cl
  PROVE  /\ IsFiniteSet(Orphaned(cs, n))
         /\ \A o \in Orphaned(cs, n) : o.life # 0 /\ o.at # "search"
         /\ Cardinality(CanBuy(Orphaned(cs, n), cl)) <= Cardinality(CanBuy(cs, cl))
         /\ (\E c \in Purchases(cs) : c.life = 0) => \E o \in Orphaned(cs, n) : o.life = n
<1> DEFINE Lost(c) == [c EXCEPT !.life = IF @ = 0 THEN n ELSE @]
           Kept == {d \in cs : d.op \in Lasting /\ d.at # "search" /\ d.at \notin {"done", "failed"}}
<1>1. Orphaned(cs, n) = {Lost(c) : c \in Kept}
  BY DEF Orphaned
<1>2. \A c \in cs : /\ Lost(c).op = c.op /\ Lost(c).at = c.at
                    /\ Lost(c).life = IF c.life = 0 THEN n ELSE c.life
  BY DEF Calls
<1> HIDE DEF Lost
<1>3. ASSUME NEW S, IsFiniteSet(S), NEW T, T = {Lost(c) : c \in S}
      PROVE  IsFiniteSet(T) /\ Cardinality(T) <= Cardinality(S)
  <2> DEFINE f == [c \in S |-> Lost(c)]
  <2>1. f \in Surjection(S, T)
    BY <1>3 DEF Surjection
  <2> QED
    BY <1>3, <2>1, FS_Surjection
<1>4. IsFiniteSet(Orphaned(cs, n))
  <2>1. IsFiniteSet(Kept)
    BY FewerBuyers
  <2> HIDE DEF Kept
  <2> QED
    BY <1>1, <1>3, <2>1
<1>5. Cardinality(CanBuy(Orphaned(cs, n), cl)) <= Cardinality(CanBuy(cs, cl))
  <2>1. IsFiniteSet(CanBuy(cs, cl))
    BY BuyersCount
  <2>2. CanBuy(Orphaned(cs, n), cl) = {Lost(c) : c \in CanBuy(cs, cl)}
    BY <1>1, <1>2 DEF CanBuy, Purchases, Lasting
  <2> QED
    BY <1>3, <2>1, <2>2
<1>6. (\E c \in Purchases(cs) : c.life = 0) => \E o \in Orphaned(cs, n) : o.life = n
  BY <1>1, <1>2 DEF Purchases, Lasting
<1>7. \A o \in Orphaned(cs, n) : o.life # 0 /\ o.at # "search"
  BY <1>1, <1>2
<1> QED
  BY <1>4, <1>5, <1>6, <1>7

LEMMA VisitCounts ==
  ASSUME OnboardingInv, PurchasesInv, NEW STATE b, NEW STATE cs, Visit(b, cs),
         cs \subseteq calls, Purchases(cs) = Purchases(calls),
         client'.phone = client.phone, bought' = bought
  PROVE  PurchasesInv'
<1> DEFINE orphans == Orphaned(cs, breaks + 1)
           w == Mounted(b, orphans)
<1>1. cs \subseteq Calls /\ IsFiniteSet(cs)
  BY FewerBuyers DEF OnboardingInv, OnboardingTypeOK, PurchasesInv
<1>2. CanBuy(cs, client) = CanBuy(calls, client) /\ First(cs, client) = First(calls, client)
  BY DEF CanBuy, First
<1>3. /\ IsFiniteSet(orphans)
      /\ \A o \in orphans : o.life # 0 /\ o.at # "search"
      /\ Cardinality(CanBuy(orphans, client)) <= Cardinality(CanBuy(calls, client))
      /\ (\E c \in Purchases(cs) : c.life = 0) => \E o \in orphans : o.life = breaks + 1
  BY <1>1, <1>2, Numbers, OrphansCount
<1>4. breaks' = IF \E o \in orphans : o.life = breaks + 1 THEN breaks + 1 ELSE breaks
  BY DEF Visit
<1>5. PICK R, P, Q : /\ calls' = ((orphans \cup R) \cup P) \cup Q
                     /\ R \in {{}, {Call("load")}} /\ P \in {{}, {NewPlans}}
                     /\ Q = {} \/ (Q = {NewSearch} /\ ~Waiting(orphans, "provision"))
  <2>1. CASE Page(b) = "onboarding"
    <3>1. calls' = ((orphans \cup {Call("load")}) \cup
             (IF w.step = 4 THEN {NewPlans} ELSE {})) \cup
             (IF WantsNumber(w, orphans) THEN {NewSearch} ELSE {})
      BY <2>1 DEF Visit, NewPlans, NewSearch
    <3>2. WantsNumber(w, orphans) => ~Waiting(orphans, "provision")
      BY DEF WantsNumber
    <3> HIDE DEF orphans, w
    <3> QED
      BY <3>1, <3>2
  <2>2. CASE Page(b) # "onboarding"
    <3>1. calls' = orphans
      BY <2>2 DEF Visit
    <3> HIDE DEF orphans
    <3> QED
      BY <3>1
  <2> QED
    BY <2>1, <2>2
<1> HIDE DEF orphans
<1>6. /\ IsFiniteSet(orphans \cup R) /\ OneAsks(orphans \cup R)
      /\ Purchases(orphans \cup R) = Purchases(orphans)
      /\ ~Waiting(orphans, "provision") => ~Waiting(orphans \cup R, "provision")
  <2>1. OneAsks(orphans) /\ ~Waiting(orphans, "provision")
    BY <1>3 DEF OneAsks, Asks, Waiting
  <2>2. CASE R = {}
    BY <1>3, <2>1, <2>2
  <2>3. CASE R = {Call("load")}
    <3>1. Idle(Call("load")) /\ ~Asks(Call("load")) /\ Call("load").at = "sent"
      BY NewIdle DEF Ops
    <3>2. Call("load").op # "provision"
      BY DEF Call
    <3> QED
      BY <1>3, <2>1, <2>3, <3>1, <3>2, AddIdle DEF Waiting
  <2> QED
    BY <1>5, <2>2, <2>3
<1>7. IsFiniteSet(calls') /\ OneAsks(calls') /\ Purchases(calls') = Purchases(orphans)
  BY <1>5, <1>6, AddEffects
<1>8. CanBuy(calls', client') = CanBuy(orphans, client)
  BY <1>7 DEF CanBuy
<1>9. Cardinality(CanBuy(orphans, client)) \in Nat
  BY <1>3, BuyersCount
<1>10. Within(bought, calls, client, breaks)
  BY DEF PurchasesInv
<1>11. Within(bought', calls', client', breaks')
  <2>1. CASE client.phone
    BY <2>1, <1>3, <1>4, <1>8, <1>9, <1>10, Numbers DEF Within, First
  <2>2. CASE ~client.phone /\ First(cs, client)
    <3>1. breaks' = breaks + 1
      BY <2>2, <1>3, <1>4 DEF First
    <3> QED
      BY <3>1, <1>2, <1>3, <1>8, <1>9, <1>10, Numbers DEF Within
  <2>3. CASE ~First(calls, client)
    BY <2>3, <1>3, <1>4, <1>8, <1>9, <1>10, Numbers DEF Within
  <2> QED
    BY <1>2, <2>1, <2>2, <2>3
<1> QED
  BY <1>7, <1>11 DEF PurchasesInv

-----------------------------------------------------------------------------
(* The shapes of the other steps.                                           *)
LEMMA AskCounts ==
  ASSUME OnboardingInv, PurchasesInv, NEW STATE d, Idle(d), ~Asks(d), d.at = "sent",
         calls' = calls \cup {d}, UNCHANGED <<client, bought, breaks>>
  PROVE  PurchasesInv'
<1>1. IsFiniteSet(calls') /\ OneAsks(calls') /\ Purchases(calls') = Purchases(calls)
  BY AddIdle DEF PurchasesInv
<1> QED
  BY <1>1, SamePurchases, Numbers

LEMMA ForgetCounts ==
  ASSUME OnboardingInv, PurchasesInv, NEW STATE c, Idle(c),
         calls' = calls \ {c}, UNCHANGED <<client, bought, breaks>>
  PROVE  PurchasesInv'
<1>1. IsFiniteSet(calls') /\ OneAsks(calls') /\ Purchases(calls') = Purchases(calls)
  BY DropIdle DEF PurchasesInv
<1> QED
  BY <1>1, SamePurchases, Numbers

LEMMA UserCounts ==
  ASSUME OnboardingInv, PurchasesInv, UserStep
  PROVE  PurchasesInv'
<1>1. ASSUME NEW STATE d, d = SaveCall \/ \E op \in Ops \ {"provision"} : d = Call(op),
             calls' = calls \cup {d}, UNCHANGED <<client, bought, breaks>>
      PROVE  PurchasesInv'
  <2>1. Idle(d) /\ ~Asks(d) /\ d.at = "sent"
    BY <1>1, NewIdle DEF SaveCall, Call, Idle, Asks, Ops
  <2> QED
    BY <1>1, <2>1, AskCounts
<1>2. ASSUME NEW STATE b, Visit(b, calls), client'.phone = client.phone, bought' = bought
      PROVE  PurchasesInv'
  BY <1>2, VisitCounts
<1>3. ASSUME NEW STATE w, Render(w, calls), UNCHANGED <<client, bought, breaks>>
      PROVE  PurchasesInv'
  BY <1>3, RenderCounts DEF PurchasesInv
<1>4. ASSUME UNCHANGED <<calls, client, bought, breaks>>
      PROVE  PurchasesInv'
  BY <1>4 DEF PurchasesInv
<1>5. CASE SubmitSignup \/ LookUp \/ Checkout \/ GoLive
  BY <1>1, <1>5 DEF SubmitSignup, LookUp, Checkout, GoLive, Ops
<1>6. CASE AlreadyRegistered \/ NotMyBusiness
             \/ \E g \in Groups, v \in {"chosen", "cleared"} : EditConfig(g, v)
  BY <1>4, <1>6 DEF AlreadyRegistered, NotMyBusiness, EditConfig
<1>7. CASE LogIn \/ ConfirmBusiness \/ SkipSetup \/ SkipForNow \/ Reload
             \/ ContinueOnboarding \/ SignOut
  BY <1>2, <1>7 DEF LogIn, ConfirmBusiness, SkipSetup, SkipForNow, Reload,
                    ContinueOnboarding, SignOut, ServerUnchanged
<1>8. CASE AdvanceStep /\ wizard.step = 5
  BY <1>3, <1>8 DEF AdvanceStep
<1>9. CASE AdvanceStep /\ wizard.step # 5
  <2> DEFINE d == IF wizard.step = 3 THEN Call("crm") ELSE SaveCall
  <2>1. calls' = calls \cup {d} /\ UNCHANGED <<client, bought, breaks>>
    BY <1>9 DEF AdvanceStep
  <2>2. d = SaveCall \/ \E op \in Ops \ {"provision"} : d = Call(op)
    BY DEF Ops
  <2> HIDE DEF d
  <2> QED
    BY <1>1, <2>1, <2>2
<1>10. CASE Back
  BY <1>3, <1>10 DEF Back
<1>11. ASSUME NEW STATE b, NEW STATE paid, LeaveStripe(paid, b)
       PROVE  PurchasesInv'
  <2>1. client'.phone = client.phone
    BY <1>11, Numbers DEF LeaveStripe, Clients
  <2> QED
    BY <1>2, <1>11, <2>1 DEF LeaveStripe
<1>12. CASE Subscribe \/ Cancel \/ CloseStripe
  BY <1>11, <1>12 DEF Subscribe, Cancel, CloseStripe
<1> QED
  BY <1>5, <1>6, <1>7, <1>8, <1>9, <1>10, <1>12 DEF UserStep

LEMMA AnswerCounts ==
  ASSUME OnboardingInv, PurchasesInv, NEW STATE c, c \in calls, Answer(c)
  PROVE  PurchasesInv'
<1>1. Idle(c) /\ IsFiniteSet(calls \ {c}) /\ OneAsks(calls \ {c})
        /\ Purchases(calls \ {c}) = Purchases(calls)
  BY DropIdle DEF Answer, Idle, PurchasesInv
<1>2. ASSUME NEW STATE b, Visit(b, calls \ {c}), ServerUnchanged
      PROVE  PurchasesInv'
  BY <1>1, <1>2, VisitCounts DEF ServerUnchanged
<1>3. ASSUME NEW STATE w, Render(w, calls \ {c}), UNCHANGED <<client, bought, breaks>>
      PROVE  PurchasesInv'
  BY <1>1, <1>3, RenderCounts
<1>4. ASSUME calls' = calls \ {c}, UNCHANGED <<client, bought, breaks>>
      PROVE  PurchasesInv'
  BY <1>1, <1>4, ForgetCounts
<1>5. CASE SignupAnswer(c) \/ CheckoutAnswer(c) \/ GoLiveAnswer(c)
  BY <1>2, <1>4, <1>5 DEF SignupAnswer, CheckoutAnswer, GoLiveAnswer, ServerUnchanged
<1>6. CASE LookupAnswer(c) \/ PlansAnswer(c)
  BY <1>4, <1>6 DEF LookupAnswer, PlansAnswer
<1>7. CASE LoadAnswer(c) \/ SaveAnswer(c) \/ ProvisionAnswer(c)
  BY <1>3, <1>4, <1>7 DEF LoadAnswer, SaveAnswer, ProvisionAnswer
<1> QED
  BY <1>5, <1>6, <1>7 DEF Answer

-----------------------------------------------------------------------------
(* A call is finished or moves on.                                          *)
LEMMA MovedCalls ==
  ASSUME OnboardingInv, PurchasesInv, NEW STATE c, c \in calls, NEW STATE d,
         d.op = c.op, d.life = c.life, d.at # "search",
         calls' = (calls \ {c}) \cup {d} \/ calls' = calls \ {c}
  PROVE  IsFiniteSet(calls') /\ OneAsks(calls')
<1>1. IsFiniteSet(calls \ {c}) /\ IsFiniteSet((calls \ {c}) \cup {d})
  BY FS_RemoveElement, FS_AddElement DEF PurchasesInv
<1>2. OneAsks(calls')
  BY DEF PurchasesInv, OneAsks, Asks
<1> QED
  BY <1>1, <1>2

LEMMA ServeCounts ==
  ASSUME OnboardingInv, PurchasesInv, NEW STATE c, c \in calls, Serve(c)
  PROVE  PurchasesInv'
<1>1. c.op # "provision"
  BY DEF Serve, ServeSignup, ServeLoad, ServeSave, ServeOnboarding, ServeOther
<1>2. c \in Calls /\ client'.phone = client.phone
  BY Numbers DEF Serve, ServeSignup, ServeLoad, ServeSave, ServeOnboarding, ServeOther,
                 Clients, OnboardingInv, OnboardingTypeOK
<1>3. PICK d : Finish(c, d) /\ d.op = c.op /\ d.life = c.life /\ d.at # "search"
  <2>1. ASSUME NEW d, Finish(c, d), d.op = c.op, d.life = c.life, d.at # "search"
        PROVE  \E e : Finish(c, e) /\ e.op = c.op /\ e.life = c.life /\ e.at # "search"
    BY <2>1
  <2>2. CASE ServeSignup(c)
    <3> DEFINE d == [c EXCEPT !.at = IF client.status = "none" THEN "done" ELSE "failed"]
    <3>1. d.op = c.op /\ d.life = c.life /\ d.at # "search" /\ Finish(c, d)
      BY <1>2, <2>2 DEF ServeSignup, Calls
    <3> HIDE DEF d
    <3> QED
      BY <2>1, <3>1
  <2>3. CASE ServeLoad(c)
    <3> DEFINE d == [c EXCEPT !.at = "done", !.data = client.config, !.phone = client.phone]
    <3>1. d.op = c.op /\ d.life = c.life /\ d.at # "search" /\ Finish(c, d)
      BY <1>2, <2>3 DEF ServeLoad, Calls
    <3> HIDE DEF d
    <3> QED
      BY <2>1, <3>1
  <2>4. CASE Done(c)
    <3> DEFINE d == [c EXCEPT !.at = "done"]
    <3>1. d.op = c.op /\ d.life = c.life /\ d.at # "search" /\ Finish(c, d)
      BY <1>2, <2>4 DEF Done, Calls
    <3> HIDE DEF d
    <3> QED
      BY <2>1, <3>1
  <2> QED
    BY <2>2, <2>3, <2>4 DEF Serve, ServeSave, ServeOnboarding, ServeOther
<1>4. calls' = (calls \ {c}) \cup {d} \/ calls' = calls \ {c}
  BY <1>3 DEF Finish
<1>5. IsFiniteSet(calls') /\ OneAsks(calls')
  BY <1>3, <1>4, MovedCalls
<1>6. Purchases(calls') = Purchases(calls)
  BY <1>1, <1>3, <1>4 DEF Purchases
<1> QED
  BY <1>2, <1>5, <1>6, SamePurchases, Numbers DEF Serve

(* A call moves on: what may still be bought by it is counted once.         *)
LEMMA BuyersMove ==
  ASSUME OnboardingInv, PurchasesInv, NEW STATE c, c \in calls, NEW STATE d
  PROVE  /\ Cardinality(CanBuy(calls, client)) \in Nat
         /\ Cardinality((CanBuy(calls, client) \ {c}) \cup {d}) \in Nat
         /\ Cardinality((CanBuy(calls, client) \ {c}) \cup {d})
              <= Cardinality(CanBuy(calls, client)) + 1
         /\ c \in CanBuy(calls, client) =>
              /\ Cardinality((CanBuy(calls, client) \ {c}) \cup {d})
                   <= Cardinality(CanBuy(calls, client))
              /\ Cardinality(CanBuy(calls, client) \ {c})
                   = Cardinality(CanBuy(calls, client)) - 1
<1> DEFINE old == CanBuy(calls, client)
<1>1. IsFiniteSet(old) /\ Cardinality(old) \in Nat
  BY BuyersCount DEF PurchasesInv
<1> HIDE DEF old
<1>2. IsFiniteSet(old \ {c})
        /\ Cardinality(old \ {c}) = IF c \in old THEN Cardinality(old) - 1 ELSE Cardinality(old)
  BY <1>1, FS_RemoveElement
<1>3. Cardinality(old \ {c}) \in Nat
  BY <1>2, FS_CardinalityType
<1>4. IsFiniteSet((old \ {c}) \cup {d})
        /\ Cardinality((old \ {c}) \cup {d}) \in {Cardinality(old \ {c}), Cardinality(old \ {c}) + 1}
  BY <1>2, FS_AddElement
<1>5. /\ IsFiniteSet((old \ {c}) \cup {d}) /\ Cardinality((old \ {c}) \cup {d}) \in Nat
      /\ Cardinality((old \ {c}) \cup {d}) <= Cardinality(old) + 1
      /\ c \in old => /\ Cardinality((old \ {c}) \cup {d}) <= Cardinality(old)
                      /\ Cardinality(old \ {c}) = Cardinality(old) - 1
  BY <1>1, <1>2, <1>3, <1>4
<1> QED
  BY <1>1, <1>5 DEF old

LEMMA ProvisionCounts ==
  ASSUME OnboardingInv, PurchasesInv, NEW STATE c, c \in calls, Provision(c)
  PROVE  PurchasesInv'
<1>0. c \in Calls /\ c.op = "provision" /\ breaks' = breaks
  BY DEF Provision, OnboardingInv, OnboardingTypeOK
<1>1. Within(bought, calls, client, breaks)
  BY DEF PurchasesInv
<1>2. ASSUME NEW STATE d, d.op = "provision", d.life = c.life, d.at # "search",
             calls' = (calls \ {c}) \cup {d} \/ calls' = calls \ {c}
      PROVE  IsFiniteSet(calls') /\ OneAsks(calls')
  BY <1>0, <1>2, MovedCalls
<1>3. CASE Found(c)
  <2> DEFINE d == [c EXCEPT !.at = "sent"]
  <2>1. d.op = "provision" /\ d.life = c.life /\ d.at = "sent"
    BY <1>0 DEF Calls
  <2>2. calls' = (calls \ {c}) \cup {d} /\ UNCHANGED <<client, bought>>
    BY <1>3 DEF Found
  <2> HIDE DEF d
  <2>3. c.life = 0 /\ c \notin Purchases(calls) /\ \A e \in Purchases(calls) : e.life # 0
    BY <1>0, <1>3 DEF Found, PurchasesInv, OneAsks, Asks, Purchases
  <2>4. First(calls', client') /\ (First(calls, client) => client.phone)
    BY <2>1, <2>2, <2>3 DEF First, Purchases
  <2>5. CASE client.phone
    <3>1. CanBuy(calls', client') = CanBuy(calls, client)
      BY <2>1, <2>2, <2>3, <2>5 DEF CanBuy, Purchases
    <3> QED
      BY <1>0, <1>1, <1>2, <2>1, <2>2, <2>4, <2>5, <3>1 DEF Within, First, PurchasesInv
  <2>6. CASE ~client.phone
    <3>1. CanBuy(calls', client') = (CanBuy(calls, client) \ {c}) \cup {d}
      BY <2>1, <2>2, <2>3, <2>6 DEF CanBuy, Purchases
    <3>2. Cardinality(CanBuy(calls', client')) \in Nat
            /\ Cardinality(CanBuy(calls', client')) <= Cardinality(CanBuy(calls, client)) + 1
      BY <3>1, BuyersMove
    <3>3. bought + Cardinality(CanBuy(calls, client)) <= breaks
      BY <1>1, <2>4, <2>6, Numbers DEF Within
    <3>4. Within(bought', calls', client', breaks')
      BY <1>0, <2>2, <2>4, <3>2, <3>3, Numbers DEF Within
    <3> QED
      BY <1>2, <2>1, <2>2, <3>4 DEF PurchasesInv
  <2> QED
    BY <2>5, <2>6
<1>4. ASSUME NEW STATE d, d.op = "provision", d.life = c.life, d.at \in {"done", "failed"},
             Finish(c, d), bought' = bought, client'.phone, client.phone \/ c.life = 0 \/ c.at = "bought"
      PROVE  PurchasesInv'
  <2>1. calls' = (calls \ {c}) \cup {d} \/ calls' = calls \ {c}
    BY <1>4 DEF Finish
  <2>2. CanBuy(calls', client') \subseteq CanBuy(calls, client) /\ First(calls', client')
    BY <1>4, <2>1 DEF CanBuy, Purchases, First
  <2>3. IsFiniteSet(CanBuy(calls, client))
    BY BuyersCount DEF PurchasesInv
  <2>4. Within(bought', calls', client', breaks')
    BY <1>0, <1>1, <1>4, <2>2, <2>3, FewerBuyers, Numbers DEF Within
  <2> QED
    BY <1>2, <1>4, <2>1, <2>4 DEF PurchasesInv
<1>5. CASE CheckRow(c) /\ client.phone
  <2> DEFINE d == [c EXCEPT !.at = "failed"]
  <2>1. d.op = "provision" /\ d.life = c.life /\ d.at = "failed"
    BY <1>0 DEF Calls
  <2>2. Finish(c, d) /\ UNCHANGED <<client, bought>>
    BY <1>5 DEF CheckRow
  <2> HIDE DEF d
  <2> QED
    BY <1>4, <1>5, <2>1, <2>2
<1>6. CASE CheckRow(c) /\ ~client.phone
  <2> DEFINE d == [c EXCEPT !.at = "buying"]
  <2>1. d.op = "provision" /\ d.life = c.life /\ d.at = "buying"
    BY <1>0 DEF Calls
  <2>2. calls' = (calls \ {c}) \cup {d} /\ UNCHANGED <<client, bought>> /\ c.at = "sent"
    BY <1>6 DEF CheckRow
  <2> HIDE DEF d
  <2>3. c \in CanBuy(calls, client) /\ c \in Purchases(calls)
    BY <1>0, <1>6, <2>2 DEF CanBuy, Purchases
  <2>4. CanBuy(calls', client') = (CanBuy(calls, client) \ {c}) \cup {d}
    BY <2>1, <2>2 DEF CanBuy, Purchases
  <2>5. First(calls', client') = First(calls, client)
    BY <2>1, <2>2, <2>3 DEF First, Purchases
  <2>6. Cardinality(CanBuy(calls', client')) \in Nat
          /\ Cardinality(CanBuy(calls', client')) <= Cardinality(CanBuy(calls, client))
    BY <2>3, <2>4, BuyersMove
  <2>7. Within(bought', calls', client', breaks')
    BY <1>0, <1>1, <2>2, <2>5, <2>6, Numbers DEF Within
  <2> QED
    BY <1>2, <2>1, <2>2, <2>7 DEF PurchasesInv
<1>7. CASE Buy(c)
  <2> DEFINE d == [c EXCEPT !.at = "bought"]
  <2>1. d.op = "provision" /\ d.life = c.life /\ d.at = "bought"
    BY <1>0 DEF Calls
  <2>2. calls' = (calls \ {c}) \cup {d} /\ client' = client /\ bought' = bought + 1 /\ c.at = "buying"
    BY <1>7 DEF Buy
  <2> HIDE DEF d
  <2>3. c \in CanBuy(calls, client) /\ c \in Purchases(calls)
    BY <1>0, <2>2 DEF CanBuy, Purchases
  <2>4. CanBuy(calls', client') = CanBuy(calls, client) \ {c}
    BY <2>1, <2>2 DEF CanBuy, Purchases
  <2>5. First(calls', client') = First(calls, client)
    BY <2>1, <2>2, <2>3 DEF First, Purchases
  <2>6. Cardinality(CanBuy(calls', client')) = Cardinality(CanBuy(calls, client)) - 1
    BY <2>3, <2>4, BuyersMove
  <2>7. Within(bought', calls', client', breaks')
    BY <1>0, <1>1, <2>2, <2>5, <2>6, Numbers DEF Within
  <2> QED
    BY <1>2, <2>1, <2>2, <2>7 DEF PurchasesInv
<1>8. CASE CommitNumber(c)
  <2> DEFINE d == [c EXCEPT !.at = "done"]
  <2>1. d.op = "provision" /\ d.life = c.life /\ d.at = "done"
    BY <1>0 DEF Calls
  <2>2. Finish(c, d) /\ bought' = bought /\ c.at = "bought"
    BY <1>8 DEF CommitNumber, Done
  <2>3. client'.phone
    BY <1>8, Numbers DEF CommitNumber, Clients
  <2> HIDE DEF d
  <2> QED
    BY <1>4, <2>1, <2>2, <2>3
<1> QED
  BY <1>3, <1>5, <1>6, <1>7, <1>8 DEF Provision

LEMMA BreakCounts ==
  ASSUME OnboardingInv, PurchasesInv, NEW STATE c, c \in calls, Break(c)
  PROVE  PurchasesInv'
<1> DEFINE d == [c EXCEPT !.at = "failed"]
<1>1. d.op = c.op /\ d.life = c.life /\ d.at = "failed"
  BY DEF OnboardingInv, OnboardingTypeOK, Calls
<1>2. Finish(c, d) /\ UNCHANGED <<client, bought>> /\ breaks' = breaks + 1
  BY DEF Break
<1> HIDE DEF d
<1>3. calls' = (calls \ {c}) \cup {d} \/ calls' = calls \ {c}
  BY <1>2 DEF Finish
<1>4. IsFiniteSet(calls') /\ OneAsks(calls')
  BY <1>1, <1>3, MovedCalls
<1>5. CanBuy(calls', client') \subseteq CanBuy(calls, client)
  BY <1>1, <1>2, <1>3 DEF CanBuy, Purchases
<1>6. IsFiniteSet(CanBuy(calls, client)) /\ Within(bought, calls, client, breaks)
  BY BuyersCount DEF PurchasesInv
<1>7. Within(bought', calls', client', breaks')
  BY <1>2, <1>5, <1>6, FewerBuyers, Numbers DEF Within
<1> QED
  BY <1>4, <1>7 DEF PurchasesInv

-----------------------------------------------------------------------------
LEMMA PurchasesInit == OnboardingInit => PurchasesInv
<1> SUFFICES ASSUME OnboardingInit PROVE PurchasesInv
  OBVIOUS
<1>1. calls = {} /\ bought = 0 /\ breaks = 0 /\ ~client.phone
  BY DEF OnboardingInit
<1>2. CanBuy(calls, client) = {} /\ ~First(calls, client) /\ OneAsks(calls)
  BY <1>1 DEF CanBuy, Purchases, First, OneAsks
<1> QED
  BY <1>1, <1>2, FS_EmptySet DEF PurchasesInv, Within

LEMMA PurchasesStep ==
  OnboardingInv /\ PurchasesInv /\ [OnboardingNext]_onboardingVars => PurchasesInv'
<1> SUFFICES ASSUME OnboardingInv, PurchasesInv, [OnboardingNext]_onboardingVars
             PROVE  PurchasesInv'
  OBVIOUS
<1>1. CASE UserStep
  BY <1>1, UserCounts
<1>2. CASE CallStep
  BY <1>2, AnswerCounts, ServeCounts, ProvisionCounts DEF CallStep
<1>3. CASE \E c \in calls : Break(c)
  BY <1>3, BreakCounts
<1>4. CASE UNCHANGED onboardingVars
  BY <1>4 DEF onboardingVars, PurchasesInv
<1> QED
  BY <1>1, <1>2, <1>3, <1>4 DEF OnboardingNext

(* provision_number buys before it commits: each number beyond the first    *)
(* needs a failure or a page that went away, however the calls of reloaded  *)
(* wizards, which nobody waits for any more, interleave.                    *)
THEOREM PurchasesExplained == OnboardingSpec => []PurchasesAreExplained
<1>1. OnboardingInv /\ PurchasesInv => PurchasesAreExplained
  BY Numbers DEF PurchasesInv, Within, PurchasesAreExplained
<1> QED
  BY <1>1, PurchasesInit, PurchasesStep, InvHolds, PTL DEF OnboardingSpec
=============================================================================
