--------------------------- MODULE SettingsProofs ---------------------------
(***************************************************************************)
(* Proof about Onboarding that a setting the user chose is not replaced by *)
(* a default, for any number of broken calls and edits: what a wizard that *)
(* has loaded the settings in time knows of them, while saves are under    *)
(* way, come late, or are still those of an earlier page.                  *)
(***************************************************************************)
EXTENDS OnboardingProofs

(* The settings that are restored when they are loaded.                     *)
Told == Groups \ {"after"}

(* The form f shows every setting that is chosen in the stored ones, or the *)
(* user has cleared it there.                                               *)
Knows(f, stored) == \A g \in Told : stored[g] = "chosen" => f[g] \in {"chosen", "cleared"}

IsSave(c) == c.op = "save"
NoOrphanSaves(cs) == \A c \in cs : IsSave(c) => c.life = 0

(* Nothing has been saved since the wizard was mounted, nor will be by an   *)
(* earlier page.                                                            *)
UntouchedOK(w, cs) == w.step \in Steps /\ w.untouched => \A c \in cs : ~IsSave(c)

(* The wizard loaded the settings in time: it knows what is stored and what *)
(* will be.                                                                 *)
CleanOK(w, cs, cl) ==
  w.clean =>
    /\ NoOrphanSaves(cs)
    /\ Knows(w.config, cl.config)
    /\ \A c \in cs : IsSave(c) => Knows(w.config, c.data)

SavesOK(cs, cl) ==
  \A c \in cs : IsSave(c) /\ c.life = 0 /\ c.clean =>
    NoOrphanSaves(cs) /\ (c.at = "sent" => Knows(c.data, cl.config))

LoadsOK(w, cs, cl) ==
  \A c \in cs :
    c.op = "load" /\ c.life = 0 /\ c.at = "done" /\ w.untouched => c.data = cl.config

SettingsOK(w, cs, cl) ==
  UntouchedOK(w, cs) /\ CleanOK(w, cs, cl) /\ SavesOK(cs, cl) /\ LoadsOK(w, cs, cl)

SettingsInv == SettingsOK(wizard, calls, client)

-----------------------------------------------------------------------------
(* What another call has to do with the saves and loads there were.         *)
SameSave(c, d) ==
  /\ IsSave(c) /\ c.life = d.life /\ c.data = d.data /\ c.clean = d.clean
  /\ d.at = "sent" => c.at = "sent"

Follows(ds, cs) ==
  \A d \in ds : /\ IsSave(d) => \E c \in cs : SameSave(c, d)
                /\ d.op = "load" /\ d.at = "done" => d \in cs

(* Most steps neither edit the form nor save nor load.                      *)
LEMMA Kept ==
  ASSUME NEW w, NEW cs, NEW cl, SettingsOK(w, cs, cl), NEW v, NEW ds, NEW new,
         Follows(ds, cs), new.config = cl.config,
         v.config = w.config, v.clean = w.clean, v.untouched => w.untouched,
         v.step \in Steps => w.step \in Steps
  PROVE  SettingsOK(v, ds, new)
<1>1. NoOrphanSaves(cs) => NoOrphanSaves(ds)
  BY DEF NoOrphanSaves, Follows, SameSave
<1>2. UntouchedOK(v, ds)
  BY DEF SettingsOK, UntouchedOK, Follows, SameSave
<1>3. CleanOK(v, ds, new)
  BY <1>1 DEF SettingsOK, CleanOK, Follows, SameSave
<1>4. SavesOK(ds, new)
  <2> SUFFICES ASSUME NEW d \in ds, IsSave(d), d.life = 0, d.clean
               PROVE  NoOrphanSaves(ds) /\ (d.at = "sent" => Knows(d.data, new.config))
    BY DEF SavesOK
  <2>1. PICK c \in cs : SameSave(c, d)
    BY DEF Follows
  <2>2. NoOrphanSaves(cs) /\ (c.at = "sent" => Knows(c.data, cl.config))
    BY <2>1 DEF SettingsOK, SavesOK, SameSave
  <2> QED
    BY <1>1, <2>1, <2>2 DEF SameSave
<1>5. LoadsOK(v, ds, new)
  BY DEF SettingsOK, LoadsOK, Follows
<1> QED
  BY <1>2, <1>3, <1>4, <1>5 DEF SettingsOK

LEMMA FollowsSubset ==
  ASSUME NEW cs, NEW ds, ds \subseteq cs
  PROVE  Follows(ds, cs)
BY DEF Follows, SameSave

LEMMA FollowsAdded ==
  ASSUME NEW cs, NEW ds, Follows(ds, cs), NEW d, ~IsSave(d), d.op = "load" => d.at # "done"
  PROVE  Follows(ds \cup {d}, cs)
BY DEF Follows

(* A call other than a load goes on.                                        *)
LEMMA FollowsMoved ==
  ASSUME NEW cs, NEW c \in cs, c \in Calls, NEW a, a # "sent" \/ ~IsSave(c),
         c.op = "load" => a # "done"
  PROVE  Follows((cs \ {c}) \cup {[c EXCEPT !.at = a]}, cs)
<1> DEFINE d == [c EXCEPT !.at = a]
<1>1. d.op = c.op /\ d.life = c.life /\ d.data = c.data /\ d.clean = c.clean /\ d.at = a
  BY DEF Calls
<1> HIDE DEF d
<1>2. Follows((cs \ {c}) \cup {d}, cs)
  BY <1>1 DEF Follows, SameSave, IsSave
<1> QED
  BY <1>2 DEF d

LEMMA FollowsFinish ==
  ASSUME NEW STATE c, c \in calls, c \in Calls, NEW a, a # "sent",
         c.op = "load" => a # "done", Finish(c, [c EXCEPT !.at = a])
  PROVE  Follows(calls', calls)
<1>1. CASE c.life = 0
  BY <1>1, FollowsMoved DEF Finish
<1>2. CASE c.life # 0
  BY <1>2, FollowsSubset DEF Finish
<1> QED
  BY <1>1, <1>2

LEMMA FollowsEffects ==
  ASSUME NEW w, NEW cs, NEW ds, ds \subseteq cs
  PROVE  Follows(ds \cup Effects(w, ds), cs)
<1>1. \A d \in Effects(w, ds) : d.op \in {"plans", "provision"}
  BY DEF Effects, Call
<1> QED
  BY <1>1 DEF Follows, SameSave, IsSave

-----------------------------------------------------------------------------
(* A new page: no wizard, or one that knows nothing yet.                    *)
LEMMA VisitSettings ==
  ASSUME OnboardingTypeOK, NEW STATE b, NEW STATE cs, cs \subseteq calls, Visit(b, cs)
  PROVE  SettingsInv'
<1> DEFINE orphans == Orphaned(cs, breaks + 1)
<1>1. \A o \in orphans : o.life # 0 /\ o.op # "load"
  <2> SUFFICES ASSUME NEW o \in orphans PROVE o.life # 0 /\ o.op # "load"
    OBVIOUS
  <2>1. PICK d \in cs : /\ o = [d EXCEPT !.life = IF @ = 0 THEN breaks + 1 ELSE @]
                        /\ d.op \in Lasting
    BY DEF Orphaned
  <2>2. d \in Calls /\ breaks \in Nat
    BY BoundsAssumption DEF OnboardingTypeOK
  <2>3. o.op = d.op /\ o.life = IF d.life = 0 THEN breaks + 1 ELSE d.life
    BY <2>1, <2>2 DEF Calls
  <2> QED
    BY <2>1, <2>2, <2>3 DEF Lasting
<1> HIDE DEF orphans
<1>2. \A c \in calls' : c \in orphans \/ (~IsSave(c) /\ c.at # "done")
  <2>1. CASE Page(b) = "onboarding"
    <3>1. calls' = orphans \cup {Call("load")}
             \cup (IF Mounted(b, orphans).step = 4 THEN {Call("plans")} ELSE {})
             \cup (IF WantsNumber(Mounted(b, orphans), orphans)
                   THEN {[Call("provision") EXCEPT !.at = "search"]} ELSE {})
      BY <2>1 DEF Visit, orphans
    <3> QED
      BY <3>1 DEF IsSave, Call
  <2>2. CASE Page(b) # "onboarding"
    BY <2>2 DEF Visit, orphans
  <2> QED
    BY <2>1, <2>2
<1>3. ~wizard'.clean /\ (wizard'.step \in Steps /\ wizard'.untouched => \A c \in orphans : ~IsSave(c))
  <2>1. wizard' = Mounted(b, orphans) \/ wizard' = NoWizard
    BY DEF Visit, orphans
  <2>2. CASE wizard' = Mounted(b, orphans)
    BY <2>2 DEF Mounted, IsSave
  <2>3. CASE wizard' = NoWizard
    BY <2>3 DEF NoWizard, NoStep, Steps
  <2> QED
    BY <2>1, <2>2, <2>3
<1>4. UntouchedOK(wizard', calls') /\ CleanOK(wizard', calls', client')
  BY <1>2, <1>3 DEF UntouchedOK, CleanOK
<1>5. SavesOK(calls', client') /\ LoadsOK(wizard', calls', client')
  BY <1>1, <1>2 DEF SavesOK, LoadsOK, IsSave
<1> QED
  BY <1>4, <1>5 DEF SettingsInv, SettingsOK

(* A step whose calls follow from those there were.                         *)
LEMMA QuietStep ==
  ASSUME OnboardingInv, SettingsInv, Follows(calls', calls), client'.config = client.config,
         wizard'.config = wizard.config, wizard'.clean = wizard.clean,
         wizard'.untouched => wizard.untouched,
         wizard'.step \in Steps => wizard.step \in Steps
  PROVE  SettingsInv'
BY Kept DEF SettingsInv

LEMMA AskSettings ==
  ASSUME OnboardingInv, SettingsInv, UNCHANGED <<wizard, client>>,
         NEW op \in Ops, op # "save", calls' = calls \cup {Call(op)}
  PROVE  SettingsInv'
<1>1. ~IsSave(Call(op)) /\ Call(op).at = "sent"
  BY DEF IsSave, Call
<1>2. Follows(calls', calls)
  BY <1>1, FollowsSubset, FollowsAdded
<1> QED
  BY <1>2, QuietStep

LEMMA DropSettings ==
  ASSUME OnboardingInv, SettingsInv, UNCHANGED <<wizard, client>>, calls' \subseteq calls
  PROVE  SettingsInv'
BY FollowsSubset, QuietStep

LEMMA RenderSettings ==
  ASSUME OnboardingInv, SettingsInv, wizard.step \in Steps, client' = client,
         NEW STATE w, w.config = wizard.config, w.clean = wizard.clean,
         w.untouched = wizard.untouched,
         NEW STATE cs, cs \subseteq calls, Render(w, cs)
  PROVE  SettingsInv'
<1>1. wizard' = w /\ calls' = cs \cup Effects(w, cs)
  BY DEF Render
<1>2. Follows(calls', calls)
  BY <1>1, FollowsEffects
<1> QED
  BY <1>1, <1>2, QuietStep

-----------------------------------------------------------------------------
LEMMA InitSettings == OnboardingInit => SettingsInv
BY DEF OnboardingInit, SettingsInv, SettingsOK, UntouchedOK, CleanOK, SavesOK, LoadsOK, NoWizard

LEMMA WizardRecord ==
  ASSUME OnboardingInv
  PROVE  /\ wizard \in Wizards /\ wizard.config \in Configs
         /\ wizard = [step |-> wizard.step, config |-> wizard.config, phone |-> wizard.phone,
                      plans |-> wizard.plans, untouched |-> wizard.untouched,
                      clean |-> wizard.clean]
BY WizardFields DEF OnboardingInv, OnboardingTypeOK

LEMMA EditSettings ==
  ASSUME OnboardingInv, SettingsInv,
         NEW g \in Groups, NEW v \in {"chosen", "cleared"}, EditConfig(g, v)
  PROVE  SettingsInv'
<1> DEFINE f == [wizard.config EXCEPT ![g] = v]
<1>1. /\ wizard' = [step |-> wizard.step, config |-> f, phone |-> wizard.phone,
                    plans |-> wizard.plans, untouched |-> FALSE, clean |-> wizard.clean]
      /\ calls' = calls /\ client' = client
  BY WizardRecord DEF EditConfig, Touched
<1>2. \A h \in Told : wizard.config[h] \in {"chosen", "cleared"} => f[h] \in {"chosen", "cleared"}
  BY WizardRecord DEF Configs, Told
<1> HIDE DEF f
<1>3. \A s : Knows(wizard.config, s) => Knows(f, s)
  BY <1>2 DEF Knows
<1>4. CleanOK(wizard', calls', client')
  BY <1>1, <1>3 DEF SettingsInv, SettingsOK, CleanOK
<1>5. UntouchedOK(wizard', calls') /\ LoadsOK(wizard', calls', client')
  BY <1>1 DEF UntouchedOK, LoadsOK
<1>6. SavesOK(calls', client')
  BY <1>1 DEF SettingsInv, SettingsOK
<1> QED
  BY <1>4, <1>5, <1>6 DEF SettingsInv, SettingsOK

LEMMA AdvanceSettings ==
  ASSUME OnboardingInv, SettingsInv, AdvanceStep
  PROVE  SettingsInv'
<1>0. wizard.step \in Steps /\ client' = client
  BY DEF OnboardingInv, AdvanceStep
<1>1. CASE wizard.step = 5
  <2>1. Render([wizard EXCEPT !.step = 6], calls)
    BY <1>1 DEF AdvanceStep
  <2>2. [wizard EXCEPT !.step = 6] = [step |-> 6, config |-> wizard.config, phone |-> wizard.phone,
                      plans |-> wizard.plans, untouched |-> wizard.untouched,
                      clean |-> wizard.clean]
    BY WizardRecord
  <2> QED
    BY <1>0, <2>1, <2>2, RenderSettings
<1>2. ASSUME wizard.step # 5
      PROVE  wizard' = [step |-> wizard.step, config |-> wizard.config, phone |-> wizard.phone,
                        plans |-> wizard.plans, untouched |-> FALSE, clean |-> wizard.clean]
  BY <1>2, WizardRecord DEF AdvanceStep, Touched
<1>3. CASE wizard.step = 3
  <2>1. calls' = calls \cup {Call("crm")}
    BY <1>3 DEF AdvanceStep
  <2>2. ~IsSave(Call("crm")) /\ Call("crm").at = "sent"
    BY DEF IsSave, Call
  <2>3. Follows(calls', calls)
    BY <2>1, <2>2, FollowsSubset, FollowsAdded
  <2> QED
    BY <1>0, <1>2, <1>3, <2>3, QuietStep
<1>4. CASE wizard.step \notin {3, 5}
  <2>1. calls' = calls \cup {SaveCall}
    BY <1>4 DEF AdvanceStep
  <2>2. /\ SaveCall.op = "save" /\ SaveCall.life = 0 /\ SaveCall.data = wizard.config
        /\ SaveCall.clean = wizard.clean
    BY DEF SaveCall, Call
  <2>3. \A c \in calls : IsSave(c) => c.life # 0
    BY DEF AdvanceStep, Saving, Waiting, IsSave
  <2>4. UntouchedOK(wizard', calls')
    BY <1>2, <1>4 DEF UntouchedOK
  <2>5. CleanOK(wizard', calls', client')
    BY <1>0, <1>2, <1>4, <2>1, <2>2 DEF SettingsInv, SettingsOK, CleanOK, NoOrphanSaves, Knows
  <2>6. SavesOK(calls', client')
    <3> SUFFICES ASSUME NEW c \in calls', IsSave(c), c.life = 0, c.clean
                 PROVE  NoOrphanSaves(calls') /\ (c.at = "sent" => Knows(c.data, client.config))
      BY <1>0 DEF SavesOK
    <3>1. c = SaveCall /\ wizard.clean
      BY <2>1, <2>2, <2>3
    <3> QED
      BY <2>1, <2>2, <3>1 DEF SettingsInv, SettingsOK, CleanOK, NoOrphanSaves
  <2>7. LoadsOK(wizard', calls', client')
    BY <1>2, <1>4 DEF LoadsOK
  <2> QED
    BY <2>4, <2>5, <2>6, <2>7 DEF SettingsInv, SettingsOK
<1> QED
  BY <1>1, <1>3, <1>4

LEMMA BackSettings ==
  ASSUME OnboardingInv, SettingsInv, Back
  PROVE  SettingsInv'
<1>1. wizard.step \in Steps /\ client' = client /\ Render([wizard EXCEPT !.step = @ - 1], calls)
  BY DEF OnboardingInv, Back
<1>2. [wizard EXCEPT !.step = @ - 1] =
        [step |-> wizard.step - 1, config |-> wizard.config, phone |-> wizard.phone,
         plans |-> wizard.plans, untouched |-> wizard.untouched, clean |-> wizard.clean]
  BY WizardRecord
<1> QED
  BY <1>1, <1>2, RenderSettings

LEMMA UserSettings ==
  ASSUME OnboardingInv, SettingsInv, UserStep
  PROVE  SettingsInv'
<1>0. OnboardingTypeOK /\ calls \subseteq calls
  BY DEF OnboardingInv
<1>1. CASE SubmitSignup \/ LookUp \/ Checkout \/ GoLive
  BY <1>1, AskSettings DEF SubmitSignup, LookUp, Checkout, GoLive, Ops
<1>2. CASE AlreadyRegistered \/ NotMyBusiness
  BY <1>2, DropSettings DEF AlreadyRegistered, NotMyBusiness
<1>3. CASE LogIn \/ ConfirmBusiness \/ SkipSetup \/ SkipForNow \/ Reload \/ ContinueOnboarding
             \/ SignOut
  BY <1>0, <1>3, VisitSettings DEF LogIn, ConfirmBusiness, SkipSetup, SkipForNow, Reload,
       ContinueOnboarding, SignOut
<1>4. CASE Subscribe \/ Cancel \/ CloseStripe
  BY <1>0, <1>4, VisitSettings DEF Subscribe, Cancel, CloseStripe, LeaveStripe
<1>5. CASE \E g \in Groups, v \in {"chosen", "cleared"} : EditConfig(g, v)
  BY <1>5, EditSettings
<1> QED
  BY <1>1, <1>2, <1>3, <1>4, <1>5, AdvanceSettings, BackSettings DEF UserStep

-----------------------------------------------------------------------------
(* The settings are loaded: if nothing was done before, the form now shows  *)
(* what is stored.                                                          *)
LEMMA LoadSettings ==
  ASSUME OnboardingInv, SettingsInv, NEW STATE c, c \in calls, c.life = 0, LoadAnswer(c)
  PROVE  SettingsInv'
<1>0. wizard.step \in Steps /\ client' = client /\ c.op = "load"
  BY AnswersWizard DEF LoadAnswer
<1>1. CASE c.at # "done"
  <2>1. wizard' = [step |-> wizard.step, config |-> wizard.config, phone |-> wizard.phone,
                   plans |-> wizard.plans, untouched |-> FALSE, clean |-> wizard.clean]
    BY <1>1, WizardRecord DEF LoadAnswer, Touched
  <2>2. Follows(calls', calls)
    BY <1>1, FollowsSubset DEF LoadAnswer
  <2> QED
    BY <1>0, <2>1, <2>2, QuietStep
<1>2. CASE c.at = "done"
  <2> DEFINE f == [g \in Groups |-> Restored(g, c.data[g], wizard.config[g])]
             w == [wizard EXCEPT !.config = f, !.phone = @ \/ c.phone,
                                 !.clean = wizard.untouched, !.untouched = FALSE]
  <2>1. Render(w, calls \ {c})
    BY <1>2, WizardRecord DEF LoadAnswer
  <2>2. wizard' = w /\ calls' = (calls \ {c}) \cup Effects(w, calls \ {c})
    BY <2>1 DEF Render
  <2>3. Follows(calls', calls)
    BY <2>2, FollowsEffects
  <2> HIDE DEF f
  <2>4. wizard'.config = f /\ wizard'.clean = wizard.untouched /\ ~wizard'.untouched
    <3>1. wizard # NoWizard
      BY <1>0 DEF NoWizard, NoStep, Steps
    <3> QED
      BY <2>2, <3>1, WizardRecord DEF Wizards
  <2> HIDE DEF w
  <2>5. wizard.untouched => Knows(f, client.config) /\ \A d \in calls' : ~IsSave(d)
    <3> SUFFICES ASSUME wizard.untouched
                 PROVE  Knows(f, client.config) /\ \A d \in calls' : ~IsSave(d)
      OBVIOUS
    <3>1. c.data = client.config
      BY <1>0, <1>2 DEF SettingsInv, SettingsOK, LoadsOK
    <3>2. Knows(f, c.data)
      BY DEF Knows, Told, Restored, f
    <3>3. \A d \in calls : ~IsSave(d)
      BY <1>0 DEF SettingsInv, SettingsOK, UntouchedOK
    <3> QED
      BY <2>3, <3>1, <3>2, <3>3 DEF Follows, SameSave
  <2>6. SavesOK(calls', client')
    <3>1. SettingsOK(wizard, calls', client)
      BY <2>3, Kept DEF SettingsInv
    <3> QED
      BY <1>0, <3>1 DEF SettingsOK
  <2>7. CleanOK(wizard', calls', client')
    BY <1>0, <2>4, <2>5 DEF CleanOK, NoOrphanSaves
  <2>8. UntouchedOK(wizard', calls') /\ LoadsOK(wizard', calls', client')
    BY <2>4 DEF UntouchedOK, LoadsOK
  <2> QED
    BY <2>6, <2>7, <2>8 DEF SettingsInv, SettingsOK
<1> QED
  BY <1>1, <1>2

LEMMA AnswerSettings ==
  ASSUME OnboardingInv, SettingsInv, NEW STATE c, c \in calls, Answer(c)
  PROVE  SettingsInv'
<1>0. OnboardingTypeOK /\ calls \ {c} \subseteq calls /\ c.life = 0
  BY DEF OnboardingInv, Answer
<1>1. CASE SignupAnswer(c) \/ CheckoutAnswer(c) \/ GoLiveAnswer(c)
  <2>1. CASE \E b : Visit(b, calls \ {c})
    <3>1. PICK b : Visit(b, calls \ {c})
      BY <2>1
    <3> QED
      BY <1>0, <3>1, VisitSettings
  <2>2. CASE calls' = calls \ {c} /\ UNCHANGED <<wizard, client>>
    BY <2>2, DropSettings
  <2> QED
    BY <1>1, <2>1, <2>2 DEF SignupAnswer, CheckoutAnswer, GoLiveAnswer, ServerUnchanged
<1>2. CASE LookupAnswer(c)
  BY <1>2, DropSettings DEF LookupAnswer
<1>3. CASE SaveAnswer(c)
  <2>1. CASE c.at = "done"
    <3>1. Render([wizard EXCEPT !.step = @ + 1], calls \ {c}) /\ client' = client
      BY <1>3, <2>1 DEF SaveAnswer
    <3>2. wizard.step \in Steps
      BY <1>0, <1>3, AnswersWizard DEF SaveAnswer
    <3>3. [wizard EXCEPT !.step = @ + 1] =
            [step |-> wizard.step + 1, config |-> wizard.config, phone |-> wizard.phone,
             plans |-> wizard.plans, untouched |-> wizard.untouched, clean |-> wizard.clean]
      BY WizardRecord
    <3> QED
      BY <1>0, <3>1, <3>2, <3>3, RenderSettings
  <2>2. CASE c.at # "done"
    BY <1>3, <2>2, DropSettings DEF SaveAnswer
  <2> QED
    BY <2>1, <2>2
<1>4. CASE PlansAnswer(c)
  <2>1. wizard' = [step |-> wizard.step, config |-> wizard.config, phone |-> wizard.phone,
                   plans |-> wizard.plans \/ c.at = "done", untouched |-> wizard.untouched,
                   clean |-> wizard.clean]
    BY <1>4, WizardRecord DEF PlansAnswer
  <2>2. Follows(calls', calls) /\ client' = client
    BY <1>4, FollowsSubset DEF PlansAnswer
  <2> QED
    BY <2>1, <2>2, QuietStep
<1>5. CASE ProvisionAnswer(c)
  <2>1. Render([wizard EXCEPT !.phone = @ \/ c.at = "done"], calls \ {c}) /\ client' = client
    BY <1>5 DEF ProvisionAnswer
  <2>2. wizard.step \in Steps
    BY <1>0, <1>5, AnswersWizard DEF ProvisionAnswer
  <2>3. [wizard EXCEPT !.phone = @ \/ c.at = "done"] =
          [step |-> wizard.step, config |-> wizard.config,
           phone |-> wizard.phone \/ c.at = "done", plans |-> wizard.plans,
           untouched |-> wizard.untouched, clean |-> wizard.clean]
    BY WizardRecord
  <2> QED
    BY <1>0, <2>1, <2>2, <2>3, RenderSettings
<1> QED
  BY <1>0, <1>1, <1>2, <1>3, <1>4, <1>5, LoadSettings DEF Answer

-----------------------------------------------------------------------------
(* A save is stored: whoever knew the settings before was the one to save.  *)
LEMMA StoreSettings ==
  ASSUME OnboardingInv, SettingsInv, NEW STATE c, c \in calls, c.at = "sent", ServeSave(c),
         wizard' = wizard
  PROVE  SettingsInv'
<1> DEFINE f == [g \in Groups |-> Stored(g, c.data[g])]
<1>1. c \in Calls /\ c.op = "save" /\ Finish(c, [c EXCEPT !.at = "done"])
        /\ client' = [client EXCEPT !.config = f]
  BY CallFacts DEF ServeSave, Done
<1>2. Follows(calls', calls)
  BY <1>1, FollowsFinish
<1>3. client'.config = f
  BY <1>1 DEF OnboardingInv, OnboardingTypeOK, Clients
<1>4. \A v : Knows(v, c.data) => Knows(v, f)
  BY DEF Knows, Told, Stored
<1> HIDE DEF f
<1>5. /\ UntouchedOK(wizard, calls') /\ SettingsOK(wizard, calls', client)
  BY <1>2, Kept DEF SettingsInv, SettingsOK
<1>6. CleanOK(wizard', calls', client')
  <2>1. wizard.clean => Knows(wizard.config, c.data)
    BY <1>1 DEF SettingsInv, SettingsOK, CleanOK, IsSave
  <2> QED
    BY <1>3, <1>4, <1>5, <2>1 DEF SettingsOK, CleanOK
<1>7. SavesOK(calls', client')
  <2> SUFFICES ASSUME NEW d \in calls', IsSave(d), d.life = 0, d.clean
               PROVE  NoOrphanSaves(calls') /\ d.at # "sent"
    BY DEF SavesOK
  <2>1. NoOrphanSaves(calls')
    BY <1>5 DEF SettingsOK, SavesOK
  <2>2. PICK e \in calls : SameSave(e, d)
    BY <1>2 DEF Follows
  <2>3. NoOrphanSaves(calls)
    BY <2>2 DEF SettingsInv, SettingsOK, SavesOK, SameSave
  <2>4. c.life = 0 /\ e.life = 0
    BY <1>1, <2>2, <2>3 DEF NoOrphanSaves, IsSave, SameSave
  <2>5. \A x \in calls : Saves(x) => x = c
    BY <1>1, <2>4 DEF OnboardingInv, CallsOK, OneSave, Saves
  <2>6. calls' = (calls \ {c}) \cup {[c EXCEPT !.at = "done"]}
    BY <1>1, <2>4 DEF Finish
  <2>7. d \notin calls \ {c}
    BY <2>5 DEF Saves, IsSave
  <2>8. d = [c EXCEPT !.at = "done"]
    BY <2>6, <2>7
  <2> QED
    BY <1>1, <2>1, <2>8 DEF Calls
<1>8. LoadsOK(wizard', calls', client')
  <2> SUFFICES ASSUME NEW d \in calls', d.op = "load", d.life = 0, d.at = "done",
                      wizard.untouched
               PROVE  FALSE
    BY DEF LoadsOK
  <2>1. d \in calls
    BY <1>2 DEF Follows
  <2>2. d.life = 0 => wizard.step \in Steps
    BY <2>1 DEF OnboardingInv, CallsOK, WaitedFor
  <2>3. wizard.step \notin Steps
    BY <1>1 DEF SettingsInv, SettingsOK, UntouchedOK, IsSave
  <2> QED
    BY <2>2, <2>3
<1> QED
  BY <1>5, <1>6, <1>7, <1>8 DEF SettingsInv, SettingsOK

LEMMA ServeSettings ==
  ASSUME OnboardingInv, SettingsInv, NEW STATE c, c \in calls, Serve(c)
  PROVE  SettingsInv'
<1>0. c \in Calls /\ c.at = "sent" /\ wizard' = wizard
  BY CallFacts DEF Serve
<1>1. ASSUME NEW a \in {"done", "failed"}, Finish(c, [c EXCEPT !.at = a]), c.op # "load",
             client'.config = client.config
      PROVE  SettingsInv'
  <2>1. Follows(calls', calls)
    BY <1>0, <1>1, FollowsFinish
  <2> QED
    BY <1>0, <1>1, <2>1, QuietStep
<1>2. \A s : [client EXCEPT !.status = s].config = client.config
  BY DEF OnboardingInv, OnboardingTypeOK, Clients
<1>3. CASE ServeSignup(c)
  <2> DEFINE a == IF client.status = "none" THEN "done" ELSE "failed"
  <2>1. a \in {"done", "failed"} /\ Finish(c, [c EXCEPT !.at = a])
    BY <1>3 DEF ServeSignup
  <2>2. client'.config = client.config /\ c.op # "load"
    BY <1>2, <1>3 DEF ServeSignup
  <2> HIDE DEF a
  <2> QED
    BY <1>1, <2>1, <2>2
<1>4. CASE ServeLoad(c)
  <2> DEFINE d == [c EXCEPT !.at = "done", !.data = client.config, !.phone = client.phone]
  <2>1. Finish(c, d) /\ client' = client /\ c.op = "load"
    BY <1>4 DEF ServeLoad
  <2>2. d.op = "load" /\ d.data = client.config
    BY <1>0, <2>1 DEF Calls
  <2> HIDE DEF d
  <2>3. calls' \subseteq calls \cup {d}
    BY <2>1 DEF Finish
  <2>4. Follows(calls' \ {d}, calls)
    BY <2>3, FollowsSubset
  <2>5. SettingsOK(wizard, calls' \ {d}, client)
    BY <2>4, Kept DEF SettingsInv
  <2>6. ~IsSave(d)
    BY <2>2 DEF IsSave
  <2>7. UntouchedOK(wizard, calls') /\ CleanOK(wizard, calls', client)
          /\ LoadsOK(wizard, calls', client)
    BY <2>2, <2>5, <2>6 DEF SettingsOK, UntouchedOK, CleanOK, NoOrphanSaves, LoadsOK
  <2>8. SavesOK(calls', client)
    BY <2>5, <2>6 DEF SettingsOK, SavesOK, NoOrphanSaves
  <2> QED
    BY <1>0, <2>1, <2>7, <2>8 DEF SettingsInv, SettingsOK
<1>5. CASE ServeSave(c)
  BY <1>0, <1>5, StoreSettings
<1>6. CASE ServeOnboarding(c)
  <2>1. client'.config = client.config
    BY <1>2, <1>6 DEF ServeOnboarding
  <2> QED
    BY <1>1, <1>6, <2>1 DEF ServeOnboarding, Done
<1>7. CASE ServeOther(c)
  BY <1>1, <1>7 DEF ServeOther, Done
<1> QED
  BY <1>3, <1>4, <1>5, <1>6, <1>7 DEF Serve

LEMMA ProvisionSettings ==
  ASSUME OnboardingInv, SettingsInv, NEW STATE c, c \in calls, Provision(c)
  PROVE  SettingsInv'
<1>0. c \in Calls /\ c.op = "provision" /\ wizard' = wizard /\ ~IsSave(c)
  BY CallFacts DEF Provision, IsSave
<1>1. client'.config = client.config
  BY DEF Provision, Found, CheckRow, Buy, CommitNumber, OnboardingInv, OnboardingTypeOK, Clients
<1>2. Follows(calls', calls)
  <2>1. CASE \E a \in {"sent", "buying", "bought"} :
               calls' = (calls \ {c}) \cup {[c EXCEPT !.at = a]}
    <3>1. PICK a \in {"sent", "buying", "bought"} :
            calls' = (calls \ {c}) \cup {[c EXCEPT !.at = a]}
      BY <2>1
    <3>2. Follows((calls \ {c}) \cup {[c EXCEPT !.at = a]}, calls)
      BY <1>0, FollowsMoved
    <3> QED
      BY <3>1, <3>2
  <2>2. CASE \E a \in {"done", "failed"} : Finish(c, [c EXCEPT !.at = a])
    BY <1>0, <2>2, FollowsFinish
  <2> QED
    BY <2>1, <2>2 DEF Provision, Found, CheckRow, Buy, CommitNumber, Done
<1> QED
  BY <1>0, <1>1, <1>2, QuietStep

LEMMA BreakSettings ==
  ASSUME OnboardingInv, SettingsInv, NEW STATE c, c \in calls, Break(c)
  PROVE  SettingsInv'
<1>1. c \in Calls /\ Finish(c, [c EXCEPT !.at = "failed"]) /\ UNCHANGED <<wizard, client>>
  BY CallFacts DEF Break
<1>2. Follows(calls', calls)
  BY <1>1, FollowsFinish
<1> QED
  BY <1>1, <1>2, QuietStep

-----------------------------------------------------------------------------
LEMMA SettingsStep ==
  OnboardingInv /\ SettingsInv /\ [OnboardingNext]_onboardingVars => SettingsInv'
<1> SUFFICES ASSUME OnboardingInv, SettingsInv, [OnboardingNext]_onboardingVars
             PROVE  SettingsInv'
  OBVIOUS
<1>1. CASE UNCHANGED onboardingVars
  BY <1>1, DropSettings DEF onboardingVars
<1>2. CASE CallStep
  BY <1>2, AnswerSettings, ServeSettings, ProvisionSettings DEF CallStep
<1>3. CASE \E c \in calls : Break(c)
  BY <1>3, BreakSettings
<1> QED
  BY <1>1, <1>2, <1>3, UserSettings DEF OnboardingNext

LEMMA SettingsHold == OnboardingSpec => [](OnboardingInv /\ SettingsInv)
<1>1. OnboardingInit => OnboardingInv /\ SettingsInv
  BY InitOK, InitSettings
<1>2. OnboardingInv /\ SettingsInv /\ [OnboardingNext]_onboardingVars
        => (OnboardingInv /\ SettingsInv)'
  BY StepOK, SettingsStep
<1> QED
  BY <1>1, <1>2, PTL DEF OnboardingSpec

(* Only the storing of a save changes settings.                             *)
LEMMA OnlySavesStore ==
  ASSUME OnboardingInv, [OnboardingNext]_onboardingVars, client'.config # client.config
  PROVE  \E c \in calls : c.at = "sent" /\ ServeSave(c)
<1>1. \A s : [client EXCEPT !.status = s].config = client.config
  BY DEF OnboardingInv, OnboardingTypeOK, Clients
<1>2. \A s : [client EXCEPT !.phone = s].config = client.config
  BY DEF OnboardingInv, OnboardingTypeOK, Clients
<1>3. \A s : [client EXCEPT !.paid = s].config = client.config
  BY DEF OnboardingInv, OnboardingTypeOK, Clients
<1>4. CASE UserStep
  <2>1. client' = client \/ Subscribe \/ Cancel \/ CloseStripe
    BY <1>4 DEF UserStep, SubmitSignup, AlreadyRegistered, LogIn, LookUp, ConfirmBusiness,
         NotMyBusiness, SkipSetup, EditConfig, AdvanceStep, Back, SkipForNow, Checkout, GoLive,
         Reload, ContinueOnboarding, SignOut, ServerUnchanged
  <2> QED
    BY <1>3, <2>1 DEF Subscribe, Cancel, CloseStripe, LeaveStripe
<1>5. ASSUME NEW c \in calls, Answer(c)
      PROVE  client' = client
  BY <1>5 DEF Answer, SignupAnswer, LookupAnswer, LoadAnswer, SaveAnswer, PlansAnswer,
       CheckoutAnswer, ProvisionAnswer, GoLiveAnswer, ServerUnchanged
<1>6. ASSUME NEW c \in calls, Provision(c)
      PROVE  client'.config = client.config
  BY <1>2, <1>6 DEF Provision, Found, CheckRow, Buy, CommitNumber
<1>7. ASSUME NEW c \in calls, Serve(c)
      PROVE  client'.config = client.config \/ (c.at = "sent" /\ ServeSave(c))
  BY <1>1, <1>7 DEF Serve, ServeSignup, ServeLoad, ServeOnboarding, ServeOther
<1>8. ASSUME NEW c \in calls, Break(c)
      PROVE  client' = client
  BY <1>8 DEF Break
<1> QED
  BY <1>4, <1>5, <1>6, <1>7, <1>8 DEF OnboardingNext, CallStep, onboardingVars

LEMMA SurvivesStep ==
  OnboardingInv /\ SettingsInv /\ [OnboardingNext]_onboardingVars =>
    \A g \in Groups \ {"after"} :
      client.config[g] = "chosen" /\ client'.config[g] # "chosen" =>
        \E c \in calls : c.op = "save" /\ (~c.clean \/ c.life > 0 \/ c.data[g] = "cleared")
<1> SUFFICES ASSUME OnboardingInv, SettingsInv, [OnboardingNext]_onboardingVars,
                    NEW g \in Told, client.config[g] = "chosen", client'.config[g] # "chosen"
             PROVE  \E c \in calls :
                      c.op = "save" /\ (~c.clean \/ c.life > 0 \/ c.data[g] = "cleared")
  BY DEF Told
<1>1. PICK c \in calls : c.at = "sent" /\ ServeSave(c)
  BY OnlySavesStore
<1>2. c \in Calls /\ c.op = "save" /\ c.life \in 0..MaxBreaks /\ c.clean \in BOOLEAN
  BY <1>1, CallFacts DEF ServeSave
<1>3. client'.config[g] = Stored(g, c.data[g])
  BY <1>1 DEF ServeSave, OnboardingInv, OnboardingTypeOK, Clients, Told
<1>4. c.data[g] # "chosen"
  BY <1>3 DEF Stored
<1>5. c.clean /\ c.life = 0 => c.data[g] = "cleared"
  BY <1>1, <1>2, <1>4 DEF SettingsInv, SettingsOK, SavesOK, Knows, IsSave
<1> QED
  BY <1>2, <1>5, BoundsAssumption

(* The stored settings of a client lose a choice of its user to a default   *)
(* only by a save that did not wait for them to be loaded, or whose page is *)
(* gone: update_settings of the API stores whole groups unseen.             *)
THEOREM SettingsSurvive == OnboardingSpec => LoadedSettingsSurvive
<1>1. OnboardingInv /\ SettingsInv /\ [OnboardingNext]_onboardingVars =>
        [\A g \in Groups \ {"after"} :
           client.config[g] = "chosen" /\ client'.config[g] # "chosen" =>
             \E c \in calls :
               /\ c.op = "save"
               /\ ~c.clean \/ c.life > 0 \/ c.data[g] = "cleared"]_client
  BY SurvivesStep
<1> QED
  BY <1>1, SettingsHold, PTL DEF OnboardingSpec, LoadedSettingsSurvive
=============================================================================
