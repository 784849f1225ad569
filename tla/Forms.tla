------------------------------- MODULE Forms -------------------------------
(***************************************************************************)
(* The pages that list items and create or edit one in a modal: email      *)
(* templates, outreach prospects, campaigns, clients.  The modal covers    *)
(* the page; the answer to its save closes whatever modal is open by then. *)
(***************************************************************************)
EXTENDS Views

FormPages == {"templates", "outreach", "campaigns", "clients"}

FormsOf(page) == {page} \cap FormPages

(* editing: the item that a save updates, NoKey for a new one; about: the   *)
(* item the form was filled from (history).  asked: the open confirmation.  *)
(* History: sends and errors of the content that is in the form.              *)
Form(how) ==
  [kind |-> "form", how |-> how, loading |-> TRUE, listed |-> FALSE, failed |-> FALSE,
   open |-> FALSE, editing |-> NoKey, about |-> NoKey, filled |-> FALSE, busy |-> {},
   asked |-> "nothing", sends |-> 0, errors |-> 0, failures |-> 0]

OnForm(hows) == view.kind = "form" /\ view.how \in hows

FormTypeOK ==
  view.kind = "form" =>
    /\ view.how \in FormPages /\ view.busy \subseteq {"create"}
    /\ {view.editing, view.about} \subseteq Keys \union {NoKey}
    /\ view.asked \in {"nothing", "remove", "convert"}
    /\ {view.loading, view.listed, view.failed, view.open, view.filled} \subseteq BOOLEAN
    /\ view.sends \in 0..(MaxFailures + 2) /\ view.errors \in 0..(MaxFailures + 2)

Reread == Call("list", NoKey)

-----------------------------------------------------------------------------
MountForm(how) ==
  /\ view' = Form(how)
  /\ Request({Reread})

(* A modal or a question is over the page; a skeleton may replace the list, *)
(* on some pages with the buttons above it.                                 *)
Covered == view.open \/ view.asked # "nothing"
Ready == ~Covered /\ (OnForm({"templates", "campaigns"}) => ~view.loading)
Items == ~Covered /\ ~view.loading /\ view.listed

Blanked(v) ==
  [v EXCEPT !.editing = NoKey, !.about = NoKey, !.filled = FALSE, !.sends = 0, !.errors = 0]

(* New.  The campaigns keep what was typed in before.                       *)
OpenNew ==
  /\ OnForm(FormPages) /\ Ready
  /\ view' = [IF OnForm({"campaigns"}) THEN view ELSE Blanked(view) EXCEPT !.open = TRUE]
  /\ UNCHANGED <<session, refresh, fetches>>

(* The button of an empty list of templates opens the modal as it was left. *)
OpenEmpty ==
  /\ OnForm({"templates"}) /\ Ready
  /\ view' = [view EXCEPT !.open = TRUE]
  /\ UNCHANGED <<session, refresh, fetches>>

OpenEdit(k) ==
  /\ OnForm({"templates", "outreach"}) /\ Items
  /\ view' = [Blanked(view) EXCEPT !.open = TRUE, !.editing = k, !.about = k, !.filled = TRUE]
  /\ UNCHANGED <<session, refresh, fetches>>

Fill ==
  /\ OnForm(FormPages) /\ view.open /\ ~view.filled
  /\ view' = [view EXCEPT !.filled = TRUE, !.sends = 0, !.errors = 0]
  /\ UNCHANGED <<session, refresh, fetches>>

Close ==
  /\ OnForm(FormPages) /\ view.open
  /\ view' = [IF OnForm({"templates", "outreach"}) THEN Blanked(view) ELSE view
                EXCEPT !.open = FALSE]
  /\ UNCHANGED <<session, refresh, fetches>>

(* Only the clients' button is disabled while its call is under way; the    *)
(* presses of the others are not counted.  Bound: one press more than       *)
(* failures can explain.                                                    *)
SaveForm ==
  /\ OnForm(FormPages) /\ view.open
  /\ view.filled \/ view.how = "outreach"
  /\ IF OnForm({"clients"})
     THEN /\ view.busy = {} /\ view.sends <= MaxFailures + 1
          /\ view' = [view EXCEPT !.busy = {"create"}, !.sends = @ + 1]
     ELSE Free /\ UNCHANGED view
  /\ Request({IF view.editing = NoKey THEN Call("create", NoKey)
              ELSE Call("update", view.editing)})
  /\ UNCHANGED session

(* The confirmations of the outreach page.                                  *)
Ask ==
  /\ OnForm({"outreach"}) /\ Items
  /\ \E op \in {"remove", "convert"} : view' = [view EXCEPT !.asked = op]
  /\ UNCHANGED <<session, refresh, fetches>>

Decline ==
  /\ OnForm({"outreach"}) /\ view.asked # "nothing"
  /\ view' = [view EXCEPT !.asked = "nothing"]
  /\ UNCHANGED <<session, refresh, fetches>>

Confirm ==
  /\ OnForm({"outreach"}) /\ view.asked # "nothing" /\ Free
  /\ Request({Call(view.asked, NoKey)})
  /\ UNCHANGED <<session, view>>

(* What the items offer at once.                                            *)
ActOnItem ==
  /\ OnForm({"templates", "outreach", "campaigns"}) /\ Items /\ Free
  /\ Request({Call(CASE view.how = "templates" -> "remove"
                     [] view.how = "outreach" -> "status"
                     [] view.how = "campaigns" -> "toggle", NoKey)})
  /\ UNCHANGED <<session, view>>

(* Retry, a filter, a search, another page of the list.                     *)
RelistForm ==
  /\ \/ OnForm({"templates", "campaigns"}) /\ view.failed
     \/ OnForm({"outreach", "clients"})
  /\ ~Covered /\ Free
  /\ view' = [view EXCEPT !.failed = FALSE, !.loading = @ \/ view.how = "clients"]
  /\ Request({Reread})
  /\ UNCHANGED session

-----------------------------------------------------------------------------
Listing(v) == [v EXCEPT !.failed = FALSE, !.loading = @ \/ view.how = "clients"]

AfterSave(op) ==
  IF op \in {"create", "update"} THEN [Blanked(view) EXCEPT !.open = FALSE, !.busy = {}]
  ELSE IF op \in {"remove", "convert"} THEN [view EXCEPT !.asked = "nothing"]
  ELSE view

FormAnswer(f) ==
  /\ view.kind = "form" /\ f.at = "sent"
  /\ IF f.op = "list"
     THEN /\ \E found \in BOOLEAN :
               view' = [view EXCEPT !.listed = found, !.loading = FALSE]
          /\ Answered(f) /\ UNCHANGED refresh
     ELSE /\ f.op \in {"create", "update", "remove", "convert", "status", "toggle"}
          /\ view' = Listing(AfterSave(f.op))
          /\ RequestAlong(fetches \ {f}, {Reread})
  /\ UNCHANGED session

FormFailed(f) ==
  CASE f.op = "list" -> [view EXCEPT !.loading = FALSE, !.failed = TRUE]
    [] f.op = "create" /\ view.how = "clients" ->
         [view EXCEPT !.busy = {}, !.errors = IF view.sends > 0 THEN @ + 1 ELSE @]
    [] OTHER -> view

UserFormStep ==
  \/ \E k \in Keys : OpenEdit(k)
  \/ OpenNew \/ OpenEmpty \/ Fill \/ Close \/ SaveForm
  \/ Ask \/ Decline \/ Confirm \/ ActOnItem \/ RelistForm

=============================================================================
