------------------------------ MODULE Threads ------------------------------
(***************************************************************************)
(* The pages with a list and a thread beside it: the client's              *)
(* conversations with leads, the admin's inbox, the prospects of the sales *)
(* engine.  What is selected and whose thread is shown are two pieces of   *)
(* state, and the controls over the thread act on the first.               *)
(***************************************************************************)
EXTENDS Views

Panes == {"conversations", "inbox", "prospects"}

PanesOf(page) ==
  CASE page = "conversations" -> {"conversations"}
    [] page = "inbox" -> {"inbox"}
    [] page = "sales-engine" -> {"prospects"}
    [] OTHER -> {}

(* sel: the one selected; shown: whose messages are in the pane; header:    *)
(* whose details are above them.  History: crossed, another thread or a     *)
(* status change was under way when this one was selected; sends and errors,  *)
(* of the text in the reply box.                                          *)
Pane(how, k) ==
  [kind |-> "pane", how |-> how, listing |-> TRUE, listed |-> FALSE, failed |-> FALSE,
   sel |-> k, shown |-> NoKey, header |-> NoKey, loading |-> FALSE, busy |-> {},
   crossed |-> FALSE, draft |-> FALSE, sends |-> 0, errors |-> 0, failures |-> 0]

Showing(how) == view.kind = "pane" /\ view.how = how

PaneTypeOK ==
  view.kind = "pane" =>
    /\ view.how \in Panes /\ view.busy \subseteq {"reply"}
    /\ {view.sel, view.shown, view.header} \subseteq Keys \union {NoKey}
    /\ {view.listing, view.listed, view.failed, view.loading, view.crossed, view.draft}
         \subseteq BOOLEAN
    /\ view.sends \in 0..(MaxFailures + 2) /\ view.errors \in 0..(MaxFailures + 2)

List == Call("list", NoKey)
Threads(keys) == {Call("thread", k) : k \in keys}

ThreadUnderWay == \E f \in fetches : f.op \in {"thread", "status"}

-----------------------------------------------------------------------------
(* A conversation's address names its lead.                                 *)
MountPane(how) ==
  \E k \in IF how = "conversations" THEN Keys \union {NoKey} ELSE {NoKey} :
    /\ view' = Pane(how, k)
    /\ Request({List} \union Threads({k} \ {NoKey}))

(* Wrong: the old thread stays while the new one is fetched.                *)
SelectThreadQuietly(k) ==
  /\ view.kind = "pane" /\ view.listed
  /\ view.how = "conversations" => k # view.sel
  /\ view.how = "inbox" => ~view.listing
  /\ Free
  /\ view' = [view EXCEPT !.sel = k, !.crossed = ThreadUnderWay]
  /\ Request(Threads({k}))
  /\ UNCHANGED session

SelectThread(k) ==
  /\ view.kind = "pane" /\ view.listed
  /\ view.how = "conversations" => k # view.sel
  /\ view.how = "inbox" => ~view.listing
  /\ Free
  /\ view' = [view EXCEPT !.sel = k, !.loading = Showing("inbox"),
                          !.crossed = ThreadUnderWay]
  /\ Request(Threads({k}))
  /\ UNCHANGED session

(* Back, and the panel's cross.  The reply box goes; its call does not.     *)
Deselect ==
  /\ \/ Showing("conversations") /\ view.header # NoKey
     \/ Showing("prospects")
  /\ view.sel # NoKey
  /\ view' = [view EXCEPT !.sel = NoKey, !.draft = FALSE, !.busy = {}]
  /\ fetches' = {IF f.op = "reply" THEN [f EXCEPT !.op = "old reply"] ELSE f : f \in fetches}
  /\ UNCHANGED <<session, refresh>>

PollThread ==
  /\ Showing("conversations") /\ view.sel # NoKey /\ ~Under("thread", view.sel)
  /\ Request(Threads({view.sel}))

(* The inbox lists again for a filter, which also deselects, for a campaign *)
(* or a page, and for Retry.                                                *)
Relist(v) == [v EXCEPT !.listing = TRUE, !.failed = FALSE]

FilterInbox ==
  /\ Showing("inbox") /\ Free
  /\ view' = [Relist(view) EXCEPT !.sel = NoKey, !.shown = NoKey]
  /\ Request({List})
  /\ UNCHANGED session

RelistInbox ==
  /\ Showing("inbox") /\ Free
  /\ view' = Relist(view)
  /\ Request({List})
  /\ UNCHANGED session

(* ThreadHeader and the panel of the prospect: status, blacklist, delete.   *)
Offered(v) ==
  v.sel # NoKey /\ (v.how = "inbox" => ~v.loading /\ v.shown # NoKey)

ActOn(op) ==
  /\ view.kind = "pane"
  /\ op \in CASE view.how = "inbox" -> {"status", "blacklist"}
              [] view.how = "prospects" -> {"remove", "blacklist"}
              [] OTHER -> {}
  /\ Offered(view) /\ Free
  /\ Request({Call(op, view.sel)})
  /\ UNCHANGED <<session, view>>

TypeReply ==
  /\ Showing("conversations") /\ view.sel # NoKey /\ ~view.draft
  /\ view' = [view EXCEPT !.draft = TRUE, !.sends = 0, !.errors = 0]
  /\ UNCHANGED <<session, refresh, fetches>>

(* Wrong: the button is not disabled while a reply is being sent.           *)
SendReplyAgain ==
  /\ Showing("conversations") /\ view.sel # NoKey
  /\ view.draft /\ view.sends <= MaxFailures + 1
  /\ view' = [view EXCEPT !.busy = {"reply"}, !.sends = @ + 1]
  /\ Request({Call("reply", view.sel)})
  /\ UNCHANGED session

(* Bound: one press more than failures can explain.                         *)
SendReply ==
  /\ Showing("conversations") /\ view.sel # NoKey
  /\ view.draft /\ view.busy = {} /\ view.sends <= MaxFailures + 1
  /\ view' = [view EXCEPT !.busy = {"reply"}, !.sends = @ + 1]
  /\ Request({Call("reply", view.sel)})
  /\ UNCHANGED session

-----------------------------------------------------------------------------
(* The answers.  No thread is compared with what is selected by now; a      *)
(* reply is followed by the messages of the lead it was sent to.            *)
AfterThread(k) ==
  [view EXCEPT !.shown = k, !.loading = FALSE,
               !.header = IF Showing("conversations") THEN k ELSE @]

AfterStatus(k) ==
  [Relist(view) EXCEPT !.loading = TRUE,
     !.crossed = @ \/ view.sel # k \/ \E f \in fetches : f.op = "thread"]

AfterRemoval ==
  IF Showing("inbox") THEN [Relist(view) EXCEPT !.sel = NoKey, !.shown = NoKey]
  ELSE [view EXCEPT !.sel = NoKey]

AfterReply(op) ==
  IF op = "reply" THEN [view EXCEPT !.draft = FALSE, !.busy = {}] ELSE view

PaneAnswer(f) ==
  /\ view.kind = "pane" /\ f.at = "sent"
  /\ \/ /\ f.op = "list"
        /\ view' = [view EXCEPT !.listed = TRUE, !.listing = FALSE, !.failed = FALSE]
        /\ Answered(f) /\ UNCHANGED refresh
     \/ f.op = "thread" /\ view' = AfterThread(f.tag) /\ Answered(f) /\ UNCHANGED refresh
     \/ /\ f.op = "reread"
        /\ view' = [view EXCEPT !.shown = f.tag]
        /\ Answered(f) /\ UNCHANGED refresh
     \/ /\ f.op = "status"
        /\ view' = AfterStatus(f.tag)
        /\ RequestAlong(fetches \ {f}, {List} \union Threads({f.tag}))
     \/ /\ f.op \in {"blacklist", "remove"}
        /\ view' = AfterRemoval
        /\ RequestAlong(fetches \ {f}, {List})
     \/ /\ f.op \in {"reply", "old reply"}
        /\ view' = AfterReply(f.op)
        /\ RequestAlong(fetches \ {f}, {Call("reread", f.tag)})
  /\ UNCHANGED session

PaneFailed(f) ==
  CASE f.op = "list" ->
         [view EXCEPT !.listing = FALSE, !.failed = TRUE,
                      !.listed = IF Showing("inbox") THEN FALSE ELSE @]
    [] f.op = "thread" ->
         [view EXCEPT !.shown = IF Showing("inbox") THEN NoKey ELSE @, !.loading = FALSE]
    [] f.op = "reply" -> [view EXCEPT !.busy = {}, !.errors = @ + 1]
    [] OTHER -> view

UserPaneStep ==
  \/ \E k \in Keys : SelectThread(k)
  \/ Deselect \/ FilterInbox \/ RelistInbox \/ TypeReply \/ SendReply
  \/ \E op \in {"status", "blacklist", "remove"} : ActOn(op)

-----------------------------------------------------------------------------
(* What the inbox offers to change is the prospect whose thread it shows.   *)
(* The page compares no answer with the selection, so this excuses one      *)
(* selected, or given a new status, while another thread or status change   *)
(* was under way: a late answer shows another thread then.                  *)
InboxActsOnWhatIsShown ==
  Showing("inbox") /\ Offered(view) /\ ~view.crossed => view.shown = view.sel
=============================================================================
