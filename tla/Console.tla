------------------------------- MODULE Console -------------------------------
(***************************************************************************)
(* The dashboard of a signed-in client or admin: the router mounts one     *)
(* page at a time, a page's tabs, panels and sections are components of    *)
(* their own, and all of them call the API through one client.             *)
(***************************************************************************)
EXTENDS Threads, Documents, Forms, Sections

VARIABLE page  \* the page the router shows

consoleVars == <<viewVars, page>>

ConsoleTypeOK ==
  /\ session \in Sessions /\ refresh \in Refreshes
  /\ \A f \in fetches : f.op \in Ops /\ f.at \in FetchAt
  /\ page \in PublicPages \union AdminPages \union ClientPages
  /\ view.failures \in 0..MaxFailures
  /\ ViewTypeOK /\ PaneTypeOK /\ DocumentTypeOK /\ FormTypeOK /\ SectionTypeOK

ConsoleInit ==
  /\ \E user \in {"admin", "client"} :
       /\ session = SignedIn(user)
       /\ page = Shows(user, FALSE, "dashboard")
  /\ refresh = "idle"
  /\ fetches = {}
  /\ view = Nothing

-----------------------------------------------------------------------------
(* What the page shows of its components; and another one of them.  Bound:  *)
(* late saves are over before a component of another kind is mounted; those *)
(* that do not look at the session are mounted with a fresh one.            *)
Open ==
  /\ view = Nothing /\ ~session.gone
  /\ \/ \E how \in DocumentsOf(page) :
          LateSavesOf({how}) /\ MountDocument(how)
     \/ /\ LateSavesOf({})
        /\ \/ \E how \in ViewsOf(page) : MountView(how)
           \/ \E how \in PanesOf(page) : MountPane(how)
           \/ \E how \in FormsOf(page) : MountForm(how)
           \/ /\ session.token = "fresh" /\ fetches = {}
              /\ \E how \in SectionsOf(page) : MountSection(how)
  /\ UNCHANGED <<session, page>>

SwitchTab ==
  /\ view # Nothing
  /\ LeaveView
  /\ UNCHANGED <<session, page>>

Navigate ==
  /\ session.role # "nobody"
  /\ \E p \in IF session.role = "admin" THEN AdminPages ELSE ClientPages :
       p # page /\ page' = p
  /\ LeaveView
  /\ UNCHANGED session

SignOut ==
  /\ LogOut
  /\ LeaveView
  /\ page' = Shows("nobody", FALSE, page)

Reloaded ==
  /\ Unload
  /\ page' = Shows(session'.role, FALSE, "login")
  /\ view' = Nothing

SignIn ==
  /\ LogIn
  /\ page' = Shows(session'.role, FALSE, "dashboard")
  /\ UNCHANGED view

(* Bound: and nothing is mounted.                                           *)
Age == view = Nothing /\ TokenAges /\ UNCHANGED <<view, page>>

-----------------------------------------------------------------------------
(* A call is answered (the page's handler runs), is served, is lost or runs *)
(* into its time limit, or is refused.                                      *)
Failed(f) ==
  IF f.op \in {"gone", "late save"} THEN view
  ELSE CASE view.kind = "view" -> ViewFailed(f)
         [] view.kind = "pane" -> PaneFailed(f)
         [] view.kind = "document" -> DocumentFailed(f)
         [] view.kind = "form" -> FormFailed(f)
         [] view.kind = "section" -> SectionFailed(f)
         [] OTHER -> view

FetchFails(f) ==
  /\ f.at \in {"sent", "answered"}
  /\ view.failures < MaxFailures
  /\ Answered(f)
  /\ view' = [Failed(f) EXCEPT !.failures = @ + 1]
  /\ UNCHANGED <<session, refresh>>

FetchUnauthorized(f) ==
  /\ Unauthorized(f)
  /\ view' = Failed(f)

FetchEnds(f) ==
  \/ FetchAnswer(f) \/ PaneAnswer(f) \/ DocumentAnswer(f) \/ FormAnswer(f) \/ SectionAnswer(f)
  \/ ServeDocument(f) \/ ServeSection(f)
  \/ FetchFails(f) \/ FetchUnauthorized(f)

CampaignDeleted(f) == DeleteAnswer(f) /\ page' = "campaigns"

Poll ==
  /\ PollView \/ PollThread
  /\ UNCHANGED <<session, view, page>>

RefreshStep ==
  /\ \E granted \in BOOLEAN : RefreshEnds(granted)
  /\ UNCHANGED <<view, page>>

(* Bound: nothing is clicked while the browser leaves.                      *)
UserStep ==
  /\ ~session.gone
  /\ UserViewStep \/ UserPaneStep \/ UserDocumentStep \/ UserFormStep \/ UserSectionStep
  /\ UNCHANGED page

ConsoleNext ==
  \/ UserStep \/ Poll \/ RefreshStep
  \/ \E f \in fetches : (FetchEnds(f) /\ UNCHANGED page) \/ CampaignDeleted(f)
  \/ Open \/ SwitchTab \/ Navigate \/ SignOut \/ Reloaded \/ SignIn \/ Age

(* A flag in the page holds a call; two calls that one flag keeps apart are *)
(* in one lane, as are the reads of one key.                                *)
Lane(f) ==
  CASE f.op \in {"get", "thread", "reread"} -> f.tag
    [] f.op \in {"load", "save"} -> f.tag.for
    [] f.op \in {"reply", "create", "search", "test", "submit", "checkout"} -> "save"
    [] f.op \in {"scrape", "buy", "connect", "portal"} -> "scrape"
    [] f.op \in {"billing", "list"} -> "page"
    [] OTHER -> "none"

Lanes == Keys \union {"save", "scrape", "page"}

(* Timers fire; calls end: they are given up after ten seconds, and those   *)
(* made with fetch itself when the browser gives up; a browser that is told *)
(* to leave a page leaves it.                                               *)
ConsoleFairness ==
  /\ WF_consoleVars(Poll)
  /\ WF_consoleVars(RefreshStep)
  /\ WF_consoleVars(Reloaded)
  /\ \A l \in Lanes :
       WF_consoleVars(\E f \in fetches : Lane(f) = l /\ FetchEnds(f) /\ UNCHANGED page)

ConsoleSpec == ConsoleInit /\ [][ConsoleNext]_consoleVars /\ ConsoleFairness

-----------------------------------------------------------------------------
Polling(k) ==
  \/ IsView /\ view.how.polls /\ view.key = k
  \/ Showing("conversations") /\ view.sel = k

(* A page that polls comes to show what is selected on it, through lost     *)
(* calls, late answers, a token that ends and other selections in between.  *)
PagesCatchUp == \A k \in Keys : []<>(Polling(k) => view.shown = k)

(* A skeleton that stands for data whose only call has failed: the two      *)
(* views with no loading flag keep theirs until the user leaves.            *)
Endless == IsView /\ view.how.awaits /\ view.failed

Spinning == view.busy \union (IF view.loading /\ ~Endless THEN {"loading"} ELSE {})

Flags ==
  {"loading", "reply", "create", "save", "scrape", "search", "buy", "test", "connect",
   "submit", "checkout", "portal"}

(* No button stays disabled, and no skeleton on the screen, for good: every *)
(* path of every handler puts its flag back.  Not the skeletons that have   *)
(* no flag: the campaign's analytics and the worker status (Endless).       *)
SpinnersStop == \A flag \in Flags : []<>(flag \notin Spinning)

(* What is sent once is not sent again unless it came back with an error:   *)
(* a reply, a new client, a bought number, a registration.                  *)
SubmissionsAreNotRepeated ==
  (Showing("conversations") \/ OnForm({"clients"}) \/ At("phone") \/ At("registration"))
  => view.sends <= 1 + view.errors
=============================================================================
