----------------------------- MODULE ApiClient -----------------------------
(***************************************************************************)
(* api/client.js and AuthContext: every page's calls share one token in    *)
(* localStorage.  A call first refreshes a token that is close to its end, *)
(* or waits for the refresh under way; it is then sent with the token it   *)
(* finds, given up after ten seconds, and a 401 signs the browser out.     *)
(***************************************************************************)
EXTENDS App

VARIABLES
  session,  \* the token, the is_admin flag, the snapshot of the loaded page
  refresh,  \* the shared refresh: idle, or what the server will say of it
  fetches   \* calls of the mounted page

apiVars == <<session, refresh, fetches>>

(* TOKEN_REFRESH_BUFFER_MS: an ageing token is in its last hour.  The API   *)
(* refreshes an expired token for seven days; then it is dead.              *)
Ages == <<"fresh", "ageing", "expired", "dead">>
Tokens == {Ages[i] : i \in 1..4} \union {"none"}

Sessions ==
  [user : {"admin", "client"},   \* whose account it is
   token : Tokens, admin : BOOLEAN,
   role : Roles,                 \* what the loaded application believes
   gone : BOOLEAN,               \* location.href is set, the page not yet unloaded
   refused : BOOLEAN]            \* history: a refresh got no token

Refreshes == {"idle", "good", "bad"}

(* The calls.  A call is answered once its answer is on the way; "gone":    *)
(* nobody waits for it any more; "late save": so, but it still changes what *)
(* it saves; "old reply": the box it was typed in is gone.                  *)
Ops ==
  {"get", "list", "thread", "reread", "reply", "old reply", "status", "blacklist",
   "remove", "load", "save", "update", "late save", "toggle", "assign", "scrape",
   "delete", "create", "convert", "search", "buy", "test", "connect", "submit",
   "billing", "checkout", "portal", "gone"}

FetchAt == {"refreshing", "sent", "answered", "unauthorized"}

Call(op, tag) == [op |-> op, tag |-> tag, at |-> "refreshing"]

Role(s) ==
  IF s.token = "none" THEN "nobody" ELSE IF s.admin THEN "admin" ELSE "client"

SignedIn(user) ==
  [user |-> user, token |-> "fresh", admin |-> user = "admin", role |-> user,
   gone |-> FALSE, refused |-> FALSE]

-----------------------------------------------------------------------------
Accepted == session.token \in {"fresh", "ageing"}
SentAs == IF Accepted THEN "sent" ELSE "unauthorized"

NeedsRefresh == session.token \in {"ageing", "expired", "dead"}

(* Wrong: only the call that starts the refresh waits for it.               *)
RequestOldToken(others, calls) ==
  IF NeedsRefresh /\ refresh = "idle" /\ calls # {}
  THEN /\ refresh' = IF session.token = "dead" THEN "bad" ELSE "good"
       /\ fetches' = others \union calls
  ELSE /\ fetches' = others \union {[c EXCEPT !.at = SentAs] : c \in calls}
       /\ UNCHANGED refresh

(* request(path): maybeRefreshToken, then fetch; others are under way.      *)
RequestAlong(others, calls) ==
  IF NeedsRefresh /\ calls # {}
  THEN /\ refresh' = IF refresh # "idle" THEN refresh
                     ELSE IF session.token = "dead" THEN "bad" ELSE "good"
       /\ fetches' = others \union calls
  ELSE /\ fetches' = others \union {[c EXCEPT !.at = SentAs] : c \in calls}
       /\ UNCHANGED refresh

Request(calls) == RequestAlong(fetches, calls)

(* fetch itself, as the sections of the Settings page use it.               *)
RequestRaw(op, tag) ==
  /\ fetches' = fetches \union {[Call(op, tag) EXCEPT !.at = "sent"]}
  /\ UNCHANGED refresh

(* The refresh is answered, refused or lost.  Its token is stored whatever  *)
(* has happened to the session meanwhile; the calls that waited are sent    *)
(* (and forgotten here, if nobody waits for them and they are not refused). *)
RefreshEnds(granted) ==
  /\ refresh # "idle"
  /\ granted => refresh = "good"
  /\ refresh' = "idle"
  /\ session' = [session EXCEPT !.token = IF granted THEN "fresh" ELSE @,
                                !.refused = @ \/ ~granted]
  /\ LET at == IF granted \/ Accepted THEN "sent" ELSE "unauthorized"
         sent == {[f EXCEPT !.at = at] : f \in {g \in fetches : g.at = "refreshing"}}
     IN fetches' = {f \in fetches : f.at # "refreshing"}
                     \union {f \in sent : f.op # "gone" \/ at = "unauthorized"}

(* clearSession: the keys are removed, the browser leaves.                  *)
Cleared(s) == [s EXCEPT !.token = "none", !.admin = FALSE, !.gone = TRUE]

(* An answer other than 401: the page's handler runs.                       *)
Answered(f) == fetches' = fetches \ {f}

Unauthorized(f) ==
  /\ f.at = "unauthorized"
  /\ Answered(f)
  /\ session' = Cleared(session)
  /\ UNCHANGED refresh

(* logout of AuthContext also takes the snapshot back: the page unmounts.   *)
LogOut ==
  /\ session.role # "nobody" /\ ~session.gone
  /\ session' = [Cleared(session) EXCEPT !.role = "nobody"]

(* The login page is loaded: calls and the refresh under way are gone, and  *)
(* AuthContext reads localStorage once.                                     *)
Unload ==
  /\ session.gone
  /\ session' = [session EXCEPT !.gone = FALSE, !.role = Role(session), !.refused = FALSE]
  /\ refresh' = "idle"
  /\ fetches' = {}

LogIn ==
  /\ session.role = "nobody" /\ ~session.gone
  /\ session' = SignedIn(session.user)
  /\ UNCHANGED <<refresh, fetches>>

(* Bound: the token grows older only while nothing is under way.            *)
TokenAges ==
  /\ refresh = "idle" /\ fetches = {} /\ ~session.gone
  /\ \E i \in 1..3 :
       session.token = Ages[i] /\ session' = [session EXCEPT !.token = Ages[i + 1]]
  /\ UNCHANGED <<refresh, fetches>>

-----------------------------------------------------------------------------
(* A call is answered 401, and the browser signed out, only if the refresh  *)
(* failed or the user was leaving anyway: pages that call at the same time  *)
(* as the refresh wait for it instead of sending the old token.             *)
NoNeedlessSignOut ==
  (\E f \in fetches : f.at = "unauthorized") =>
    session.refused \/ session.gone \/ session.token = "none"
=============================================================================
