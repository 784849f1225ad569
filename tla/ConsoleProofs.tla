---------------------------- MODULE ConsoleProofs ----------------------------
(***************************************************************************)
(* Proofs about Console, for any number of selections, failures and calls  *)
(* under way: when the browser is signed out, what is on the screen under  *)
(* a selection, what the controls act on, and what is sent twice.          *)
(***************************************************************************)
EXTENDS Console, TLAPS

(* What later steps look at of the mounted component, and of a call.        *)
FieldsOf(v) ==
  CASE v.kind = "view" -> {"how", "key", "shown", "loading", "failed"}
    [] v.kind = "pane" -> {"how", "sel", "shown", "loading", "busy", "crossed", "draft",
                           "sends", "errors"}
    [] v.kind = "document" -> {"how"}
    [] v.kind = "form" -> {"how", "open", "editing", "about", "asked", "busy", "sends",
                           "errors"}
    [] v.kind = "section" /\ v.how = "phone" -> {"how", "known", "busy", "sends", "errors"}
    [] v.kind = "section" /\ v.how = "registration" ->
         {"how", "typed", "busy", "sends", "errors"}
    [] v.kind = "section" /\ v.how = "crm" ->
         {"how", "crmType", "apiKey", "connected", "busy", "proved", "excused"}
    [] v.kind = "section" /\ v.how \notin {"phone", "registration", "crm"} -> {"how"}
    [] OTHER -> {}

HasFields(v) == "kind" \in DOMAIN v /\ FieldsOf(v) \subseteq DOMAIN v

IsCall(f) == {"op", "tag", "at"} \subseteq DOMAIN f

(* The calls of a mounted component; those that outlive theirs.             *)
OpsOf(kind) ==
  CASE kind = "view" -> {"get"}
    [] kind = "pane" -> {"list", "thread", "reread", "reply", "old reply", "status",
                         "blacklist", "remove"}
    [] kind = "document" -> {"load", "save", "toggle", "assign", "scrape", "delete"}
    [] kind = "form" -> {"list", "create", "update", "remove", "convert", "status", "toggle"}
    [] kind = "section" -> {"search", "buy", "test", "connect", "submit", "billing",
                            "checkout", "portal"}
    [] OTHER -> {}

Outliving == {"gone", "late save"}
OutlivingOf(kind) == IF kind \in {"nothing", "document"} THEN Outliving ELSE {"gone"}

ComponentOK ==
  /\ HasFields(view)
  /\ \A f \in fetches : IsCall(f) /\ f.op \in OpsOf(view.kind) \cup OutlivingOf(view.kind)

(* Nobody is signed in: nothing is mounted and nothing is under way.  And   *)
(* as long as the browser stays, only a refused refresh has sent a call     *)
(* with a token that is no good.                                            *)
SessionSafe ==
  /\ session \in Sessions /\ refresh \in Refreshes
  /\ ~session.gone /\ session.token = "none" => session.role = "nobody"
  /\ session.role = "nobody" => view.kind = "nothing" /\ page \in PublicPages
  /\ session.role = "nobody" /\ ~session.gone => fetches = {} /\ refresh = "idle"
  /\ ~session.gone => \A f \in fetches : f.at = "unauthorized" => session.refused

-----------------------------------------------------------------------------
(* The session.                                                             *)

(* A component of a signed-in user did something.                           *)
ComponentStep ==
  /\ UNCHANGED <<session, page>>
  /\ refresh' \in Refreshes
  /\ view.kind # "nothing" /\ view'.kind = view.kind /\ HasFields(view')
  /\ \A g \in fetches' :
       /\ IsCall(g) /\ g.op \in OpsOf(view.kind) \cup OutlivingOf(view.kind)
       /\ g.at = "unauthorized" =>
            session.token = "none" \/ \E f \in fetches : f.at = "unauthorized"

LEMMA ComponentStepOK ==
  ASSUME SessionSafe, ComponentStep
  PROVE  SessionSafe' /\ ComponentOK'
BY DEF SessionSafe, ComponentOK, ComponentStep

LEMMA SameFields ==
  ASSUME NEW v, NEW w, HasFields(v), DOMAIN w = DOMAIN v, w.kind = v.kind,
         v.kind = "section" => w.how = v.how
  PROVE  HasFields(w)
BY DEF HasFields, FieldsOf

(* What request makes of a set of calls.                                    *)
LEMMA RequestFacts ==
  ASSUME SessionSafe, NEW others, NEW cs, \A c \in cs : IsCall(c) /\ c.at = "refreshing",
         RequestAlong(others, cs)
  PROVE  /\ refresh' \in Refreshes
         /\ others \subseteq fetches'
         /\ \A g \in fetches' : g \in others \/
              /\ IsCall(g) /\ (g.at = "unauthorized" => session.token = "none")
              /\ \E c \in cs : g.op = c.op /\ g.tag = c.tag
         /\ \A c \in cs : \E g \in fetches' : g.op = c.op /\ g.tag = c.tag
<1>1. refresh' \in Refreshes
  BY DEF SessionSafe, RequestAlong, Refreshes
<1>2. CASE NeedsRefresh /\ cs # {}
  BY <1>1, <1>2 DEF RequestAlong
<1>3. CASE ~(NeedsRefresh /\ cs # {})
  <2>1. fetches' = others \cup {[c EXCEPT !.at = SentAs] : c \in cs}
    BY <1>3 DEF RequestAlong
  <2>2. \A c \in cs : LET g == [c EXCEPT !.at = SentAs]
                      IN IsCall(g) /\ g.op = c.op /\ g.tag = c.tag /\ g.at = SentAs
    BY DEF IsCall
  <2>3. CASE cs = {}
    BY <1>1, <2>1, <2>3
  <2>4. CASE cs # {}
    <3>1. SentAs = "unauthorized" => session.token = "none"
      BY <1>3, <2>4 DEF NeedsRefresh, SentAs, Accepted, SessionSafe, Sessions, Tokens, Ages
    <3> QED
      BY <1>1, <2>1, <2>2, <3>1
  <2> QED
    BY <2>3, <2>4
<1> QED
  BY <1>2, <1>3

LEMMA CallFacts ==
  ASSUME NEW op, NEW tag
  PROVE  /\ IsCall(Call(op, tag)) /\ Call(op, tag).op = op /\ Call(op, tag).tag = tag
         /\ Call(op, tag).at = "refreshing"
BY DEF Call, IsCall

(* One call.                                                                *)
LEMMA RequestOne ==
  ASSUME SessionSafe, NEW others, NEW op, NEW tag, RequestAlong(others, {Call(op, tag)})
  PROVE  \E g : /\ fetches' = others \cup {g}
                /\ IsCall(g) /\ g.op = op /\ g.tag = tag
                /\ g.at = "unauthorized" => session.token = "none"
<1> DEFINE c == Call(op, tag)
<1>1. IsCall(c) /\ c.op = op /\ c.tag = tag /\ c.at = "refreshing"
  BY CallFacts
<1>2. CASE NeedsRefresh
  <2>1. fetches' = others \cup {c}
    BY <1>2 DEF RequestAlong
  <2> QED
    BY <1>1, <2>1
<1>3. CASE ~NeedsRefresh
  <2> DEFINE g == [c EXCEPT !.at = SentAs]
  <2>1. fetches' = others \cup {g}
    BY <1>3 DEF RequestAlong
  <2>2. IsCall(g) /\ g.op = op /\ g.tag = tag /\ g.at = SentAs
    BY <1>1 DEF IsCall
  <2>3. SentAs = "unauthorized" => session.token = "none"
    BY <1>3 DEF NeedsRefresh, SentAs, Accepted, SessionSafe, Sessions, Tokens, Ages
  <2> QED
    BY <2>1, <2>2, <2>3
<1> QED
  BY <1>2, <1>3

-----------------------------------------------------------------------------
(* A component is left, and the browser goes elsewhere.                     *)
LEMMA LeavingFacts ==
  ASSUME \A f \in fetches : IsCall(f)
  PROVE  \A g \in Leaving : /\ IsCall(g) /\ g.op \in Outliving
                            /\ \E f \in fetches : g.at = f.at
BY DEF Leaving, Left, IsCall, Outliving

LEMMA NothingIsOK == HasFields(Nothing) /\ Nothing.kind = "nothing"
BY DEF Nothing, HasFields, FieldsOf

LEMMA LeaveOK ==
  ASSUME SessionSafe, ComponentOK, LeaveView, UNCHANGED session,
         session.role = "nobody" => page' = page
  PROVE  SessionSafe' /\ ComponentOK'
<1>1. view' = Nothing /\ fetches' = Leaving /\ refresh' = refresh
  BY DEF LeaveView
<1>2. \A g \in fetches' : /\ IsCall(g) /\ g.op \in Outliving
                          /\ \E f \in fetches : g.at = f.at
  BY <1>1, LeavingFacts DEF ComponentOK
<1>3. ComponentOK'
  BY <1>1, <1>2, NothingIsOK DEF ComponentOK, OutlivingOf
<1> QED
  BY <1>1, <1>2, <1>3, NothingIsOK DEF SessionSafe

LEMMA PublicIsEmpty ==
  ASSUME NEW p \in PublicPages
  PROVE  ViewsOf(p) = {} /\ PanesOf(p) = {} /\ DocumentsOf(p) = {} /\ FormsOf(p) = {}
           /\ SectionsOf(p) = {}
BY DEF PublicPages, StaticPages, ViewsOf, PanesOf, DocumentsOf, FormsOf, FormPages, SectionsOf

LEMMA SignedOutPage ==
  ASSUME NEW asked
  PROVE  Shows("nobody", FALSE, asked) \in PublicPages
BY DEF Shows, SignedOutShows, Routed, PublicPages

LEMMA SessionFields ==
  ASSUME NEW s \in Sessions
  PROVE  /\ s = [user |-> s.user, token |-> s.token, admin |-> s.admin, role |-> s.role,
                 gone |-> s.gone, refused |-> s.refused]
         /\ s.token \in Tokens /\ s.role \in Roles /\ s.gone \in BOOLEAN
         /\ s.refused \in BOOLEAN /\ s.admin \in BOOLEAN /\ s.user \in {"admin", "client"}
BY DEF Sessions

LEMMA SignOutOK ==
  ASSUME SessionSafe, ComponentOK, SignOut
  PROVE  SessionSafe' /\ ComponentOK'
<1>1. session \in Sessions
  BY DEF SessionSafe
<1>2. session' = [Cleared(session) EXCEPT !.role = "nobody"]
  BY DEF SignOut, LogOut
<1>3. session' \in Sessions /\ session'.gone
  BY <1>1, <1>2 DEF Cleared, Sessions, Tokens, Roles
<1>4. view' = Nothing /\ fetches' = Leaving /\ refresh' = refresh
  BY DEF SignOut, LeaveView
<1>5. ComponentOK'
  BY <1>4, LeavingFacts, NothingIsOK DEF ComponentOK, OutlivingOf
<1>6. page' \in PublicPages
  BY SignedOutPage DEF SignOut
<1> QED
  BY <1>3, <1>4, <1>5, <1>6, NothingIsOK DEF SessionSafe

LEMMA ReloadedOK ==
  ASSUME SessionSafe, Reloaded
  PROVE  SessionSafe' /\ ComponentOK'
<1>1. session \in Sessions
  BY DEF SessionSafe
<1>2. /\ session' = [session EXCEPT !.gone = FALSE, !.role = Role(session), !.refused = FALSE]
      /\ refresh' = "idle" /\ fetches' = {} /\ view' = Nothing
      /\ page' = Shows(session'.role, FALSE, "login")
  BY DEF Reloaded, Unload
<1>3. /\ session' \in Sessions /\ session'.role = Role(session) /\ session'.token = session.token
      /\ Role(session) = "nobody" <=> session.token = "none"
  <2>1. Role(session) \in Roles /\ (Role(session) = "nobody" <=> session.token = "none")
    <3>1. session.admin \in BOOLEAN
      BY <1>1 DEF Sessions
    <3>2. CASE session.token = "none"
      BY <3>2 DEF Role, Roles
    <3>3. CASE session.token # "none" /\ session.admin
      BY <3>3 DEF Role, Roles
    <3>4. CASE session.token # "none" /\ ~session.admin
      BY <3>4 DEF Role, Roles
    <3> QED
      BY <3>1, <3>2, <3>3, <3>4
  <2> QED
    BY <1>1, <1>2, <2>1 DEF Sessions
<1>4. ComponentOK'
  BY <1>2, NothingIsOK DEF ComponentOK
<1>5. Shows("nobody", FALSE, "login") \in PublicPages
  BY SignedOutPage
<1> QED
  BY <1>2, <1>3, <1>4, <1>5, NothingIsOK DEF SessionSafe, Refreshes

LEMMA SignInOK ==
  ASSUME SessionSafe, ComponentOK, SignIn
  PROVE  SessionSafe' /\ ComponentOK'
<1>1. session \in Sessions /\ session.user \in {"admin", "client"}
  BY DEF SessionSafe, Sessions
<1>2. session' = SignedIn(session.user) /\ UNCHANGED <<refresh, fetches, view>>
  BY DEF SignIn, LogIn
<1>3. session' \in Sessions /\ session'.role # "nobody" /\ session'.token # "none"
  BY <1>1, <1>2 DEF SignedIn, Sessions, Roles, Tokens, Ages
<1>4. fetches = {}
  BY DEF SessionSafe, SignIn, LogIn
<1> QED
  BY <1>2, <1>3, <1>4 DEF SessionSafe, ComponentOK

LEMMA AgeOK ==
  ASSUME SessionSafe, ComponentOK, Age
  PROVE  SessionSafe' /\ ComponentOK'
<1>1. PICK i \in 1..3 : session.token = Ages[i] /\ session' = [session EXCEPT !.token = Ages[i + 1]]
  BY DEF Age, TokenAges
<1>2. session \in Sessions /\ fetches = {} /\ UNCHANGED <<refresh, fetches, view, page>>
  BY DEF SessionSafe, Age, TokenAges
<1>3. Ages[i + 1] \in Tokens /\ Ages[i] # "none" /\ Ages[i + 1] # "none"
  BY DEF Ages, Tokens
<1>4. session' \in Sessions /\ session'.role = session.role /\ session'.token # "none"
        /\ session'.gone = session.gone
  BY <1>1, <1>2, <1>3 DEF Sessions
<1> QED
  BY <1>1, <1>2, <1>3, <1>4 DEF SessionSafe, ComponentOK

LEMMA RefreshOK ==
  ASSUME SessionSafe, ComponentOK, RefreshStep
  PROVE  SessionSafe' /\ ComponentOK'
<1>1. PICK granted \in BOOLEAN : RefreshEnds(granted)
  BY DEF RefreshStep
<1>2. session \in Sessions /\ UNCHANGED <<view, page>>
  BY DEF SessionSafe, RefreshStep
<1>3. /\ refresh # "idle" /\ refresh' = "idle"
      /\ session' = [session EXCEPT !.token = IF granted THEN "fresh" ELSE @,
                                    !.refused = @ \/ ~granted]
  BY <1>1 DEF RefreshEnds
<1>4. /\ session' \in Sessions /\ session'.role = session.role /\ session'.gone = session.gone
      /\ session'.token \in {session.token, "fresh"}
      /\ session'.refused <=> session.refused \/ ~granted
  <2>1. "fresh" \in Tokens
    BY DEF Tokens, Ages
  <2> QED
    BY <1>2, <1>3, <2>1 DEF Sessions
<1>5. \A g \in fetches' :
        /\ IsCall(g) /\ \E f \in fetches : g.op = f.op
        /\ g.at = "unauthorized" => ~granted \/ \E f \in fetches : f.at = "unauthorized"
  <2> DEFINE at == IF granted \/ Accepted THEN "sent" ELSE "unauthorized"
             sent == {[f EXCEPT !.at = at] : f \in {g \in fetches : g.at = "refreshing"}}
  <2>1. fetches' = {f \in fetches : f.at # "refreshing"}
                     \cup {f \in sent : f.op # "gone" \/ at = "unauthorized"}
    BY <1>1 DEF RefreshEnds
  <2>2. at = "unauthorized" => ~granted
    OBVIOUS
  <2> HIDE DEF at
  <2>3. \A g \in sent : IsCall(g) /\ g.at = at /\ \E f \in fetches : g.op = f.op
    BY DEF ComponentOK, IsCall
  <2> HIDE DEF sent
  <2> QED
    BY <2>1, <2>2, <2>3 DEF ComponentOK
<1>6. ComponentOK'
  BY <1>2, <1>5 DEF ComponentOK
<1> QED
  BY <1>2, <1>3, <1>4, <1>5, <1>6 DEF SessionSafe, Refreshes

-----------------------------------------------------------------------------
(* The views.                                                               *)

(* What the disciplines of the views have in common.                        *)
Disciplined(how) ==
  /\ how.drops => ~how.custom
  /\ how.hides = "loading" \/ ~how.selects => ~how.opens
  /\ how.custom => how.selects
  /\ how.awaits => ~how.selects
  /\ how \notin DeadEnds /\ ~how.polls => how.retry \/ (how.selects /\ how.blanks = "never")
  /\ how.hides = "loading" /\ how.selects /\ ~how.drops =>
       /\ how.reloads /\ ~how.polls /\ ~how.custom
       /\ how.retry => how.blanks = "failed"

(* A view that hides its controls has only calls for what is selected under *)
(* way; one whose selection changes has at most one, and only as long as    *)
(* the skeleton is there.                                                   *)
Current ==
  view.how.drops =>
    view.failed \/ view.shown \in {NoKey, view.key} \/ Under("get", view.key)

Steady ==
  view.how.hides = "loading" /\ ~view.how.drops =>
    \A f \in fetches : f.op = "get" => f.tag = view.key

Fixed ==
  view.how.hides = "loading" /\ ~view.how.drops /\ ~view.how.selects =>
    view.shown \in {NoKey, view.key}

OneAtATime ==
  view.how.hides = "loading" /\ ~view.how.drops /\ view.how.selects =>
    /\ \A f, g \in fetches : f.op = "get" /\ g.op = "get" => f = g
    /\ view.loading \/ \A f \in fetches : f.op # "get"
    /\ view.how.retry /\ view.failed => ~view.loading
    /\ view.loading \/ view.failed \/ view.shown \in {NoKey, view.key}

(* A view without a selection and a timer ends with its data or an error.   *)
Conclusive ==
  ~view.how.selects /\ ~view.how.polls =>
    /\ view.key = FirstKey
    /\ \A f \in fetches : f.op = "get" => f.tag = view.key
    /\ view.loading \/ view.failed \/ view.shown # NoKey \/ Under("get", view.key)

ViewTrue ==
  IsView =>
    /\ Disciplined(view.how)
    /\ Current /\ Steady /\ Fixed /\ OneAtATime /\ Conclusive

LEMMA ViewFacts ==
  ASSUME ComponentOK, IsView
  PROVE  /\ {"kind", "how", "key", "shown", "loading", "failed"} \subseteq DOMAIN view
         /\ OpsOf(view.kind) = {"get"}
         /\ \A w : DOMAIN w = DOMAIN view /\ w.kind = view.kind => HasFields(w)
BY SameFields DEF ComponentOK, HasFields, FieldsOf, OpsOf, IsView

(* One more call, for what is selected.                                     *)
LEMMA ViewAsks ==
  ASSUME SessionSafe, ComponentOK, IsView, NEW k, Request(Gets({k}))
  PROVE  \E g : /\ fetches' = fetches \cup {g} /\ g.op = "get" /\ g.tag = k
                /\ IsCall(g) /\ (g.at = "unauthorized" => session.token = "none")
                /\ refresh' \in Refreshes
<1>1. Gets({k}) = {Call("get", k)}
  BY DEF Gets
<1>2. RequestAlong(fetches, {Call("get", k)})
  BY <1>1 DEF Request
<1>3. refresh' \in Refreshes
  BY <1>2 DEF RequestAlong, SessionSafe, Refreshes
<1> QED
  BY <1>2, <1>3, RequestOne

LEMMA ViewAskOK ==
  ASSUME SessionSafe, ComponentOK, IsView, UNCHANGED <<session, page>>, NEW k,
         Request(Gets({k})), DOMAIN view' = DOMAIN view, view'.kind = view.kind
  PROVE  ComponentStep
<1>1. PICK g : /\ fetches' = fetches \cup {g} /\ g.op = "get" /\ g.tag = k
               /\ IsCall(g) /\ (g.at = "unauthorized" => session.token = "none")
               /\ refresh' \in Refreshes
  BY ViewAsks
<1>2. view.kind # "nothing" /\ HasFields(view')
  BY ViewFacts DEF IsView
<1> QED
  BY <1>1, <1>2, ViewFacts DEF ComponentStep, ComponentOK

LEMMA SelectOK ==
  ASSUME SessionSafe, ComponentOK, ViewTrue, NEW k, Select(k), UNCHANGED page
  PROVE  ComponentStep /\ ViewTrue'
<1>1. /\ IsView /\ view.how.selects /\ Shown(view) /\ k # view.key /\ UNCHANGED session
  BY DEF Select, CanSelect
<1>2. CASE view.how.custom /\ k = CustomKey
  <2>1. view' = [view EXCEPT !.key = k, !.loading = FALSE] /\ UNCHANGED <<refresh, fetches>>
    BY <1>2 DEF Select
  <2>2. /\ view'.kind = view.kind /\ view'.how = view.how /\ view'.shown = view.shown
        /\ DOMAIN view' = DOMAIN view /\ view'.key = k
    BY <1>1, <2>1, ViewFacts
  <2>3. ComponentStep
    BY <1>1, <2>1, <2>2, ViewFacts DEF ComponentStep, ComponentOK, SessionSafe, IsView
  <2>4. ~view.how.drops /\ view.how.hides # "loading"
    BY <1>1, <1>2 DEF ViewTrue, Disciplined
  <2> QED
    BY <2>2, <2>3, <2>4, <1>1 DEF ViewTrue, Current, Steady, Fixed, OneAtATime, Conclusive
<1>3. CASE ~(view.how.custom /\ k = CustomKey)
  <2>1. view' = [view EXCEPT !.key = k, !.loading = @ \/ view.how.reloads]
          /\ Request(Gets({k}))
    BY <1>3 DEF Select, Fetches
  <2>2. /\ view'.kind = view.kind /\ view'.how = view.how /\ view'.shown = view.shown
        /\ view'.failed = view.failed /\ DOMAIN view' = DOMAIN view /\ view'.key = k
        /\ view'.loading = (view.loading \/ view.how.reloads)
    BY <1>1, <2>1, ViewFacts
  <2>3. ComponentStep
    BY <1>1, <2>1, <2>2, ViewAskOK
  <2>4. PICK g : fetches' = fetches \cup {g} /\ g.op = "get" /\ g.tag = k
    BY <1>1, <2>1, ViewAsks
  <2>5. Current' /\ Conclusive'
    BY <1>1, <2>2, <2>4 DEF Current, Conclusive, Under
  <2>6. CASE view.how.hides = "loading" /\ ~view.how.drops
    <3>1. ~view.loading /\ view.how.reloads /\ (view.how.retry => ~view.failed)
      BY <1>1, <2>6 DEF Shown, ViewTrue, Disciplined
    <3>2. \A f \in fetches : f.op # "get"
      BY <1>1, <2>6, <3>1 DEF ViewTrue, OneAtATime
    <3>3. Steady' /\ Fixed' /\ OneAtATime'
      BY <1>1, <2>2, <2>4, <3>1, <3>2 DEF Steady, Fixed, OneAtATime
    <3> QED
      BY <1>1, <2>2, <2>3, <2>5, <3>3 DEF ViewTrue
  <2>7. CASE ~(view.how.hides = "loading" /\ ~view.how.drops)
    BY <1>1, <2>2, <2>3, <2>5, <2>7 DEF ViewTrue, Steady, Fixed, OneAtATime
  <2> QED
    BY <2>6, <2>7
<1> QED
  BY <1>2, <1>3

LEMMA ApplyOK ==
  ASSUME SessionSafe, ComponentOK, ViewTrue, Apply, UNCHANGED page
  PROVE  ComponentStep /\ ViewTrue'
<1>1. /\ IsView /\ view.how.custom /\ view.key = CustomKey /\ UNCHANGED session
      /\ view' = [view EXCEPT !.loading = TRUE] /\ Request(Gets({view.key}))
  BY DEF Apply, Fetches
<1>2. /\ view'.kind = view.kind /\ view'.how = view.how /\ view'.shown = view.shown
      /\ view'.failed = view.failed /\ DOMAIN view' = DOMAIN view /\ view'.key = view.key
      /\ view'.loading
  BY <1>1, ViewFacts
<1>3. ComponentStep
  BY <1>1, <1>2, ViewAskOK
<1>4. PICK g : fetches' = fetches \cup {g} /\ g.op = "get" /\ g.tag = view.key
  BY <1>1, ViewAsks
<1>5. ~view.how.drops /\ view.how.selects /\ view.how.hides # "loading"
  BY <1>1 DEF ViewTrue, Disciplined
<1> QED
  BY <1>1, <1>2, <1>3, <1>4, <1>5 DEF ViewTrue, Current, Steady, Fixed, OneAtATime, Conclusive

LEMMA CloseDetailsOK ==
  ASSUME SessionSafe, ComponentOK, ViewTrue, CloseDetails, UNCHANGED page
  PROVE  ComponentStep /\ ViewTrue'
<1>1. /\ IsView /\ view.how.opens /\ UNCHANGED <<session, refresh, fetches>>
      /\ view' = [view EXCEPT !.key = NoKey, !.shown = NoKey]
  BY DEF CloseDetails
<1>2. /\ view'.kind = view.kind /\ view'.how = view.how /\ view'.shown = NoKey
      /\ DOMAIN view' = DOMAIN view
  BY <1>1, ViewFacts
<1>3. ComponentStep
  BY <1>1, <1>2, ViewFacts DEF ComponentStep, ComponentOK, SessionSafe, IsView
<1>4. view.how.hides # "loading" /\ view.how.selects
  BY <1>1 DEF ViewTrue, Disciplined
<1> QED
  BY <1>1, <1>2, <1>3, <1>4 DEF ViewTrue, Current, Steady, Fixed, OneAtATime, Conclusive

LEMMA PollViewOK ==
  ASSUME SessionSafe, ComponentOK, ViewTrue, PollView, UNCHANGED page
  PROVE  ComponentStep /\ ViewTrue'
<1>1. /\ IsView /\ view.how.polls /\ UNCHANGED <<session, view>>
      /\ Request(Gets({view.key}))
  BY DEF PollView
<1>2. ComponentStep
  BY <1>1, ViewAskOK
<1>3. PICK g : fetches' = fetches \cup {g} /\ g.op = "get" /\ g.tag = view.key
  BY <1>1, ViewAsks
<1>4. view.how.drops \/ ~(view.how.hides = "loading" /\ view.how.selects)
  BY <1>1 DEF ViewTrue, Disciplined
<1> QED
  BY <1>1, <1>2, <1>3, <1>4
     DEF ViewTrue, Current, Steady, Fixed, OneAtATime, Conclusive, Under, IsView

LEMMA RetryOK ==
  ASSUME SessionSafe, ComponentOK, ViewTrue, Retry, UNCHANGED page
  PROVE  ComponentStep /\ ViewTrue'
<1>1. /\ IsView /\ view.how.retry /\ view.failed /\ UNCHANGED session
      /\ view' = [view EXCEPT !.failed = view.how.drops, !.loading = @ \/ view.how.reloads]
      /\ Request(Gets({view.key}))
  BY DEF Retry, Fetches
<1>2. /\ view'.kind = view.kind /\ view'.how = view.how /\ view'.shown = view.shown
      /\ view'.failed = view.how.drops /\ DOMAIN view' = DOMAIN view /\ view'.key = view.key
      /\ view'.loading = (view.loading \/ view.how.reloads)
  BY <1>1, ViewFacts
<1>3. ComponentStep
  BY <1>1, <1>2, ViewAskOK
<1>4. PICK g : fetches' = fetches \cup {g} /\ g.op = "get" /\ g.tag = view.key
  BY <1>1, ViewAsks
<1>5. Current' /\ Steady' /\ Fixed' /\ Conclusive'
  BY <1>1, <1>2, <1>4 DEF ViewTrue, Current, Steady, Fixed, Conclusive, Under
<1>6. OneAtATime'
  <2>1. CASE view.how.hides = "loading" /\ ~view.how.drops /\ view.how.selects
    <3>1. ~view.loading /\ view.how.reloads
      BY <1>1, <2>1 DEF ViewTrue, Disciplined, OneAtATime
    <3>2. \A f \in fetches : f.op # "get"
      BY <1>1, <2>1, <3>1 DEF ViewTrue, OneAtATime
    <3> QED
      BY <1>2, <1>4, <2>1, <3>1, <3>2 DEF OneAtATime
  <2>2. CASE ~(view.how.hides = "loading" /\ ~view.how.drops /\ view.how.selects)
    BY <1>2, <2>2 DEF OneAtATime
  <2> QED
    BY <2>1, <2>2
<1> QED
  BY <1>1, <1>2, <1>3, <1>5, <1>6 DEF ViewTrue

(* A call is over: it was dropped, or its answer or its failure is on the   *)
(* screen.                                                                  *)
LEMMA ViewEnds ==
  ASSUME ViewTrue, IsView, NEW f \in fetches, Answered(f),
         view'.kind = view.kind, view'.how = view.how, view'.key = view.key,
         \/ /\ f.op # "get" \/ Dropped(f)
            /\ view'.shown = view.shown /\ view'.loading = view.loading
            /\ view'.failed = view.failed
         \/ /\ f.op = "get" /\ ~Dropped(f) /\ (view.how.selects => ~view'.loading)
            /\ \/ view'.shown = f.tag /\ ~view'.failed
               \/ view'.shown \in {view.shown, NoKey} /\ view'.failed
  PROVE  ViewTrue'
<1>1. fetches' = fetches \ {f}
  BY DEF Answered
<1>2. CASE /\ f.op # "get" \/ Dropped(f)
           /\ view'.shown = view.shown /\ view'.loading = view.loading
           /\ view'.failed = view.failed
  <2>1. Current' /\ Steady' /\ Fixed' /\ OneAtATime'
    BY <1>1, <1>2
       DEF ViewTrue, Current, Steady, Fixed, OneAtATime, Dropped, Under
  <2>2. Conclusive'
    BY <1>1, <1>2 DEF ViewTrue, Conclusive, Dropped, Under
  <2> QED
    BY <2>1, <2>2 DEF ViewTrue, IsView
<1>3. CASE /\ f.op = "get" /\ ~Dropped(f) /\ (view.how.selects => ~view'.loading)
           /\ \/ view'.shown = f.tag /\ ~view'.failed
              \/ view'.shown \in {view.shown, NoKey} /\ view'.failed
  <2>1. Current'
    BY <1>3 DEF Current, Dropped
  <2>2. Steady'
    BY <1>1 DEF ViewTrue, Steady
  <2>3. Fixed'
    BY <1>1, <1>3 DEF ViewTrue, Fixed, Steady
  <2>4. OneAtATime'
    BY <1>1, <1>3 DEF ViewTrue, OneAtATime, Steady
  <2>5. Conclusive'
    BY <1>1, <1>3, KeysAssumption DEF ViewTrue, Conclusive
  <2> QED
    BY <2>1, <2>2, <2>3, <2>4, <2>5 DEF ViewTrue, IsView
<1> QED
  BY <1>2, <1>3

(* A call is over, and nothing is known of the session.                     *)
Ends(f) ==
  /\ Answered(f) /\ HasFields(view') /\ view'.kind = view.kind

LEMMA FetchAnswerOK ==
  ASSUME SessionSafe, ComponentOK, ViewTrue, NEW f \in fetches, FetchAnswer(f), UNCHANGED page
  PROVE  UNCHANGED <<session, refresh>> /\ Ends(f) /\ ViewTrue'
<1>1. /\ f.op = "get" /\ Answered(f) /\ UNCHANGED <<session, refresh>>
      /\ view' = IF Dropped(f) THEN view
                 ELSE [view EXCEPT !.shown = f.tag, !.loading = FALSE, !.failed = FALSE]
  BY DEF FetchAnswer
<1>2. IsView
  BY <1>1 DEF ComponentOK, OpsOf, OutlivingOf, Outliving, IsView
<1>3. CASE Dropped(f)
  BY <1>1, <1>2, <1>3, ViewEnds DEF Ends, ComponentOK
<1>4. CASE ~Dropped(f)
  <2>1. /\ view'.kind = view.kind /\ view'.how = view.how /\ view'.shown = f.tag
        /\ view'.failed = FALSE /\ DOMAIN view' = DOMAIN view /\ view'.key = view.key
        /\ view'.loading = FALSE
    BY <1>1, <1>2, <1>4, ViewFacts
  <2>2. HasFields(view')
    BY <1>2, <2>1, ViewFacts
  <2> QED
    BY <1>1, <1>2, <1>4, <2>1, <2>2, ViewEnds DEF Ends
<1> QED
  BY <1>3, <1>4

LEMMA OneMore ==
  ASSUME NEW v, NEW w, v = w \/ v = [w EXCEPT !.failures = @ + 1]
  PROVE  /\ DOMAIN v = DOMAIN w
         /\ \A x \in DOMAIN w : x # "failures" => v[x] = w[x]
<1>1. CASE v = w
  BY <1>1
<1>2. CASE v = [w EXCEPT !.failures = @ + 1]
  <2>1. DOMAIN v = DOMAIN w
    BY <1>2
  <2>2. \A x \in DOMAIN w : x # "failures" => v[x] = w[x]
    BY <1>2
  <2> QED
    BY <2>1, <2>2
<1> QED
  BY <1>1, <1>2

LEMMA ViewFailedOK ==
  ASSUME ComponentOK, ViewTrue, IsView, NEW f \in fetches, Answered(f),
         \/ view' = ViewFailed(f)
         \/ view' = [ViewFailed(f) EXCEPT !.failures = @ + 1]
  PROVE  HasFields(view') /\ view'.kind = view.kind /\ ViewTrue'
<1> DEFINE w == ViewFailed(f)
<1>1. /\ DOMAIN view' = DOMAIN w
      /\ \A x \in DOMAIN w : x # "failures" => view'[x] = w[x]
  BY OneMore
<1>2. CASE f.op # "get" \/ Dropped(f)
  <2>1. w = view
    BY <1>2 DEF ViewFailed
  <2>2. /\ DOMAIN view' = DOMAIN view /\ view'.kind = view.kind /\ view'.how = view.how
        /\ view'.key = view.key /\ view'.shown = view.shown /\ view'.loading = view.loading
        /\ view'.failed = view.failed
    BY <1>1, <2>1, ViewFacts
  <2> QED
    BY <1>2, <2>2, ViewFacts, ViewEnds
<1>3. CASE f.op = "get" /\ ~Dropped(f)
  <2>1. w = [view EXCEPT !.shown = IF view.how.opens THEN NoKey ELSE @,
                         !.loading = @ /\ view.how.awaits, !.failed = TRUE]
    BY <1>3 DEF ViewFailed
  <2>2. /\ DOMAIN w = DOMAIN view /\ w.kind = view.kind /\ w.how = view.how
        /\ w.key = view.key /\ w.shown \in {view.shown, NoKey}
        /\ w.loading = (view.loading /\ view.how.awaits) /\ w.failed = TRUE
    BY <2>1, ViewFacts
  <2>4. view.how.selects => ~view.how.awaits
    BY DEF ViewTrue, Disciplined
  <2> HIDE DEF w
  <2>3. /\ DOMAIN view' = DOMAIN view /\ view'.kind = view.kind /\ view'.how = view.how
        /\ view'.key = view.key /\ view'.shown \in {view.shown, NoKey}
        /\ (view.how.selects => ~view'.loading) /\ view'.failed = TRUE
    BY <1>1, <2>2, <2>4, ViewFacts
  <2> QED
    BY <1>3, <2>3, ViewFacts, ViewEnds
<1> QED
  BY <1>2, <1>3

(* The refresh ends: the calls that waited for it move on.                  *)
LEMMA RefreshMoves ==
  ASSUME ComponentOK, NEW granted, RefreshEnds(granted)
  PROVE  /\ \A f \in fetches : f.op # "gone" =>
              \E g \in fetches' : g.op = f.op /\ g.tag = f.tag
         /\ \A g, h \in fetches' : \E e, f \in fetches :
              /\ g.op = e.op /\ g.tag = e.tag /\ h.op = f.op /\ h.tag = f.tag
              /\ e = f => g = h
<1> DEFINE at == IF granted \/ Accepted THEN "sent" ELSE "unauthorized"
           Moved(f) == IF f.at = "refreshing" THEN [f EXCEPT !.at = at] ELSE f
<1>1. fetches' = {f \in fetches : f.at # "refreshing"}
                   \cup {f \in {[f EXCEPT !.at = at] : f \in {g \in fetches : g.at = "refreshing"}} :
                           f.op # "gone" \/ at = "unauthorized"}
  BY DEF RefreshEnds
<1> HIDE DEF at
<1>2. \A f \in fetches : Moved(f).op = f.op /\ Moved(f).tag = f.tag
  BY DEF ComponentOK, IsCall
<1>3. \A g \in fetches' : \E f \in fetches : g = Moved(f)
  BY <1>1
<1>4. \A f \in fetches : f.op # "gone" => Moved(f) \in fetches'
  BY <1>1, <1>2
<1> HIDE DEF Moved
<1> QED
  BY <1>2, <1>3, <1>4

LEMMA ViewRefreshed ==
  ASSUME ComponentOK, ViewTrue, NEW granted, RefreshEnds(granted), UNCHANGED view
  PROVE  ViewTrue'
<1> SUFFICES ASSUME IsView  PROVE ViewTrue'
  BY DEF ViewTrue, IsView
<1>1. Current'
  BY RefreshMoves DEF ViewTrue, Current, Under
<1>2. Steady' /\ Fixed'
  BY RefreshMoves DEF ViewTrue, Steady, Fixed
<1>3. OneAtATime'
  BY RefreshMoves DEF ViewTrue, OneAtATime
<1>4. Conclusive'
  BY RefreshMoves DEF ViewTrue, Conclusive, Under
<1> QED
  BY <1>1, <1>2, <1>3, <1>4 DEF ViewTrue, IsView

LEMMA DisciplinesOK ==
  ASSUME NEW p, NEW how \in ViewsOf(p)
  PROVE  Disciplined(how)
<1> USE DEF Disciplined, Plain, DeadEnds
<1>1. Disciplined(Dashboard) /\ Disciplined(LeadFeed) /\ Disciplined(Bookings)
  BY DEF Dashboard, LeadFeed, Bookings
<1>2. Disciplined(Reports) /\ Disciplined(ROI) /\ Disciplined(Compliance)
        /\ Disciplined(MetricDetails)
  BY DEF Reports, ROI, Compliance, MetricDetails
<1>3. Disciplined(AdminCommandCenter) /\ Disciplined(AdminOverview) /\ Disciplined(AdminLeads)
        /\ Disciplined(AdminRevenue) /\ Disciplined(AdminInsights) /\ Disciplined(AdminAnalytics)
  BY DEF AdminCommandCenter, AdminOverview, AdminLeads, AdminRevenue, AdminInsights,
         AdminAnalytics
<1>4. \A h \in AgentViews : Disciplined(h)
  BY DEF AgentViews, AgentFleet, SystemMap, TaskQueueMonitor, CostDashboard, ActivityTimeline,
         AgentDetailPanel
<1>5. Disciplined(AdminClientDetail) /\ Disciplined(CampaignProspects)
        /\ Disciplined(CampaignAnalytics) /\ Disciplined(WorkerStatus)
  BY DEF AdminClientDetail, CampaignProspects, CampaignAnalytics, WorkerStatus
<1> HIDE DEF Disciplined
<1> QED
  BY <1>1, <1>2, <1>3, <1>4, <1>5 DEF ViewsOf

-----------------------------------------------------------------------------
(* A component is mounted: the calls under way are nobody's.                *)
Mounted(kind) ==
  /\ UNCHANGED <<session, page>> /\ refresh' \in Refreshes
  /\ view'.kind = kind /\ HasFields(view')
  /\ \A g \in fetches' :
       /\ IsCall(g) /\ g.op \in OpsOf(kind) \cup OutlivingOf(kind)
       /\ g.at = "unauthorized" =>
            session.token = "none" \/ \E f \in fetches : f.at = "unauthorized"

LEMMA MountedOK ==
  ASSUME SessionSafe, ~session.gone, page \notin PublicPages, NEW kind, Mounted(kind)
  PROVE  SessionSafe' /\ ComponentOK'
BY DEF SessionSafe, ComponentOK, Mounted

LEMMA NothingCalls ==
  ASSUME ComponentOK, view = Nothing
  PROVE  \A f \in fetches : IsCall(f) /\ f.op \in Outliving
BY NothingIsOK DEF ComponentOK, OpsOf, OutlivingOf

(* What a component asks for when it is mounted.                            *)
LEMMA MountCalls ==
  ASSUME SessionSafe, ComponentOK, view = Nothing, UNCHANGED <<session, page>>, NEW kind,
         view'.kind = kind, HasFields(view'), kind = "document" \/ LateSavesOf({}), NEW cs,
         \A c \in cs : IsCall(c) /\ c.at = "refreshing" /\ c.op \in OpsOf(kind),
         Request(cs)
  PROVE  Mounted(kind)
<1>1. \A f \in fetches : IsCall(f) /\ f.op \in OutlivingOf(kind)
  BY NothingCalls DEF OutlivingOf, Outliving, LateSavesOf
<1>2. /\ refresh' \in Refreshes
      /\ \A g \in fetches' : g \in fetches \/
           /\ IsCall(g) /\ (g.at = "unauthorized" => session.token = "none")
           /\ \E c \in cs : g.op = c.op /\ g.tag = c.tag
  BY RequestFacts DEF Request
<1> QED
  BY <1>1, <1>2 DEF Mounted

LEMMA MountViewOK ==
  ASSUME SessionSafe, ComponentOK, view = Nothing, LateSavesOf({}), UNCHANGED <<session, page>>,
         NEW how \in ViewsOf(page), MountView(how)
  PROVE  Mounted("view") /\ ViewTrue'
<1> DEFINE cs == Gets({View(how).key} \ {NoKey})
<1>1. view' = View(how) /\ Request(cs)
  BY DEF MountView
<1>2. \A c \in cs : /\ IsCall(c) /\ c.at = "refreshing" /\ c.op = "get" /\ c.tag = view'.key
  BY <1>1, CallFacts DEF Gets
<1> HIDE DEF cs
<1>3. /\ view'.kind = "view" /\ view'.how = how /\ view'.shown = NoKey /\ HasFields(view')
      /\ view'.failed = FALSE /\ view'.loading = ~how.opens
      /\ view'.key = IF how.opens THEN NoKey ELSE FirstKey
  BY <1>1 DEF View, HasFields, FieldsOf
<1>4. Mounted("view")
  BY <1>1, <1>2, <1>3, MountCalls DEF OpsOf
<1>a. RequestAlong(fetches, cs)
  BY <1>1 DEF Request
<1>b. \A g \in fetches' : g \in fetches \/ \E c \in cs : g.op = c.op /\ g.tag = c.tag
  BY <1>2, <1>a, RequestFacts
<1>c. \A f \in fetches : f.op # "get"
  BY NothingCalls DEF Outliving
<1>5. \A f \in fetches' : f.op = "get" => f.tag = view'.key
  BY <1>2, <1>b, <1>c
<1>6. Disciplined(how)
  BY DisciplinesOK
<1>7. how.hides = "loading" => view'.loading
  BY <1>3, <1>6 DEF Disciplined
<1>8. \A f, g \in fetches' : f.op = "get" /\ g.op = "get" => f = g
  <2>1. CASE View(how).key = NoKey
    <3>1. cs = {}
      BY <2>1 DEF cs, Gets
    <3> QED
      BY <1>b, <1>c, <3>1
  <2>2. CASE View(how).key # NoKey
    <3>1. cs = {Call("get", View(how).key)}
      BY <2>2 DEF cs, Gets
    <3>2. PICK g : fetches' = fetches \cup {g}
      BY <1>a, <3>1, RequestOne
    <3> QED
      BY <1>c, <3>2
  <2> QED
    BY <2>1, <2>2
<1>9. Current' /\ Steady' /\ Fixed' /\ OneAtATime'
  BY <1>3, <1>5, <1>7, <1>8 DEF Current, Steady, Fixed, OneAtATime
<1>10. Conclusive'
  BY <1>3, <1>5, <1>6 DEF Conclusive, Disciplined
<1> QED
  BY <1>3, <1>4, <1>6, <1>9, <1>10 DEF ViewTrue

-----------------------------------------------------------------------------
(* What every component does: something on the screen, or calls as well.    *)
LEMMA QuietOK ==
  ASSUME SessionSafe, ComponentOK, view.kind # "nothing",
         UNCHANGED <<session, page, refresh, fetches>>,
         view'.kind = view.kind, HasFields(view')
  PROVE  ComponentStep
BY DEF ComponentStep, ComponentOK, SessionSafe

LEMMA AskOK ==
  ASSUME SessionSafe, ComponentOK, view.kind # "nothing", UNCHANGED <<session, page>>,
         view'.kind = view.kind, HasFields(view'),
         NEW others \in SUBSET fetches, NEW cs,
         \A c \in cs : IsCall(c) /\ c.at = "refreshing" /\ c.op \in OpsOf(view.kind),
         RequestAlong(others, cs)
  PROVE  ComponentStep
<1>1. /\ refresh' \in Refreshes
      /\ \A g \in fetches' : g \in others \/
           /\ IsCall(g) /\ (g.at = "unauthorized" => session.token = "none")
           /\ \E c \in cs : g.op = c.op /\ g.tag = c.tag
  BY RequestFacts
<1> QED
  BY <1>1 DEF ComponentStep, ComponentOK

(* What is under way after calls are made along with others.                *)
LEMMA Asked ==
  ASSUME SessionSafe, NEW others, NEW cs, RequestAlong(others, cs),
         \A c \in cs : IsCall(c) /\ c.at = "refreshing"
  PROVE  \A g \in fetches' : g \in others \/ \E c \in cs : g.op = c.op /\ g.tag = c.tag
<1>1. \A g \in fetches' : g \in others \/
        /\ IsCall(g) /\ (g.at = "unauthorized" => session.token = "none")
        /\ \E c \in cs : g.op = c.op /\ g.tag = c.tag
  BY RequestFacts
<1> QED
  BY <1>1

(* One call.                                                                *)
LEMMA AskOneOK ==
  ASSUME SessionSafe, ComponentOK, view.kind # "nothing", UNCHANGED <<session, page>>,
         view'.kind = view.kind, HasFields(view'), NEW others \in SUBSET fetches,
         NEW op \in OpsOf(view.kind), NEW tag, RequestAlong(others, {Call(op, tag)})
  PROVE  /\ ComponentStep
         /\ \E g : fetches' = others \cup {g} /\ g.op = op /\ g.tag = tag
<1>1. PICK g : /\ fetches' = others \cup {g}
               /\ IsCall(g) /\ g.op = op /\ g.tag = tag
               /\ g.at = "unauthorized" => session.token = "none"
  BY RequestOne
<1>2. refresh' \in Refreshes
  BY DEF RequestAlong, SessionSafe, Refreshes
<1> QED
  BY <1>1, <1>2 DEF ComponentStep, ComponentOK

-----------------------------------------------------------------------------
(* The panes.                                                               *)

(* A reply has been sent once more than it failed only while it is being    *)
(* sent.                                                                    *)
RepliesCounted ==
  /\ view.sends \in Nat /\ view.errors \in Nat /\ view.sends <= 1 + view.errors
  /\ view.draft /\ view.busy = {} => view.sends <= view.errors

InboxCurrent ==
  view.how = "inbox" =>
    /\ \A f \in fetches : f.op \notin {"reply", "old reply", "reread"}
    /\ ~view.crossed /\ view.sel # NoKey =>
         /\ \A f \in fetches : f.op \in {"thread", "status"} => f.tag = view.sel
         /\ view.loading \/ view.shown \in {NoKey, view.sel}

PaneTrue == view.kind = "pane" => RepliesCounted /\ InboxCurrent

PaneOps == {"list", "thread", "reread", "reply", "old reply", "status", "blacklist", "remove"}

LEMMA PaneFacts ==
  ASSUME ComponentOK, view.kind = "pane"
  PROVE  /\ {"kind", "how", "sel", "shown", "loading", "busy", "crossed", "draft", "sends",
             "errors"} \subseteq DOMAIN view
         /\ OpsOf(view.kind) = PaneOps
         /\ \A w : DOMAIN w = DOMAIN view /\ w.kind = view.kind => HasFields(w)
BY SameFields DEF ComponentOK, HasFields, FieldsOf, OpsOf, PaneOps

LEMMA ThreadsFacts ==
  ASSUME NEW ks
  PROVE  /\ \A c \in Threads(ks) : /\ IsCall(c) /\ c.at = "refreshing" /\ c.op = "thread"
                                   /\ c.tag \in ks
         /\ IsCall(List) /\ List.at = "refreshing" /\ List.op = "list"
BY CallFacts DEF Threads, List

LEMMA SelectThreadOK ==
  ASSUME SessionSafe, ComponentOK, PaneTrue, NEW k, SelectThread(k), UNCHANGED page
  PROVE  ComponentStep /\ PaneTrue'
<1>1. /\ view.kind = "pane" /\ UNCHANGED session /\ RequestAlong(fetches, Threads({k}))
      /\ view' = [view EXCEPT !.sel = k, !.loading = Showing("inbox"),
                              !.crossed = ThreadUnderWay]
  BY DEF SelectThread, Request
<1>2. /\ view'.kind = view.kind /\ view'.how = view.how /\ view'.shown = view.shown
      /\ view'.busy = view.busy /\ view'.draft = view.draft /\ view'.sends = view.sends
      /\ view'.errors = view.errors /\ DOMAIN view' = DOMAIN view
      /\ view'.sel = k /\ view'.loading = Showing("inbox") /\ view'.crossed = ThreadUnderWay
  BY <1>1, PaneFacts
<1>3. ComponentStep
  BY <1>1, <1>2, PaneFacts, ThreadsFacts, AskOK DEF PaneOps
<1>4. \A g \in fetches' : g \in fetches \/ (g.op = "thread" /\ g.tag = k)
  BY <1>1, ThreadsFacts, Asked
<1>5. InboxCurrent'
  BY <1>1, <1>2, <1>4 DEF PaneTrue, InboxCurrent, ThreadUnderWay, Showing
<1> QED
  BY <1>1, <1>2, <1>3, <1>5 DEF PaneTrue, RepliesCounted

LEMMA DeselectOK ==
  ASSUME SessionSafe, ComponentOK, PaneTrue, Deselect, UNCHANGED page
  PROVE  ComponentStep /\ PaneTrue'
<1>1. /\ view.kind = "pane" /\ view.how # "inbox" /\ UNCHANGED <<session, refresh>>
      /\ view' = [view EXCEPT !.sel = NoKey, !.draft = FALSE, !.busy = {}]
      /\ fetches' = {IF f.op = "reply" THEN [f EXCEPT !.op = "old reply"] ELSE f : f \in fetches}
  BY DEF Deselect, Showing
<1>2. /\ view'.kind = view.kind /\ view'.how = view.how /\ view'.draft = FALSE
      /\ view'.sends = view.sends /\ view'.errors = view.errors /\ DOMAIN view' = DOMAIN view
  BY <1>1, PaneFacts
<1>3. \A g \in fetches' : g \in fetches \/
        \E f \in fetches : IsCall(g) /\ g.op = "old reply" /\ g.at = f.at
  BY <1>1 DEF ComponentOK, IsCall
<1>4. ComponentStep
  <2>1. /\ refresh' \in Refreshes /\ HasFields(view') /\ view.kind # "nothing"
        /\ UNCHANGED <<session, page>>
    BY <1>1, <1>2, PaneFacts DEF SessionSafe
  <2>2. "old reply" \in OpsOf(view.kind)
    BY <1>1, PaneFacts DEF PaneOps
  <2>3. \A g \in fetches' :
          /\ IsCall(g) /\ g.op \in OpsOf(view.kind) \cup OutlivingOf(view.kind)
          /\ g.at = "unauthorized" => \E f \in fetches : f.at = "unauthorized"
    BY <1>3, <2>2 DEF ComponentOK
  <2> QED
    BY <1>2, <2>1, <2>3 DEF ComponentStep
<1> QED
  BY <1>1, <1>2, <1>4 DEF PaneTrue, RepliesCounted, InboxCurrent

LEMMA PollThreadOK ==
  ASSUME SessionSafe, ComponentOK, PaneTrue, PollThread, UNCHANGED <<session, view, page>>
  PROVE  ComponentStep /\ PaneTrue'
<1>1. /\ view.kind = "pane" /\ view.how = "conversations"
      /\ RequestAlong(fetches, Threads({view.sel}))
  BY DEF PollThread, Showing, Request
<1>2. ComponentStep
  BY <1>1, PaneFacts, ThreadsFacts, AskOK DEF PaneOps
<1> QED
  BY <1>1, <1>2 DEF PaneTrue, RepliesCounted, InboxCurrent

LEMMA RelistInboxOK ==
  ASSUME SessionSafe, ComponentOK, PaneTrue, FilterInbox \/ RelistInbox, UNCHANGED page
  PROVE  ComponentStep /\ PaneTrue'
<1>1. /\ view.kind = "pane" /\ UNCHANGED session /\ RequestAlong(fetches, {List})
      /\ \/ view' = [Relist(view) EXCEPT !.sel = NoKey, !.shown = NoKey]
         \/ view' = Relist(view)
  BY DEF FilterInbox, RelistInbox, Showing, Request
<1>2. /\ view'.kind = view.kind /\ view'.how = view.how
      /\ view'.busy = view.busy /\ view'.draft = view.draft /\ view'.sends = view.sends
      /\ view'.errors = view.errors /\ DOMAIN view' = DOMAIN view
      /\ view'.crossed = view.crossed /\ view'.loading = view.loading
      /\ view'.sel = NoKey \/ (view'.sel = view.sel /\ view'.shown = view.shown)
  BY <1>1, PaneFacts DEF Relist
<1>3. ComponentStep
  BY <1>1, <1>2, PaneFacts, AskOneOK DEF PaneOps, List
<1>4. \A g \in fetches' : g \in fetches \/ g.op = "list"
  BY <1>1, ThreadsFacts, Asked
<1>5. InboxCurrent'
  BY <1>1, <1>2, <1>4 DEF PaneTrue, InboxCurrent
<1> QED
  BY <1>1, <1>2, <1>3, <1>5 DEF PaneTrue, RepliesCounted

LEMMA ActOnOK ==
  ASSUME SessionSafe, ComponentOK, PaneTrue, NEW op, ActOn(op), UNCHANGED page
  PROVE  ComponentStep /\ PaneTrue'
<1>1. /\ view.kind = "pane" /\ UNCHANGED <<session, view>>
      /\ RequestAlong(fetches, {Call(op, view.sel)})
  BY DEF ActOn, Request
<1>2. op \in {"status", "blacklist", "remove"}
  BY DEF ActOn
<1>3. ComponentStep
  BY <1>1, <1>2, PaneFacts, AskOneOK DEF PaneOps, ComponentOK
<1>4. \A g \in fetches' : g \in fetches \/ (g.op = op /\ g.tag = view.sel)
  BY <1>1, CallFacts, Asked
<1>5. InboxCurrent'
  BY <1>1, <1>2, <1>4 DEF PaneTrue, InboxCurrent
<1> QED
  BY <1>1, <1>3, <1>5 DEF PaneTrue, RepliesCounted

LEMMA TypeReplyOK ==
  ASSUME SessionSafe, ComponentOK, PaneTrue, TypeReply, UNCHANGED page
  PROVE  ComponentStep /\ PaneTrue'
<1>1. /\ view.kind = "pane" /\ view.how = "conversations"
      /\ UNCHANGED <<session, refresh, fetches>>
      /\ view' = [view EXCEPT !.draft = TRUE, !.sends = 0, !.errors = 0]
  BY DEF TypeReply, Showing
<1>2. /\ view'.kind = view.kind /\ view'.how = view.how /\ DOMAIN view' = DOMAIN view
      /\ view'.sends = 0 /\ view'.errors = 0
  BY <1>1, PaneFacts
<1>3. ComponentStep
  BY <1>1, <1>2, PaneFacts, QuietOK
<1>4. RepliesCounted'
  BY <1>2 DEF RepliesCounted
<1>5. InboxCurrent'
  BY <1>1, <1>2 DEF InboxCurrent
<1> QED
  BY <1>3, <1>4, <1>5 DEF PaneTrue

LEMMA SendReplyOK ==
  ASSUME SessionSafe, ComponentOK, PaneTrue, SendReply, UNCHANGED page
  PROVE  ComponentStep /\ PaneTrue'
<1>1. /\ view.kind = "pane" /\ view.how = "conversations" /\ view.draft /\ view.busy = {}
      /\ UNCHANGED session /\ RequestAlong(fetches, {Call("reply", view.sel)})
      /\ view' = [view EXCEPT !.busy = {"reply"}, !.sends = @ + 1]
  BY DEF SendReply, Showing, Request
<1>2. /\ view'.kind = view.kind /\ view'.how = view.how /\ DOMAIN view' = DOMAIN view
      /\ view'.sends = view.sends + 1 /\ view'.errors = view.errors /\ view'.busy = {"reply"}
  BY <1>1, PaneFacts
<1>3. ComponentStep
  BY <1>1, <1>2, PaneFacts, AskOneOK DEF PaneOps
<1>4. RepliesCounted'
  BY <1>1, <1>2 DEF PaneTrue, RepliesCounted
<1> QED
  BY <1>1, <1>2, <1>3, <1>4 DEF PaneTrue, InboxCurrent

LEMMA EndsOK ==
  ASSUME SessionSafe, ComponentOK, view.kind # "nothing", NEW f \in fetches, Answered(f),
         UNCHANGED <<session, refresh, page>>, view'.kind = view.kind, HasFields(view')
  PROVE  ComponentStep
BY DEF ComponentStep, ComponentOK, SessionSafe, Answered

(* The list, and a reply's messages.                                        *)
LEMMA ListAnswerOK ==
  ASSUME SessionSafe, ComponentOK, PaneTrue, view.kind = "pane", NEW f \in fetches,
         f.op \in {"list", "reread"}, PaneAnswer(f), UNCHANGED page
  PROVE  ComponentStep /\ PaneTrue'
<1>1. /\ Answered(f) /\ UNCHANGED <<session, refresh>>
      /\ \/ view' = [view EXCEPT !.listed = TRUE, !.listing = FALSE, !.failed = FALSE]
         \/ f.op = "reread" /\ view' = [view EXCEPT !.shown = f.tag]
  BY DEF PaneAnswer
<1>2. /\ view'.kind = view.kind /\ view'.how = view.how /\ DOMAIN view' = DOMAIN view
      /\ view'.sends = view.sends /\ view'.errors = view.errors /\ view'.busy = view.busy
      /\ view'.draft = view.draft /\ view'.sel = view.sel /\ view'.crossed = view.crossed
      /\ view'.loading = view.loading /\ (f.op = "reread" \/ view'.shown = view.shown)
  BY <1>1, PaneFacts
<1>3. ComponentStep
  BY <1>1, <1>2, PaneFacts, EndsOK
<1>4. fetches' \subseteq fetches
  BY <1>1 DEF Answered
<1> QED
  BY <1>2, <1>3, <1>4 DEF PaneTrue, RepliesCounted, InboxCurrent

LEMMA ThreadAnswerOK ==
  ASSUME SessionSafe, ComponentOK, PaneTrue, view.kind = "pane", NEW f \in fetches,
         f.op = "thread", PaneAnswer(f), UNCHANGED page
  PROVE  ComponentStep /\ PaneTrue'
<1>1. /\ Answered(f) /\ UNCHANGED <<session, refresh>> /\ view' = AfterThread(f.tag)
  BY DEF PaneAnswer
<1>2. /\ view'.kind = view.kind /\ view'.how = view.how /\ DOMAIN view' = DOMAIN view
      /\ view'.sends = view.sends /\ view'.errors = view.errors /\ view'.busy = view.busy
      /\ view'.draft = view.draft /\ view'.sel = view.sel /\ view'.crossed = view.crossed
      /\ view'.shown = f.tag
  BY <1>1, PaneFacts DEF AfterThread
<1>3. ComponentStep
  BY <1>1, <1>2, PaneFacts, EndsOK
<1>4. fetches' \subseteq fetches
  BY <1>1 DEF Answered
<1> QED
  BY <1>2, <1>3, <1>4 DEF PaneTrue, RepliesCounted, InboxCurrent

LEMMA StatusAnswerOK ==
  ASSUME SessionSafe, ComponentOK, PaneTrue, view.kind = "pane", NEW f \in fetches,
         f.op = "status", PaneAnswer(f), UNCHANGED page
  PROVE  ComponentStep /\ PaneTrue'
<1> DEFINE cs == {List} \cup Threads({f.tag})
<1>1. /\ UNCHANGED session /\ view' = AfterStatus(f.tag)
      /\ RequestAlong(fetches \ {f}, cs)
  BY DEF PaneAnswer
<1>2. /\ view'.kind = view.kind /\ view'.how = view.how /\ DOMAIN view' = DOMAIN view
      /\ view'.sends = view.sends /\ view'.errors = view.errors /\ view'.busy = view.busy
      /\ view'.draft = view.draft /\ view'.sel = view.sel /\ view'.loading = TRUE
      /\ view'.crossed = (\/ view.crossed \/ view.sel # f.tag
                          \/ \E g \in fetches : g.op = "thread")
  BY <1>1, PaneFacts DEF AfterStatus, Relist
<1>3. \A c \in cs : /\ IsCall(c) /\ c.at = "refreshing"
                    /\ c.op = "list" \/ (c.op = "thread" /\ c.tag = f.tag)
  BY ThreadsFacts
<1> HIDE DEF cs
<1>4. ComponentStep
  BY <1>1, <1>2, <1>3, PaneFacts, AskOK DEF PaneOps
<1>5. \A g \in fetches' : g \in fetches \ {f} \/ \E c \in cs : g.op = c.op /\ g.tag = c.tag
  BY <1>1, <1>3, Asked
<1>6. \A g \in fetches' : \/ g \in fetches
                          \/ g.op = "list"
                          \/ g.op = "thread" /\ g.tag = f.tag
  BY <1>3, <1>5
<1>7. InboxCurrent'
  BY <1>2, <1>6 DEF PaneTrue, InboxCurrent
<1> QED
  BY <1>2, <1>4, <1>7 DEF PaneTrue, RepliesCounted

LEMMA RemovalAnswerOK ==
  ASSUME SessionSafe, ComponentOK, PaneTrue, view.kind = "pane", NEW f \in fetches,
         f.op \in {"blacklist", "remove"}, PaneAnswer(f), UNCHANGED page
  PROVE  ComponentStep /\ PaneTrue'
<1>1. /\ UNCHANGED session /\ view' = AfterRemoval
      /\ RequestAlong(fetches \ {f}, {Call("list", NoKey)})
  BY DEF PaneAnswer, List
<1>2. /\ view'.kind = view.kind /\ view'.how = view.how /\ DOMAIN view' = DOMAIN view
      /\ view'.sends = view.sends /\ view'.errors = view.errors /\ view'.busy = view.busy
      /\ view'.draft = view.draft /\ view'.sel = NoKey
  BY <1>1, PaneFacts DEF AfterRemoval, Relist, Showing
<1>3. /\ ComponentStep
      /\ \E g : fetches' = (fetches \ {f}) \cup {g} /\ g.op = "list" /\ g.tag = NoKey
  <2>1. "list" \in OpsOf(view.kind) /\ HasFields(view')
    BY <1>2, PaneFacts DEF PaneOps
  <2> QED
    BY <1>1, <1>2, <2>1, AskOneOK
<1> QED
  BY <1>2, <1>3 DEF PaneTrue, RepliesCounted, InboxCurrent

LEMMA ReplyAnswerOK ==
  ASSUME SessionSafe, ComponentOK, PaneTrue, view.kind = "pane", NEW f \in fetches,
         f.op \in {"reply", "old reply"}, PaneAnswer(f), UNCHANGED page
  PROVE  ComponentStep /\ PaneTrue'
<1>1. /\ UNCHANGED session /\ view' = AfterReply(f.op)
      /\ RequestAlong(fetches \ {f}, {Call("reread", f.tag)})
  BY DEF PaneAnswer
<1>2. /\ view'.kind = view.kind /\ view'.how = view.how /\ DOMAIN view' = DOMAIN view
      /\ view'.sends = view.sends /\ view'.errors = view.errors
      /\ (view'.draft = view.draft /\ view'.busy = view.busy) \/ view'.draft = FALSE
  BY <1>1, PaneFacts DEF AfterReply
<1>3. ComponentStep
  <2>1. "reread" \in OpsOf(view.kind) /\ HasFields(view')
    BY <1>2, PaneFacts DEF PaneOps
  <2> QED
    BY <1>1, <1>2, <2>1, AskOneOK
<1>4. view.how # "inbox"
  BY DEF PaneTrue, InboxCurrent
<1> QED
  BY <1>2, <1>3, <1>4 DEF PaneTrue, RepliesCounted, InboxCurrent

LEMMA PaneAnswerOK ==
  ASSUME SessionSafe, ComponentOK, PaneTrue, NEW f \in fetches, PaneAnswer(f), UNCHANGED page
  PROVE  view.kind = "pane" /\ ComponentStep /\ PaneTrue'
<1>1. /\ view.kind = "pane"
      /\ f.op \in {"list", "reread", "thread", "status", "blacklist", "remove", "reply",
                   "old reply"}
  BY DEF PaneAnswer
<1> QED
  BY <1>1, ListAnswerOK, ThreadAnswerOK, StatusAnswerOK, RemovalAnswerOK, ReplyAnswerOK

LEMMA PaneFailedOK ==
  ASSUME ComponentOK, PaneTrue, view.kind = "pane", NEW f \in fetches, Answered(f),
         \/ view' = PaneFailed(f)
         \/ view' = [PaneFailed(f) EXCEPT !.failures = @ + 1]
  PROVE  HasFields(view') /\ view'.kind = view.kind /\ PaneTrue'
<1> DEFINE w == PaneFailed(f)
<1>1. /\ DOMAIN view' = DOMAIN w
      /\ \A x \in DOMAIN w : x # "failures" => view'[x] = w[x]
  BY OneMore
<1>2. /\ DOMAIN w = DOMAIN view /\ w.kind = view.kind /\ w.how = view.how
      /\ w.sends = view.sends /\ w.draft = view.draft
      /\ w.sel = view.sel /\ w.crossed = view.crossed
      /\ \/ w.errors = view.errors /\ w.busy = view.busy
         \/ w.errors = view.errors + 1
      /\ \/ w.loading = view.loading /\ w.shown = view.shown
         \/ view.how = "inbox" => w.shown = NoKey
  BY PaneFacts DEF PaneFailed, Showing
<1> HIDE DEF w
<1>3. /\ DOMAIN view' = DOMAIN view /\ view'.kind = view.kind /\ view'.how = view.how
      /\ view'.sends = view.sends /\ view'.draft = view.draft
      /\ view'.sel = view.sel /\ view'.crossed = view.crossed
      /\ \/ view'.errors = view.errors /\ view'.busy = view.busy
         \/ view'.errors = view.errors + 1
      /\ \/ view'.loading = view.loading /\ view'.shown = view.shown
         \/ view.how = "inbox" => view'.shown = NoKey
  BY <1>1, <1>2, PaneFacts
<1>4. HasFields(view')
  BY <1>3, PaneFacts
<1>5. RepliesCounted'
  BY <1>3 DEF PaneTrue, RepliesCounted
<1>6. InboxCurrent'
  BY <1>3 DEF PaneTrue, InboxCurrent, Answered
<1> QED
  BY <1>3, <1>4, <1>5, <1>6 DEF PaneTrue

LEMMA PaneRefreshed ==
  ASSUME ComponentOK, PaneTrue, NEW granted, RefreshEnds(granted), UNCHANGED view
  PROVE  PaneTrue'
<1>1. \A g \in fetches' : \E e \in fetches : g.op = e.op /\ g.tag = e.tag
  BY RefreshMoves
<1> QED
  BY <1>1 DEF PaneTrue, RepliesCounted, InboxCurrent

LEMMA MountPaneOK ==
  ASSUME SessionSafe, ComponentOK, view = Nothing, LateSavesOf({}), UNCHANGED <<session, page>>, NEW how,
         MountPane(how)
  PROVE  Mounted("pane") /\ PaneTrue'
<1>1. PICK k : /\ how = "inbox" => k = NoKey
               /\ view' = Pane(how, k) /\ Request({List} \cup Threads({k} \ {NoKey}))
  BY DEF MountPane
<1> DEFINE cs == {List} \cup Threads({k} \ {NoKey})
<1>2. \A c \in cs : IsCall(c) /\ c.at = "refreshing" /\ c.op \in {"list", "thread"}
  BY ThreadsFacts
<1>3. Request(cs)
  BY <1>1
<1> HIDE DEF cs
<1>4. /\ view'.kind = "pane" /\ view'.how = how /\ view'.sel = k /\ view'.sends = 0
      /\ view'.errors = 0 /\ HasFields(view')
  BY <1>1 DEF Pane, HasFields, FieldsOf
<1>5. Mounted("pane")
  BY <1>2, <1>3, <1>4, MountCalls DEF OpsOf
<1>6. \A g \in fetches' : g \in fetches \/ \E c \in cs : g.op = c.op /\ g.tag = c.tag
  BY <1>2, <1>3, Asked DEF Request
<1>7. \A g \in fetches' : g.op \notin {"reply", "old reply", "reread"}
  BY <1>2, <1>6, NothingCalls DEF Outliving
<1>8. RepliesCounted'
  BY <1>4 DEF RepliesCounted
<1>9. InboxCurrent'
  BY <1>1, <1>4, <1>7 DEF InboxCurrent
<1> QED
  BY <1>5, <1>8, <1>9 DEF PaneTrue

-----------------------------------------------------------------------------
(* The documents: what they hold is nobody else's.                          *)
DocOps == {"load", "save", "toggle", "assign", "scrape", "delete"}

LEMMA DocFacts ==
  ASSUME ComponentOK, view.kind = "document"
  PROVE  /\ {"kind", "how"} \subseteq DOMAIN view
         /\ OpsOf(view.kind) = DocOps
         /\ \A w : DOMAIN w = DOMAIN view /\ w.kind = view.kind => HasFields(w)
BY SameFields DEF ComponentOK, HasFields, FieldsOf, OpsOf, DocOps

LEMMA DocAsksOK ==
  ASSUME SessionSafe, ComponentOK, view.kind = "document", UNCHANGED <<session, page>>,
         DOMAIN view' = DOMAIN view, view'.kind = view.kind,
         NEW others \in SUBSET fetches, NEW op \in DocOps, NEW tag,
         RequestAlong(others, {Call(op, tag)})
  PROVE  ComponentStep
<1>1. op \in OpsOf(view.kind) /\ HasFields(view') /\ view.kind # "nothing"
  BY DocFacts
<1> QED
  BY <1>1, AskOneOK

LEMMA WriteOK ==
  ASSUME SessionSafe, ComponentOK, view.kind = "document", UNCHANGED page,
         NEW op \in DocOps, NEW tag, NEW v, DOMAIN v = DOMAIN view, v.kind = view.kind,
         Write(Call(op, tag), v)
  PROVE  ComponentStep
<1>1. /\ view' = [v EXCEPT !.disturbed = @ \/ Overlaps] /\ UNCHANGED session
      /\ RequestAlong(fetches, {Call(op, tag)})
  BY DEF Write, Request
<1>2. DOMAIN view' = DOMAIN view /\ view'.kind = view.kind
  BY <1>1, DocFacts
<1> QED
  BY <1>1, <1>2, DocAsksOK

LEMMA UserDocumentOK ==
  ASSUME SessionSafe, ComponentOK, UserDocumentStep, UNCHANGED page
  PROVE  view.kind = "document" /\ ComponentStep
<1>1. view.kind = "document"
  BY DEF UserDocumentStep, Edit, SaveDocument, SaveCampaignSettings, ToggleCampaign,
         ToggleEngine, AssignProspects, Scrape, DeleteCampaign, RetryEngine, IsDoc, Editable,
         CanSave
<1>2. ASSUME NEW p, Edit(p)  PROVE ComponentStep
  <2>1. /\ view' = [view EXCEPT !.local[p] = Other(@), !.dirty = @ \cup {p}]
        /\ UNCHANGED <<session, refresh, fetches>>
    BY <1>2 DEF Edit
  <2>2. DOMAIN view' = DOMAIN view /\ view'.kind = view.kind
    BY <1>1, <2>1, DocFacts
  <2> QED
    BY <1>1, <2>1, <2>2, DocFacts, QuietOK
<1>3. \A x : LET v == [view EXCEPT !.busy = x] IN DOMAIN v = DOMAIN view /\ v.kind = view.kind
  BY <1>1, DocFacts
<1>4. CASE SaveDocument
  <2> DEFINE data == IF view.how = "campaign" THEN Only("steps", view.local["steps"])
                     ELSE view.local
  <2>1. Write(Call("save", Tag("save", data)), [view EXCEPT !.busy = @ \cup {"save"}])
    BY <1>4 DEF SaveDocument
  <2> HIDE DEF data
  <2> QED
    BY <1>1, <1>3, <2>1, WriteOK DEF DocOps
<1>5. CASE SaveCampaignSettings
  BY <1>1, <1>5, WriteOK DEF SaveCampaignSettings, DocOps
<1>6. CASE ToggleCampaign
  BY <1>1, <1>6, WriteOK DEF ToggleCampaign, DocOps
<1>7. CASE ToggleEngine
  BY <1>1, <1>7, WriteOK DEF ToggleEngine, DocOps
<1>8. CASE AssignProspects
  BY <1>1, <1>8, WriteOK DEF AssignProspects, DocOps
<1>9. CASE Scrape
  <2>1. Write(Call("scrape", NoKey), [view EXCEPT !.busy = @ \cup {"scrape"}])
    BY <1>9 DEF Scrape
  <2> QED
    BY <1>1, <1>3, <2>1, WriteOK DEF DocOps
<1>10. CASE DeleteCampaign
  BY <1>1, <1>10, WriteOK DEF DeleteCampaign, DocOps
<1>11. CASE RetryEngine
  <2> DEFINE v == [view EXCEPT !.loading = TRUE, !.failed = FALSE]
             tag == [how |-> "engine", for |-> "page", data |-> Everywhere("engine", Blank)]
  <2>1. Write(Call("load", tag), v)
    BY <1>11 DEF RetryEngine, LoadFor
  <2>2. DOMAIN v = DOMAIN view /\ v.kind = view.kind
    BY <1>1, DocFacts
  <2> HIDE DEF v, tag
  <2> QED
    BY <1>1, <2>1, <2>2, WriteOK DEF DocOps
<1> QED
  BY <1>1, <1>2, <1>4, <1>5, <1>6, <1>7, <1>8, <1>9, <1>10, <1>11 DEF UserDocumentStep

LEMMA ReloadAfterOK ==
  ASSUME SessionSafe, ComponentOK, view.kind = "document", UNCHANGED <<session, page>>,
         NEW f \in fetches, NEW for, NEW v, DOMAIN v = DOMAIN view, v.kind = view.kind,
         ReloadAfter(f, for, v)
  PROVE  ComponentStep
<1> DEFINE tag == [how |-> view.how, for |-> for, data |-> Everywhere(view.how, Blank)]
<1>1. /\ view' = [v EXCEPT !.failed = FALSE, !.disturbed = OthersThan(f)]
      /\ RequestAlong(fetches \ {f}, {Call("load", tag)})
  BY DEF ReloadAfter, LoadFor
<1>2. DOMAIN view' = DOMAIN view /\ view'.kind = view.kind
  BY <1>1, DocFacts
<1> HIDE DEF tag
<1> QED
  BY <1>1, <1>2, DocAsksOK DEF DocOps

LEMMA DocAnsweredOK ==
  ASSUME SessionSafe, ComponentOK, view.kind = "document", NEW f \in fetches, Answered(f),
         UNCHANGED <<session, refresh, page>>, DOMAIN view' = DOMAIN view,
         view'.kind = view.kind
  PROVE  ComponentStep
<1>1. view.kind # "nothing" /\ HasFields(view')
  BY DocFacts
<1> QED
  BY <1>1, EndsOK

LEMMA DocumentAnswerOK ==
  ASSUME SessionSafe, ComponentOK, NEW f \in fetches, DocumentAnswer(f), UNCHANGED page
  PROVE  view.kind = "document" /\ ComponentStep
<1>1. view.kind = "document" /\ UNCHANGED session
  BY DEF DocumentAnswer
<1>2. CASE LoadAnswer(f)
  <2>1. /\ view' = [view EXCEPT !.local = f.tag.data, !.loaded = TRUE, !.loading = FALSE,
                                !.dirty = {}, !.busy = @ \ {f.tag.for}]
        /\ Answered(f) /\ UNCHANGED refresh
    BY <1>2 DEF LoadAnswer
  <2>2. DOMAIN view' = DOMAIN view /\ view'.kind = view.kind
    BY <1>1, <2>1, DocFacts
  <2> QED
    BY <1>1, <2>1, <2>2, DocAnsweredOK
<1>3. CASE SaveAnswer(f)
  <2>1. CASE ReloadAfter(f, "page", [view EXCEPT !.busy = @ \ {f.tag.for}])
    <3> DEFINE v == [view EXCEPT !.busy = @ \ {f.tag.for}]
    <3>1. DOMAIN v = DOMAIN view /\ v.kind = view.kind
      BY <1>1, DocFacts
    <3>2. ReloadAfter(f, "page", v)
      BY <2>1
    <3> HIDE DEF v
    <3> QED
      BY <1>1, <3>1, <3>2, ReloadAfterOK
  <2>2. CASE /\ view' = [view EXCEPT !.busy = {},
                           !.dirty = {p \in @ : view.local[p] # f.tag.data[p]}]
             /\ Answered(f) /\ UNCHANGED refresh
    <3>1. DOMAIN view' = DOMAIN view /\ view'.kind = view.kind
      BY <1>1, <2>2, DocFacts
    <3> QED
      BY <1>1, <2>2, <3>1, DocAnsweredOK
  <2>3. CASE /\ view' = [view EXCEPT !.local["active"] = Other(@)]
             /\ Answered(f) /\ UNCHANGED refresh
    <3>1. DOMAIN view' = DOMAIN view /\ view'.kind = view.kind
      BY <1>1, <2>3, DocFacts
    <3> QED
      BY <1>1, <2>3, <3>1, DocAnsweredOK
  <2>4. CASE ReloadAfter(f, "save", view)
    BY <1>1, <2>4, ReloadAfterOK
  <2> QED
    BY <1>3, <2>1, <2>2, <2>3, <2>4 DEF SaveAnswer
<1>4. CASE ReloadAfter(f, "page", view) \/ ReloadAfter(f, "scrape", view)
  BY <1>1, <1>4, ReloadAfterOK
<1> QED
  BY <1>1, <1>2, <1>3, <1>4 DEF DocumentAnswer

(* A call is served: also a save whose page is gone.                        *)
LEMMA ServeDocumentOK ==
  ASSUME SessionSafe, ComponentOK, NEW f \in fetches, ServeDocument(f), UNCHANGED page
  PROVE  \/ view.kind = "document" /\ ComponentStep
         \/ /\ f.op = "late save" /\ Answered(f)
            /\ UNCHANGED <<session, refresh, view, page>>
<1> DEFINE answer == IF f.op = "load" THEN [f EXCEPT !.tag.data = view.stored] ELSE f
           kept == [answer EXCEPT !.at = "answered"]
<1>1. /\ f.op \in {"load", "save", "late save"} /\ UNCHANGED <<session, refresh>>
      /\ \/ view' = view
         \/ f.op # "load" /\ IsDoc(f.tag.how)
            /\ view' = [view EXCEPT !.stored = Over(@, f.tag.data)]
      /\ fetches' = (fetches \ {f}) \cup (IF f.op = "late save" THEN {} ELSE {kept})
  BY DEF ServeDocument
<1>2. IsCall(f) /\ f.op \in OpsOf(view.kind) \cup OutlivingOf(view.kind)
  BY DEF ComponentOK
<1>3. f.op # "late save" => view.kind = "document"
  BY <1>1, <1>2 DEF OpsOf, OutlivingOf, Outliving
<1>4. CASE view.kind # "document"
  BY <1>1, <1>3, <1>4 DEF IsDoc, Answered
<1>5. CASE view.kind = "document"
  <2>1. DOMAIN answer = DOMAIN f /\ answer.op = f.op /\ answer.at = f.at
    BY <1>2 DEF IsCall
  <2> HIDE DEF answer
  <2>2. IsCall(kept) /\ kept.op = f.op /\ kept.at = "answered"
    BY <1>2, <2>1 DEF IsCall
  <2> HIDE DEF kept
  <2>3. \A g \in fetches' : g \in fetches \/ (IsCall(g) /\ g.op = f.op /\ g.at = "answered")
    BY <1>1, <2>2
  <2>4. DOMAIN view' = DOMAIN view /\ view'.kind = view.kind
    BY <1>1, <1>5, DocFacts
  <2>5. HasFields(view')
    BY <1>5, <2>4, DocFacts
  <2>6. \A g \in fetches' :
          /\ IsCall(g) /\ g.op \in OpsOf(view.kind) \cup OutlivingOf(view.kind)
          /\ g.at = "unauthorized" => \E e \in fetches : e.at = "unauthorized"
    BY <1>2, <2>3 DEF ComponentOK
  <2> QED
    BY <1>1, <1>5, <2>4, <2>5, <2>6 DEF ComponentStep, SessionSafe
<1> QED
  BY <1>4, <1>5

LEMMA DocumentFailedOK ==
  ASSUME ComponentOK, view.kind = "document", NEW f \in fetches,
         \/ view' = DocumentFailed(f)
         \/ view' = [DocumentFailed(f) EXCEPT !.failures = @ + 1]
  PROVE  HasFields(view') /\ view'.kind = view.kind
<1> DEFINE w == DocumentFailed(f)
<1>1. /\ DOMAIN view' = DOMAIN w
      /\ \A x \in DOMAIN w : x # "failures" => view'[x] = w[x]
  BY OneMore
<1>2. DOMAIN w = DOMAIN view /\ w.kind = view.kind
  BY DocFacts DEF DocumentFailed
<1> HIDE DEF w
<1>3. DOMAIN view' = DOMAIN view /\ view'.kind = view.kind
  BY <1>1, <1>2, DocFacts
<1> QED
  BY <1>3, DocFacts

LEMMA MountDocumentOK ==
  ASSUME SessionSafe, ComponentOK, view = Nothing, UNCHANGED <<session, page>>, NEW how,
         MountDocument(how)
  PROVE  Mounted("document")
<1> DEFINE cs == {LoadFor(how, "page")}
<1>1. view' = Doc(how) /\ Request(cs)
  BY DEF MountDocument
<1>2. \A c \in cs : IsCall(c) /\ c.at = "refreshing" /\ c.op = "load"
  BY CallFacts DEF LoadFor
<1> HIDE DEF cs
<1>3. view'.kind = "document" /\ HasFields(view')
  BY <1>1 DEF Doc, HasFields, FieldsOf
<1> QED
  BY <1>1, <1>2, <1>3, MountCalls DEF OpsOf

-----------------------------------------------------------------------------
(* The forms.                                                               *)
FormOps == {"list", "create", "update", "remove", "convert", "status", "toggle"}

(* A new client has been sent once more than it failed only while the call  *)
(* is under way.                                                            *)
ClientsCounted ==
  /\ view.sends \in Nat /\ view.errors \in Nat
  /\ view.how = "clients" =>
       /\ view.sends <= 1 + view.errors
       /\ view.busy = {} => view.sends <= view.errors

Questions == {"nothing", "remove", "convert"}

FormTrue ==
  view.kind = "form" =>
    view.editing = view.about /\ view.asked \in Questions /\ ClientsCounted

LEMMA FormFacts ==
  ASSUME ComponentOK, view.kind = "form"
  PROVE  /\ {"kind", "how", "open", "editing", "about", "asked", "busy", "sends", "errors"}
              \subseteq DOMAIN view
         /\ OpsOf(view.kind) = FormOps
         /\ \A w : DOMAIN w = DOMAIN view /\ w.kind = view.kind => HasFields(w)
BY SameFields DEF ComponentOK, HasFields, FieldsOf, OpsOf, FormOps

(* What the steps of a form do to what is counted: nothing, or it starts    *)
(* again with other content.                                                *)
Kept(v) ==
  /\ DOMAIN v = DOMAIN view /\ v.kind = view.kind /\ v.how = view.how
  /\ v.asked \in {view.asked} \cup Questions
  /\ \/ /\ v.editing = view.editing /\ v.about = view.about
        /\ v.sends = view.sends /\ v.errors = view.errors /\ v.busy = view.busy
     \/ v.editing = v.about /\ v.sends = 0 /\ v.errors = 0

LEMMA KeptOK ==
  ASSUME ComponentOK, view.kind = "form", FormTrue, Kept(view')
  PROVE  FormTrue' /\ HasFields(view') /\ view'.kind = view.kind /\ view.kind # "nothing"
<1>1. ClientsCounted'
  BY DEF FormTrue, ClientsCounted, Kept
<1> QED
  BY <1>1, FormFacts DEF FormTrue, Kept

LEMMA BlankedKept ==
  ASSUME ComponentOK, view.kind = "form"
  PROVE  Kept(view) /\ Kept(Blanked(view))
BY FormFacts DEF Kept, Blanked

LEMMA QuietFormOK ==
  ASSUME SessionSafe, ComponentOK, FormTrue, view.kind = "form",
         UNCHANGED <<session, page, refresh, fetches>>, Kept(view')
  PROVE  ComponentStep /\ FormTrue'
BY KeptOK, QuietOK

LEMMA AskFormOK ==
  ASSUME SessionSafe, ComponentOK, FormTrue, view.kind = "form", UNCHANGED <<session, page>>,
         Kept(view'), NEW others \in SUBSET fetches, NEW op \in FormOps, NEW tag,
         RequestAlong(others, {Call(op, tag)})
  PROVE  ComponentStep /\ FormTrue'
<1>1. op \in OpsOf(view.kind)
  BY FormFacts
<1> QED
  BY <1>1, KeptOK, AskOneOK

LEMMA ModalOK ==
  ASSUME SessionSafe, ComponentOK, FormTrue, UNCHANGED page,
         OpenNew \/ OpenEmpty \/ (\E k \in Keys : OpenEdit(k)) \/ Fill \/ Close \/ Ask \/ Decline
  PROVE  view.kind = "form" /\ ComponentStep /\ FormTrue'
<1>1. view.kind = "form" /\ UNCHANGED <<session, refresh, fetches>>
  BY DEF OpenNew, OpenEmpty, OpenEdit, Fill, Close, Ask, Decline, OnForm
<1>2. Kept(view) /\ Kept(Blanked(view))
  BY <1>1, BlankedKept
<1>3. ASSUME NEW v, Kept(v), view' = [v EXCEPT !.open = TRUE] \/ view' = [v EXCEPT !.open = FALSE]
      PROVE  Kept(view')
  BY <1>1, <1>3, FormFacts DEF Kept
<1>4. CASE OpenNew \/ OpenEmpty
  <2>1. PICK v : Kept(v) /\ view' = [v EXCEPT !.open = TRUE]
    BY <1>2, <1>4 DEF OpenNew, OpenEmpty
  <2>2. Kept(view')
    BY <1>3, <2>1
  <2> QED
    BY <1>1, <2>2, QuietFormOK
<1>5. CASE \E k \in Keys : OpenEdit(k)
  <2>1. PICK k \in Keys : view' = [Blanked(view) EXCEPT !.open = TRUE, !.editing = k,
                                                        !.about = k, !.filled = TRUE]
    BY <1>5 DEF OpenEdit
  <2>2. Kept(view')
    BY <1>1, <2>1, FormFacts DEF Kept, Blanked
  <2> QED
    BY <1>1, <2>2, QuietFormOK
<1>6. CASE Fill
  <2>1. view' = [view EXCEPT !.filled = TRUE, !.sends = 0, !.errors = 0]
    BY <1>6 DEF Fill
  <2>2. view'.editing = view'.about
    BY <1>1, <2>1, FormFacts DEF FormTrue
  <2>3. Kept(view')
    BY <1>1, <2>1, <2>2, FormFacts DEF Kept
  <2> QED
    BY <1>1, <2>3, QuietFormOK
<1>7. CASE Close
  <2>1. PICK v : Kept(v) /\ view' = [v EXCEPT !.open = FALSE]
    BY <1>2, <1>7 DEF Close
  <2>2. Kept(view')
    BY <1>3, <2>1
  <2> QED
    BY <1>1, <2>2, QuietFormOK
<1>8. CASE Ask \/ Decline
  <2>1. \E x \in Questions : view' = [view EXCEPT !.asked = x]
    BY <1>8 DEF Ask, Decline, Questions
  <2>2. Kept(view')
    BY <1>1, <2>1, FormFacts DEF Kept
  <2> QED
    BY <1>1, <2>2, QuietFormOK
<1> QED
  BY <1>4, <1>5, <1>6, <1>7, <1>8

LEMMA SaveFormOK ==
  ASSUME SessionSafe, ComponentOK, FormTrue, SaveForm, UNCHANGED page
  PROVE  view.kind = "form" /\ ComponentStep /\ FormTrue'
<1>1. view.kind = "form" /\ UNCHANGED session
  BY DEF SaveForm, OnForm
<1>2. PICK op, tag : op \in {"create", "update"} /\ RequestAlong(fetches, {Call(op, tag)})
  <2>1. CASE view.editing = NoKey
    <3>1. RequestAlong(fetches, {Call("create", NoKey)})
      BY <2>1 DEF SaveForm, Request
    <3> QED
      BY <3>1
  <2>2. CASE view.editing # NoKey
    <3>1. RequestAlong(fetches, {Call("update", view.editing)})
      BY <2>2 DEF SaveForm, Request
    <3> QED
      BY <3>1
  <2> QED
    BY <2>1, <2>2
<1>3. op \in FormOps
  BY <1>2 DEF FormOps
<1>4. CASE OnForm({"clients"})
  <2>1. /\ view.busy = {} /\ view' = [view EXCEPT !.busy = {"create"}, !.sends = @ + 1]
        /\ view.how = "clients"
    BY <1>4 DEF SaveForm, OnForm
  <2>2. /\ DOMAIN view' = DOMAIN view /\ view'.kind = view.kind /\ view'.how = view.how
        /\ view'.editing = view.editing /\ view'.about = view.about
        /\ view'.sends = view.sends + 1 /\ view'.errors = view.errors
        /\ view'.busy = {"create"} /\ view'.asked = view.asked
    BY <1>1, <2>1, FormFacts
  <2>3. HasFields(view') /\ view.kind # "nothing" /\ op \in OpsOf(view.kind)
    BY <1>1, <1>3, <2>2, FormFacts
  <2>4. ComponentStep
    BY <1>1, <1>2, <2>2, <2>3, AskOneOK
  <2>5. ClientsCounted'
    BY <1>1, <2>1, <2>2 DEF FormTrue, ClientsCounted
  <2> QED
    BY <1>1, <2>2, <2>4, <2>5 DEF FormTrue
<1>5. CASE ~OnForm({"clients"})
  <2>1. view' = view
    BY <1>5 DEF SaveForm
  <2>2. Kept(view')
    BY <1>1, <2>1, BlankedKept
  <2> QED
    BY <1>1, <1>2, <1>3, <2>2, AskFormOK
<1> QED
  BY <1>4, <1>5

LEMMA ConfirmOK ==
  ASSUME SessionSafe, ComponentOK, FormTrue, UNCHANGED page,
         Confirm \/ ActOnItem \/ RelistForm
  PROVE  view.kind = "form" /\ ComponentStep /\ FormTrue'
<1>1. view.kind = "form" /\ UNCHANGED session
  BY DEF Confirm, ActOnItem, RelistForm, OnForm
<1>2. Kept(view')
  <2>1. CASE view' = view
    BY <1>1, <2>1, BlankedKept
  <2>2. CASE view' = [view EXCEPT !.failed = FALSE, !.loading = @ \/ view.how = "clients"]
    BY <1>1, <2>2, FormFacts DEF Kept
  <2> QED
    BY <2>1, <2>2 DEF Confirm, ActOnItem, RelistForm
<1>3. CASE Confirm
  <2>1. view.asked \in FormOps /\ RequestAlong(fetches, {Call(view.asked, NoKey)})
    BY <1>1, <1>3 DEF Confirm, Request, FormOps, FormTrue, Questions
  <2> QED
    BY <1>1, <1>2, <2>1, AskFormOK
<1>4. CASE ActOnItem
  <2>1. PICK op \in {"remove", "status", "toggle"} : RequestAlong(fetches, {Call(op, NoKey)})
    BY <1>4 DEF ActOnItem, Request, OnForm
  <2> QED
    BY <1>1, <1>2, <2>1, AskFormOK DEF FormOps
<1>5. CASE RelistForm
  <2>1. RequestAlong(fetches, {Call("list", NoKey)})
    BY <1>5 DEF RelistForm, Request, Reread
  <2> QED
    BY <1>1, <1>2, <2>1, AskFormOK DEF FormOps
<1> QED
  BY <1>3, <1>4, <1>5

LEMMA UserFormOK ==
  ASSUME SessionSafe, ComponentOK, FormTrue, UserFormStep, UNCHANGED page
  PROVE  view.kind = "form" /\ ComponentStep /\ FormTrue'
BY ModalOK, SaveFormOK, ConfirmOK DEF UserFormStep

LEMMA FormAnswerOK ==
  ASSUME SessionSafe, ComponentOK, FormTrue, NEW f \in fetches, FormAnswer(f), UNCHANGED page
  PROVE  view.kind = "form" /\ ComponentStep /\ FormTrue'
<1>1. view.kind = "form" /\ UNCHANGED session
  BY DEF FormAnswer
<1>2. CASE f.op = "list"
  <2>1. \E found : view' = [view EXCEPT !.listed = found, !.loading = FALSE]
    BY <1>2 DEF FormAnswer
  <2>2. Answered(f) /\ UNCHANGED refresh
    BY <1>2 DEF FormAnswer
  <2>3. Kept(view')
    BY <1>1, <2>1, FormFacts DEF Kept
  <2>4. FormTrue' /\ HasFields(view') /\ view'.kind = view.kind /\ view.kind # "nothing"
    BY <1>1, <2>3, KeptOK
  <2> QED
    BY <1>1, <2>2, <2>4, EndsOK
<1>3. CASE f.op # "list"
  <2> DEFINE w == AfterSave(f.op)
  <2>1. view' = Listing(w) /\ RequestAlong(fetches \ {f}, {Call("list", NoKey)})
    BY <1>3 DEF FormAnswer, Reread
  <2>2. Kept(w)
    <3>1. Kept(view) /\ Kept(Blanked(view))
      BY <1>1, BlankedKept
    <3>2. CASE w = [Blanked(view) EXCEPT !.open = FALSE, !.busy = {}]
      <4>1. LET b == Blanked(view) IN
              /\ DOMAIN b = DOMAIN view /\ b.editing = NoKey /\ b.about = NoKey
              /\ b.sends = 0 /\ b.errors = 0
        BY <1>1, FormFacts DEF Blanked
      <4> QED
        BY <1>1, <3>1, <3>2, <4>1, FormFacts DEF Kept
    <3>3. CASE w = [view EXCEPT !.asked = "nothing"]
      BY <1>1, <3>3, FormFacts DEF Kept, Questions
    <3>4. CASE w = view
      BY <3>1, <3>4
    <3> QED
      BY <3>2, <3>3, <3>4 DEF AfterSave
  <2> HIDE DEF w
  <2>3. Kept(view')
    BY <1>1, <2>1, <2>2, FormFacts DEF Kept, Listing
  <2> QED
    BY <1>1, <2>1, <2>3, AskFormOK DEF FormOps
<1> QED
  BY <1>2, <1>3

LEMMA FormFailedOK ==
  ASSUME ComponentOK, FormTrue, view.kind = "form", NEW f \in fetches,
         \/ view' = FormFailed(f)
         \/ view' = [FormFailed(f) EXCEPT !.failures = @ + 1]
  PROVE  HasFields(view') /\ view'.kind = view.kind /\ FormTrue'
<1> DEFINE w == FormFailed(f)
<1>1. /\ DOMAIN view' = DOMAIN w
      /\ \A x \in DOMAIN w : x # "failures" => view'[x] = w[x]
  BY OneMore
<1>2. /\ DOMAIN w = DOMAIN view /\ w.kind = view.kind /\ w.how = view.how
      /\ w.editing = view.editing /\ w.about = view.about /\ w.asked = view.asked
      /\ w.sends = view.sends
      /\ \/ w.errors = view.errors /\ w.busy = view.busy
         \/ w.errors = (IF view.sends > 0 THEN view.errors + 1 ELSE view.errors)
  BY FormFacts DEF FormFailed
<1> HIDE DEF w
<1>3. /\ DOMAIN view' = DOMAIN view /\ view'.kind = view.kind /\ view'.how = view.how
      /\ view'.editing = view.editing /\ view'.about = view.about /\ view'.asked = view.asked
      /\ view'.sends = view.sends
      /\ \/ view'.errors = view.errors /\ view'.busy = view.busy
         \/ view'.errors = (IF view.sends > 0 THEN view.errors + 1 ELSE view.errors)
  BY <1>1, <1>2, FormFacts
<1>4. HasFields(view')
  BY <1>3, FormFacts
<1>5. ClientsCounted'
  BY <1>3 DEF FormTrue, ClientsCounted
<1> QED
  BY <1>3, <1>4, <1>5 DEF FormTrue

LEMMA MountFormOK ==
  ASSUME SessionSafe, ComponentOK, view = Nothing, LateSavesOf({}), UNCHANGED <<session, page>>, NEW how,
         MountForm(how)
  PROVE  Mounted("form") /\ FormTrue'
<1> DEFINE cs == {Call("list", NoKey)}
<1>1. view' = Form(how) /\ Request(cs)
  BY DEF MountForm, Reread
<1>2. \A c \in cs : IsCall(c) /\ c.at = "refreshing" /\ c.op = "list"
  BY CallFacts
<1> HIDE DEF cs
<1>3. view'.kind = "form" /\ HasFields(view')
  BY <1>1 DEF Form, HasFields, FieldsOf
<1>4. Mounted("form")
  BY <1>1, <1>2, <1>3, MountCalls DEF OpsOf
<1>5. /\ view'.editing = view'.about /\ view'.asked \in Questions
      /\ view'.sends = 0 /\ view'.errors = 0
  BY <1>1 DEF Form, Questions
<1>6. ClientsCounted'
  BY <1>5 DEF ClientsCounted
<1> QED
  BY <1>4, <1>5, <1>6 DEF FormTrue

-----------------------------------------------------------------------------
(* The sections.                                                            *)
SectionCalls(how) ==
  CASE how = "phone" -> {"search", "buy"}
    [] how = "crm" -> {"test", "connect"}
    [] how = "registration" -> {"submit"}
    [] OTHER -> {"billing", "checkout", "portal"}

(* A number has been bought, or a registration submitted, once more than it *)
(* failed only while that is under way.                                     *)
CountedSection ==
  /\ view.sends \in Nat /\ view.errors \in Nat /\ view.sends <= 1 + view.errors
  /\ At("phone") /\ ~view.known /\ "buy" \notin view.busy => view.sends <= view.errors
  /\ At("registration") /\ ~view.typed /\ "submit" \notin view.busy =>
       view.sends <= view.errors

(* There is one test and one connect at a time, for what is shown.          *)
CRMTested ==
  /\ view.connected /\ ~view.excused => view.proved = <<view.crmType, view.apiKey>>
  /\ \A f \in fetches : f.op \in {"test", "connect"} =>
       /\ f.op \in view.busy
       /\ ~view.excused => f.tag = <<view.crmType, view.apiKey>>
  /\ \A f, g \in fetches : f.op \in {"test", "connect"} /\ g.op = f.op => f = g

SectionTrue ==
  /\ view.kind = "section" =>
       \A f \in fetches : f.op \in SectionCalls(view.how) \cup Outliving
  /\ At("phone") \/ At("registration") => CountedSection
  /\ At("crm") => CRMTested

LEMMA SectionFacts ==
  ASSUME ComponentOK, view.kind = "section"
  PROVE  /\ {"kind", "how"} \subseteq DOMAIN view
         /\ At("phone") => {"known", "busy", "sends", "errors"} \subseteq DOMAIN view
         /\ At("registration") => {"typed", "busy", "sends", "errors"} \subseteq DOMAIN view
         /\ At("crm") => {"crmType", "apiKey", "connected", "busy", "proved", "excused"}
                           \subseteq DOMAIN view
         /\ OpsOf(view.kind) = {"search", "buy", "test", "connect", "submit", "billing",
                                "checkout", "portal"}
         /\ \A w : DOMAIN w = DOMAIN view /\ w.kind = view.kind /\ w.how = view.how =>
              HasFields(w)
<1>1. HasFields(view)
  BY DEF ComponentOK
<1>2. \A w : DOMAIN w = DOMAIN view /\ w.kind = view.kind /\ w.how = view.how => HasFields(w)
  BY <1>1, SameFields
<1>3. "kind" \in DOMAIN view /\ FieldsOf(view) \subseteq DOMAIN view
  BY <1>1 DEF HasFields
<1>4. CASE view.how = "phone"
  BY <1>2, <1>3, <1>4 DEF FieldsOf, OpsOf, At
<1>5. CASE view.how = "registration"
  BY <1>2, <1>3, <1>5 DEF FieldsOf, OpsOf, At
<1>6. CASE view.how = "crm"
  BY <1>2, <1>3, <1>6 DEF FieldsOf, OpsOf, At
<1>7. CASE view.how \notin {"phone", "registration", "crm"}
  BY <1>2, <1>3, <1>7 DEF FieldsOf, OpsOf, At
<1> QED
  BY <1>4, <1>5, <1>6, <1>7

LEMMA RawFacts ==
  ASSUME NEW op, NEW tag, RequestRaw(op, tag)
  PROVE  /\ refresh' = refresh
         /\ \E g : fetches' = fetches \cup {g} /\ IsCall(g) /\ g.op = op /\ g.tag = tag
                     /\ g.at = "sent"
<1> DEFINE c == Call(op, tag)
           g == [c EXCEPT !.at = "sent"]
<1>1. IsCall(c) /\ c.op = op /\ c.tag = tag
  BY CallFacts
<1>2. fetches' = fetches \cup {g} /\ refresh' = refresh
  BY DEF RequestRaw
<1> HIDE DEF c
<1>3. IsCall(g) /\ g.op = op /\ g.tag = tag /\ g.at = "sent"
  BY <1>1 DEF IsCall
<1> QED
  BY <1>2, <1>3

(* A button is pressed: v is what else changes.                             *)
LEMMA PressOK ==
  ASSUME SessionSafe, ComponentOK, view.kind = "section", UNCHANGED page,
         NEW op \in SectionCalls(view.how), NEW tag, NEW v, Press(op, tag, v),
         DOMAIN v = DOMAIN view, v.kind = view.kind, v.how = view.how
  PROVE  /\ ComponentStep /\ UNCHANGED <<session, refresh>>
         /\ DOMAIN view' = DOMAIN view /\ view'.kind = view.kind /\ view'.how = view.how
         /\ \A x \in DOMAIN view : x # "busy" => view'[x] = v[x]
         /\ "busy" \in DOMAIN view => view'.busy = v.busy \cup {op}
         /\ \E g : /\ fetches' = fetches \cup {g} /\ g.op = op /\ g.tag = tag
<1>1. /\ view' = [v EXCEPT !.busy = @ \cup {op}] /\ UNCHANGED session
      /\ RequestRaw(op, tag)
  BY DEF Press
<1>2. PICK g : /\ fetches' = fetches \cup {g} /\ IsCall(g) /\ g.op = op /\ g.tag = tag
               /\ g.at = "sent" /\ refresh' = refresh
  BY <1>1, RawFacts
<1>3. /\ DOMAIN view' = DOMAIN view /\ view'.kind = view.kind /\ view'.how = view.how
  BY <1>1, SectionFacts
<1>4. HasFields(view')
  BY <1>3, SectionFacts
<1>5. op \in OpsOf(view.kind)
  BY SectionFacts DEF SectionCalls
<1>6. ComponentStep
  BY <1>1, <1>2, <1>3, <1>4, <1>5 DEF ComponentStep, ComponentOK, SessionSafe
<1>7. /\ \A x \in DOMAIN view : x # "busy" => view'[x] = v[x]
      /\ "busy" \in DOMAIN view => view'.busy = v.busy \cup {op}
  BY <1>1
<1> QED
  BY <1>1, <1>2, <1>3, <1>6, <1>7

LEMMA BuyOK ==
  ASSUME SessionSafe, ComponentOK, SectionTrue, SearchNumbers \/ BuyNumber, UNCHANGED page
  PROVE  At("phone") /\ ComponentStep /\ SectionTrue'
<1>1. At("phone") /\ view.kind = "section" /\ view.how = "phone"
  BY DEF SearchNumbers, BuyNumber, At
<1>2. PICK op, v :
        /\ op \in {"search", "buy"}
        /\ Press(op, NoKey, v)
        /\ \/ op = "search" /\ v = [view EXCEPT !.numbers = FALSE]
           \/ op = "buy" /\ "buy" \notin view.busy /\ v = Counted(view) /\ ~view.known
  BY DEF SearchNumbers, BuyNumber, CanPress
<1>3. /\ DOMAIN v = DOMAIN view /\ v.kind = view.kind /\ v.how = view.how
      /\ v.known = view.known /\ v.errors = view.errors /\ v.busy = view.busy
      /\ v.sends = IF op = "buy" THEN view.sends + 1 ELSE view.sends
  BY <1>1, <1>2, SectionFacts DEF Counted
<1>4. op \in SectionCalls(view.how)
  BY <1>1, <1>2 DEF SectionCalls
<1>5. /\ ComponentStep /\ view'.kind = view.kind /\ view'.how = view.how
      /\ \A x \in DOMAIN view : x # "busy" => view'[x] = v[x]
      /\ "busy" \in DOMAIN view => view'.busy = v.busy \cup {op}
      /\ \E g : fetches' = fetches \cup {g} /\ g.op = op /\ g.tag = NoKey
  BY <1>1, <1>2, <1>3, <1>4, PressOK
<1>6. /\ view'.known = view.known /\ view'.errors = view.errors
      /\ view'.sends = IF op = "buy" THEN view.sends + 1 ELSE view.sends
      /\ view'.busy = view.busy \cup {op}
  BY <1>1, <1>3, <1>5, SectionFacts
<1>7. CountedSection'
  <2>1. CountedSection
    BY <1>1 DEF SectionTrue
  <2> QED
    BY <1>1, <1>2, <1>5, <1>6, <2>1 DEF CountedSection, At
<1>8. \A f \in fetches' : f.op \in SectionCalls(view'.how) \cup Outliving
  BY <1>1, <1>4, <1>5 DEF SectionTrue
<1> QED
  BY <1>1, <1>5, <1>7, <1>8 DEF SectionTrue, At

LEMMA SubmitBusinessOK ==
  ASSUME SessionSafe, ComponentOK, SectionTrue, ChooseBusiness \/ SubmitBusiness, UNCHANGED page
  PROVE  At("registration") /\ ComponentStep /\ SectionTrue'
<1>1. At("registration") /\ view.kind = "section" /\ view.how = "registration"
  BY DEF ChooseBusiness, SubmitBusiness, NeedsInfo, At
<1>2. CountedSection
  BY <1>1 DEF SectionTrue
<1>3. CASE ChooseBusiness
  <2>1. view' = [view EXCEPT !.chosen = TRUE] /\ UNCHANGED <<session, refresh, fetches>>
    BY <1>3 DEF ChooseBusiness
  <2>2. /\ DOMAIN view' = DOMAIN view /\ view'.kind = view.kind /\ view'.how = view.how
        /\ view'.typed = view.typed /\ view'.errors = view.errors /\ view'.busy = view.busy
        /\ view'.sends = view.sends
    BY <1>1, <2>1, SectionFacts
  <2>3. ComponentStep
    BY <1>1, <2>1, <2>2, SectionFacts, QuietOK
  <2>4. CountedSection'
    BY <1>1, <1>2, <2>2 DEF CountedSection, At
  <2> QED
    BY <1>1, <2>1, <2>2, <2>3, <2>4 DEF SectionTrue, At
<1>4. CASE SubmitBusiness
  <2>1. /\ Press("submit", NoKey, Counted(view)) /\ "submit" \notin view.busy /\ ~view.typed
    BY <1>4 DEF SubmitBusiness, CanPress, NeedsInfo
  <2> DEFINE v == Counted(view)
  <2>2. /\ DOMAIN v = DOMAIN view /\ v.kind = view.kind /\ v.how = view.how
        /\ v.typed = view.typed /\ v.errors = view.errors /\ v.busy = view.busy
        /\ v.sends = view.sends + 1
    BY <1>1, SectionFacts DEF Counted
  <2>3. Press("submit", NoKey, v)
    BY <2>1
  <2> HIDE DEF v
  <2>4. "submit" \in SectionCalls(view.how)
    BY <1>1 DEF SectionCalls
  <2>5. /\ ComponentStep /\ view'.kind = view.kind /\ view'.how = view.how
        /\ \A x \in DOMAIN view : x # "busy" => view'[x] = v[x]
        /\ "busy" \in DOMAIN view => view'.busy = v.busy \cup {"submit"}
        /\ \E g : fetches' = fetches \cup {g} /\ g.op = "submit" /\ g.tag = NoKey
    BY <1>1, <2>2, <2>3, <2>4, PressOK
  <2>6. /\ view'.typed = view.typed /\ view'.errors = view.errors
        /\ view'.sends = view.sends + 1 /\ view'.busy = view.busy \cup {"submit"}
    BY <1>1, <2>2, <2>5, SectionFacts
  <2>7. CountedSection'
    BY <1>1, <1>2, <2>1, <2>5, <2>6 DEF CountedSection, At
  <2>8. \A f \in fetches' : f.op \in SectionCalls(view'.how) \cup Outliving
    BY <1>1, <2>4, <2>5 DEF SectionTrue
  <2> QED
    BY <1>1, <2>5, <2>7, <2>8 DEF SectionTrue, At
<1> QED
  BY <1>3, <1>4

LEMMA ChooseCRMOK ==
  ASSUME SessionSafe, ComponentOK, SectionTrue, UNCHANGED page,
         (\E type \in CRMs : ChooseCRM(type)) \/ (\E k \in Keys : TypeKey(k))
  PROVE  At("crm") /\ ComponentStep /\ SectionTrue'
<1>1. /\ At("crm") /\ view.kind = "section" /\ view.how = "crm"
      /\ UNCHANGED <<session, refresh, fetches>>
  BY DEF ChooseCRM, TypeKey, At
<1>2. CRMTested
  BY <1>1 DEF SectionTrue
<1>3. /\ DOMAIN view' = DOMAIN view /\ view'.kind = view.kind /\ view'.how = view.how
      /\ view'.busy = view.busy
      /\ \/ view'.connected = FALSE /\ view'.excused = (view.busy # {})
         \/ view'.excused = TRUE
  <2>1. CASE \E type \in CRMs : ChooseCRM(type)
    <3>1. PICK type : view' = [Untested(view) EXCEPT !.crmType = type,
                                                     !.excused = view.busy # {}]
      BY <2>1 DEF ChooseCRM
    <3> QED
      BY <1>1, <3>1, SectionFacts DEF Untested
  <2>2. CASE \E k \in Keys : TypeKey(k)
    <3>1. PICK k : view' = [view EXCEPT !.apiKey = k, !.excused = TRUE]
      BY <2>2 DEF TypeKey
    <3> QED
      BY <1>1, <3>1, SectionFacts
  <2> QED
    BY <2>1, <2>2
<1>4. ComponentStep
  BY <1>1, <1>3, SectionFacts, QuietOK
<1>5. CRMTested'
  BY <1>1, <1>2, <1>3 DEF CRMTested
<1> QED
  BY <1>1, <1>3, <1>4, <1>5 DEF SectionTrue, At

LEMMA PressCRMOK ==
  ASSUME SessionSafe, ComponentOK, SectionTrue, TestCRM \/ ConnectCRM, UNCHANGED page
  PROVE  At("crm") /\ ComponentStep /\ SectionTrue'
<1>1. At("crm") /\ view.kind = "section" /\ view.how = "crm"
  BY DEF TestCRM, ConnectCRM, HasKey, At
<1>2. CRMTested
  BY <1>1 DEF SectionTrue
<1> DEFINE tag == <<view.crmType, view.apiKey>>
<1>3. PICK op, v :
        /\ op \in {"test", "connect"} /\ Press(op, tag, v) /\ op \notin view.busy
        /\ v = view \/ v = [Untested(view) EXCEPT !.excused = view.busy # {}]
  BY DEF TestCRM, ConnectCRM
<1> HIDE DEF tag
<1>4. /\ DOMAIN v = DOMAIN view /\ v.kind = view.kind /\ v.how = view.how
      /\ v.crmType = view.crmType /\ v.apiKey = view.apiKey /\ v.busy = view.busy
      /\ \/ /\ v.connected = view.connected /\ v.excused = view.excused
            /\ v.proved = view.proved
         \/ v.connected = FALSE /\ v.excused = (view.busy # {})
  BY <1>1, <1>3, SectionFacts DEF Untested
<1>5. op \in SectionCalls(view.how)
  BY <1>1, <1>3 DEF SectionCalls
<1>6. /\ ComponentStep /\ view'.kind = view.kind /\ view'.how = view.how
      /\ \A x \in DOMAIN view : x # "busy" => view'[x] = v[x]
      /\ "busy" \in DOMAIN view => view'.busy = v.busy \cup {op}
      /\ \E g : fetches' = fetches \cup {g} /\ g.op = op /\ g.tag = tag
  BY <1>1, <1>3, <1>4, <1>5, PressOK
<1>7. /\ view'.crmType = view.crmType /\ view'.apiKey = view.apiKey
      /\ view'.busy = view.busy \cup {op}
      /\ \/ /\ view'.connected = view.connected /\ view'.excused = view.excused
            /\ view'.proved = view.proved
         \/ view'.connected = FALSE /\ view'.excused = (view.busy # {})
  BY <1>1, <1>4, <1>6, SectionFacts
<1>8. PICK g : fetches' = fetches \cup {g} /\ g.op = op /\ g.tag = tag
  BY <1>6
<1>9. CRMTested'
  <2>1. view'.connected /\ ~view'.excused => view'.proved = <<view'.crmType, view'.apiKey>>
    BY <1>2, <1>7 DEF CRMTested
  <2>2. \A f \in fetches' : f.op \in {"test", "connect"} =>
          /\ f.op \in view'.busy
          /\ ~view'.excused => f.tag = <<view'.crmType, view'.apiKey>>
    BY <1>2, <1>7, <1>8 DEF CRMTested, tag
  <2>3. \A f, h \in fetches' : f.op \in {"test", "connect"} /\ h.op = f.op => f = h
    BY <1>2, <1>3, <1>8 DEF CRMTested
  <2> QED
    BY <2>1, <2>2, <2>3 DEF CRMTested
<1>10. \A f \in fetches' : f.op \in SectionCalls(view'.how) \cup Outliving
  BY <1>1, <1>5, <1>6, <1>8 DEF SectionTrue
<1> QED
  BY <1>1, <1>6, <1>9, <1>10 DEF SectionTrue, At

LEMMA BillingOK ==
  ASSUME SessionSafe, ComponentOK, SectionTrue, Subscribe \/ OpenPortal, UNCHANGED page
  PROVE  At("billing") /\ ComponentStep /\ SectionTrue'
<1>1. At("billing") /\ view.kind = "section" /\ view.how = "billing"
  BY DEF Subscribe, OpenPortal, At
<1>2. PICK op, v :
        /\ op \in {"checkout", "portal"}
        /\ Press(op, NoKey, v)
        /\ v = view \/ v = [view EXCEPT !.busy = {}]
  BY DEF Subscribe, OpenPortal
<1>3. DOMAIN v = DOMAIN view /\ v.kind = view.kind /\ v.how = view.how
  BY <1>1, <1>2, SectionFacts
<1>4. op \in SectionCalls(view.how)
  BY <1>1, <1>2 DEF SectionCalls
<1>5. /\ ComponentStep /\ view'.kind = view.kind /\ view'.how = view.how
      /\ \E g : fetches' = fetches \cup {g} /\ g.op = op /\ g.tag = NoKey
  BY <1>1, <1>2, <1>3, <1>4, PressOK
<1>6. \A f \in fetches' : f.op \in SectionCalls(view'.how) \cup Outliving
  BY <1>1, <1>4, <1>5 DEF SectionTrue
<1> QED
  BY <1>1, <1>5, <1>6 DEF SectionTrue, At

LEMMA UserSectionOK ==
  ASSUME SessionSafe, ComponentOK, SectionTrue, UserSectionStep, UNCHANGED page
  PROVE  view.kind = "section" /\ ComponentStep /\ SectionTrue'
BY BuyOK, SubmitBusinessOK, ChooseCRMOK, PressCRMOK, BillingOK DEF UserSectionStep, At

(* What the end of a call does to what is counted: its flag is put back,    *)
(* and it was a success, or an error of what was sent.                      *)
CountsOK ==
  /\ DOMAIN view' = DOMAIN view /\ view'.kind = view.kind /\ view'.how = view.how
  /\ At("phone") =>
       /\ view'.sends = view.sends
       /\ \/ /\ view'.errors = view.errors /\ view'.known = view.known
             /\ "buy" \in view.busy => "buy" \in view'.busy
          \/ view'.errors = view.errors /\ view'.known
          \/ view'.errors = view.errors + 1
  /\ At("registration") =>
       /\ view'.sends = view.sends
       /\ \/ view'.errors = view.errors /\ view'.typed = view.typed /\ view'.busy = view.busy
          \/ view'.errors = view.errors /\ view'.typed
          \/ view'.errors = view.errors + 1

LEMMA CountsKept ==
  ASSUME SectionTrue, view.kind = "section", CountsOK
  PROVE  At("phone") \/ At("registration") => CountedSection'
<1>1. CASE At("phone")
  BY <1>1 DEF SectionTrue, CountedSection, CountsOK, At
<1>2. CASE At("registration")
  BY <1>2 DEF SectionTrue, CountedSection, CountsOK, At
<1> QED
  BY <1>1, <1>2

(* What it does to a CRM's result: a success is about what was tested.      *)
TestOK(f) ==
  /\ view'.crmType = view.crmType /\ view'.apiKey = view.apiKey
  /\ view'.excused = view.excused /\ view.busy \ {f.op} \subseteq view'.busy
  /\ \/ view'.connected = FALSE
     \/ view'.connected = view.connected /\ view'.proved = view.proved
     \/ f.op \in {"test", "connect"} /\ view'.proved = f.tag

LEMMA TestKept ==
  ASSUME SectionTrue, At("crm"), NEW f \in fetches, Answered(f), TestOK(f)
  PROVE  CRMTested'
<1>1. CRMTested
  BY DEF SectionTrue
<1>2. fetches' = fetches \ {f}
  BY DEF Answered
<1>3. view'.connected /\ ~view'.excused => view'.proved = <<view'.crmType, view'.apiKey>>
  BY <1>1 DEF CRMTested, TestOK
<1>4. \A g \in fetches' : g.op \in {"test", "connect"} => g.op # f.op
  BY <1>1, <1>2 DEF CRMTested
<1>5. \A g \in fetches' : g.op \in {"test", "connect"} =>
        /\ g.op \in view'.busy
        /\ ~view'.excused => g.tag = <<view'.crmType, view'.apiKey>>
  BY <1>1, <1>2, <1>4 DEF CRMTested, TestOK
<1>6. \A g, h \in fetches' : g.op \in {"test", "connect"} /\ h.op = g.op => g = h
  BY <1>1, <1>2 DEF CRMTested
<1> QED
  BY <1>3, <1>5, <1>6 DEF CRMTested

(* A call of a section is over.                                             *)
LEMMA SectionEnds ==
  ASSUME ComponentOK, SectionTrue, view.kind = "section", NEW f \in fetches, Answered(f),
         CountsOK, At("crm") => TestOK(f)
  PROVE  HasFields(view') /\ view'.kind = view.kind /\ SectionTrue'
<1>1. view'.kind = view.kind /\ view'.how = view.how /\ HasFields(view')
  BY SectionFacts DEF CountsOK
<1>2. At("phone") \/ At("registration") => CountedSection'
  BY CountsKept
<1>3. At("crm") => CRMTested'
  BY TestKept
<1>4. \A g \in fetches' : g.op \in SectionCalls(view'.how) \cup Outliving
  BY <1>1 DEF SectionTrue, Answered
<1> QED
  BY <1>1, <1>2, <1>3, <1>4 DEF SectionTrue, At

LEMMA SectionCallsOf ==
  ASSUME SectionTrue, view.kind = "section", NEW f \in fetches
  PROVE  /\ f.op \in {"search", "buy"} => At("phone")
         /\ f.op \in {"test", "connect"} => At("crm")
         /\ f.op = "submit" => At("registration")
         /\ f.op \in {"billing", "checkout", "portal"} =>
              ~At("phone") /\ ~At("crm") /\ ~At("registration")
BY DEF SectionTrue, SectionCalls, Outliving, At

LEMMA AnsweredPhone ==
  ASSUME ComponentOK, SectionTrue, At("phone"), NEW f \in fetches, SectionAnswer(f)
  PROVE  CountsOK
<1>1. view.kind = "section" /\ view.how = "phone"
  BY DEF At
<1>2. f.op \in {"search", "buy"}
  BY <1>1, SectionCallsOf DEF SectionAnswer, At
<1>3. \/ view' = [view EXCEPT !.numbers = TRUE, !.busy = @ \ {"search"}]
      \/ view' = [view EXCEPT !.known = TRUE, !.busy = @ \ {"buy"}]
      \/ view' = [view EXCEPT !.busy = @ \ {f.op}, !.errors = @ + 1]
  BY <1>2 DEF SectionAnswer
<1> QED
  BY <1>1, <1>3, SectionFacts DEF CountsOK, At

LEMMA AnsweredRegistration ==
  ASSUME ComponentOK, SectionTrue, At("registration"), NEW f \in fetches, SectionAnswer(f)
  PROVE  CountsOK
<1>1. view.kind = "section" /\ view.how = "registration"
  BY DEF At
<1>2. f.op = "submit"
  BY <1>1, SectionCallsOf DEF SectionAnswer, At
<1>3. \/ view' = [view EXCEPT !.busy = @ \ {f.op}, !.errors = @ + 1]
      \/ view' = [view EXCEPT !.status = view.stored, !.typed = TRUE,
                              !.submitted = TRUE, !.busy = {}]
  BY <1>2 DEF SectionAnswer
<1> QED
  BY <1>1, <1>3, SectionFacts DEF CountsOK, At

LEMMA AnsweredCRM ==
  ASSUME ComponentOK, SectionTrue, At("crm"), NEW f \in fetches, SectionAnswer(f)
  PROVE  CountsOK /\ TestOK(f)
<1>1. view.kind = "section" /\ view.how = "crm"
  BY DEF At
<1>2. f.op \in {"test", "connect"}
  BY <1>1, SectionCallsOf DEF SectionAnswer, At
<1>3. \/ view' = [Tested(f) EXCEPT !.busy = @ \ {f.op}]
      \/ view' = [Untested(view) EXCEPT !.busy = @ \ {f.op}]
  BY <1>2 DEF SectionAnswer
<1>4. /\ DOMAIN view' = DOMAIN view /\ view'.kind = view.kind /\ view'.how = view.how
      /\ view'.crmType = view.crmType /\ view'.apiKey = view.apiKey
      /\ view'.excused = view.excused /\ view'.busy = view.busy \ {f.op}
      /\ view'.connected = FALSE \/ view'.proved = f.tag
  <2>1. CASE view' = [Tested(f) EXCEPT !.busy = @ \ {f.op}]
    BY <1>1, <2>1, SectionFacts DEF Tested
  <2>2. CASE view' = [Untested(view) EXCEPT !.busy = @ \ {f.op}]
    BY <1>1, <2>2, SectionFacts DEF Untested
  <2> QED
    BY <1>3, <2>1, <2>2
<1> QED
  BY <1>1, <1>2, <1>4 DEF CountsOK, TestOK, At

LEMMA AnsweredBilling ==
  ASSUME ComponentOK, view.kind = "section", ~At("phone"), ~At("crm"), ~At("registration"),
         SectionTrue, NEW f \in fetches, SectionAnswer(f)
  PROVE  CountsOK
<1>1. f.op \in {"billing", "checkout", "portal"}
  BY SectionCallsOf DEF SectionAnswer
<1>2. \/ view' = [view EXCEPT !.known = view.status, !.loading = FALSE]
      \/ view' = [view EXCEPT !.leaving = TRUE, !.busy = {}]
  BY <1>1 DEF SectionAnswer
<1> QED
  BY <1>2, SectionFacts DEF CountsOK

LEMMA SectionAnswerOK ==
  ASSUME SessionSafe, ComponentOK, SectionTrue, NEW f \in fetches, SectionAnswer(f),
         UNCHANGED page
  PROVE  view.kind = "section" /\ ComponentStep /\ SectionTrue'
<1>1. view.kind = "section" /\ Answered(f) /\ UNCHANGED <<session, refresh>>
  BY DEF SectionAnswer
<1>2. CountsOK /\ (At("crm") => TestOK(f))
  <2>1. CASE At("crm")
    BY <2>1, AnsweredCRM
  <2>2. CASE ~At("crm")
    BY <1>1, <2>2, AnsweredPhone, AnsweredRegistration, AnsweredBilling
  <2> QED
    BY <2>1, <2>2
<1>3. HasFields(view') /\ view'.kind = view.kind /\ SectionTrue'
  BY <1>1, <1>2, SectionEnds
<1> QED
  BY <1>1, <1>3, EndsOK

LEMMA SectionFailedOK ==
  ASSUME ComponentOK, SectionTrue, view.kind = "section", NEW f \in fetches, Answered(f),
         \/ view' = SectionFailed(f)
         \/ view' = [SectionFailed(f) EXCEPT !.failures = @ + 1]
  PROVE  HasFields(view') /\ view'.kind = view.kind /\ SectionTrue'
<1> DEFINE w == SectionFailed(f)
<1>1. /\ DOMAIN view' = DOMAIN w
      /\ \A x \in DOMAIN w : x # "failures" => view'[x] = w[x]
  BY OneMore
<1>2. DOMAIN w = DOMAIN view /\ w.kind = view.kind /\ w.how = view.how
  BY SectionFacts DEF SectionFailed, Untested
<1>3. At("phone") =>
        /\ w.sends = view.sends /\ w.known = view.known
        /\ \/ w.errors = view.errors /\ ("buy" \in view.busy => "buy" \in w.busy)
           \/ w.errors = view.errors + 1
  <2> SUFFICES ASSUME At("phone")
               PROVE  /\ w.sends = view.sends /\ w.known = view.known
                      /\ \/ w.errors = view.errors /\ ("buy" \in view.busy => "buy" \in w.busy)
                         \/ w.errors = view.errors + 1
    OBVIOUS
  <2>1. f.op \in {"search", "buy"} \cup Outliving
    BY DEF SectionTrue, SectionCalls, At
  <2> QED
    BY <2>1, SectionFacts DEF SectionFailed, Outliving
<1>4. At("registration") =>
        /\ w.sends = view.sends /\ w.typed = view.typed
        /\ \/ w.errors = view.errors /\ w.busy = view.busy
           \/ w.errors = view.errors + 1
  <2> SUFFICES ASSUME At("registration")
               PROVE  /\ w.sends = view.sends /\ w.typed = view.typed
                      /\ \/ w.errors = view.errors /\ w.busy = view.busy
                         \/ w.errors = view.errors + 1
    OBVIOUS
  <2>1. f.op \in {"submit"} \cup Outliving
    BY DEF SectionTrue, SectionCalls, At
  <2> QED
    BY <2>1, SectionFacts DEF SectionFailed, Outliving
<1>5. At("crm") =>
        /\ w.crmType = view.crmType /\ w.apiKey = view.apiKey /\ w.excused = view.excused
        /\ view.busy \ {f.op} \subseteq w.busy
        /\ w.connected = FALSE \/ (w.connected = view.connected /\ w.proved = view.proved)
  <2> SUFFICES ASSUME At("crm")
               PROVE  /\ w.crmType = view.crmType /\ w.apiKey = view.apiKey
                      /\ w.excused = view.excused /\ view.busy \ {f.op} \subseteq w.busy
                      /\ \/ w.connected = FALSE
                         \/ w.connected = view.connected /\ w.proved = view.proved
    OBVIOUS
  <2>1. f.op \in {"test", "connect"} \cup Outliving
    BY DEF SectionTrue, SectionCalls, At
  <2>2. CASE f.op \in {"test", "connect"}
    <3>1. w = [Untested(view) EXCEPT !.busy = @ \ {f.op}]
      BY <2>2 DEF SectionFailed
    <3> QED
      BY <3>1, SectionFacts DEF Untested, At
  <2>3. CASE f.op \in Outliving
    BY <2>3 DEF SectionFailed, Outliving
  <2> QED
    BY <2>1, <2>2, <2>3
<1> HIDE DEF w
<1>6. CountsOK
  BY <1>1, <1>2, <1>3, <1>4, SectionFacts DEF CountsOK
<1>7. At("crm") => TestOK(f)
  BY <1>1, <1>2, <1>5, SectionFacts DEF TestOK
<1> QED
  BY <1>6, <1>7, SectionEnds

LEMMA ServeSectionOK ==
  ASSUME SessionSafe, ComponentOK, SectionTrue, NEW f \in fetches, ServeSection(f),
         UNCHANGED page
  PROVE  view.kind = "section" /\ ComponentStep /\ SectionTrue'
<1> DEFINE kept == [f EXCEPT !.at = "answered"]
<1>1. /\ view.kind = "section" /\ UNCHANGED <<session, refresh>>
      /\ fetches' = (fetches \ {f}) \cup {kept}
      /\ \E x : view' = [view EXCEPT !.has = x] \/ view' = [view EXCEPT !.stored = x]
  BY DEF ServeSection
<1>2. IsCall(f) /\ IsCall(kept) /\ kept.op = f.op /\ kept.at = "answered"
  BY DEF ComponentOK, IsCall
<1> HIDE DEF kept
<1>3. /\ DOMAIN view' = DOMAIN view /\ view'.kind = view.kind /\ view'.how = view.how
      /\ \A x \in DOMAIN view : x \notin {"has", "stored"} => view'[x] = view[x]
  BY <1>1, SectionFacts
<1>4. HasFields(view')
  BY <1>1, <1>3, SectionFacts
<1>5. ComponentStep
  BY <1>1, <1>2, <1>3, <1>4 DEF ComponentStep, ComponentOK, SessionSafe
<1>6. CountsOK
  BY <1>1, <1>3, SectionFacts DEF CountsOK
<1>7. At("phone") \/ At("registration") => CountedSection'
  BY <1>1, <1>6, CountsKept
<1>8. \A g \in fetches' : g.op \in SectionCalls(view'.how) \cup Outliving
  BY <1>1, <1>2, <1>3 DEF SectionTrue
<1>9. At("phone") \/ At("registration")
  BY DEF ServeSection
<1> QED
  BY <1>1, <1>3, <1>5, <1>7, <1>8, <1>9 DEF SectionTrue, At

LEMMA SectionRefreshed ==
  ASSUME ComponentOK, SectionTrue, NEW granted, RefreshEnds(granted), UNCHANGED view
  PROVE  SectionTrue'
<1>1. \A g, h \in fetches' : \E e, f \in fetches :
        /\ g.op = e.op /\ g.tag = e.tag /\ h.op = f.op /\ h.tag = f.tag
        /\ e = f => g = h
  BY RefreshMoves
<1>2. view.kind = "section" => \A f \in fetches' : f.op \in SectionCalls(view.how) \cup Outliving
  BY <1>1 DEF SectionTrue
<1>3. At("phone") \/ At("registration") => CountedSection'
  BY DEF SectionTrue, CountedSection, At
<1>4. At("crm") => CRMTested'
  BY <1>1 DEF SectionTrue, CRMTested
<1> QED
  BY <1>2, <1>3, <1>4 DEF SectionTrue, At

LEMMA MountSectionOK ==
  ASSUME SessionSafe, ComponentOK, view = Nothing, LateSavesOf({}), fetches = {},
         UNCHANGED <<session, page>>, NEW how, MountSection(how)
  PROVE  Mounted("section") /\ SectionTrue'
<1>1. CASE UNCHANGED <<refresh, fetches>>
           /\ \/ \E has \in BOOLEAN : view' = PhoneSection(has)
              \/ view' = CRMSection \/ view' = RegistrationSection
  <2>1. fetches' = {} /\ refresh' \in Refreshes
    BY <1>1 DEF SessionSafe
  <2>2. CASE \E has \in BOOLEAN : view' = PhoneSection(has)
    <3>1. /\ view'.kind = "section" /\ view'.how = "phone" /\ view'.sends = 0
          /\ view'.errors = 0 /\ HasFields(view')
      BY <2>2 DEF PhoneSection, HasFields, FieldsOf
    <3>2. CountedSection'
      BY <3>1 DEF CountedSection, At
    <3> QED
      BY <2>1, <3>1, <3>2 DEF Mounted, SectionTrue, At
  <2>3. CASE view' = CRMSection
    <3>1. /\ view'.kind = "section" /\ view'.how = "crm" /\ view'.connected = FALSE
          /\ HasFields(view')
      BY <2>3 DEF CRMSection, HasFields, FieldsOf
    <3> QED
      BY <2>1, <3>1 DEF Mounted, SectionTrue, CRMTested, At
  <2>4. CASE view' = RegistrationSection
    <3>1. /\ view'.kind = "section" /\ view'.how = "registration" /\ view'.sends = 0
          /\ view'.errors = 0 /\ HasFields(view')
      BY <2>4 DEF RegistrationSection, HasFields, FieldsOf
    <3>2. CountedSection'
      BY <3>1 DEF CountedSection, At
    <3> QED
      BY <2>1, <3>1, <3>2 DEF Mounted, SectionTrue, At
  <2> QED
    BY <1>1, <2>2, <2>3, <2>4
<1>2. CASE /\ \E status \in BillingStatuses : view' = BillingSection(status)
           /\ RequestRaw("billing", NoKey)
  <2>1. /\ view'.kind = "section" /\ view'.how = "billing" /\ HasFields(view')
    BY <1>2 DEF BillingSection, HasFields, FieldsOf
  <2>2. PICK g : fetches' = {g} /\ IsCall(g) /\ g.op = "billing" /\ g.at = "sent"
                   /\ refresh' = refresh
    BY <1>2, RawFacts
  <2> QED
    BY <2>1, <2>2 DEF Mounted, SectionTrue, OpsOf, SectionCalls, SessionSafe, At
<1> QED
  BY <1>1, <1>2 DEF MountSection

-----------------------------------------------------------------------------
(* Everything together.                                                     *)
ConsoleInv ==
  ComponentOK /\ SessionSafe /\ ViewTrue /\ PaneTrue /\ FormTrue /\ SectionTrue

(* What is known of one kind of component says nothing of the others.       *)
LEMMA OtherKinds ==
  /\ view.kind # "view" => ViewTrue
  /\ view.kind # "pane" => PaneTrue
  /\ view.kind # "form" => FormTrue
  /\ view.kind # "section" => SectionTrue
BY DEF ViewTrue, PaneTrue, FormTrue, SectionTrue, IsView, At

LEMMA OtherKindsNext ==
  /\ view'.kind # "view" => ViewTrue'
  /\ view'.kind # "pane" => PaneTrue'
  /\ view'.kind # "form" => FormTrue'
  /\ view'.kind # "section" => SectionTrue'
BY DEF ViewTrue, PaneTrue, FormTrue, SectionTrue, IsView, At

LEMMA ComponentInv ==
  ASSUME ConsoleInv, ComponentStep,
         \/ view.kind = "view" /\ ViewTrue'
         \/ view.kind = "pane" /\ PaneTrue'
         \/ view.kind = "document"
         \/ view.kind = "form" /\ FormTrue'
         \/ view.kind = "section" /\ SectionTrue'
  PROVE  ConsoleInv'
<1>1. SessionSafe' /\ ComponentOK'
  BY ComponentStepOK DEF ConsoleInv
<1>2. view'.kind = view.kind
  BY DEF ComponentStep
<1> QED
  BY <1>1, <1>2, OtherKindsNext DEF ConsoleInv

LEMMA EmptyInv ==
  ASSUME SessionSafe', ComponentOK', view'.kind = "nothing"
  PROVE  ConsoleInv'
BY OtherKindsNext DEF ConsoleInv

LEMMA UserStepOK ==
  ASSUME ConsoleInv, UserStep
  PROVE  ConsoleInv'
<1> USE DEF ConsoleInv
<1>1. UNCHANGED page
  BY DEF UserStep
<1>2. CASE UserViewStep
  <2>1. IsView
    BY <1>2 DEF UserViewStep, Select, Apply, CloseDetails, Retry
  <2>2. ComponentStep /\ ViewTrue'
    BY <1>1, <1>2, SelectOK, ApplyOK, CloseDetailsOK, RetryOK DEF UserViewStep
  <2> QED
    BY <2>1, <2>2, ComponentInv DEF IsView
<1>3. CASE UserPaneStep
  <2>1. view.kind = "pane"
    BY <1>3 DEF UserPaneStep, SelectThread, Deselect, FilterInbox, RelistInbox, TypeReply,
                SendReply, ActOn, Showing
  <2>2. ComponentStep /\ PaneTrue'
    BY <1>1, <1>3, SelectThreadOK, DeselectOK, RelistInboxOK, TypeReplyOK, SendReplyOK, ActOnOK
       DEF UserPaneStep
  <2> QED
    BY <2>1, <2>2, ComponentInv
<1>4. CASE UserDocumentStep
  BY <1>1, <1>4, UserDocumentOK, ComponentInv
<1>5. CASE UserFormStep
  BY <1>1, <1>5, UserFormOK, ComponentInv
<1>6. CASE UserSectionStep
  BY <1>1, <1>6, UserSectionOK, ComponentInv
<1> QED
  BY <1>2, <1>3, <1>4, <1>5, <1>6 DEF UserStep

LEMMA PollOK ==
  ASSUME ConsoleInv, Poll
  PROVE  ConsoleInv'
<1> USE DEF ConsoleInv
<1>1. UNCHANGED <<session, view, page>>
  BY DEF Poll
<1>2. CASE PollView
  BY <1>1, <1>2, PollViewOK, ComponentInv DEF PollView, IsView
<1>3. CASE PollThread
  BY <1>1, <1>3, PollThreadOK, ComponentInv DEF PollThread, Showing
<1> QED
  BY <1>2, <1>3 DEF Poll

LEMMA RefreshStepOK ==
  ASSUME ConsoleInv, RefreshStep
  PROVE  ConsoleInv'
<1> USE DEF ConsoleInv
<1>1. PICK granted \in BOOLEAN : RefreshEnds(granted)
  BY DEF RefreshStep
<1>2. UNCHANGED view
  BY DEF RefreshStep
<1>3. ComponentOK' /\ SessionSafe'
  BY RefreshOK
<1>4. FormTrue'
  BY <1>2 DEF FormTrue, ClientsCounted
<1> QED
  BY <1>1, <1>2, <1>3, <1>4, ViewRefreshed, PaneRefreshed, SectionRefreshed

(* A call failed, or was refused: the mounted component's handler ran.      *)
LEMMA FailedOK ==
  ASSUME ConsoleInv, NEW f \in fetches, Answered(f),
         \/ view' = Failed(f)
         \/ view' = [Failed(f) EXCEPT !.failures = @ + 1]
  PROVE  /\ HasFields(view') /\ view'.kind = view.kind
         /\ ViewTrue' /\ PaneTrue' /\ FormTrue' /\ SectionTrue'
<1> USE DEF ConsoleInv
<1>1. f.op \in Outliving => /\ f.op # "get" /\ f.op # "list" /\ f.op # "thread"
                            /\ f.op # "reply" /\ f.op # "create"
                            /\ f.op \notin {"connect", "test", "search", "buy", "submit",
                                            "billing", "checkout", "portal"}
  BY DEF Outliving
<1>2. CASE view.kind = "view"
  <2>1. Failed(f) = ViewFailed(f)
    BY <1>1, <1>2 DEF Failed, ViewFailed, Outliving
  <2>2. HasFields(view') /\ view'.kind = view.kind /\ ViewTrue'
    BY <1>2, <2>1, ViewFailedOK DEF IsView
  <2> QED
    BY <1>2, <2>2, OtherKindsNext
<1>3. CASE view.kind = "pane"
  <2>1. Failed(f) = PaneFailed(f)
    BY <1>1, <1>3 DEF Failed, PaneFailed, Outliving
  <2>2. HasFields(view') /\ view'.kind = view.kind /\ PaneTrue'
    BY <1>3, <2>1, PaneFailedOK
  <2> QED
    BY <1>3, <2>2, OtherKindsNext
<1>4. CASE view.kind = "form"
  <2>1. Failed(f) = FormFailed(f)
    BY <1>1, <1>4 DEF Failed, FormFailed, Outliving
  <2>2. HasFields(view') /\ view'.kind = view.kind /\ FormTrue'
    BY <1>4, <2>1, FormFailedOK
  <2> QED
    BY <1>4, <2>2, OtherKindsNext
<1>5. CASE view.kind = "section"
  <2>1. Failed(f) = SectionFailed(f)
    BY <1>1, <1>5 DEF Failed, SectionFailed, Outliving
  <2>2. HasFields(view') /\ view'.kind = view.kind /\ SectionTrue'
    BY <1>5, <2>1, SectionFailedOK
  <2> QED
    BY <1>5, <2>2, OtherKindsNext
<1>6. CASE Failed(f) = view
  <2>1. /\ DOMAIN view' = DOMAIN view
        /\ \A x \in DOMAIN view : x # "failures" => view'[x] = view[x]
    BY <1>6, OneMore
  <2>2. CASE view.kind \in {"view", "pane", "form", "section"}
    BY <1>2, <1>3, <1>4, <1>5, <2>2
  <2>3. CASE view.kind \notin {"view", "pane", "form", "section"}
    <3>1. "kind" \in DOMAIN view /\ view'.kind = view.kind
      BY <2>1 DEF ComponentOK, HasFields
    <3>2. HasFields(view')
      BY <2>1, <2>3, <3>1, SameFields DEF ComponentOK
    <3> QED
      BY <2>3, <3>1, <3>2, OtherKindsNext
  <2> QED
    BY <2>2, <2>3
<1>7. CASE view.kind = "document" /\ f.op \notin Outliving
  <2>1. Failed(f) = DocumentFailed(f)
    BY <1>7 DEF Failed, Outliving
  <2>2. HasFields(view') /\ view'.kind = view.kind
    BY <1>7, <2>1, DocumentFailedOK
  <2> QED
    BY <1>7, <2>2, OtherKindsNext
<1>8. CASE /\ view.kind \notin {"view", "pane", "form", "section"}
           /\ view.kind = "document" => f.op \in Outliving
  <2>1. Failed(f) = view
    BY <1>8 DEF Failed, Outliving
  <2> QED
    BY <1>6, <2>1
<1> QED
  BY <1>2, <1>3, <1>4, <1>5, <1>7, <1>8

LEMMA FetchFailsOK ==
  ASSUME ConsoleInv, NEW f \in fetches, FetchFails(f), UNCHANGED page
  PROVE  ConsoleInv'
<1>1. /\ Answered(f) /\ UNCHANGED <<session, refresh>>
      /\ view' = [Failed(f) EXCEPT !.failures = @ + 1]
  BY DEF FetchFails
<1>2. /\ HasFields(view') /\ view'.kind = view.kind
      /\ ViewTrue' /\ PaneTrue' /\ FormTrue' /\ SectionTrue'
  BY <1>1, FailedOK
<1>3. fetches' \subseteq fetches
  BY <1>1 DEF Answered
<1>4. ComponentOK'
  BY <1>2, <1>3 DEF ConsoleInv, ComponentOK
<1>5. SessionSafe'
  BY <1>1, <1>2, <1>3 DEF ConsoleInv, SessionSafe
<1> QED
  BY <1>2, <1>4, <1>5 DEF ConsoleInv

LEMMA FetchUnauthorizedOK ==
  ASSUME ConsoleInv, NEW f \in fetches, FetchUnauthorized(f), UNCHANGED page
  PROVE  ConsoleInv'
<1>1. /\ Answered(f) /\ session' = Cleared(session) /\ UNCHANGED refresh
      /\ view' = Failed(f)
  BY DEF FetchUnauthorized, Unauthorized
<1>2. /\ HasFields(view') /\ view'.kind = view.kind
      /\ ViewTrue' /\ PaneTrue' /\ FormTrue' /\ SectionTrue'
  BY <1>1, FailedOK
<1>3. fetches' \subseteq fetches
  BY <1>1 DEF Answered
<1>4. ComponentOK'
  BY <1>2, <1>3 DEF ConsoleInv, ComponentOK
<1>5. session' \in Sessions /\ session'.gone /\ session'.role = session.role
  BY <1>1 DEF ConsoleInv, SessionSafe, Sessions, Cleared, Tokens
<1>6. SessionSafe'
  BY <1>1, <1>2, <1>5 DEF ConsoleInv, SessionSafe
<1> QED
  BY <1>2, <1>4, <1>6 DEF ConsoleInv

(* A save whose page is gone is stored: nobody notices.                     *)
LEMMA UnnoticedOK ==
  ASSUME ConsoleInv, NEW f \in fetches, f.op = "late save", Answered(f),
         UNCHANGED <<session, refresh, view, page>>
  PROVE  ConsoleInv'
<1>1. Failed(f) = view
  BY DEF Failed
<1>2. ViewTrue' /\ PaneTrue' /\ FormTrue' /\ SectionTrue'
  BY <1>1, FailedOK
<1> QED
  BY <1>2 DEF ConsoleInv, ComponentOK, SessionSafe, Answered

LEMMA FetchEndsOK ==
  ASSUME ConsoleInv, NEW f \in fetches, FetchEnds(f), UNCHANGED page
  PROVE  ConsoleInv'
<1> USE DEF ConsoleInv
<1>1. CASE FetchAnswer(f)
  <2>1. IsView
    BY <1>1 DEF FetchAnswer, ComponentOK, OpsOf, OutlivingOf, Outliving, IsView
  <2>2. UNCHANGED <<session, refresh>> /\ Ends(f) /\ ViewTrue'
    BY <1>1, FetchAnswerOK
  <2>3. ComponentStep
    BY <2>1, <2>2, EndsOK DEF Ends, IsView
  <2> QED
    BY <2>1, <2>2, <2>3, ComponentInv DEF IsView
<1>2. CASE PaneAnswer(f)
  BY <1>2, PaneAnswerOK, ComponentInv
<1>3. CASE DocumentAnswer(f)
  BY <1>3, DocumentAnswerOK, ComponentInv
<1>4. CASE FormAnswer(f)
  BY <1>4, FormAnswerOK, ComponentInv
<1>5. CASE SectionAnswer(f)
  BY <1>5, SectionAnswerOK, ComponentInv
<1>6. CASE ServeDocument(f)
  BY <1>6, ServeDocumentOK, UnnoticedOK, ComponentInv
<1>7. CASE ServeSection(f)
  BY <1>7, ServeSectionOK, ComponentInv
<1>8. CASE FetchFails(f)
  BY <1>8, FetchFailsOK
<1>9. CASE FetchUnauthorized(f)
  BY <1>9, FetchUnauthorizedOK
<1> QED
  BY <1>1, <1>2, <1>3, <1>4, <1>5, <1>6, <1>7, <1>8, <1>9 DEF FetchEnds

LEMMA OpenOK ==
  ASSUME ConsoleInv, Open
  PROVE  ConsoleInv'
<1> USE DEF ConsoleInv
<1>1. view = Nothing /\ ~session.gone /\ UNCHANGED <<session, page>>
  BY DEF Open
<1>2. page \notin PublicPages
  BY PublicIsEmpty DEF Open
<1>3. CASE \E how \in DocumentsOf(page) : MountDocument(how)
  <2>1. Mounted("document")
    BY <1>1, <1>3, MountDocumentOK
  <2>2. view'.kind = "document"
    BY <2>1 DEF Mounted
  <2> QED
    BY <1>1, <1>2, <2>1, <2>2, MountedOK, OtherKindsNext
<1>4. CASE LateSavesOf({}) /\ \E how \in ViewsOf(page) : MountView(how)
  <2>1. Mounted("view") /\ ViewTrue'
    BY <1>1, <1>4, MountViewOK
  <2>2. view'.kind = "view"
    BY <2>1 DEF Mounted
  <2> QED
    BY <1>1, <1>2, <2>1, <2>2, MountedOK, OtherKindsNext
<1>5. CASE LateSavesOf({}) /\ \E how \in PanesOf(page) : MountPane(how)
  <2>1. Mounted("pane") /\ PaneTrue'
    BY <1>1, <1>5, MountPaneOK
  <2>2. view'.kind = "pane"
    BY <2>1 DEF Mounted
  <2> QED
    BY <1>1, <1>2, <2>1, <2>2, MountedOK, OtherKindsNext
<1>6. CASE LateSavesOf({}) /\ \E how \in FormsOf(page) : MountForm(how)
  <2>1. Mounted("form") /\ FormTrue'
    BY <1>1, <1>6, MountFormOK
  <2>2. view'.kind = "form"
    BY <2>1 DEF Mounted
  <2> QED
    BY <1>1, <1>2, <2>1, <2>2, MountedOK, OtherKindsNext
<1>7. CASE LateSavesOf({}) /\ fetches = {} /\ \E how \in SectionsOf(page) : MountSection(how)
  <2>1. Mounted("section") /\ SectionTrue'
    BY <1>1, <1>7, MountSectionOK
  <2>2. view'.kind = "section"
    BY <2>1 DEF Mounted
  <2> QED
    BY <1>1, <1>2, <2>1, <2>2, MountedOK, OtherKindsNext
<1> QED
  BY <1>3, <1>4, <1>5, <1>6, <1>7 DEF Open

LEMMA GoOK ==
  ASSUME ConsoleInv,
         SwitchTab \/ Navigate \/ \E f \in fetches : CampaignDeleted(f)
  PROVE  ConsoleInv'
<1> USE DEF ConsoleInv
<1>1. LeaveView /\ UNCHANGED session
  BY DEF SwitchTab, Navigate, CampaignDeleted, DeleteAnswer, LeaveView
<1>2. session.role = "nobody" => page' = page
  BY DEF SwitchTab, Navigate, CampaignDeleted, DeleteAnswer, IsDoc, SessionSafe
<1>3. SessionSafe' /\ ComponentOK'
  BY <1>1, <1>2, LeaveOK
<1>4. view'.kind = "nothing"
  BY <1>1, NothingIsOK DEF LeaveView
<1> QED
  BY <1>3, <1>4, EmptyInv

LEMMA SessionStepOK ==
  ASSUME ConsoleInv, SignOut \/ Reloaded \/ SignIn \/ Age
  PROVE  ConsoleInv'
<1> USE DEF ConsoleInv
<1>1. SessionSafe' /\ ComponentOK'
  BY SignOutOK, ReloadedOK, SignInOK, AgeOK
<1>2. view'.kind = "nothing"
  BY NothingIsOK DEF SignOut, LeaveView, Reloaded, SignIn, LogIn, Age, SessionSafe
<1> QED
  BY <1>1, <1>2, EmptyInv

LEMMA ConsoleInitOK == ConsoleInit => ConsoleInv
<1> SUFFICES ASSUME ConsoleInit  PROVE ConsoleInv
  OBVIOUS
<1>1. /\ \E user \in {"admin", "client"} : session = SignedIn(user)
      /\ refresh = "idle" /\ fetches = {} /\ view = Nothing
  BY DEF ConsoleInit
<1>2. session \in Sessions /\ session.role # "nobody" /\ session.token # "none"
  BY <1>1 DEF SignedIn, Sessions, Tokens, Ages, Roles
<1>3. SessionSafe
  BY <1>1, <1>2 DEF SessionSafe, Refreshes
<1>4. ComponentOK
  BY <1>1, NothingIsOK DEF ComponentOK
<1> QED
  BY <1>1, <1>3, <1>4, NothingIsOK, OtherKinds DEF ConsoleInv

LEMMA ConsoleStepOK == ConsoleInv /\ [ConsoleNext]_consoleVars => ConsoleInv'
<1> SUFFICES ASSUME ConsoleInv, [ConsoleNext]_consoleVars  PROVE ConsoleInv'
  OBVIOUS
<1>1. CASE UserStep
  BY <1>1, UserStepOK
<1>2. CASE Poll
  BY <1>2, PollOK
<1>3. CASE RefreshStep
  BY <1>3, RefreshStepOK
<1>4. CASE \E f \in fetches : FetchEnds(f) /\ UNCHANGED page
  BY <1>4, FetchEndsOK
<1>5. CASE SwitchTab \/ Navigate \/ \E f \in fetches : CampaignDeleted(f)
  BY <1>5, GoOK
<1>6. CASE Open
  BY <1>6, OpenOK
<1>7. CASE SignOut \/ Reloaded \/ SignIn \/ Age
  BY <1>7, SessionStepOK
<1>8. CASE UNCHANGED consoleVars
  <2>1. UNCHANGED <<session, refresh, fetches, view, page>>
    BY <1>8 DEF consoleVars, viewVars
  <2>2. SessionSafe' /\ ComponentOK'
    BY <2>1 DEF ConsoleInv, SessionSafe, ComponentOK
  <2>3. ViewTrue'
    BY <2>1 DEF ConsoleInv, ViewTrue, IsView, Current, Steady, Fixed, OneAtATime, Conclusive,
                   Under
  <2>4. PaneTrue' /\ FormTrue'
    BY <2>1 DEF ConsoleInv, PaneTrue, RepliesCounted, InboxCurrent, FormTrue, ClientsCounted
  <2>5. SectionTrue'
    BY <2>1 DEF ConsoleInv, SectionTrue, CountedSection, CRMTested, At
  <2> QED
    BY <2>2, <2>3, <2>4, <2>5 DEF ConsoleInv
<1> QED
  BY <1>1, <1>2, <1>3, <1>4, <1>5, <1>6, <1>7, <1>8 DEF ConsoleNext

(* The invariant that the theorems below follow from.                       *)
THEOREM ConsoleInvariant == ConsoleSpec => []ConsoleInv
<1>1. ConsoleSpec => ConsoleInit /\ [][ConsoleNext]_consoleVars
  BY DEF ConsoleSpec
<1> QED
  BY <1>1, ConsoleInitOK, ConsoleStepOK, PTL

(* As long as the browser stays, a call is refused (and the browser signed  *)
(* out) only after a refresh got no token, for any number of calls that     *)
(* were waiting for it: api/client.js makes them all wait for one refresh.  *)
THEOREM SignedOutForAReason == ConsoleSpec => []NoNeedlessSignOut
<1>1. ConsoleInv => NoNeedlessSignOut
  BY DEF ConsoleInv, SessionSafe, NoNeedlessSignOut
<1> QED
  BY <1>1, ConsoleInvariant, PTL

(* A page that hides its controls while it loads, or drops late answers,    *)
(* shows at rest what is selected on it, for any number of selections and   *)
(* of calls under way.                                                      *)
THEOREM ViewsTellTheTruth == ConsoleSpec => []ExclusiveViewsTellTheTruth
<1>1. ConsoleInv => ExclusiveViewsTellTheTruth
  BY DEF ConsoleInv, ViewTrue, Current, Fixed, OneAtATime, ExclusiveViewsTellTheTruth, Empty,
         IsView
<1> QED
  BY <1>1, ConsoleInvariant, PTL

(* A view at rest without data polls, can be selected on, or offers Retry,  *)
(* for any number of failures; the views in DeadEnds are those that do not. *)
THEOREM ViewsLetTryAgain == ConsoleSpec => []NoDeadEnd
<1>1. ConsoleInv => NoDeadEnd
  <2> SUFFICES ASSUME ConsoleInv, IsView, view.how \notin DeadEnds, view.key # NoKey,
                      Empty(view), ~view.loading, ~Under("get", view.key), ~view.how.polls
               PROVE  CanSelect(view) \/ (view.failed /\ view.how.retry)
    BY DEF NoDeadEnd
  <2>1. /\ view.how.retry \/ (view.how.selects /\ view.how.blanks = "never")
        /\ view.shown = NoKey /\ Conclusive
    BY DEF ConsoleInv, ViewTrue, Disciplined, Empty
  <2>2. CASE view.how.selects
    BY <2>1, <2>2 DEF CanSelect, Shown
  <2>3. CASE ~view.how.selects
    BY <2>1, <2>3 DEF Conclusive
  <2> QED
    BY <2>2, <2>3
<1> QED
  BY <1>1, ConsoleInvariant, PTL

(* The inbox changes the prospect whose thread it shows, unless another     *)
(* thread or status change was under way when it was selected or changed.   *)
THEOREM ControlsActOnWhatIsShown == ConsoleSpec => []InboxActsOnWhatIsShown
<1>1. ConsoleInv => InboxActsOnWhatIsShown
  BY DEF ConsoleInv, PaneTrue, InboxCurrent, InboxActsOnWhatIsShown, Offered, Showing
<1> QED
  BY <1>1, ConsoleInvariant, PTL

(* A reply, a new client, a bought number and a registration are sent again *)
(* only after an error, for any number of errors.                           *)
THEOREM NothingIsSubmittedTwice == ConsoleSpec => []SubmissionsAreNotRepeated
<1>1. ConsoleInv => SubmissionsAreNotRepeated
  BY DEF ConsoleInv, PaneTrue, RepliesCounted, FormTrue, ClientsCounted, SectionTrue,
         CountedSection, SubmissionsAreNotRepeated, Showing, OnForm, At
<1> QED
  BY <1>1, ConsoleInvariant, PTL

(* Connect is offered for the CRM and the key that passed the test, for any *)
(* number of keys typed and answers late.                                   *)
THEOREM OnlyTestedCRMsConnect == ConsoleSpec => []ConnectIsTested
<1>1. ConsoleInv => ConnectIsTested
  BY DEF ConsoleInv, SectionTrue, CRMTested, ConnectIsTested
<1> QED
  BY <1>1, ConsoleInvariant, PTL

(* The two Math functions the pager holds its bounds with.                  *)
LEMMA MaxOfTwo ==
  ASSUME NEW a \in Int, NEW b \in Int
  PROVE  Max({a, b}) = IF a >= b THEN a ELSE b
<1> DEFINE m == IF a >= b THEN a ELSE b
<1>1. m \in {a, b} /\ \A y \in {a, b} : m >= y
  OBVIOUS
<1>2. \A x \in {a, b} : (\A y \in {a, b} : x >= y) => x = m
  OBVIOUS
<1> HIDE DEF m
<1>3. Max({a, b}) = m
  BY <1>1, <1>2 DEF Max
<1> QED
  BY <1>3 DEF m

LEMMA MinOfTwo ==
  ASSUME NEW a \in Int, NEW b \in Int
  PROVE  Min({a, b}) = IF a <= b THEN a ELSE b
<1> DEFINE m == IF a <= b THEN a ELSE b
<1>1. m \in {a, b} /\ \A y \in {a, b} : m <= y
  OBVIOUS
<1>2. \A x \in {a, b} : (\A y \in {a, b} : x <= y) => x = m
  OBVIOUS
<1> HIDE DEF m
<1>3. Min({a, b}) = m
  BY <1>1, <1>2 DEF Min
<1> QED
  BY <1>3 DEF m

(* The pager of components/ui/Pagination.jsx for any page and any number of *)
(* pages: its buttons stay within the pages, and what has no number of its   *)
(* own is behind an ellipsis.                                                *)
LEMMA AnyPagerLeadsBack ==
  ASSUME NEW q \in Nat \ {0}, NEW n \in Nat \ {0, 1}
  PROVE  /\ PageNumbers(q, n) \subseteq 1..n
         /\ NextPage(q, n) \in 1..n
         /\ q <= n => PreviousPage(q) \in 1..n
         /\ \A k \in (1..n) \ PageNumbers(q, n) :
              (k < q /\ EllipsisStart(q)) \/ (k > q /\ EllipsisEnd(q, n))
<1>1. /\ RangeStart(q) = IF 2 >= q - 2 THEN 2 ELSE q - 2
      /\ RangeEnd(q, n) = IF n - 1 <= q + 2 THEN n - 1 ELSE q + 2
      /\ NextPage(q, n) = IF n <= q + 1 THEN n ELSE q + 1
      /\ PreviousPage(q) = IF 1 >= q - 1 THEN 1 ELSE q - 1
  BY MaxOfTwo, MinOfTwo DEF RangeStart, RangeEnd, NextPage, PreviousPage
<1> QED
  BY <1>1 DEF PageNumbers, EllipsisStart, EllipsisEnd

(* The compliance summary of any counts: the light computed for the whole    *)
(* agrees with those computed for each metric.                               *)
LEMMA AnyLightsAgree ==
  ASSUME NEW s, s.there, s.cold \in Nat, s.quiet \in Nat, s.optedOut \in Nat, s.records \in Nat
  PROVE  LET m == MetricStatus(s)
         IN OverallStatus(s) =
              IF \E k \in DOMAIN m : m[k] = "red" THEN "red" ELSE m.opt_out_rate
<1> DEFINE m == MetricStatus(s)
<1>1. s.cold \in Nat /\ s.quiet \in Nat /\ s.optedOut \in Nat /\ s.records \in Nat
  OBVIOUS
<1>2. DOMAIN m = {"consent", "opt_out", "quiet_hours", "cold_outreach",
                  "pending_followups", "opt_out_rate"}
  BY DEF MetricStatus
<1>3. /\ m["consent"] = "green" /\ m["pending_followups"] = "green"
      /\ m["opt_out"] # "red"
      /\ m["quiet_hours"] = (IF s.quiet > 0 THEN "red" ELSE "green")
      /\ m["cold_outreach"] = (IF s.cold > 0 THEN "red" ELSE "green")
      /\ m["opt_out_rate"] = (IF HighOptOut(s) THEN "yellow" ELSE "green")
      /\ m.opt_out_rate = (IF HighOptOut(s) THEN "yellow" ELSE "green")
  BY DEF MetricStatus
<1>4. HighOptOut(s) => s.optedOut > 0
  BY <1>1 DEF HighOptOut
<1> HIDE DEF m
<1>5. (\E k \in DOMAIN m : m[k] = "red") <=> (s.cold > 0 \/ s.quiet > 0)
  BY <1>2, <1>3
<1> QED
  BY <1>3, <1>4, <1>5 DEF OverallStatus, m

(* Without a summary the top light warns, over metrics that are all green.  *)
LEMMA NoSummaryWarns ==
  /\ OverallStatus(NoSummary) = "yellow"
  /\ \A k \in DOMAIN MetricStatus(NoSummary) : MetricStatus(NoSummary)[k] # "red"
<1>1. NoSummary.cold = 0 /\ NoSummary.quiet = 0 /\ ~NoSummary.there
  BY DEF NoSummary
<1> QED
  BY <1>1 DEF OverallStatus, MetricStatus

(* From the pager no page is out of reach, whatever page the server's answer *)
(* left it on: the run checks up to nine pages, the lemma gives them all.    *)
THEOREM PagersLeadBack == ConsoleSpec => []PagerLeadsBack
<1>1. PagerLeadsBack
  BY AnyPagerLeadsBack DEF PagerLeadsBack
<1> QED
  BY <1>1, PTL

(* The light on top of the compliance page is green only over data that was  *)
(* loaded, red exactly when one of the metrics is, and otherwise that of the *)
(* opt-out rate; the lemmas give it for every count.                         *)
THEOREM ComplianceLightsAgree == ConsoleSpec => []OverallMatchesMetrics
<1>1. ASSUME IsView, NEW s \in Summary(view)
      PROVE  LET m == MetricStatus(s)
                 top == OverallStatus(s)
             IN /\ top = "green" => ~Empty(view)
                /\ top = "red" <=> \E k \in DOMAIN m : m[k] = "red"
                /\ ~Empty(view) /\ top # "red" => top = m.opt_out_rate
  <2>1. CASE Empty(view)
    <3>1. s = NoSummary
      BY <1>1, <2>1 DEF Summary
    <3> QED
      BY <2>1, <3>1, NoSummaryWarns
  <2>2. CASE ~Empty(view)
    <3>0. s \in [there : {TRUE}, cold : 0..1, quiet : 0..1, optedOut : 0..3, records : 0..25]
      BY <1>1, <2>2 DEF Summary, Summaries
    <3>1. s.there /\ s.cold \in Nat /\ s.quiet \in Nat /\ s.optedOut \in Nat /\ s.records \in Nat
      <4>1. s.there \in {TRUE}
        BY <3>0
      <4>2. s.cold \in 0..1 /\ s.quiet \in 0..1 /\ s.optedOut \in 0..3 /\ s.records \in 0..25
        BY <3>0
      <4>3. s.there
        BY <4>1, Zenon
      <4>4. 0..1 \subseteq Nat /\ 0..3 \subseteq Nat /\ 0..25 \subseteq Nat
        OBVIOUS
      <4> QED
        BY <4>2, <4>3, <4>4, Zenon
    <3>2. LET m == MetricStatus(s)
          IN OverallStatus(s) =
               IF \E k \in DOMAIN m : m[k] = "red" THEN "red" ELSE m.opt_out_rate
      BY <3>1, AnyLightsAgree
    <3>3. MetricStatus(s).opt_out_rate # "red"
      BY DEF MetricStatus
    <3> QED
      BY <2>2, <3>2, <3>3
  <2> QED
    BY <2>1, <2>2
<1>2. OverallMatchesMetrics
  BY <1>1 DEF OverallMatchesMetrics
<1> QED
  BY <1>2, PTL
=============================================================================
