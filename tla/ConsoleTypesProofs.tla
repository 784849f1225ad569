------------------------- MODULE ConsoleTypesProofs -------------------------
(***************************************************************************)
(* Proofs about Console: every field of every mounted component keeps its  *)
(* type, and every counter its bound, and no flag or skeleton is shown     *)
(* without the call that will take it away, for any number of selections,  *)
(* failures and calls under way.                                           *)
(***************************************************************************)
EXTENDS DocumentsProofs

(* A view that opens on demand neither polls nor offers to retry, so that   *)
(* nothing is ever asked for before something is selected.                  *)
Flagged(how) ==
  /\ {how.opens, how.drops, how.reloads, how.awaits} \subseteq BOOLEAN
  /\ how.opens => ~how.polls /\ ~how.retry

ViewTyped ==
  IsView => /\ ViewTypeOK /\ Flagged(view.how)
            /\ view.key = NoKey => view.how.opens

(* What is answered about names one of Keys, and the one reply under way    *)
(* has not been counted as an error yet.                                    *)
RepliesCome ==
  /\ view.errors <= view.sends
  /\ \A f \in fetches : f.op = "reply" => view.busy # {} /\ view.draft /\ view.errors < view.sends
  /\ \A f, g \in fetches : f.op = "reply" /\ g.op = "reply" => f = g

PaneFields ==
  {"kind", "how", "listing", "listed", "failed", "sel", "shown", "header", "loading", "busy",
   "crossed", "draft", "sends", "errors"}

PaneTyped ==
  view.kind = "pane" =>
    /\ PaneFields \subseteq DOMAIN view
    /\ PaneTypeOK /\ RepliesCome
    /\ \A f \in fetches :
         f.op \in {"thread", "status", "reread", "reply", "old reply"} => f.tag \in Keys

DocTyped ==
  view.kind = "document" =>
    /\ view.dirty \subseteq Parts(view.how) /\ view.busy \subseteq {"save", "scrape"}
    /\ {view.loading, view.loaded, view.failed, view.disturbed} \subseteq BOOLEAN

(* Only the clients' submissions are counted; they have one at a time under *)
(* way, and what was counted for it is forgotten or not an error yet.       *)
ClientsCome ==
  /\ view.errors <= view.sends
  /\ view.how # "clients" => view.sends = 0
  /\ view.how = "clients" =>
       /\ view.editing = NoKey
       /\ \A f \in fetches : f.op \in {"list", "create", "gone"}
       /\ \A f, g \in fetches : f.op = "create" /\ g.op = "create" => f = g
       /\ \A f \in fetches :
            f.op = "create" => view.busy # {} /\ (view.sends > 0 => view.errors < view.sends)

FormFields ==
  {"kind", "how", "loading", "listed", "failed", "open", "editing", "about", "filled", "busy",
   "asked", "sends", "errors"}

FormTyped ==
  view.kind = "form" =>
    FormFields \subseteq DOMAIN view /\ FormTypeOK /\ ClientsCome

SectionFields ==
  CASE view.how = "phone" -> {"kind", "how", "has", "known", "numbers", "busy"}
    [] view.how = "crm" -> {"kind", "how", "crmType", "apiKey", "proved", "busy"}
    [] view.how = "registration" -> {"kind", "how", "status", "stored", "busy"}
    [] OTHER -> {"kind", "how", "known", "status", "busy"}

SectionTyped ==
  view.kind = "section" =>
    /\ SectionFields \subseteq DOMAIN view
    /\ SectionTypeOK
    /\ At("billing") => view.status \in BillingStatuses
    /\ \A f \in fetches : f.op \in {"test", "connect"} => f.tag \in Connections

ScreenTyped ==
  /\ page \in PublicPages \union AdminPages \union ClientPages
  /\ "failures" \in DOMAIN view /\ view.failures \in 0..MaxFailures
  /\ \A f \in fetches : f.at \in FetchAt

TypesInv ==
  ScreenTyped /\ ViewTyped /\ PaneTyped /\ DocTyped /\ FormTyped /\ SectionTyped

-----------------------------------------------------------------------------
(* What all components have in common.                                      *)

LEMMA TypesOf ==
  ASSUME ScreenTyped',
         \/ view'.kind = "nothing"
         \/ view'.kind = "view" /\ ViewTyped'
         \/ view'.kind = "pane" /\ PaneTyped'
         \/ view'.kind = "document" /\ DocTyped'
         \/ view'.kind = "form" /\ FormTyped'
         \/ view'.kind = "section" /\ SectionTyped'
  PROVE  TypesInv'
BY DEF TypesInv, ViewTyped, PaneTyped, DocTyped, FormTyped, SectionTyped, IsView

(* Calls that are made start in one of the places a call can be in.         *)
LEMMA AskTyped ==
  ASSUME SessionSafe, NEW others, NEW cs, \A c \in cs : IsCall(c) /\ c.at = "refreshing",
         RequestAlong(others, cs)
  PROVE  \A g \in fetches' : g \in others \/
           /\ g.at \in FetchAt
           /\ \E c \in cs : g.op = c.op /\ g.tag = c.tag
<1>1. CASE NeedsRefresh /\ cs # {}
  <2>1. fetches' = others \cup cs
    BY <1>1 DEF RequestAlong
  <2> QED
    BY <2>1 DEF FetchAt
<1>2. CASE ~(NeedsRefresh /\ cs # {})
  <2>1. fetches' = others \cup {[c EXCEPT !.at = SentAs] : c \in cs}
    BY <1>2 DEF RequestAlong
  <2>2. \A c \in cs : LET g == [c EXCEPT !.at = SentAs]
                      IN g.op = c.op /\ g.tag = c.tag /\ g.at = SentAs
    BY DEF IsCall
  <2>3. SentAs \in FetchAt
    BY DEF SentAs, FetchAt
  <2> QED
    BY <2>1, <2>2, <2>3
<1> QED
  BY <1>1, <1>2

LEMMA AskOneTyped ==
  ASSUME SessionSafe, NEW others, NEW op, NEW tag, RequestAlong(others, {Call(op, tag)})
  PROVE  \A g \in fetches' : g \in others \/ (g.at \in FetchAt /\ g.op = op /\ g.tag = tag)
<1>1. \A c \in {Call(op, tag)} :
        IsCall(c) /\ c.at = "refreshing" /\ c.op = op /\ c.tag = tag
  BY CallFacts
<1> QED
  BY <1>1, AskTyped

(* The screen of w, and one error more or not.                              *)
Becomes(w) ==
  /\ DOMAIN view' = DOMAIN w
  /\ \A x \in DOMAIN w : x # "failures" => view'[x] = w[x]
  /\ view'.failures \in 0..MaxFailures

-----------------------------------------------------------------------------
(* The views.                                                               *)
LEMMA ViewStepTyped ==
  ASSUME TypesInv, IsView, page' = page, DOMAIN view' = DOMAIN view, view'.kind = view.kind,
         view'.how = view.how, view'.failures \in 0..MaxFailures,
         view'.key \in Keys \/ view'.key = view.key \/ (view'.key = NoKey /\ view.how.opens),
         view'.shown \in Keys \cup {NoKey},
         view'.loading \in BOOLEAN, view'.failed \in BOOLEAN,
         \A g \in fetches' : g \in fetches \/ (g.at \in FetchAt /\ (g.op = "get" => g.tag \in Keys))
  PROVE  TypesInv'
<1>1. ScreenTyped /\ ViewTypeOK /\ Flagged(view.how) /\ (view.key = NoKey => view.how.opens)
  BY DEF TypesInv, ViewTyped
<1>2. ScreenTyped'
  BY <1>1 DEF ScreenTyped
<1>3. NoKey \notin Keys
  BY KeysAssumption
<1>4. \A g \in fetches' : g.op = "get" => g.tag \in Keys
  BY <1>1 DEF ViewTypeOK
<1>5. view'.key \in Keys \cup {NoKey} /\ (view'.key = NoKey => view'.how.opens)
  BY <1>1, <1>3 DEF ViewTypeOK
<1>6. ViewTypeOK'
  BY <1>4, <1>5 DEF ViewTypeOK
<1>7. ViewTyped'
  BY <1>1, <1>5, <1>6 DEF ViewTyped
<1> QED
  BY <1>2, <1>7, TypesOf DEF IsView

LEMMA ViewTypes ==
  ASSUME TypesInv, ComponentOK, IsView
  PROVE  /\ {"kind", "how", "key", "shown", "loading", "failed", "failures"} \subseteq DOMAIN view
         /\ view.failures \in 0..MaxFailures
         /\ view.key \in Keys \cup {NoKey} /\ view.shown \in Keys \cup {NoKey}
         /\ view.loading \in BOOLEAN /\ view.failed \in BOOLEAN
         /\ view.how.opens \in BOOLEAN /\ view.how.drops \in BOOLEAN /\ view.how.reloads \in BOOLEAN
         /\ view.how.polls \/ view.how.retry => view.key \in Keys
BY ViewFacts DEF TypesInv, ScreenTyped, ViewTyped, ViewTypeOK, Flagged

LEMMA GetsTyped ==
  ASSUME SessionSafe, NEW k \in Keys, Request(Gets({k}))
  PROVE  \A g \in fetches' : g \in fetches \/ (g.at \in FetchAt /\ (g.op = "get" => g.tag \in Keys))
<1>1. Gets({k}) = {Call("get", k)}
  BY DEF Gets
<1> QED
  BY <1>1, AskOneTyped DEF Request

LEMMA UserViewTyped ==
  ASSUME TypesInv, SessionSafe, ComponentOK, IsView, UserViewStep, page' = page
  PROVE  TypesInv'
<1> USE ViewTypes
<1>1. ASSUME NEW k \in Keys, Select(k)  PROVE TypesInv'
  <2>1. CASE view.how.custom /\ k = CustomKey
    <3>1. view' = [view EXCEPT !.key = k, !.loading = FALSE] /\ fetches' = fetches
      BY <1>1, <2>1 DEF Select
    <3> QED
      BY <3>1, ViewStepTyped
  <2>2. CASE ~(view.how.custom /\ k = CustomKey)
    <3>1. view' = [view EXCEPT !.key = k, !.loading = @ \/ view.how.reloads] /\ Fetches(k)
      BY <1>1, <2>2 DEF Select
    <3>2. \A g \in fetches' :
            g \in fetches \/ (g.at \in FetchAt /\ (g.op = "get" => g.tag \in Keys))
      BY <3>1, GetsTyped DEF Fetches
    <3> QED
      BY <3>1, <3>2, ViewStepTyped
  <2> QED
    BY <2>1, <2>2
<1>2. CASE Apply
  <2>1. view' = [view EXCEPT !.loading = TRUE] /\ Fetches(CustomKey) /\ CustomKey \in Keys
    BY <1>2, KeysAssumption DEF Apply
  <2>2. \A g \in fetches' :
          g \in fetches \/ (g.at \in FetchAt /\ (g.op = "get" => g.tag \in Keys))
    BY <2>1, GetsTyped DEF Fetches
  <2> QED
    BY <2>1, <2>2, ViewStepTyped
<1>3. CASE CloseDetails
  <2>1. view' = [view EXCEPT !.key = NoKey, !.shown = NoKey] /\ fetches' = fetches /\ view.how.opens
    BY <1>3 DEF CloseDetails
  <2> QED
    BY <2>1, ViewStepTyped
<1>4. CASE Retry
  <2>1. /\ view' = [view EXCEPT !.failed = view.how.drops, !.loading = @ \/ view.how.reloads]
        /\ Fetches(view.key) /\ view.key \in Keys
    BY <1>4 DEF Retry
  <2>2. \A g \in fetches' :
          g \in fetches \/ (g.at \in FetchAt /\ (g.op = "get" => g.tag \in Keys))
    BY <2>1, GetsTyped DEF Fetches
  <2> QED
    BY <2>1, <2>2, ViewStepTyped
<1> QED
  BY <1>1, <1>2, <1>3, <1>4 DEF UserViewStep

LEMMA PollViewTyped ==
  ASSUME TypesInv, SessionSafe, ComponentOK, PollView, view' = view, page' = page
  PROVE  TypesInv'
<1>1. IsView /\ view.how.polls /\ Request(Gets({view.key}))
  BY DEF PollView
<1>2. view.key \in Keys
  BY <1>1, ViewTypes
<1> QED
  BY <1>1, <1>2, GetsTyped, ViewTypes, ViewStepTyped

LEMMA FetchAnswerTyped ==
  ASSUME TypesInv, ComponentOK, NEW f \in fetches, FetchAnswer(f), page' = page
  PROVE  TypesInv'
<1>1. /\ f.op = "get" /\ fetches' = fetches \ {f}
      /\ view' = IF Dropped(f) THEN view
                 ELSE [view EXCEPT !.shown = f.tag, !.loading = FALSE, !.failed = FALSE]
  BY DEF FetchAnswer, Answered
<1>2. IsView
  BY <1>1 DEF ComponentOK, OpsOf, OutlivingOf, Outliving, IsView
<1>3. f.tag \in Keys
  BY <1>1, <1>2 DEF TypesInv, ViewTyped, ViewTypeOK
<1> QED
  BY <1>1, <1>2, <1>3, ViewTypes, ViewStepTyped

LEMMA ViewFailedTyped ==
  ASSUME TypesInv, ComponentOK, IsView, NEW f \in fetches, fetches' = fetches \ {f}, page' = page,
         Becomes(ViewFailed(f))
  PROVE  TypesInv'
<1> DEFINE w == ViewFailed(f)
<1>1. CASE f.op # "get" \/ Dropped(f)
  <2>1. w = view
    BY <1>1 DEF ViewFailed
  <2> QED
    BY <2>1, ViewTypes, ViewStepTyped DEF Becomes
<1>2. CASE f.op = "get" /\ ~Dropped(f)
  <2>1. w = [view EXCEPT !.shown = IF view.how.opens THEN NoKey ELSE @,
                         !.loading = @ /\ view.how.awaits, !.failed = TRUE]
    BY <1>2 DEF ViewFailed
  <2>2. /\ DOMAIN w = DOMAIN view /\ w.kind = view.kind /\ w.how = view.how
        /\ w.key = view.key /\ w.shown \in {view.shown, NoKey} /\ w.loading \in BOOLEAN
        /\ w.failed = TRUE
    BY <2>1, ViewTypes
  <2> HIDE DEF w
  <2>3. DOMAIN view' = DOMAIN w /\ \A x \in DOMAIN w : x # "failures" => view'[x] = w[x]
    BY DEF Becomes, w
  <2> QED
    BY <2>2, <2>3, ViewTypes, ViewStepTyped DEF Becomes
<1> QED
  BY <1>1, <1>2

-----------------------------------------------------------------------------
(* The panes.                                                               *)
PaneCalls == {"thread", "status", "reread", "reply", "old reply"}

(* What a step of a pane keeps: the types of the fields, ...                *)
PaneFieldsTyped(v) ==
  /\ v.kind = "pane" /\ v.how \in Panes /\ v.busy \subseteq {"reply"}
  /\ v.sel \in Keys \cup {NoKey} /\ v.shown \in Keys \cup {NoKey} /\ v.header \in Keys \cup {NoKey}
  /\ v.listing \in BOOLEAN /\ v.listed \in BOOLEAN /\ v.failed \in BOOLEAN
  /\ v.loading \in BOOLEAN /\ v.crossed \in BOOLEAN /\ v.draft \in BOOLEAN
  /\ v.sends \in 0..(MaxFailures + 2) /\ v.errors \in Nat /\ v.failures \in 0..MaxFailures

(* ... those of the calls, and what the call of a reply looks at.           *)
LEMMA PaneStepTyped ==
  ASSUME TypesInv, ComponentOK, view.kind = "pane", page' = page,
         DOMAIN view' = DOMAIN view, PaneFieldsTyped(view'), RepliesCome',
         \A g \in fetches' :
           \/ \E f \in fetches : g.op = f.op /\ g.tag = f.tag /\ g.at \in FetchAt
           \/ g.at \in FetchAt /\ (g.op \in PaneCalls => g.tag \in Keys)
  PROVE  TypesInv'
<1>1. /\ ScreenTyped /\ PaneFields \subseteq DOMAIN view /\ MaxFailures \in Nat
      /\ \A f \in fetches : f.op \in PaneCalls => f.tag \in Keys
  BY KeysAssumption DEF TypesInv, PaneTyped, PaneCalls
<1>2. ScreenTyped'
  BY <1>1 DEF ScreenTyped, PaneFieldsTyped
<1>3. \A g \in fetches' : g.op \in PaneCalls => g.tag \in Keys
  BY <1>1
<1>4. view'.errors \in 0..(MaxFailures + 2)
  BY <1>1 DEF RepliesCome, PaneFieldsTyped
<1>5. PaneTypeOK'
  BY <1>4 DEF PaneTypeOK, PaneFieldsTyped
<1>6. PaneTyped'
  BY <1>1, <1>3, <1>5 DEF PaneTyped, PaneCalls
<1> QED
  BY <1>2, <1>6, TypesOf DEF PaneFieldsTyped

LEMMA PaneTypes ==
  ASSUME TypesInv, view.kind = "pane"
  PROVE  /\ PaneFieldsTyped(view) /\ PaneFields \subseteq DOMAIN view
         /\ "kind" \in DOMAIN view /\ "failures" \in DOMAIN view
         /\ RepliesCome
         /\ \A f \in fetches : f.at \in FetchAt /\ (f.op \in PaneCalls => f.tag \in Keys)
<1>1. /\ ScreenTyped /\ PaneTypeOK /\ RepliesCome /\ PaneFields \subseteq DOMAIN view
      /\ \A f \in fetches : f.op \in PaneCalls => f.tag \in Keys
  BY DEF TypesInv, PaneTyped, PaneCalls
<1>2. /\ view.errors \in Nat /\ view.failures \in 0..MaxFailures /\ "failures" \in DOMAIN view
      /\ \A f \in fetches : f.at \in FetchAt
  BY <1>1, KeysAssumption DEF ScreenTyped, PaneTypeOK
<1>3. PaneFieldsTyped(view)
  BY <1>1, <1>2 DEF PaneTypeOK, PaneFieldsTyped
<1> QED
  BY <1>1, <1>2, <1>3 DEF PaneFields

LEMMA RepliesKept ==
  ASSUME RepliesCome, view'.busy = view.busy, view'.draft = view.draft,
         view'.sends = view.sends, view'.errors = view.errors,
         \A g \in fetches' : g \in fetches \/ g.op # "reply"
  PROVE  RepliesCome'
BY DEF RepliesCome

(* A step that leaves the reply box alone.                                  *)
LEMMA PaneAskTyped ==
  ASSUME TypesInv, SessionSafe, ComponentOK, view.kind = "pane", page' = page,
         DOMAIN view' = DOMAIN view, PaneFieldsTyped(view'),
         view'.busy = view.busy, view'.draft = view.draft, view'.sends = view.sends,
         view'.errors = view.errors,
         NEW others \in SUBSET fetches, NEW cs, RequestAlong(others, cs),
         \A c \in cs : /\ IsCall(c) /\ c.at = "refreshing" /\ c.op # "reply"
                       /\ c.op \in PaneCalls => c.tag \in Keys
  PROVE  TypesInv'
<1>1. \A g \in fetches' : g \in others \/
        /\ g.at \in FetchAt
        /\ \E c \in cs : g.op = c.op /\ g.tag = c.tag
  BY AskTyped
<1>2. RepliesCome'
  BY <1>1, PaneTypes, RepliesKept
<1>3. \A g \in fetches' :
        \/ \E f \in fetches : g.op = f.op /\ g.tag = f.tag /\ g.at \in FetchAt
        \/ g.at \in FetchAt /\ (g.op \in PaneCalls => g.tag \in Keys)
  BY <1>1, PaneTypes
<1> QED
  BY <1>2, <1>3, PaneStepTyped

LEMMA ThreadsTyped ==
  ASSUME NEW ks \in SUBSET Keys
  PROVE  \A c \in {List} \cup Threads(ks) :
           /\ IsCall(c) /\ c.at = "refreshing" /\ c.op # "reply"
           /\ c.op \in PaneCalls => c.tag \in Keys
BY ThreadsFacts DEF PaneCalls

LEMMA SelectThreadTyped ==
  ASSUME TypesInv, SessionSafe, ComponentOK, NEW k \in Keys, SelectThread(k), page' = page
  PROVE  TypesInv'
<1>1. /\ view.kind = "pane" /\ Request(Threads({k}))
      /\ view' = [view EXCEPT !.sel = k, !.loading = Showing("inbox"), !.crossed = ThreadUnderWay]
  BY DEF SelectThread
<1>2. PaneFieldsTyped(view) /\ PaneFields \subseteq DOMAIN view /\ "failures" \in DOMAIN view
  BY <1>1, PaneTypes
<1>3. Showing("inbox") \in BOOLEAN /\ ThreadUnderWay \in BOOLEAN
  BY DEF Showing, ThreadUnderWay
<1>4. /\ DOMAIN view' = DOMAIN view /\ PaneFieldsTyped(view')
      /\ view'.busy = view.busy /\ view'.draft = view.draft /\ view'.sends = view.sends
      /\ view'.errors = view.errors
  BY <1>1, <1>2, <1>3 DEF PaneFieldsTyped, PaneFields
<1>5. \A c \in Threads({k}) : /\ IsCall(c) /\ c.at = "refreshing" /\ c.op # "reply"
                              /\ c.op \in PaneCalls => c.tag \in Keys
  BY ThreadsTyped
<1> QED
  BY <1>1, <1>4, <1>5, PaneAskTyped DEF Request

LEMMA DeselectTyped ==
  ASSUME TypesInv, ComponentOK, Deselect, page' = page
  PROVE  TypesInv'
<1>1. /\ view.kind = "pane"
      /\ view' = [view EXCEPT !.sel = NoKey, !.draft = FALSE, !.busy = {}]
      /\ fetches' = {IF f.op = "reply" THEN [f EXCEPT !.op = "old reply"] ELSE f : f \in fetches}
  BY DEF Deselect, Showing
<1>2. /\ PaneFieldsTyped(view) /\ PaneFields \subseteq DOMAIN view /\ "failures" \in DOMAIN view
      /\ RepliesCome
      /\ \A f \in fetches : f.at \in FetchAt /\ (f.op \in PaneCalls => f.tag \in Keys)
  BY <1>1, PaneTypes
<1>3. /\ DOMAIN view' = DOMAIN view /\ PaneFieldsTyped(view')
      /\ view'.sends = view.sends /\ view'.errors = view.errors
  BY <1>1, <1>2 DEF PaneFieldsTyped, PaneFields
<1>4. \A f \in fetches : IsCall(f)
  BY DEF ComponentOK
<1>5. \A g \in fetches' : /\ g.op # "reply" /\ g.at \in FetchAt
                          /\ g.op \in PaneCalls => g.tag \in Keys
  <2>1. ASSUME NEW g \in fetches'
        PROVE  g.op # "reply" /\ g.at \in FetchAt /\ (g.op \in PaneCalls => g.tag \in Keys)
    <3>1. PICK f \in fetches : g = IF f.op = "reply" THEN [f EXCEPT !.op = "old reply"] ELSE f
      BY <1>1
    <3>2. CASE f.op = "reply"
      BY <1>2, <1>4, <3>1, <3>2 DEF IsCall, PaneCalls
    <3>3. CASE f.op # "reply"
      BY <1>2, <3>1, <3>3
    <3> QED
      BY <3>2, <3>3
  <2> QED
    BY <2>1
<1>6. RepliesCome'
  BY <1>2, <1>3, <1>5 DEF RepliesCome
<1> QED
  BY <1>1, <1>3, <1>5, <1>6, PaneStepTyped

LEMMA PollThreadTyped ==
  ASSUME TypesInv, SessionSafe, ComponentOK, PollThread, view' = view, page' = page
  PROVE  TypesInv'
<1>1. view.kind = "pane" /\ view.sel # NoKey /\ Request(Threads({view.sel}))
  BY DEF PollThread, Showing
<1>2. PaneFieldsTyped(view) /\ view.sel \in Keys
  BY <1>1, PaneTypes DEF PaneFieldsTyped
<1>3. \A c \in Threads({view.sel}) : /\ IsCall(c) /\ c.at = "refreshing" /\ c.op # "reply"
                                     /\ c.op \in PaneCalls => c.tag \in Keys
  BY <1>2, ThreadsTyped
<1> QED
  BY <1>1, <1>2, <1>3, PaneAskTyped DEF Request

LEMMA RelistInboxTyped ==
  ASSUME TypesInv, SessionSafe, ComponentOK, FilterInbox \/ RelistInbox, page' = page
  PROVE  TypesInv'
<1>1. /\ view.kind = "pane" /\ Request({List})
      /\ \/ view' = [Relist(view) EXCEPT !.sel = NoKey, !.shown = NoKey]
         \/ view' = Relist(view)
  BY DEF FilterInbox, RelistInbox, Showing
<1>2. PaneFieldsTyped(view) /\ PaneFields \subseteq DOMAIN view /\ "failures" \in DOMAIN view
  BY <1>1, PaneTypes
<1>3. /\ DOMAIN view' = DOMAIN view /\ PaneFieldsTyped(view')
      /\ view'.busy = view.busy /\ view'.draft = view.draft /\ view'.sends = view.sends
      /\ view'.errors = view.errors
  BY <1>1, <1>2 DEF PaneFieldsTyped, PaneFields, Relist
<1>4. \A c \in {List} : /\ IsCall(c) /\ c.at = "refreshing" /\ c.op # "reply"
                        /\ c.op \in PaneCalls => c.tag \in Keys
  BY ThreadsTyped
<1> QED
  BY <1>1, <1>3, <1>4, PaneAskTyped DEF Request

LEMMA ActOnTyped ==
  ASSUME TypesInv, SessionSafe, ComponentOK, NEW op, ActOn(op), page' = page
  PROVE  TypesInv'
<1>1. /\ view.kind = "pane" /\ view' = view /\ Request({Call(op, view.sel)})
      /\ op \in {"status", "blacklist", "remove"} /\ view.sel # NoKey
  BY DEF ActOn, Offered
<1>2. PaneFieldsTyped(view) /\ view.sel \in Keys
  BY <1>1, PaneTypes DEF PaneFieldsTyped
<1>3. \A c \in {Call(op, view.sel)} : /\ IsCall(c) /\ c.at = "refreshing" /\ c.op # "reply"
                                      /\ c.op \in PaneCalls => c.tag \in Keys
  BY <1>1, <1>2, CallFacts
<1> QED
  BY <1>1, <1>2, <1>3, PaneAskTyped DEF Request

LEMMA TypeReplyTyped ==
  ASSUME TypesInv, ComponentOK, TypeReply, page' = page
  PROVE  TypesInv'
<1>1. /\ view.kind = "pane" /\ ~view.draft /\ fetches' = fetches
      /\ view' = [view EXCEPT !.draft = TRUE, !.sends = 0, !.errors = 0]
  BY DEF TypeReply, Showing
<1>2. /\ PaneFieldsTyped(view) /\ PaneFields \subseteq DOMAIN view /\ "failures" \in DOMAIN view
      /\ RepliesCome /\ \A f \in fetches : f.at \in FetchAt
  BY <1>1, PaneTypes
<1>3. DOMAIN view' = DOMAIN view /\ PaneFieldsTyped(view') /\ view'.sends = 0 /\ view'.errors = 0
  BY <1>1, <1>2, KeysAssumption DEF PaneFieldsTyped, PaneFields
<1>4. RepliesCome'
  BY <1>1, <1>2, <1>3 DEF RepliesCome
<1> QED
  BY <1>1, <1>2, <1>3, <1>4, PaneStepTyped

LEMMA SendReplyTyped ==
  ASSUME TypesInv, SessionSafe, ComponentOK, SendReply, page' = page
  PROVE  TypesInv'
<1>1. /\ view.kind = "pane" /\ view.draft /\ view.busy = {} /\ view.sends <= MaxFailures + 1
      /\ view.sel # NoKey /\ Request({Call("reply", view.sel)})
      /\ view' = [view EXCEPT !.busy = {"reply"}, !.sends = @ + 1]
  BY DEF SendReply, Showing
<1>2. /\ PaneFieldsTyped(view) /\ PaneFields \subseteq DOMAIN view /\ "failures" \in DOMAIN view
      /\ RepliesCome /\ view.sel \in Keys /\ \A f \in fetches : f.at \in FetchAt
  BY <1>1, PaneTypes DEF PaneFieldsTyped
<1>3. /\ DOMAIN view' = DOMAIN view /\ PaneFieldsTyped(view') /\ view'.busy # {} /\ view'.draft
      /\ view'.sends = view.sends + 1 /\ view'.errors = view.errors
  <2>1. view.sends + 1 \in 0..(MaxFailures + 2)
    BY <1>1, <1>2, KeysAssumption DEF PaneFieldsTyped
  <2>2. /\ DOMAIN view' = DOMAIN view /\ view'.busy = {"reply"} /\ view'.sends = view.sends + 1
        /\ \A x \in DOMAIN view : x \notin {"busy", "sends"} => view'[x] = view[x]
    BY <1>1, <1>2 DEF PaneFields
  <2>3. /\ view'.kind = view.kind /\ view'.how = view.how /\ view'.sel = view.sel
        /\ view'.shown = view.shown /\ view'.header = view.header /\ view'.listing = view.listing
        /\ view'.listed = view.listed /\ view'.failed = view.failed
        /\ view'.loading = view.loading /\ view'.crossed = view.crossed
        /\ view'.draft = view.draft /\ view'.errors = view.errors
        /\ view'.failures = view.failures
    BY <1>2, <2>2 DEF PaneFields
  <2> QED
    BY <1>1, <1>2, <2>1, <2>2, <2>3 DEF PaneFieldsTyped
<1>4. \A f \in fetches : f.op # "reply"
  BY <1>1, <1>2 DEF RepliesCome
<1>5. PICK r : fetches' = fetches \cup {r} /\ r.op = "reply"
  BY <1>1, RequestOne DEF Request
<1>6. \A g \in fetches' : g \in fetches \/ (g.at \in FetchAt /\ g.op = "reply" /\ g.tag = view.sel)
  BY <1>1, AskOneTyped DEF Request
<1>7. RepliesCome'
  BY <1>2, <1>3, <1>4, <1>5 DEF RepliesCome, PaneFieldsTyped
<1> QED
  BY <1>1, <1>2, <1>3, <1>6, <1>7, PaneStepTyped


LEMMA UserPaneTyped ==
  ASSUME TypesInv, SessionSafe, ComponentOK, UserPaneStep, page' = page
  PROVE  TypesInv'
BY SelectThreadTyped, DeselectTyped, RelistInboxTyped, TypeReplyTyped, SendReplyTyped, ActOnTyped
   DEF UserPaneStep

(* A call is answered or lost, and the reply box is left alone.             *)
LEMMA PaneEndsTyped ==
  ASSUME TypesInv, ComponentOK, view.kind = "pane", page' = page,
         DOMAIN view' = DOMAIN view, PaneFieldsTyped(view'),
         view'.busy = view.busy, view'.draft = view.draft, view'.sends = view.sends,
         view'.errors = view.errors, fetches' \subseteq fetches
  PROVE  TypesInv'
<1>1. RepliesCome'
  BY PaneTypes, RepliesKept
<1>2. \A g \in fetches' :
        \/ \E f \in fetches : g.op = f.op /\ g.tag = f.tag /\ g.at \in FetchAt
        \/ g.at \in FetchAt /\ (g.op \in PaneCalls => g.tag \in Keys)
  BY PaneTypes
<1> QED
  BY <1>1, <1>2, PaneStepTyped

LEMMA ListAnswerTyped ==
  ASSUME TypesInv, ComponentOK, view.kind = "pane", NEW f \in fetches,
         f.op \in {"list", "thread", "reread"}, PaneAnswer(f), page' = page
  PROVE  TypesInv'
<1>1. /\ fetches' = fetches \ {f}
      /\ \/ view' = [view EXCEPT !.listed = TRUE, !.listing = FALSE, !.failed = FALSE]
         \/ f.op = "thread" /\ view' = AfterThread(f.tag)
         \/ f.op = "reread" /\ view' = [view EXCEPT !.shown = f.tag]
  BY DEF PaneAnswer, Answered
<1>2. /\ PaneFieldsTyped(view) /\ PaneFields \subseteq DOMAIN view /\ "failures" \in DOMAIN view
      /\ f.op \in {"thread", "reread"} => f.tag \in Keys
  BY PaneTypes DEF PaneCalls
<1>3. /\ DOMAIN view' = DOMAIN view /\ PaneFieldsTyped(view')
      /\ view'.busy = view.busy /\ view'.draft = view.draft /\ view'.sends = view.sends
      /\ view'.errors = view.errors
  <2>1. CASE view' = [view EXCEPT !.listed = TRUE, !.listing = FALSE, !.failed = FALSE]
    BY <1>2, <2>1 DEF PaneFieldsTyped, PaneFields
  <2>2. CASE f.op = "thread" /\ view' = AfterThread(f.tag)
    BY <1>2, <2>2 DEF PaneFieldsTyped, PaneFields, AfterThread
  <2>3. CASE f.op = "reread" /\ view' = [view EXCEPT !.shown = f.tag]
    BY <1>2, <2>3 DEF PaneFieldsTyped, PaneFields
  <2> QED
    BY <1>1, <2>1, <2>2, <2>3
<1> QED
  BY <1>1, <1>3, PaneEndsTyped

LEMMA RelistAnswerTyped ==
  ASSUME TypesInv, SessionSafe, ComponentOK, view.kind = "pane", NEW f \in fetches,
         f.op \in {"status", "blacklist", "remove"}, PaneAnswer(f), page' = page
  PROVE  TypesInv'
<1>1. /\ \/ f.op = "status" /\ view' = AfterStatus(f.tag)
         \/ f.op # "status" /\ view' = AfterRemoval
      /\ RequestAlong(fetches \ {f},
           {List} \cup IF f.op = "status" THEN Threads({f.tag}) ELSE {})
  BY DEF PaneAnswer
<1>2. /\ PaneFieldsTyped(view) /\ PaneFields \subseteq DOMAIN view /\ "failures" \in DOMAIN view
      /\ f.op = "status" => f.tag \in Keys
  BY PaneTypes DEF PaneCalls
<1>3. /\ DOMAIN view' = DOMAIN view /\ PaneFieldsTyped(view')
      /\ view'.busy = view.busy /\ view'.draft = view.draft /\ view'.sends = view.sends
      /\ view'.errors = view.errors
  <2>1. CASE f.op = "status" /\ view' = AfterStatus(f.tag)
    <3> DEFINE crossed == view.crossed \/ view.sel # f.tag \/ \E g \in fetches : g.op = "thread"
    <3>1. view' = [Relist(view) EXCEPT !.loading = TRUE, !.crossed = crossed]
      BY <1>2, <2>1 DEF AfterStatus, Relist, PaneFields
    <3>2. crossed \in BOOLEAN
      BY <1>2 DEF PaneFieldsTyped
    <3> HIDE DEF crossed
    <3> QED
      BY <1>2, <3>1, <3>2 DEF PaneFieldsTyped, PaneFields, Relist
  <2>2. CASE f.op # "status" /\ view' = AfterRemoval
    <3>1. \/ view' = [Relist(view) EXCEPT !.sel = NoKey, !.shown = NoKey]
          \/ view' = [view EXCEPT !.sel = NoKey]
      BY <2>2 DEF AfterRemoval
    <3> QED
      BY <1>2, <3>1 DEF PaneFieldsTyped, PaneFields, Relist
  <2> QED
    BY <1>1, <2>1, <2>2
<1>4. \A c \in {List} \cup IF f.op = "status" THEN Threads({f.tag}) ELSE {} :
        /\ IsCall(c) /\ c.at = "refreshing" /\ c.op # "reply"
        /\ c.op \in PaneCalls => c.tag \in Keys
  BY <1>2, ThreadsTyped
<1> QED
  BY <1>1, <1>3, <1>4, PaneAskTyped

LEMMA ReplyAnswerTyped ==
  ASSUME TypesInv, SessionSafe, ComponentOK, view.kind = "pane", NEW f \in fetches,
         f.op \in {"reply", "old reply"}, PaneAnswer(f), page' = page
  PROVE  TypesInv'
<1>1. /\ view' = AfterReply(f.op)
      /\ RequestAlong(fetches \ {f}, {Call("reread", f.tag)})
  BY DEF PaneAnswer
<1>2. /\ PaneFieldsTyped(view) /\ PaneFields \subseteq DOMAIN view /\ "failures" \in DOMAIN view
      /\ RepliesCome /\ f.tag \in Keys /\ \A g \in fetches : g.at \in FetchAt
  BY PaneTypes DEF PaneCalls
<1>3. \A g \in fetches' :
        g \in fetches \ {f} \/ (g.at \in FetchAt /\ g.op = "reread" /\ g.tag = f.tag)
  BY <1>1, AskOneTyped
<1>4. CASE f.op = "reply"
  <2>1. view' = [view EXCEPT !.draft = FALSE, !.busy = {}]
    BY <1>1, <1>4 DEF AfterReply
  <2>2. /\ DOMAIN view' = DOMAIN view /\ PaneFieldsTyped(view')
        /\ view'.sends = view.sends /\ view'.errors = view.errors
    BY <1>2, <2>1 DEF PaneFieldsTyped, PaneFields
  <2>3. \A g \in fetches' : g.op # "reply"
    BY <1>2, <1>3, <1>4 DEF RepliesCome
  <2>4. RepliesCome'
    BY <1>2, <2>2, <2>3 DEF RepliesCome
  <2> QED
    BY <1>2, <1>3, <2>2, <2>4, PaneStepTyped
<1>5. CASE f.op # "reply"
  <2>1. view' = view
    BY <1>1, <1>5 DEF AfterReply
  <2>2. RepliesCome'
    BY <1>2, <1>3, <2>1, RepliesKept
  <2> QED
    BY <1>2, <1>3, <2>1, <2>2, PaneStepTyped
<1> QED
  BY <1>4, <1>5

LEMMA PaneAnswerTyped ==
  ASSUME TypesInv, SessionSafe, ComponentOK, NEW f \in fetches, PaneAnswer(f), page' = page
  PROVE  TypesInv'
<1>1. view.kind = "pane" /\ f.op \in {"list", "thread", "reread", "status", "blacklist", "remove",
                                      "reply", "old reply"}
  BY DEF PaneAnswer
<1> QED
  BY <1>1, ListAnswerTyped, RelistAnswerTyped, ReplyAnswerTyped

LEMMA PaneFailedTyped ==
  ASSUME TypesInv, ComponentOK, view.kind = "pane", NEW f \in fetches,
         fetches' = fetches \ {f}, page' = page, Becomes(PaneFailed(f))
  PROVE  TypesInv'
<1> DEFINE w == PaneFailed(f)
<1>1. /\ PaneFieldsTyped(view) /\ PaneFields \subseteq DOMAIN view /\ "failures" \in DOMAIN view
      /\ RepliesCome /\ \A g \in fetches : g.at \in FetchAt
  BY PaneTypes
<1>2. CASE f.op # "reply"
  <2>1. /\ DOMAIN w = DOMAIN view /\ PaneFieldsTyped(w)
        /\ w.busy = view.busy /\ w.draft = view.draft /\ w.sends = view.sends
        /\ w.errors = view.errors
    <3>1. CASE f.op = "list"
      <4>1. w = [view EXCEPT !.listing = FALSE, !.failed = TRUE,
                             !.listed = IF Showing("inbox") THEN FALSE ELSE @]
        BY <3>1 DEF PaneFailed
      <4> HIDE DEF w
      <4> QED
        BY <1>1, <4>1 DEF PaneFieldsTyped, PaneFields
    <3>2. CASE f.op = "thread"
      <4>1. w = [view EXCEPT !.shown = IF Showing("inbox") THEN NoKey ELSE @, !.loading = FALSE]
        BY <3>2 DEF PaneFailed
      <4> HIDE DEF w
      <4> QED
        BY <1>1, <4>1 DEF PaneFieldsTyped, PaneFields
    <3>3. CASE f.op \notin {"list", "thread"}
      BY <1>1, <1>2, <3>3 DEF PaneFailed
    <3> QED
      BY <3>1, <3>2, <3>3
  <2> HIDE DEF w
  <2>2. /\ DOMAIN view' = DOMAIN view /\ PaneFieldsTyped(view')
        /\ view'.busy = view.busy /\ view'.draft = view.draft /\ view'.sends = view.sends
        /\ view'.errors = view.errors
    BY <1>1, <2>1 DEF Becomes, PaneFieldsTyped, PaneFields, w
  <2> QED
    BY <2>2, PaneEndsTyped
<1>3. CASE f.op = "reply"
  <2>1. w = [view EXCEPT !.busy = {}, !.errors = @ + 1]
    BY <1>3 DEF PaneFailed
  <2>2. DOMAIN view' = DOMAIN w /\ \A x \in DOMAIN w : x # "failures" => view'[x] = w[x]
    BY DEF Becomes
  <2> HIDE DEF w
  <2>3. /\ DOMAIN w = DOMAIN view /\ w.busy = {} /\ w.errors = view.errors + 1
        /\ \A x \in DOMAIN view : x \notin {"busy", "errors"} => w[x] = view[x]
    BY <1>1, <2>1 DEF PaneFields
  <2>4. /\ view'.kind = view.kind /\ view'.how = view.how /\ view'.sel = view.sel
        /\ view'.shown = view.shown /\ view'.header = view.header /\ view'.listing = view.listing
        /\ view'.listed = view.listed /\ view'.failed = view.failed
        /\ view'.loading = view.loading /\ view'.crossed = view.crossed
        /\ view'.draft = view.draft /\ view'.sends = view.sends
        /\ view'.busy = {} /\ view'.errors = view.errors + 1
        /\ DOMAIN view' = DOMAIN view
    BY <1>1, <2>2, <2>3 DEF PaneFields
  <2>5. view.errors + 1 \in Nat
    BY <1>1 DEF PaneFieldsTyped
  <2>6. view'.failures \in 0..MaxFailures
    BY DEF Becomes
  <2>7. PaneFieldsTyped(view')
    BY <1>1, <2>4, <2>5, <2>6 DEF PaneFieldsTyped
  <2>8. RepliesCome'
    <3>1. view.errors < view.sends /\ \A g \in fetches' : g.op # "reply"
      BY <1>1, <1>3 DEF RepliesCome
    <3> QED
      BY <1>1, <2>4, <3>1 DEF RepliesCome, PaneFieldsTyped
  <2> QED
    BY <1>1, <2>4, <2>7, <2>8, PaneStepTyped
<1> QED
  BY <1>2, <1>3

-----------------------------------------------------------------------------
(* The documents.                                                           *)
FlagsTyped(v) ==
  /\ v.kind = "document" /\ v.how = view.how
  /\ v.dirty \subseteq Parts(view.how) /\ v.busy \subseteq {"save", "scrape"}
  /\ v.loading \in BOOLEAN /\ v.loaded \in BOOLEAN /\ v.failed \in BOOLEAN
  /\ v.disturbed \in BOOLEAN /\ v.failures \in 0..MaxFailures

LEMMA DocStepTyped ==
  ASSUME TypesInv, page' = page, DOMAIN view' = DOMAIN view, FlagsTyped(view'),
         \A g \in fetches' : g \in fetches \/ g.at \in FetchAt
  PROVE  TypesInv'
<1>1. ScreenTyped'
  BY DEF TypesInv, ScreenTyped, FlagsTyped
<1>2. DocTyped'
  BY DEF DocTyped, FlagsTyped
<1> QED
  BY <1>1, <1>2, TypesOf DEF FlagsTyped

LEMMA DocTypes ==
  ASSUME TypesInv, DocumentInv, view.kind = "document"
  PROVE  /\ FlagsTyped(view) /\ DocFields \subseteq DOMAIN view /\ "failures" \in DOMAIN view
         /\ \A f \in fetches : f.at \in FetchAt
BY DEF TypesInv, ScreenTyped, DocTyped, FlagsTyped, DocumentInv, DocSound

(* A call is made, alone or after an answer.                                *)
LEMMA WriteTyped ==
  ASSUME TypesInv, SessionSafe, DocumentInv, view.kind = "document", page' = page,
         NEW v, NEW disturbed \in BOOLEAN, DOMAIN v = DOMAIN view, FlagsTyped(v),
         \/ view' = [v EXCEPT !.disturbed = disturbed]
         \/ view' = [v EXCEPT !.failed = FALSE, !.disturbed = disturbed],
         NEW others \in SUBSET fetches, NEW op, NEW tag, RequestAlong(others, {Call(op, tag)})
  PROVE  TypesInv'
<1>1. DocFields \subseteq DOMAIN view /\ "failures" \in DOMAIN view
  BY DocTypes
<1>2. DOMAIN view' = DOMAIN view /\ FlagsTyped(view')
  BY <1>1 DEF FlagsTyped, DocFields
<1>3. \A g \in fetches' : g \in others \/ (g.at \in FetchAt /\ g.op = op /\ g.tag = tag)
  BY AskOneTyped
<1> QED
  BY <1>2, <1>3, DocStepTyped

LEMMA WritesTyped ==
  ASSUME TypesInv, SessionSafe, DocumentInv, view.kind = "document", page' = page,
         NEW op, NEW tag, NEW v, DOMAIN v = DOMAIN view, FlagsTyped(v), Write(Call(op, tag), v)
  PROVE  TypesInv'
<1>1. /\ view' = [v EXCEPT !.disturbed = @ \/ Overlaps] /\ "disturbed" \in DOMAIN v
      /\ RequestAlong(fetches, {Call(op, tag)})
  BY DocTypes DEF Write, Request, DocFields
<1>2. (v.disturbed \/ Overlaps) \in BOOLEAN
  OBVIOUS
<1>3. view' = [v EXCEPT !.disturbed = v.disturbed \/ Overlaps]
  BY <1>1
<1> QED
  BY <1>1, <1>2, <1>3, WriteTyped

LEMMA ReloadTyped ==
  ASSUME TypesInv, SessionSafe, DocumentInv, view.kind = "document", page' = page,
         NEW f, NEW for, NEW v, DOMAIN v = DOMAIN view, FlagsTyped(v), ReloadAfter(f, for, v)
  PROVE  TypesInv'
<1>1. /\ view' = [v EXCEPT !.failed = FALSE, !.disturbed = OthersThan(f)]
      /\ RequestAlong(fetches \ {f}, {LoadFor(view.how, for)})
  BY DEF ReloadAfter
<1>2. OthersThan(f) \in BOOLEAN
  BY DEF OthersThan
<1> QED
  BY <1>1, <1>2, WriteTyped DEF LoadFor

LEMMA EditTyped ==
  ASSUME TypesInv, DocumentInv, NEW p, Edit(p), page' = page
  PROVE  TypesInv'
<1>1. /\ view.kind = "document" /\ p \in Parts(view.how) /\ fetches' = fetches
      /\ view' = [view EXCEPT !.local[p] = Other(@), !.dirty = @ \cup {p}]
  BY DEF Edit, Editable
<1>2. /\ FlagsTyped(view) /\ DocFields \subseteq DOMAIN view /\ "failures" \in DOMAIN view
  BY <1>1, DocTypes
<1>3. DOMAIN view' = DOMAIN view /\ FlagsTyped(view')
  BY <1>1, <1>2 DEF FlagsTyped, DocFields
<1> QED
  BY <1>1, <1>3, DocStepTyped

LEMMA UserDocumentTyped ==
  ASSUME TypesInv, SessionSafe, DocumentInv, UserDocumentStep, page' = page
  PROVE  TypesInv'
<1>1. CASE \E p \in {"steps", "settings"} : Edit(p)
  BY <1>1, EditTyped
<1>2. CASE ~\E p \in {"steps", "settings"} : Edit(p)
  <2>1. view.kind = "document"
    BY <1>2 DEF UserDocumentStep, SaveDocument, CanSave, Editable, SaveCampaignSettings, IsDoc,
                ToggleCampaign, ToggleEngine, AssignProspects, Scrape, DeleteCampaign, RetryEngine
  <2>2. \E op, tag :
          \/ Write(Call(op, tag), view)
          \/ \E b \in {"save", "scrape"} :
               Write(Call(op, tag), [view EXCEPT !.busy = view.busy \cup {b}])
          \/ Write(Call(op, tag), [view EXCEPT !.loading = TRUE, !.failed = FALSE])
    <3>1. CASE SaveDocument
      <4> DEFINE data == IF view.how = "campaign" THEN Only("steps", view.local["steps"])
                         ELSE view.local
      <4>1. Write(Call("save", Tag("save", data)), [view EXCEPT !.busy = @ \cup {"save"}])
        BY <3>1 DEF SaveDocument
      <4>2. [view EXCEPT !.busy = @ \cup {"save"}] = [view EXCEPT !.busy = view.busy \cup {"save"}]
        BY <2>1, DocTypes DEF DocFields
      <4> QED
        BY <4>1, <4>2
    <3>2. CASE Scrape
      <4>1. Write(Call("scrape", NoKey), [view EXCEPT !.busy = @ \cup {"scrape"}])
        BY <3>2 DEF Scrape
      <4>2. [view EXCEPT !.busy = @ \cup {"scrape"}]
              = [view EXCEPT !.busy = view.busy \cup {"scrape"}]
        BY <2>1, DocTypes DEF DocFields
      <4> QED
        BY <4>1, <4>2
    <3>3. CASE RetryEngine
      BY <3>3 DEF RetryEngine, LoadFor
    <3>4. CASE SaveCampaignSettings \/ ToggleCampaign \/ ToggleEngine
      BY <3>4 DEF SaveCampaignSettings, ToggleCampaign, ToggleEngine
    <3>5. CASE AssignProspects \/ DeleteCampaign
      BY <3>5 DEF AssignProspects, DeleteCampaign
    <3> QED
      BY <1>2, <3>1, <3>2, <3>3, <3>4, <3>5 DEF UserDocumentStep
  <2>3. PICK op, tag :
          \/ Write(Call(op, tag), view)
          \/ \E b \in {"save", "scrape"} :
               Write(Call(op, tag), [view EXCEPT !.busy = view.busy \cup {b}])
          \/ Write(Call(op, tag), [view EXCEPT !.loading = TRUE, !.failed = FALSE])
    BY <2>2
  <2>4. FlagsTyped(view) /\ DocFields \subseteq DOMAIN view /\ "failures" \in DOMAIN view
    BY <2>1, DocTypes
  <2>5. \A b \in {"save", "scrape"} :
          LET v == [view EXCEPT !.busy = view.busy \cup {b}]
          IN DOMAIN v = DOMAIN view /\ FlagsTyped(v)
    BY <2>4 DEF FlagsTyped, DocFields
  <2>6. LET v == [view EXCEPT !.loading = TRUE, !.failed = FALSE]
        IN DOMAIN v = DOMAIN view /\ FlagsTyped(v)
    BY <2>4 DEF FlagsTyped, DocFields
  <2> QED
    BY <2>1, <2>3, <2>4, <2>5, <2>6, WritesTyped
<1> QED
  BY <1>1, <1>2

LEMMA DocumentAnswerTyped ==
  ASSUME TypesInv, SessionSafe, DocumentInv, NEW f \in fetches, DocumentAnswer(f), page' = page
  PROVE  TypesInv'
<1>1. view.kind = "document"
  BY DEF DocumentAnswer
<1>2. FlagsTyped(view) /\ DocFields \subseteq DOMAIN view /\ "failures" \in DOMAIN view
  BY <1>1, DocTypes
<1>3. CASE LoadAnswer(f)
  <2>1. /\ fetches' = fetches \ {f}
        /\ view' = [view EXCEPT !.local = f.tag.data, !.loaded = TRUE, !.loading = FALSE,
                                !.dirty = {}, !.busy = @ \ {f.tag.for}]
    BY <1>3 DEF LoadAnswer, Answered
  <2>2. DOMAIN view' = DOMAIN view /\ FlagsTyped(view')
    BY <1>2, <2>1 DEF FlagsTyped, DocFields
  <2> QED
    BY <2>1, <2>2, DocStepTyped
<1>4. CASE SaveAnswer(f)
  <2>1. view.how \in {"campaign", "engine", "settings"} /\ f.op = "save"
    BY <1>1, <1>4 DEF DocumentInv, DocSound, Documents, SaveAnswer
  <2>a. view.how # "engine" => f.tag.for # "switch"
    BY <1>1, <2>1 DEF DocumentInv, CallsSound, Ours
  <2>2. CASE view.how = "campaign"
    <3>1. ReloadAfter(f, "page", [view EXCEPT !.busy = @ \ {f.tag.for}])
      BY <1>4, <2>2, <2>a DEF SaveAnswer
    <3>2. LET v == [view EXCEPT !.busy = @ \ {f.tag.for}]
          IN DOMAIN v = DOMAIN view /\ FlagsTyped(v)
      BY <1>2 DEF FlagsTyped, DocFields
    <3> QED
      BY <1>1, <3>1, <3>2, ReloadTyped
  <2>3. CASE view.how = "settings"
    <3>1. /\ fetches' = fetches \ {f}
          /\ view' = [view EXCEPT !.busy = {},
                        !.dirty = {p \in @ : view.local[p] # f.tag.data[p]}]
      BY <1>4, <2>3, <2>a DEF SaveAnswer, Answered
    <3>2. DOMAIN view' = DOMAIN view /\ FlagsTyped(view')
      BY <1>2, <3>1 DEF FlagsTyped, DocFields
    <3> QED
      BY <3>1, <3>2, DocStepTyped
  <2>4. CASE view.how = "engine" /\ f.tag.for = "switch"
    <3>1. fetches' = fetches \ {f} /\ view' = [view EXCEPT !.local["active"] = Other(@)]
      BY <1>4, <2>4 DEF SaveAnswer, Answered
    <3>2. DOMAIN view' = DOMAIN view /\ FlagsTyped(view')
      BY <1>2, <3>1 DEF FlagsTyped, DocFields
    <3> QED
      BY <3>1, <3>2, DocStepTyped
  <2>5. CASE view.how = "engine" /\ f.tag.for # "switch"
    <3>1. ReloadAfter(f, "save", view)
      BY <1>4, <2>5 DEF SaveAnswer
    <3> QED
      BY <1>1, <1>2, <3>1, ReloadTyped
  <2> QED
    BY <2>1, <2>2, <2>3, <2>4, <2>5
<1>5. CASE ReloadAfter(f, "page", view) \/ ReloadAfter(f, "scrape", view)
  BY <1>1, <1>2, <1>5, ReloadTyped
<1> QED
  BY <1>3, <1>4, <1>5 DEF DocumentAnswer

(* A call that nobody waits for is over.                                    *)
LEMMA FewerTyped ==
  ASSUME TypesInv, view' = view, page' = page, fetches' \subseteq fetches
  PROVE  TypesInv'
<1>1. ScreenTyped' /\ ViewTyped'
  BY DEF TypesInv, ScreenTyped, ViewTyped, ViewTypeOK, Flagged, IsView
<1>2. PaneTyped' /\ DocTyped'
  BY DEF TypesInv, PaneTyped, PaneTypeOK, RepliesCome, DocTyped
<1>3. FormTyped' /\ SectionTyped'
  BY DEF TypesInv, FormTyped, FormTypeOK, ClientsCome, SectionTyped, SectionTypeOK,
         SectionFields, At
<1> QED
  BY <1>1, <1>2, <1>3 DEF TypesInv

LEMMA ServeDocumentTyped ==
  ASSUME TypesInv, ComponentOK, DocumentInv, NEW f \in fetches, ServeDocument(f), page' = page
  PROVE  TypesInv'
<1> DEFINE answer == IF f.op = "load" THEN [f EXCEPT !.tag.data = view.stored] ELSE f
           kept == [answer EXCEPT !.at = "answered"]
<1>1. f.op \in {"load", "save", "late save"}
  BY DEF ServeDocument
<1>2. /\ \/ view' = view
         \/ IsDoc(f.tag.how) /\ view' = [view EXCEPT !.stored = Over(@, f.tag.data)]
      /\ fetches' = (fetches \ {f}) \cup (IF f.op = "late save" THEN {} ELSE {kept})
  BY DEF ServeDocument
<1>3. kept.at = "answered"
  <2>1. IsCall(f)
    BY DEF ComponentOK
  <2>2. "at" \in DOMAIN answer
    BY <2>1 DEF IsCall
  <2> HIDE DEF answer
  <2> QED
    BY <2>2
<1> HIDE DEF kept
<1>4. \A g \in fetches' : g \in fetches \/ g.at \in FetchAt
  BY <1>2, <1>3 DEF FetchAt
<1>5. CASE view.kind = "document"
  <2>1. FlagsTyped(view) /\ DocFields \subseteq DOMAIN view /\ "failures" \in DOMAIN view
    BY <1>5, DocTypes
  <2>2. DOMAIN view' = DOMAIN view /\ FlagsTyped(view')
    BY <1>2, <2>1 DEF FlagsTyped, DocFields
  <2> QED
    BY <1>4, <2>2, DocStepTyped
<1>6. CASE view.kind # "document"
  <2>1. f.op = "late save"
    BY <1>1, <1>6 DEF ComponentOK, OpsOf, OutlivingOf, Outliving
  <2>2. view' = view
    BY <1>2, <1>6 DEF IsDoc
  <2> QED
    BY <1>2, <2>1, <2>2, FewerTyped
<1> QED
  BY <1>5, <1>6

LEMMA DocumentFailedTyped ==
  ASSUME TypesInv, DocumentInv, view.kind = "document", NEW f \in fetches,
         fetches' = fetches \ {f}, page' = page, Becomes(DocumentFailed(f))
  PROVE  TypesInv'
<1> DEFINE w == DocumentFailed(f)
<1>1. /\ FlagsTyped(view) /\ DocFields \subseteq DOMAIN view /\ "failures" \in DOMAIN view
  BY DocTypes
<1>2. w = [view EXCEPT !.disturbed = TRUE, !.busy = @ \ {Holds(f)},
                       !.loading = @ /\ f.op # "load",
                       !.failed = @ \/ (f.op = "load" /\ view.how # "campaign")]
  BY DEF DocumentFailed
<1>3. DOMAIN view' = DOMAIN w /\ \A x \in DOMAIN w : x # "failures" => view'[x] = w[x]
  BY DEF Becomes
<1> HIDE DEF w
<1>4. DOMAIN w = DOMAIN view /\ FlagsTyped(w)
  BY <1>1, <1>2 DEF FlagsTyped, DocFields
<1>5. DOMAIN view' = DOMAIN view /\ FlagsTyped(view')
  BY <1>1, <1>3, <1>4 DEF FlagsTyped, DocFields, Becomes
<1> QED
  BY <1>5, DocStepTyped

-----------------------------------------------------------------------------
(* The forms.                                                               *)
FormFieldsTyped(v) ==
  /\ v.kind = "form" /\ v.how = view.how /\ v.busy \subseteq {"create"}
  /\ v.editing \in Keys \cup {NoKey} /\ v.about \in Keys \cup {NoKey}
  /\ v.asked \in {"nothing", "remove", "convert"}
  /\ v.loading \in BOOLEAN /\ v.listed \in BOOLEAN /\ v.failed \in BOOLEAN
  /\ v.open \in BOOLEAN /\ v.filled \in BOOLEAN
  /\ v.sends \in 0..(MaxFailures + 2) /\ v.errors \in Nat /\ v.failures \in 0..MaxFailures

LEMMA FormStepTyped ==
  ASSUME TypesInv, view.kind = "form", page' = page,
         DOMAIN view' = DOMAIN view, FormFieldsTyped(view'), ClientsCome',
         \A g \in fetches' : g \in fetches \/ g.at \in FetchAt
  PROVE  TypesInv'
<1>1. /\ ScreenTyped /\ FormFields \subseteq DOMAIN view /\ MaxFailures \in Nat
      /\ view.how \in FormPages
  BY KeysAssumption DEF TypesInv, FormTyped, FormTypeOK
<1>2. ScreenTyped'
  BY <1>1 DEF ScreenTyped, FormFieldsTyped
<1>3. view'.errors \in 0..(MaxFailures + 2)
  BY <1>1 DEF ClientsCome, FormFieldsTyped
<1>4. FormTypeOK'
  BY <1>1, <1>3 DEF FormTypeOK, FormFieldsTyped
<1>5. FormTyped'
  BY <1>1, <1>4 DEF FormTyped
<1> QED
  BY <1>2, <1>5, TypesOf DEF FormFieldsTyped

LEMMA FormTypes ==
  ASSUME TypesInv, view.kind = "form"
  PROVE  /\ FormFieldsTyped(view) /\ FormFields \subseteq DOMAIN view
         /\ "failures" \in DOMAIN view /\ ClientsCome /\ view.how \in FormPages
         /\ \A f \in fetches : f.at \in FetchAt
<1>1. /\ ScreenTyped /\ FormTypeOK /\ ClientsCome /\ FormFields \subseteq DOMAIN view
  BY DEF TypesInv, FormTyped
<1>2. /\ view.errors \in Nat /\ view.failures \in 0..MaxFailures /\ "failures" \in DOMAIN view
      /\ \A f \in fetches : f.at \in FetchAt
  BY <1>1, KeysAssumption DEF ScreenTyped, FormTypeOK
<1> QED
  BY <1>1, <1>2 DEF FormTypeOK, FormFieldsTyped

(* What is counted for the content of the form is kept or forgotten, and no *)
(* client is submitted.                                                     *)
LEMMA ClientsKept ==
  ASSUME ClientsCome, view'.how = view.how, view'.busy = view.busy,
         view.how = "clients" => view'.editing \in {view.editing, NoKey},
         \/ view'.sends = view.sends /\ view'.errors = view.errors
         \/ view'.sends = 0 /\ view'.errors = 0,
         \A g \in fetches' : g \in fetches \/ (view.how = "clients" => g.op = "list")
  PROVE  ClientsCome'
BY DEF ClientsCome

LEMMA ModalTyped ==
  ASSUME TypesInv, page' = page,
         OpenNew \/ OpenEmpty \/ (\E k \in Keys : OpenEdit(k)) \/ Fill \/ Close \/ Ask \/ Decline
  PROVE  TypesInv'
<1>1. view.kind = "form" /\ fetches' = fetches
  BY DEF OpenNew, OpenEmpty, OpenEdit, Fill, Close, Ask, Decline, OnForm
<1>2. /\ FormFieldsTyped(view) /\ FormFields \subseteq DOMAIN view /\ "failures" \in DOMAIN view
      /\ ClientsCome
  BY <1>1, FormTypes
<1>3. \/ \E v \in {view, Blanked(view)}, open \in BOOLEAN : view' = [v EXCEPT !.open = open]
      \/ /\ view.how # "clients"
         /\ \E k \in Keys : view' = [Blanked(view) EXCEPT !.open = TRUE, !.editing = k,
                                                          !.about = k, !.filled = TRUE]
      \/ view' = [view EXCEPT !.filled = TRUE, !.sends = 0, !.errors = 0]
      \/ \E op \in {"nothing", "remove", "convert"} : view' = [view EXCEPT !.asked = op]
  <2>1. CASE OpenNew
    BY <2>1 DEF OpenNew
  <2>2. CASE OpenEmpty
    BY <2>2 DEF OpenEmpty
  <2>3. CASE \E k \in Keys : OpenEdit(k)
    BY <2>3 DEF OpenEdit, OnForm
  <2>4. CASE Fill
    BY <2>4 DEF Fill
  <2>5. CASE Close
    BY <2>5 DEF Close
  <2>6. CASE Ask \/ Decline
    BY <2>6 DEF Ask, Decline
  <2> QED
    BY <2>1, <2>2, <2>3, <2>4, <2>5, <2>6
<1>4. /\ DOMAIN view' = DOMAIN view /\ FormFieldsTyped(view') /\ view'.busy = view.busy
      /\ view.how = "clients" => view'.editing \in {view.editing, NoKey}
      /\ \/ view'.sends = view.sends /\ view'.errors = view.errors
         \/ view'.sends = 0 /\ view'.errors = 0
  <2> USE KeysAssumption
  <2>1. CASE \E open \in BOOLEAN : view' = [view EXCEPT !.open = open]
    BY <1>2, <2>1 DEF FormFieldsTyped, FormFields
  <2>2. CASE \E open \in BOOLEAN : view' = [Blanked(view) EXCEPT !.open = open]
    BY <1>2, <2>2 DEF FormFieldsTyped, FormFields, Blanked
  <2>3. CASE /\ view.how # "clients"
             /\ \E k \in Keys : view' = [Blanked(view) EXCEPT !.open = TRUE, !.editing = k,
                                                              !.about = k, !.filled = TRUE]
    <3>1. PICK k \in Keys : view' = [Blanked(view) EXCEPT !.open = TRUE, !.editing = k,
                                                        !.about = k, !.filled = TRUE]
      BY <2>3
    <3>2. /\ DOMAIN view' = DOMAIN view /\ view'.open = TRUE /\ view'.editing = k
          /\ view'.about = k /\ view'.filled = TRUE /\ view'.sends = 0 /\ view'.errors = 0
          /\ view'.busy = view.busy /\ view'.kind = view.kind /\ view'.how = view.how
          /\ view'.asked = view.asked /\ view'.loading = view.loading
          /\ view'.listed = view.listed /\ view'.failed = view.failed
          /\ view'.failures = view.failures
      BY <1>2, <3>1 DEF FormFields, Blanked
    <3> QED
      BY <1>2, <2>3, <3>2 DEF FormFieldsTyped
  <2>4. CASE view' = [view EXCEPT !.filled = TRUE, !.sends = 0, !.errors = 0]
    BY <1>2, <2>4 DEF FormFieldsTyped, FormFields
  <2>5. CASE \E op \in {"nothing", "remove", "convert"} : view' = [view EXCEPT !.asked = op]
    BY <1>2, <2>5 DEF FormFieldsTyped, FormFields
  <2> QED
    BY <1>3, <2>1, <2>2, <2>3, <2>4, <2>5
<1>5. ClientsCome'
  BY <1>1, <1>2, <1>4, ClientsKept DEF FormFieldsTyped
<1> QED
  BY <1>1, <1>4, <1>5, FormStepTyped

(* A call is made that submits no client.                                   *)
LEMMA FormAsksTyped ==
  ASSUME TypesInv, SessionSafe, view.kind = "form", page' = page,
         DOMAIN view' = DOMAIN view, FormFieldsTyped(view'), view'.busy = view.busy,
         view'.editing = view.editing, view'.sends = view.sends, view'.errors = view.errors,
         NEW others \in SUBSET fetches, NEW op, NEW tag, RequestAlong(others, {Call(op, tag)}),
         view.how = "clients" => op = "list"
  PROVE  TypesInv'
<1>1. \A g \in fetches' : g \in others \/ (g.at \in FetchAt /\ g.op = op /\ g.tag = tag)
  BY AskOneTyped
<1>2. ClientsCome'
  BY <1>1, FormTypes, ClientsKept DEF FormFieldsTyped
<1> QED
  BY <1>1, <1>2, FormStepTyped

LEMMA SaveFormTyped ==
  ASSUME TypesInv, SessionSafe, SaveForm, page' = page
  PROVE  TypesInv'
<1>1. /\ view.kind = "form"
      /\ Request({IF view.editing = NoKey THEN Call("create", NoKey)
                  ELSE Call("update", view.editing)})
  BY DEF SaveForm, OnForm
<1>2. /\ FormFieldsTyped(view) /\ FormFields \subseteq DOMAIN view /\ "failures" \in DOMAIN view
      /\ ClientsCome
  BY <1>1, FormTypes
<1>3. CASE view.how = "clients"
  <2>1. /\ view.busy = {} /\ view.sends <= MaxFailures + 1 /\ view.editing = NoKey
        /\ view' = [view EXCEPT !.busy = {"create"}, !.sends = @ + 1]
    BY <1>1, <1>2, <1>3 DEF SaveForm, OnForm, ClientsCome
  <2>2. view.sends + 1 \in 0..(MaxFailures + 2) /\ view.sends \in Nat
    BY <1>2, <2>1, KeysAssumption DEF FormFieldsTyped
  <2>3. /\ DOMAIN view' = DOMAIN view /\ view'.busy = {"create"} /\ view'.sends = view.sends + 1
        /\ \A x \in DOMAIN view : x \notin {"busy", "sends"} => view'[x] = view[x]
    BY <1>2, <2>1 DEF FormFields
  <2>4. /\ view'.kind = view.kind /\ view'.how = view.how /\ view'.editing = view.editing
        /\ view'.about = view.about /\ view'.asked = view.asked /\ view'.loading = view.loading
        /\ view'.listed = view.listed /\ view'.failed = view.failed /\ view'.open = view.open
        /\ view'.filled = view.filled /\ view'.errors = view.errors
        /\ view'.failures = view.failures
    BY <1>2, <2>3 DEF FormFields
  <2>5. FormFieldsTyped(view')
    BY <1>2, <2>2, <2>3, <2>4 DEF FormFieldsTyped
  <2>6. PICK r : fetches' = fetches \cup {r} /\ r.op = "create"
    BY <1>1, <2>1, RequestOne DEF Request
  <2>7. \A g \in fetches' : g \in fetches \/ g.at \in FetchAt
    BY <1>1, <2>1, AskOneTyped DEF Request
  <2>8. \A f \in fetches : f.op # "create"
    BY <1>2, <1>3, <2>1 DEF ClientsCome
  <2>9. ClientsCome'
    BY <1>2, <1>3, <2>1, <2>2, <2>3, <2>4, <2>6, <2>8 DEF ClientsCome, FormFieldsTyped
  <2> QED
    BY <1>1, <2>3, <2>5, <2>7, <2>9, FormStepTyped
<1>4. CASE view.how # "clients"
  <2>1. view' = view
    BY <1>4 DEF SaveForm, OnForm
  <2>2. \E op, tag : RequestAlong(fetches, {Call(op, tag)})
    BY <1>1 DEF Request
  <2> QED
    BY <1>1, <1>2, <1>4, <2>1, <2>2, FormAsksTyped
<1> QED
  BY <1>3, <1>4

LEMMA ListAgainTyped ==
  ASSUME TypesInv, SessionSafe, Confirm \/ ActOnItem \/ RelistForm, page' = page
  PROVE  TypesInv'
<1>1. CASE Confirm \/ ActOnItem
  <2>1. /\ view.kind = "form" /\ view.how # "clients" /\ view' = view
        /\ \E op, tag : RequestAlong(fetches, {Call(op, tag)})
    BY <1>1 DEF Confirm, ActOnItem, OnForm, Request
  <2> QED
    BY <2>1, FormTypes, FormAsksTyped
<1>2. CASE RelistForm
  <2>1. /\ view.kind = "form" /\ RequestAlong(fetches, {Call("list", NoKey)})
        /\ view' = [view EXCEPT !.failed = FALSE, !.loading = @ \/ view.how = "clients"]
    BY <1>2 DEF RelistForm, OnForm, Request, Reread
  <2>2. FormFieldsTyped(view) /\ FormFields \subseteq DOMAIN view /\ "failures" \in DOMAIN view
    BY <2>1, FormTypes
  <2>3. /\ DOMAIN view' = DOMAIN view /\ FormFieldsTyped(view') /\ view'.busy = view.busy
        /\ view'.editing = view.editing /\ view'.sends = view.sends
        /\ view'.errors = view.errors
    BY <2>1, <2>2 DEF FormFieldsTyped, FormFields
  <2> QED
    BY <2>1, <2>3, FormAsksTyped
<1> QED
  BY <1>1, <1>2

LEMMA UserFormTyped ==
  ASSUME TypesInv, SessionSafe, UserFormStep, page' = page
  PROVE  TypesInv'
BY ModalTyped, SaveFormTyped, ListAgainTyped DEF UserFormStep

LEMMA FormAnswerTyped ==
  ASSUME TypesInv, SessionSafe, NEW f \in fetches, FormAnswer(f), page' = page
  PROVE  TypesInv'
<1>1. view.kind = "form"
  BY DEF FormAnswer
<1>2. /\ FormFieldsTyped(view) /\ FormFields \subseteq DOMAIN view /\ "failures" \in DOMAIN view
      /\ ClientsCome
  BY <1>1, FormTypes
<1>3. CASE f.op = "list"
  <2>1. PICK found \in BOOLEAN : /\ view' = [view EXCEPT !.listed = found, !.loading = FALSE]
                                 /\ fetches' = fetches \ {f}
    BY <1>3 DEF FormAnswer, Answered
  <2>2. /\ DOMAIN view' = DOMAIN view /\ FormFieldsTyped(view') /\ view'.busy = view.busy
        /\ view'.editing = view.editing /\ view'.sends = view.sends
        /\ view'.errors = view.errors
    BY <1>2, <2>1 DEF FormFieldsTyped, FormFields
  <2>3. ClientsCome'
    BY <1>2, <2>1, <2>2, ClientsKept DEF FormFieldsTyped
  <2> QED
    BY <1>1, <2>1, <2>2, <2>3, FormStepTyped
<1>4. CASE f.op \in {"create", "update"}
  <2> DEFINE v == [Blanked(view) EXCEPT !.open = FALSE, !.busy = {}]
  <2>1. /\ view' = [v EXCEPT !.failed = FALSE, !.loading = @ \/ view.how = "clients"]
        /\ RequestAlong(fetches \ {f}, {Call("list", NoKey)})
    <3>1. AfterSave(f.op) = v /\ v.how = view.how
      BY <1>2, <1>4 DEF AfterSave, Blanked, FormFields
    <3> HIDE DEF v
    <3>2. /\ view' = Listing(AfterSave(f.op))
          /\ RequestAlong(fetches \ {f}, {Reread})
      BY <1>4 DEF FormAnswer
    <3> QED
      BY <3>1, <3>2 DEF Listing, Reread
  <2>2. /\ DOMAIN v = DOMAIN view /\ FormFieldsTyped(v) /\ v.busy = {}
        /\ v.editing = NoKey /\ v.sends = 0 /\ v.errors = 0
    BY <1>2, KeysAssumption DEF FormFieldsTyped, FormFields, Blanked
  <2> HIDE DEF v
  <2>3. /\ DOMAIN view' = DOMAIN view /\ FormFieldsTyped(view') /\ view'.busy = {}
        /\ view'.editing = NoKey /\ view'.sends = 0 /\ view'.errors = 0
    BY <1>2, <2>1, <2>2 DEF FormFieldsTyped, FormFields
  <2>4. \A g \in fetches' :
          g \in fetches \ {f} \/ (g.at \in FetchAt /\ g.op = "list" /\ g.tag = NoKey)
    BY <2>1, AskOneTyped
  <2>5. view.how = "clients" => \A g \in fetches \ {f} : g.op # "create"
    BY <1>2, <1>4 DEF ClientsCome
  <2>6. ClientsCome'
    BY <1>2, <2>3, <2>4, <2>5 DEF ClientsCome, FormFieldsTyped
  <2> QED
    BY <1>1, <2>3, <2>4, <2>6, FormStepTyped
<1>5. CASE f.op \in {"remove", "convert", "status", "toggle"}
  <2> DEFINE v == AfterSave(f.op)
  <2>1. /\ view' = [v EXCEPT !.failed = FALSE, !.loading = @ \/ view.how = "clients"]
        /\ RequestAlong(fetches \ {f}, {Call("list", NoKey)})
    <3>1. v.how = view.how
      BY <1>2, <1>5 DEF AfterSave, FormFields
    <3>2. /\ view' = Listing(v)
          /\ RequestAlong(fetches \ {f}, {Reread})
      BY <1>5 DEF FormAnswer
    <3> HIDE DEF v
    <3> QED
      BY <3>1, <3>2 DEF Listing, Reread
  <2>2. v = view \/ v = [view EXCEPT !.asked = "nothing"]
    BY <1>5 DEF AfterSave
  <2> HIDE DEF v
  <2>3. /\ DOMAIN v = DOMAIN view /\ FormFieldsTyped(v) /\ v.busy = view.busy
        /\ v.editing = view.editing /\ v.sends = view.sends /\ v.errors = view.errors
    BY <1>2, <2>2 DEF FormFieldsTyped, FormFields
  <2>4. /\ DOMAIN view' = DOMAIN view /\ FormFieldsTyped(view') /\ view'.busy = view.busy
        /\ view'.editing = view.editing /\ view'.sends = view.sends
        /\ view'.errors = view.errors
    BY <1>2, <2>1, <2>3 DEF FormFieldsTyped, FormFields
  <2> QED
    BY <1>1, <2>1, <2>4, FormAsksTyped
<1> QED
  BY <1>3, <1>4, <1>5 DEF FormAnswer

LEMMA FormFailedTyped ==
  ASSUME TypesInv, view.kind = "form", NEW f \in fetches,
         fetches' = fetches \ {f}, page' = page, Becomes(FormFailed(f))
  PROVE  TypesInv'
<1> DEFINE w == FormFailed(f)
<1>1. /\ FormFieldsTyped(view) /\ FormFields \subseteq DOMAIN view /\ "failures" \in DOMAIN view
      /\ ClientsCome
  BY FormTypes
<1>2. CASE f.op = "create" /\ view.how = "clients"
  <2> DEFINE more == IF view.sends > 0 THEN view.errors + 1 ELSE view.errors
  <2>1. w = [view EXCEPT !.busy = {}, !.errors = more]
    BY <1>1, <1>2 DEF FormFailed, FormFields
  <2>2. DOMAIN view' = DOMAIN w /\ \A x \in DOMAIN w : x # "failures" => view'[x] = w[x]
    BY DEF Becomes
  <2>3. more \in Nat /\ more <= view.sends
    BY <1>1, <1>2 DEF ClientsCome, FormFieldsTyped
  <2> HIDE DEF w, more
  <2>4. /\ DOMAIN w = DOMAIN view /\ w.busy = {} /\ w.errors = more
        /\ \A x \in DOMAIN view : x \notin {"busy", "errors"} => w[x] = view[x]
    BY <1>1, <2>1 DEF FormFields
  <2>5. /\ view'.kind = view.kind /\ view'.how = view.how /\ view'.editing = view.editing
        /\ view'.about = view.about /\ view'.asked = view.asked /\ view'.loading = view.loading
        /\ view'.listed = view.listed /\ view'.failed = view.failed /\ view'.open = view.open
        /\ view'.filled = view.filled /\ view'.sends = view.sends
        /\ view'.busy = {} /\ view'.errors = more /\ DOMAIN view' = DOMAIN view
    BY <1>1, <2>2, <2>4 DEF FormFields
  <2>6. view'.failures \in 0..MaxFailures
    BY DEF Becomes
  <2>7. FormFieldsTyped(view')
    BY <1>1, <2>3, <2>5, <2>6 DEF FormFieldsTyped
  <2>8. \A g \in fetches' : g.op # "create"
    BY <1>1, <1>2 DEF ClientsCome
  <2>9. ClientsCome'
    BY <1>1, <1>2, <2>3, <2>5, <2>8 DEF ClientsCome
  <2> QED
    BY <2>5, <2>7, <2>9, FormStepTyped
<1>3. CASE ~(f.op = "create" /\ view.how = "clients")
  <2>1. w = view \/ w = [view EXCEPT !.loading = FALSE, !.failed = TRUE]
    BY <1>3 DEF FormFailed
  <2>2. DOMAIN view' = DOMAIN w /\ \A x \in DOMAIN w : x # "failures" => view'[x] = w[x]
    BY DEF Becomes
  <2> HIDE DEF w
  <2>3. /\ DOMAIN w = DOMAIN view /\ FormFieldsTyped(w) /\ w.busy = view.busy
        /\ w.editing = view.editing /\ w.sends = view.sends /\ w.errors = view.errors
    BY <1>1, <2>1 DEF FormFieldsTyped, FormFields
  <2>4. /\ DOMAIN view' = DOMAIN view /\ FormFieldsTyped(view') /\ view'.busy = view.busy
        /\ view'.editing = view.editing /\ view'.sends = view.sends
        /\ view'.errors = view.errors
    BY <1>1, <2>2, <2>3 DEF FormFieldsTyped, FormFields, Becomes
  <2>5. ClientsCome'
    BY <1>1, <2>4, ClientsKept DEF FormFieldsTyped
  <2> QED
    BY <2>4, <2>5, FormStepTyped
<1> QED
  BY <1>2, <1>3

-----------------------------------------------------------------------------
(* The sections.                                                            *)
PartTyped(v) ==
  /\ v.how = "phone" => /\ v.has \in BOOLEAN /\ v.known \in BOOLEAN /\ v.numbers \in BOOLEAN
                        /\ v.busy \subseteq {"search", "buy"}
  /\ v.how = "crm" => /\ <<v.crmType, v.apiKey>> \in Connections /\ v.proved \in Connections
                      /\ v.busy \subseteq {"test", "connect"}
  /\ v.how = "registration" => {v.status, v.stored} \subseteq RegistrationStatuses
  /\ v.how = "billing" => /\ v.known \in BillingStatuses \cup {"unknown"}
                          /\ v.status \in BillingStatuses

Tests == {"test", "connect"}

LEMMA SectionStepTyped ==
  ASSUME TypesInv, view.kind = "section", page' = page, DOMAIN view' = DOMAIN view,
         view'.kind = view.kind, view'.how = view.how, view'.failures \in 0..MaxFailures,
         PartTyped(view'),
         \A g \in fetches' :
           g \in fetches \/ (g.at \in FetchAt /\ (g.op \in Tests => g.tag \in Connections))
  PROVE  TypesInv'
<1>1. /\ ScreenTyped /\ SectionFields \subseteq DOMAIN view
      /\ \A f \in fetches : f.op \in Tests => f.tag \in Connections
  BY DEF TypesInv, SectionTyped, Tests
<1>2. ScreenTyped'
  BY <1>1 DEF ScreenTyped
<1>3. SectionTypeOK' /\ (At("billing")' => view'.status \in BillingStatuses)
  BY DEF SectionTypeOK, PartTyped, At
<1>4. SectionFields' = SectionFields
  BY DEF SectionFields
<1>5. SectionTyped'
  BY <1>1, <1>3, <1>4 DEF SectionTyped, Tests
<1> QED
  BY <1>2, <1>5, TypesOf

LEMMA SectionTypes ==
  ASSUME TypesInv, view.kind = "section"
  PROVE  /\ PartTyped(view) /\ SectionFields \subseteq DOMAIN view
         /\ "failures" \in DOMAIN view /\ "kind" \in DOMAIN view /\ "how" \in DOMAIN view
         /\ view.failures \in 0..MaxFailures
         /\ \A f \in fetches : f.at \in FetchAt /\ (f.op \in Tests => f.tag \in Connections)
BY DEF TypesInv, ScreenTyped, SectionTyped, SectionTypeOK, SectionFields, PartTyped, At, Tests

LEMMA PartFields ==
  ASSUME TypesInv, view.kind = "section"
  PROVE  /\ view.how = "phone" => {"has", "known", "numbers", "busy"} \subseteq DOMAIN view
         /\ view.how = "crm" => {"crmType", "apiKey", "proved", "busy"} \subseteq DOMAIN view
         /\ view.how = "registration" => {"status", "stored", "busy"} \subseteq DOMAIN view
         /\ view.how = "billing" => {"known", "status", "busy"} \subseteq DOMAIN view
BY SectionTypes DEF SectionFields

(* A button is pressed: v is the screen but for the flag it holds.          *)
LEMMA PressTyped ==
  ASSUME TypesInv, view.kind = "section", page' = page, NEW op, NEW tag, NEW v,
         Press(op, tag, v), DOMAIN v = DOMAIN view, v.kind = view.kind, v.how = view.how,
         v.failures = view.failures, PartTyped(v), op \in Tests => tag \in Connections,
         v.how = "phone" => op \in {"search", "buy"},
         v.how = "crm" => op \in {"test", "connect"}
  PROVE  TypesInv'
<1>1. view' = [v EXCEPT !.busy = @ \cup {op}] /\ RequestRaw(op, tag)
  BY DEF Press
<1>2. PICK g : fetches' = fetches \cup {g} /\ g.op = op /\ g.tag = tag /\ g.at = "sent"
  BY <1>1, RawFacts
<1>3. /\ DOMAIN view' = DOMAIN view
      /\ \A x \in DOMAIN view : x # "busy" => view'[x] = v[x]
      /\ "busy" \in DOMAIN view => view'.busy = v.busy \cup {op}
  BY <1>1
<1>4. view'.kind = view.kind /\ view'.how = view.how /\ view'.failures = view.failures
  BY <1>3, SectionTypes
<1>5. PartTyped(view')
  <2>1. CASE view.how = "phone"
    BY <1>3, <1>4, <2>1, PartFields DEF PartTyped
  <2>2. CASE view.how = "crm"
    BY <1>3, <1>4, <2>2, PartFields DEF PartTyped
  <2>3. CASE view.how = "registration"
    BY <1>3, <1>4, <2>3, PartFields DEF PartTyped
  <2>4. CASE view.how = "billing"
    BY <1>3, <1>4, <2>4, PartFields DEF PartTyped
  <2> QED
    BY <1>4, <2>1, <2>2, <2>3, <2>4 DEF PartTyped
<1> QED
  BY <1>2, <1>3, <1>4, <1>5, SectionTypes, SectionStepTyped DEF FetchAt

LEMMA UntestedTyped ==
  ASSUME TypesInv, view.kind = "section", view.how = "crm"
  PROVE  LET v == Untested(view)
         IN /\ DOMAIN v = DOMAIN view /\ v.kind = view.kind /\ v.how = view.how
            /\ v.failures = view.failures /\ v.busy = view.busy /\ v.proved = Unproved
            /\ v.crmType = view.crmType /\ v.apiKey = view.apiKey
            /\ Unproved \in Connections
<1>1. Unproved \in Connections
  BY DEF Unproved, Connections, CRMs
<1> QED
  BY <1>1, SectionTypes, PartFields DEF Untested

LEMMA PressesTyped ==
  ASSUME TypesInv, page' = page,
         \/ SearchNumbers \/ BuyNumber \/ TestCRM \/ ConnectCRM \/ SubmitBusiness
         \/ Subscribe \/ OpenPortal
  PROVE  TypesInv'
<1>1. view.kind = "section"
  BY DEF SearchNumbers, BuyNumber, TestCRM, ConnectCRM, SubmitBusiness, Subscribe, OpenPortal,
         HasKey, NeedsInfo, At
<1> USE SectionTypes, PartFields
<1>2. CASE SearchNumbers
  <2> DEFINE v == [view EXCEPT !.numbers = FALSE]
  <2>1. Press("search", NoKey, v) /\ view.how = "phone"
    BY <1>2 DEF SearchNumbers, At
  <2>2. /\ DOMAIN v = DOMAIN view /\ v.kind = view.kind /\ v.how = view.how
        /\ v.failures = view.failures /\ PartTyped(v)
    BY <1>1, <2>1 DEF PartTyped
  <2> HIDE DEF v
  <2> QED
    BY <1>1, <2>1, <2>2, PressTyped DEF Tests
<1>3. CASE BuyNumber \/ SubmitBusiness
  <2> DEFINE v == [view EXCEPT !.sends = @ + 1]
  <2>1. \/ Press("buy", NoKey, v) /\ view.how = "phone"
        \/ Press("submit", NoKey, v) /\ view.how = "registration"
    BY <1>3 DEF BuyNumber, SubmitBusiness, NeedsInfo, At, Counted
  <2>2. /\ DOMAIN v = DOMAIN view /\ v.kind = view.kind /\ v.how = view.how
        /\ v.failures = view.failures /\ PartTyped(v)
    BY <1>1, <2>1 DEF PartTyped
  <2> HIDE DEF v
  <2> QED
    BY <1>1, <2>1, <2>2, PressTyped DEF Tests
<1>4. CASE TestCRM
  <2> DEFINE u == Untested(view)
             v == [u EXCEPT !.excused = view.busy # {}]
  <2>1. Press("test", <<view.crmType, view.apiKey>>, v) /\ view.how = "crm"
    BY <1>4 DEF TestCRM, HasKey, At
  <2>2. /\ DOMAIN u = DOMAIN view /\ u.kind = view.kind /\ u.how = view.how
        /\ u.failures = view.failures /\ u.busy = view.busy /\ u.proved = Unproved
        /\ u.crmType = view.crmType /\ u.apiKey = view.apiKey /\ Unproved \in Connections
    BY <1>1, <2>1, UntestedTyped
  <2> HIDE DEF u
  <2>3. /\ DOMAIN v = DOMAIN view /\ v.kind = view.kind /\ v.how = view.how
        /\ v.failures = view.failures /\ PartTyped(v)
    BY <1>1, <2>1, <2>2 DEF PartTyped
  <2> HIDE DEF v
  <2> QED
    BY <1>1, <2>1, <2>3, PressTyped DEF PartTyped
<1>5. CASE ConnectCRM
  <2>1. Press("connect", <<view.crmType, view.apiKey>>, view) /\ view.how = "crm"
    BY <1>5 DEF ConnectCRM, HasKey, At
  <2> QED
    BY <1>1, <2>1, PressTyped DEF PartTyped
<1>6. CASE Subscribe
  <2>1. Press("checkout", NoKey, view) /\ view.how = "billing"
    BY <1>6 DEF Subscribe, At
  <2> QED
    BY <1>1, <2>1, PressTyped DEF Tests
<1>7. CASE OpenPortal
  <2> DEFINE v == [view EXCEPT !.busy = {}]
  <2>1. Press("portal", NoKey, v) /\ view.how = "billing"
    BY <1>7 DEF OpenPortal, At
  <2>2. /\ DOMAIN v = DOMAIN view /\ v.kind = view.kind /\ v.how = view.how
        /\ v.failures = view.failures /\ PartTyped(v)
    BY <1>1, <2>1 DEF PartTyped
  <2> HIDE DEF v
  <2> QED
    BY <1>1, <2>1, <2>2, PressTyped DEF Tests
<1> QED
  BY <1>2, <1>3, <1>4, <1>5, <1>6, <1>7

LEMMA ChoicesTyped ==
  ASSUME TypesInv, page' = page,
         (\E type \in CRMs : ChooseCRM(type)) \/ (\E k \in Keys : TypeKey(k)) \/ ChooseBusiness
  PROVE  TypesInv'
<1>1. view.kind = "section" /\ fetches' = fetches
  BY DEF ChooseCRM, TypeKey, ChooseBusiness, NeedsInfo, At
<1> USE SectionTypes, PartFields
<1>2. ASSUME NEW type \in CRMs, ChooseCRM(type)  PROVE TypesInv'
  <2> DEFINE u == Untested(view)
  <2>1. /\ view' = [u EXCEPT !.crmType = type, !.excused = view.busy # {}]
        /\ view.how = "crm"
    BY <1>2 DEF ChooseCRM, At
  <2>2. /\ DOMAIN u = DOMAIN view /\ u.kind = view.kind /\ u.how = view.how
        /\ u.failures = view.failures /\ u.busy = view.busy /\ u.proved = Unproved
        /\ u.crmType = view.crmType /\ u.apiKey = view.apiKey /\ Unproved \in Connections
    BY <1>1, <2>1, UntestedTyped
  <2> HIDE DEF u
  <2>3. <<type, view.apiKey>> \in Connections
    BY <1>1, <2>1 DEF PartTyped, Connections
  <2>4. /\ DOMAIN view' = DOMAIN view /\ view'.kind = view.kind /\ view'.how = view.how
        /\ view'.failures = view.failures /\ view'.crmType = type
        /\ view'.apiKey = view.apiKey /\ view'.busy = view.busy /\ view'.proved = Unproved
    BY <1>1, <2>1, <2>2
  <2>5. PartTyped(view')
    BY <1>1, <2>1, <2>2, <2>3, <2>4 DEF PartTyped
  <2> QED
    BY <1>1, <2>4, <2>5, SectionStepTyped
<1>3. ASSUME NEW k \in Keys, TypeKey(k)  PROVE TypesInv'
  <2>1. view' = [view EXCEPT !.apiKey = k, !.excused = TRUE] /\ view.how = "crm"
    BY <1>3 DEF TypeKey, At
  <2>2. <<view.crmType, k>> \in Connections
    BY <1>1, <2>1 DEF PartTyped, Connections
  <2>3. /\ DOMAIN view' = DOMAIN view /\ view'.kind = view.kind /\ view'.how = view.how
        /\ view'.failures = view.failures /\ view'.crmType = view.crmType
        /\ view'.apiKey = k /\ view'.busy = view.busy /\ view'.proved = view.proved
    BY <1>1, <2>1
  <2>4. PartTyped(view')
    BY <1>1, <2>1, <2>2, <2>3 DEF PartTyped
  <2> QED
    BY <1>1, <2>3, <2>4, SectionStepTyped
<1>4. CASE ChooseBusiness
  <2>1. view' = [view EXCEPT !.chosen = TRUE] /\ view.how = "registration"
    BY <1>4 DEF ChooseBusiness, NeedsInfo, At
  <2>2. /\ DOMAIN view' = DOMAIN view /\ view'.kind = view.kind /\ view'.how = view.how
        /\ view'.failures = view.failures /\ PartTyped(view')
    BY <1>1, <2>1 DEF PartTyped
  <2> QED
    BY <1>1, <2>2, SectionStepTyped
<1> QED
  BY <1>2, <1>3, <1>4

LEMMA UserSectionTyped ==
  ASSUME TypesInv, UserSectionStep, page' = page
  PROVE  TypesInv'
BY PressesTyped, ChoicesTyped DEF UserSectionStep

LEMMA ServeSectionTyped ==
  ASSUME TypesInv, ComponentOK, NEW f \in fetches, ServeSection(f), page' = page
  PROVE  TypesInv'
<1> DEFINE kept == [f EXCEPT !.at = "answered"]
<1>1. view.kind = "section" /\ fetches' = (fetches \ {f}) \cup {kept}
  BY DEF ServeSection
<1>2. kept.at = "answered" /\ kept.op = f.op /\ kept.tag = f.tag
  BY DEF ComponentOK, IsCall
<1> HIDE DEF kept
<1>3. /\ DOMAIN view' = DOMAIN view /\ view'.kind = view.kind /\ view'.how = view.how
      /\ view'.failures = view.failures /\ PartTyped(view')
  <2>1. CASE view.how = "phone" /\ view' = [view EXCEPT !.has = TRUE]
    BY <1>1, <2>1, SectionTypes, PartFields DEF PartTyped
  <2>2. CASE /\ view.how = "registration"
             /\ \E status \in RegistrationStatuses : view' = [view EXCEPT !.stored = status]
    BY <1>1, <2>2, SectionTypes, PartFields DEF PartTyped
  <2> QED
    BY <2>1, <2>2 DEF ServeSection, At
<1>4. \A g \in fetches' :
        g \in fetches \/ (g.at \in FetchAt /\ (g.op \in Tests => g.tag \in Connections))
  BY <1>1, <1>2, SectionTypes DEF FetchAt
<1> QED
  BY <1>1, <1>3, <1>4, SectionTypes, SectionStepTyped

(* An answer, or a failure, makes v of the screen.                          *)
Turns(v) ==
  /\ DOMAIN v = DOMAIN view /\ v.kind = view.kind /\ v.how = view.how
  /\ v.failures = view.failures /\ PartTyped(v)

LEMMA SectionAnswerTyped ==
  ASSUME TypesInv, SectionTrue, NEW f \in fetches, SectionAnswer(f), page' = page
  PROVE  TypesInv'
<1>1. view.kind = "section" /\ fetches' = fetches \ {f}
  BY DEF SectionAnswer, Answered
<1> USE SectionTypes, PartFields
<1>2. /\ f.op \in {"search", "buy"} => view.how = "phone"
      /\ f.op \in {"test", "connect"} => view.how = "crm"
      /\ f.op = "submit" => view.how = "registration"
      /\ f.op \in {"billing", "checkout", "portal"} =>
           view.how \notin {"phone", "crm", "registration"}
  BY <1>1, SectionCallsOf DEF At
<1>3. CASE f.op = "search" /\ view' = [view EXCEPT !.numbers = TRUE, !.busy = @ \ {"search"}]
  <2>1. Turns(view')
    BY <1>1, <1>2, <1>3 DEF PartTyped, Turns
  <2> QED
    BY <1>1, <2>1, SectionStepTyped DEF Turns
<1>4. CASE f.op = "buy" /\ view' = [view EXCEPT !.known = TRUE, !.busy = @ \ {"buy"}]
  <2>1. Turns(view')
    BY <1>1, <1>2, <1>4 DEF PartTyped, Turns
  <2> QED
    BY <1>1, <2>1, SectionStepTyped DEF Turns
<1>5. CASE /\ f.op \in {"test", "connect"}
           /\ view' = [Tested(f) EXCEPT !.busy = @ \ {f.op}]
  <2> DEFINE v == Tested(f)
  <2>1. /\ DOMAIN v = DOMAIN view /\ v.kind = view.kind /\ v.how = view.how
        /\ v.failures = view.failures /\ v.busy = view.busy /\ v.proved = f.tag
        /\ v.crmType = view.crmType /\ v.apiKey = view.apiKey
    BY <1>1, <1>2, <1>5 DEF Tested
  <2> HIDE DEF v
  <2>2. /\ DOMAIN view' = DOMAIN view /\ view'.kind = view.kind /\ view'.how = view.how
        /\ view'.failures = view.failures /\ view'.busy = view.busy \ {f.op}
        /\ view'.proved = f.tag /\ view'.crmType = view.crmType /\ view'.apiKey = view.apiKey
    BY <1>1, <1>2, <1>5, <2>1 DEF v
  <2>3. PartTyped(view')
    BY <1>1, <1>2, <1>5, <2>2 DEF PartTyped, Tests
  <2> QED
    BY <1>1, <2>2, <2>3, SectionStepTyped
<1>6. CASE f.op = "test" /\ view' = [Untested(view) EXCEPT !.busy = @ \ {"test"}]
  <2> DEFINE v == Untested(view)
  <2>1. /\ DOMAIN v = DOMAIN view /\ v.kind = view.kind /\ v.how = view.how
        /\ v.failures = view.failures /\ v.busy = view.busy /\ v.proved = Unproved
        /\ v.crmType = view.crmType /\ v.apiKey = view.apiKey /\ Unproved \in Connections
    BY <1>1, <1>2, <1>6, UntestedTyped
  <2> HIDE DEF v
  <2>2. /\ DOMAIN view' = DOMAIN view /\ view'.kind = view.kind /\ view'.how = view.how
        /\ view'.failures = view.failures /\ view'.busy = view.busy \ {"test"}
        /\ view'.proved = Unproved /\ view'.crmType = view.crmType
        /\ view'.apiKey = view.apiKey
    BY <1>1, <1>2, <1>6, <2>1 DEF v
  <2>3. PartTyped(view')
    BY <1>1, <1>2, <1>6, <2>1, <2>2 DEF PartTyped
  <2> QED
    BY <1>1, <2>2, <2>3, SectionStepTyped
<1>7. CASE f.op \in {"buy", "submit"} /\ view' = [view EXCEPT !.busy = @ \ {f.op}, !.errors = @ + 1]
  <2>1. Turns(view')
    BY <1>1, <1>2, <1>7 DEF PartTyped, Turns
  <2> QED
    BY <1>1, <2>1, SectionStepTyped DEF Turns
<1>8. CASE /\ f.op = "submit"
           /\ view' = [view EXCEPT !.status = view.stored, !.typed = TRUE,
                                   !.submitted = TRUE, !.busy = {}]
  <2>1. Turns(view')
    BY <1>1, <1>2, <1>8 DEF PartTyped, Turns
  <2> QED
    BY <1>1, <2>1, SectionStepTyped DEF Turns
<1>9. CASE f.op = "billing" /\ view' = [view EXCEPT !.known = view.status, !.loading = FALSE]
  <2>1. Turns(view')
    BY <1>1, <1>2, <1>9 DEF PartTyped, Turns
  <2> QED
    BY <1>1, <2>1, SectionStepTyped DEF Turns
<1>10. CASE f.op \in {"checkout", "portal"} /\ view' = [view EXCEPT !.leaving = TRUE, !.busy = {}]
  <2>1. Turns(view')
    BY <1>1, <1>2, <1>10 DEF PartTyped, Turns
  <2> QED
    BY <1>1, <2>1, SectionStepTyped DEF Turns
<1>11. \/ f.op = "search" /\ view' = [view EXCEPT !.numbers = TRUE, !.busy = @ \ {"search"}]
       \/ f.op = "buy" /\ view' = [view EXCEPT !.known = TRUE, !.busy = @ \ {"buy"}]
       \/ /\ f.op \in {"test", "connect"}
          /\ view' = [Tested(f) EXCEPT !.busy = @ \ {f.op}]
       \/ f.op = "test" /\ view' = [Untested(view) EXCEPT !.busy = @ \ {"test"}]
       \/ f.op \in {"buy", "submit"} /\ view' = [view EXCEPT !.busy = @ \ {f.op}, !.errors = @ + 1]
       \/ /\ f.op = "submit"
          /\ view' = [view EXCEPT !.status = view.stored, !.typed = TRUE,
                                  !.submitted = TRUE, !.busy = {}]
       \/ f.op = "billing" /\ view' = [view EXCEPT !.known = view.status, !.loading = FALSE]
       \/ f.op \in {"checkout", "portal"} /\ view' = [view EXCEPT !.leaving = TRUE, !.busy = {}]
  BY DEF SectionAnswer
<1> QED
  BY <1>3, <1>4, <1>5, <1>6, <1>7, <1>8, <1>9, <1>10, <1>11

LEMMA SectionFailedTyped ==
  ASSUME TypesInv, SectionTrue, view.kind = "section", NEW f \in fetches,
         fetches' = fetches \ {f}, page' = page, Becomes(SectionFailed(f))
  PROVE  TypesInv'
<1> DEFINE w == SectionFailed(f)
<1> USE SectionTypes, PartFields
<1>1. /\ f.op \in {"search", "buy"} => view.how = "phone"
      /\ f.op \in {"test", "connect"} => view.how = "crm"
      /\ f.op = "submit" => view.how = "registration"
      /\ f.op \in {"billing", "checkout", "portal"} =>
           view.how \notin {"phone", "crm", "registration"}
  BY SectionCallsOf DEF At
<1>2. Turns(w)
  <2>1. CASE f.op \in {"connect", "test"}
    <3> DEFINE v == Untested(view)
    <3>1. w = [v EXCEPT !.busy = @ \ {f.op}]
      BY <2>1 DEF SectionFailed
    <3>2. /\ DOMAIN v = DOMAIN view /\ v.kind = view.kind /\ v.how = view.how
          /\ v.failures = view.failures /\ v.busy = view.busy /\ v.proved = Unproved
          /\ v.crmType = view.crmType /\ v.apiKey = view.apiKey /\ Unproved \in Connections
      BY <1>1, <2>1, UntestedTyped
    <3> HIDE DEF w, v
    <3>3. /\ DOMAIN w = DOMAIN view /\ w.kind = view.kind /\ w.how = view.how
          /\ w.failures = view.failures /\ w.busy = view.busy \ {f.op}
          /\ w.proved = Unproved /\ w.crmType = view.crmType /\ w.apiKey = view.apiKey
      BY <1>1, <2>1, <3>1, <3>2
    <3> QED
      BY <1>1, <2>1, <3>2, <3>3 DEF PartTyped, Turns
  <2>2. CASE f.op = "search"
    <3>1. w = [view EXCEPT !.busy = @ \ {"search"}]
      BY <2>2 DEF SectionFailed
    <3> HIDE DEF w
    <3> QED
      BY <1>1, <2>2, <3>1 DEF PartTyped, Turns
  <2>3. CASE f.op \in {"buy", "submit"}
    <3>1. w = [view EXCEPT !.busy = @ \ {f.op}, !.errors = @ + 1]
      BY <2>3 DEF SectionFailed
    <3> HIDE DEF w
    <3> QED
      BY <1>1, <2>3, <3>1 DEF PartTyped, Turns
  <2>4. CASE f.op = "billing"
    <3>1. w = [view EXCEPT !.loading = FALSE]
      BY <2>4 DEF SectionFailed
    <3> HIDE DEF w
    <3> QED
      BY <1>1, <2>4, <3>1 DEF PartTyped, Turns
  <2>5. CASE f.op \in {"checkout", "portal"}
    <3>1. w = [view EXCEPT !.busy = {}]
      BY <2>5 DEF SectionFailed
    <3> HIDE DEF w
    <3> QED
      BY <1>1, <2>5, <3>1 DEF PartTyped, Turns
  <2>6. CASE f.op \notin {"connect", "test", "search", "buy", "submit", "billing", "checkout",
                          "portal"}
    <3>1. w = view
      BY <2>6 DEF SectionFailed
    <3> HIDE DEF w
    <3> QED
      BY <3>1 DEF PartTyped, Turns
  <2> QED
    BY <2>1, <2>2, <2>3, <2>4, <2>5, <2>6
<1> HIDE DEF w
<1>3. /\ DOMAIN view' = DOMAIN w /\ view'.failures \in 0..MaxFailures
      /\ \A x \in DOMAIN w : x # "failures" => view'[x] = w[x]
  BY DEF Becomes, w
<1>4. view'.kind = view.kind /\ view'.how = view.how /\ DOMAIN view' = DOMAIN view
  BY <1>2, <1>3 DEF Turns
<1>5. PartTyped(view')
  <2>1. CASE view.how = "phone"
    BY <1>2, <1>3, <1>4, <2>1 DEF PartTyped, Turns
  <2>2. CASE view.how = "crm"
    BY <1>2, <1>3, <1>4, <2>2 DEF PartTyped, Turns
  <2>3. CASE view.how = "registration"
    BY <1>2, <1>3, <1>4, <2>3 DEF PartTyped, Turns
  <2>4. CASE view.how = "billing"
    BY <1>2, <1>3, <1>4, <2>4 DEF PartTyped, Turns
  <2> QED
    BY <1>4, <2>1, <2>2, <2>3, <2>4 DEF PartTyped
<1> QED
  BY <1>3, <1>4, <1>5, SectionStepTyped

-----------------------------------------------------------------------------
(* The shared refresh ends.                                                 *)
LEMMA RefreshTyped ==
  ASSUME TypesInv, ComponentOK, NEW granted, RefreshEnds(granted), view' = view, page' = page
  PROVE  TypesInv'
<1> DEFINE at == IF granted \/ Accepted THEN "sent" ELSE "unauthorized"
           sent == {[f EXCEPT !.at = at] : f \in {g \in fetches : g.at = "refreshing"}}
<1>1. fetches' = {f \in fetches : f.at # "refreshing"}
                   \cup {f \in sent : f.op # "gone" \/ at = "unauthorized"}
  BY DEF RefreshEnds
<1>2. \A g \in fetches' : g \in fetches \/ g.at = at
  BY <1>1 DEF ComponentOK, IsCall
<1>3. at \in FetchAt
  BY DEF FetchAt
<1> HIDE DEF at, sent
<1>4. ScreenTyped'
  BY <1>2, <1>3 DEF TypesInv, ScreenTyped
<1>5. \A g \in fetches' : \E f \in fetches : g.op = f.op /\ g.tag = f.tag
  BY RefreshMoves
<1>6. \A g, h \in fetches' : \E e, f \in fetches :
        g.op = e.op /\ g.tag = e.tag /\ h.op = f.op /\ h.tag = f.tag /\ (e = f => g = h)
  BY RefreshMoves
<1>7. ViewTyped'
  BY <1>5 DEF TypesInv, ViewTyped, ViewTypeOK, Flagged, IsView
<1>8. PaneTyped' /\ DocTyped'
  <2>1. RepliesCome => RepliesCome'
    BY <1>5, <1>6 DEF RepliesCome
  <2> QED
    BY <1>5, <2>1 DEF TypesInv, PaneTyped, PaneTypeOK, DocTyped
<1>9. FormTyped' /\ SectionTyped'
  <2>1. ClientsCome => ClientsCome'
    BY <1>5, <1>6 DEF ClientsCome
  <2> QED
    BY <1>5, <2>1 DEF TypesInv, FormTyped, FormTypeOK, SectionTyped, SectionTypeOK, SectionFields,
                      At
<1> QED
  BY <1>4, <1>7, <1>8, <1>9 DEF TypesInv

-----------------------------------------------------------------------------
(* A component is mounted.                                                  *)
LEMMA MountTyped ==
  ASSUME TypesInv, SessionSafe, ComponentOK, view = Nothing, page' = page,
         "failures" \in DOMAIN view', view'.failures = 0, NEW cs,
         \A c \in cs : IsCall(c) /\ c.at = "refreshing", Request(cs)
  PROVE  /\ ScreenTyped'
         /\ \A g \in fetches' : \/ g \in fetches /\ g.op \in Outliving
                                \/ \E c \in cs : g.op = c.op /\ g.tag = c.tag
<1>1. \A g \in fetches' : g \in fetches \/
        /\ g.at \in FetchAt
        /\ \E c \in cs : g.op = c.op /\ g.tag = c.tag
  BY AskTyped DEF Request
<1>2. ScreenTyped'
  BY <1>1, KeysAssumption DEF TypesInv, ScreenTyped
<1> QED
  BY <1>1, <1>2, NothingCalls

LEMMA FlaggedViews ==
  ASSUME NEW p, NEW how \in ViewsOf(p)
  PROVE  Flagged(how)
<1> USE DEF Flagged, Plain
<1>1. Flagged(Dashboard) /\ Flagged(LeadFeed) /\ Flagged(Bookings)
  BY DEF Dashboard, LeadFeed, Bookings
<1>2. Flagged(Reports) /\ Flagged(ROI) /\ Flagged(Compliance) /\ Flagged(MetricDetails)
  BY DEF Reports, ROI, Compliance, MetricDetails
<1>3. Flagged(AdminCommandCenter) /\ Flagged(AdminOverview) /\ Flagged(AdminLeads)
        /\ Flagged(AdminRevenue) /\ Flagged(AdminInsights) /\ Flagged(AdminAnalytics)
  BY DEF AdminCommandCenter, AdminOverview, AdminLeads, AdminRevenue, AdminInsights,
         AdminAnalytics
<1>4. \A h \in AgentViews : Flagged(h)
  BY DEF AgentViews, AgentFleet, SystemMap, TaskQueueMonitor, CostDashboard, ActivityTimeline,
         AgentDetailPanel
<1>5. Flagged(AdminClientDetail) /\ Flagged(CampaignProspects)
        /\ Flagged(CampaignAnalytics) /\ Flagged(WorkerStatus)
  BY DEF AdminClientDetail, CampaignProspects, CampaignAnalytics, WorkerStatus
<1> HIDE DEF Flagged
<1> QED
  BY <1>1, <1>2, <1>3, <1>4, <1>5 DEF ViewsOf

LEMMA MountViewTyped ==
  ASSUME TypesInv, SessionSafe, ComponentOK, view = Nothing, page' = page,
         NEW how \in ViewsOf(page), MountView(how)
  PROVE  TypesInv'
<1> DEFINE cs == Gets({View(how).key} \ {NoKey})
<1>1. view' = View(how) /\ Request(cs)
  BY DEF MountView
<1>2. Flagged(how)
  BY FlaggedViews
<1>3. /\ view'.kind = "view" /\ view'.how = how /\ view'.shown = NoKey
      /\ view'.failed = FALSE /\ view'.loading \in BOOLEAN
      /\ view'.key = (IF how.opens THEN NoKey ELSE FirstKey)
      /\ "failures" \in DOMAIN view' /\ view'.failures = 0
  BY <1>1, <1>2 DEF View, Flagged
<1>4. view'.key \in Keys \cup {NoKey} /\ (view'.key = NoKey => how.opens)
  BY <1>3, KeysAssumption
<1>5. \A c \in cs : IsCall(c) /\ c.at = "refreshing" /\ c.op = "get" /\ c.tag \in Keys
  <2>1. \A c \in cs : IsCall(c) /\ c.at = "refreshing" /\ c.op = "get"
                        /\ c.tag \in {View(how).key} \ {NoKey}
    BY CallFacts DEF Gets
  <2> HIDE DEF cs
  <2> QED
    BY <1>1, <1>4, <2>1
<1> HIDE DEF cs
<1>6. /\ ScreenTyped'
      /\ \A g \in fetches' : \/ g.op \in Outliving
                             \/ \E c \in cs : g.op = c.op /\ g.tag = c.tag
  BY <1>1, <1>3, <1>5, MountTyped
<1>7. \A g \in fetches' : g.op = "get" => g.tag \in Keys
  BY <1>5, <1>6 DEF Outliving
<1>8. ViewTyped'
  BY <1>2, <1>3, <1>4, <1>7 DEF ViewTyped, ViewTypeOK
<1> QED
  BY <1>3, <1>6, <1>8, TypesOf

LEMMA MountPaneTyped ==
  ASSUME TypesInv, SessionSafe, ComponentOK, view = Nothing, page' = page,
         NEW how \in PanesOf(page), MountPane(how)
  PROVE  TypesInv'
<1>1. PICK k \in Keys \cup {NoKey} :
        view' = Pane(how, k) /\ Request({List} \cup Threads({k} \ {NoKey}))
  BY DEF MountPane
<1> DEFINE cs == {List} \cup Threads({k} \ {NoKey})
<1>2. how \in Panes
  BY DEF PanesOf, Panes
<1>3. \A c \in cs : IsCall(c) /\ c.at = "refreshing" /\ c.op \in {"list", "thread"}
                      /\ (c.op = "thread" => c.tag \in Keys)
  BY ThreadsFacts
<1>4. Request(cs)
  BY <1>1
<1> HIDE DEF cs
<1>5. /\ PaneFields \subseteq DOMAIN view' /\ view'.kind = "pane" /\ view'.how = how
      /\ view'.sel = k /\ view'.shown = NoKey /\ view'.header = NoKey /\ view'.busy = {}
      /\ {view'.listing, view'.listed, view'.failed, view'.loading, view'.crossed, view'.draft}
           \subseteq BOOLEAN
      /\ view'.sends = 0 /\ view'.errors = 0
      /\ "failures" \in DOMAIN view' /\ view'.failures = 0
  BY <1>1 DEF Pane, PaneFields
<1>6. /\ ScreenTyped'
      /\ \A g \in fetches' : \/ g.op \in Outliving
                             \/ \E c \in cs : g.op = c.op /\ g.tag = c.tag
  BY <1>3, <1>4, <1>5, MountTyped
<1>7. \A g \in fetches' : /\ g.op \in Outliving \cup {"list", "thread"}
                          /\ g.op = "thread" => g.tag \in Keys
  BY <1>3, <1>6 DEF Outliving
<1>8. PaneTypeOK' /\ RepliesCome'
  <2>1. PaneTypeOK'
    BY <1>2, <1>5, KeysAssumption DEF PaneTypeOK
  <2>2. \A g \in fetches' : g.op # "reply"
    BY <1>7 DEF Outliving
  <2>3. RepliesCome'
    BY <1>5, <2>2 DEF RepliesCome
  <2> QED
    BY <2>1, <2>3
<1>9. PaneTyped'
  BY <1>5, <1>7, <1>8 DEF PaneTyped, Outliving
<1> QED
  BY <1>5, <1>6, <1>9, TypesOf

LEMMA MountDocumentTyped ==
  ASSUME TypesInv, SessionSafe, ComponentOK, view = Nothing, page' = page,
         NEW how, MountDocument(how)
  PROVE  TypesInv'
<1>1. view' = Doc(how) /\ Request({LoadFor(how, "page")})
  BY DEF MountDocument
<1>2. /\ view'.kind = "document" /\ view'.dirty = {} /\ view'.busy = {}
      /\ {view'.loading, view'.loaded, view'.failed, view'.disturbed} \subseteq BOOLEAN
      /\ "failures" \in DOMAIN view' /\ view'.failures = 0
  BY <1>1 DEF Doc
<1>3. \A c \in {LoadFor(how, "page")} : IsCall(c) /\ c.at = "refreshing"
  BY CallFacts DEF LoadFor
<1>4. ScreenTyped'
  BY <1>1, <1>2, <1>3, MountTyped
<1>5. DocTyped'
  BY <1>2 DEF DocTyped
<1> QED
  BY <1>2, <1>4, <1>5, TypesOf

LEMMA MountFormTyped ==
  ASSUME TypesInv, SessionSafe, ComponentOK, view = Nothing, LateSavesOf({}),
         page' = page, NEW how \in FormsOf(page), MountForm(how)
  PROVE  TypesInv'
<1>1. view' = Form(how) /\ Request({Reread})
  BY DEF MountForm
<1>2. \A c \in {Reread} : IsCall(c) /\ c.at = "refreshing" /\ c.op = "list"
  BY CallFacts DEF Reread
<1>3. /\ FormFields \subseteq DOMAIN view' /\ view'.kind = "form" /\ view'.how = how
      /\ view'.busy = {} /\ view'.editing = NoKey /\ view'.about = NoKey
      /\ view'.asked = "nothing" /\ view'.sends = 0 /\ view'.errors = 0
      /\ {view'.loading, view'.listed, view'.failed, view'.open, view'.filled} \subseteq BOOLEAN
      /\ "failures" \in DOMAIN view' /\ view'.failures = 0
  BY <1>1 DEF Form, FormFields
<1>4. /\ ScreenTyped'
      /\ \A g \in fetches' : g.op \in {"gone", "list"}
  <2>1. /\ ScreenTyped'
        /\ \A g \in fetches' : \/ g \in fetches /\ g.op \in Outliving
                               \/ \E c \in {Reread} : g.op = c.op /\ g.tag = c.tag
    BY <1>1, <1>2, <1>3, MountTyped
  <2> QED
    BY <1>2, <2>1 DEF LateSavesOf, Outliving
<1>5. FormTypeOK'
  BY <1>3, KeysAssumption DEF FormTypeOK, FormsOf
<1>6. ClientsCome'
  BY <1>3, <1>4 DEF ClientsCome
<1>7. FormTyped'
  BY <1>3, <1>5, <1>6 DEF FormTyped
<1> QED
  BY <1>3, <1>4, <1>7, TypesOf

LEMMA MountSectionTyped ==
  ASSUME TypesInv, view = Nothing, fetches = {}, page' = page,
         NEW how, MountSection(how)
  PROVE  TypesInv'
<1>1. CASE /\ UNCHANGED fetches
           /\ \/ \E has \in BOOLEAN : view' = PhoneSection(has)
              \/ view' = CRMSection \/ view' = RegistrationSection
  <2>1. /\ view'.kind = "section" /\ SectionFields' \subseteq DOMAIN view'
        /\ "failures" \in DOMAIN view' /\ view'.failures = 0 /\ PartTyped(view')
    <3>1. CASE \E has \in BOOLEAN : view' = PhoneSection(has)
      BY <3>1 DEF PhoneSection, SectionFields, PartTyped
    <3>2. CASE view' = CRMSection
      BY <3>2 DEF CRMSection, SectionFields, PartTyped, Connections, CRMs, Unproved
    <3>3. CASE view' = RegistrationSection
      BY <3>3 DEF RegistrationSection, SectionFields, PartTyped, RegistrationStatuses
    <3> QED
      BY <1>1, <3>1, <3>2, <3>3
  <2>2. ScreenTyped'
    BY <1>1, <2>1, KeysAssumption DEF TypesInv, ScreenTyped
  <2>3. SectionTyped'
    BY <1>1, <2>1 DEF SectionTyped, SectionTypeOK, PartTyped, At
  <2> QED
    BY <2>1, <2>2, <2>3, TypesOf
<1>2. CASE /\ \E status \in BillingStatuses : view' = BillingSection(status)
           /\ RequestRaw("billing", NoKey)
  <2>1. /\ view'.kind = "section" /\ SectionFields' \subseteq DOMAIN view'
        /\ "failures" \in DOMAIN view' /\ view'.failures = 0 /\ PartTyped(view')
    BY <1>2 DEF BillingSection, SectionFields, PartTyped
  <2>2. PICK g : fetches' = {g} /\ g.op = "billing" /\ g.at = "sent"
    BY <1>2, RawFacts
  <2>3. ScreenTyped'
    BY <2>1, <2>2, KeysAssumption DEF TypesInv, ScreenTyped, FetchAt
  <2>4. SectionTyped'
    BY <2>1, <2>2 DEF SectionTyped, SectionTypeOK, PartTyped, At
  <2> QED
    BY <2>1, <2>3, <2>4, TypesOf
<1> QED
  BY <1>1, <1>2 DEF MountSection

LEMMA OpenTyped ==
  ASSUME TypesInv, SessionSafe, ComponentOK, Open
  PROVE  TypesInv'
<1>1. view = Nothing /\ page' = page
  BY DEF Open
<1>2. CASE \E how \in DocumentsOf(page) : MountDocument(how)
  BY <1>1, <1>2, MountDocumentTyped
<1>3. CASE LateSavesOf({}) /\ \E how \in ViewsOf(page) : MountView(how)
  BY <1>1, <1>3, MountViewTyped
<1>4. CASE LateSavesOf({}) /\ \E how \in PanesOf(page) : MountPane(how)
  BY <1>1, <1>4, MountPaneTyped
<1>5. CASE LateSavesOf({}) /\ \E how \in FormsOf(page) : MountForm(how)
  BY <1>1, <1>5, MountFormTyped
<1>6. CASE fetches = {} /\ \E how \in SectionsOf(page) : MountSection(how)
  BY <1>1, <1>6, MountSectionTyped
<1> QED
  BY <1>2, <1>3, <1>4, <1>5, <1>6 DEF Open

-----------------------------------------------------------------------------
(* A component is left, or nothing is mounted.                              *)
PagesOfApp == PublicPages \cup AdminPages \cup ClientPages

LEMMA ShownPages ==
  ASSUME NEW role, NEW asked
  PROVE  Shows(role, FALSE, asked) \in PagesOfApp
<1>1. SignedOutShows(asked) \in PublicPages
  BY DEF SignedOutShows, Routed, PublicPages
<1>2. AdminShows(asked) \in PagesOfApp
  BY DEF AdminShows, Routed, PagesOfApp, PublicPages, AdminPages
<1>3. ClientShows(asked) \in PagesOfApp
  BY DEF ClientShows, Routed, PagesOfApp, PublicPages, StaticPages, ClientPages
<1> QED
  BY <1>1, <1>2, <1>3 DEF Shows, PagesOfApp

LEMMA EmptyTyped ==
  ASSUME view' = Nothing, page' \in PagesOfApp, \A g \in fetches' : g.at \in FetchAt
  PROVE  TypesInv'
<1>1. view'.kind = "nothing" /\ "failures" \in DOMAIN view' /\ view'.failures = 0
  BY DEF Nothing
<1>2. ScreenTyped'
  BY <1>1, KeysAssumption DEF ScreenTyped, PagesOfApp
<1> QED
  BY <1>1, <1>2, TypesOf

LEMMA LeaveTyped ==
  ASSUME TypesInv, ComponentOK, view' = Nothing, fetches' = Leaving, page' \in PagesOfApp
  PROVE  TypesInv'
<1>1. \A f \in fetches : IsCall(f) /\ f.at \in FetchAt
  BY DEF TypesInv, ScreenTyped, ComponentOK
<1>2. \A g \in fetches' : g.at \in FetchAt
  BY <1>1, LeavingFacts
<1> QED
  BY <1>2, EmptyTyped

LEMMA GoTyped ==
  ASSUME TypesInv, ConsoleInv,
         \/ SwitchTab \/ Navigate \/ SignOut \/ Reloaded \/ SignIn \/ Age
         \/ \E f \in fetches : CampaignDeleted(f)
  PROVE  TypesInv'
<1>1. page \in PagesOfApp /\ ComponentOK /\ SessionSafe
  BY DEF TypesInv, ScreenTyped, PagesOfApp, ConsoleInv
<1>2. CASE SwitchTab \/ Navigate \/ SignOut \/ \E f \in fetches : CampaignDeleted(f)
  <2>1. view' = Nothing /\ fetches' = Leaving
    BY <1>2 DEF SwitchTab, Navigate, SignOut, CampaignDeleted, DeleteAnswer, LeaveView
  <2>2. page' \in PagesOfApp
    BY <1>1, <1>2, ShownPages DEF SwitchTab, Navigate, SignOut, CampaignDeleted, PagesOfApp,
                                  AdminPages
  <2> QED
    BY <1>1, <2>1, <2>2, LeaveTyped
<1>3. CASE Reloaded
  BY <1>3, ShownPages, EmptyTyped DEF Reloaded, Unload
<1>4. CASE SignIn \/ Age
  <2>1. view' = view /\ fetches' = fetches /\ page' \in PagesOfApp
    BY <1>1, <1>4, ShownPages DEF SignIn, LogIn, Age, TokenAges
  <2>2. view.kind = "nothing"
    BY <1>1, <1>4, NothingIsOK DEF SignIn, LogIn, Age, SessionSafe
  <2>3. ScreenTyped'
    BY <2>1 DEF TypesInv, ScreenTyped, PagesOfApp
  <2> QED
    BY <2>1, <2>2, <2>3, TypesOf
<1> QED
  BY <1>2, <1>3, <1>4

-----------------------------------------------------------------------------
(* A call fails or is refused.                                              *)
LEMMA FailedKeeps ==
  ASSUME TypesInv, NEW f
  PROVE  LET w == Failed(f) IN DOMAIN w = DOMAIN view /\ w.failures = view.failures
<1>1. /\ LET w == ViewFailed(f) IN DOMAIN w = DOMAIN view /\ w.failures = view.failures
      /\ LET w == PaneFailed(f) IN DOMAIN w = DOMAIN view /\ w.failures = view.failures
      /\ LET w == DocumentFailed(f) IN DOMAIN w = DOMAIN view /\ w.failures = view.failures
      /\ LET w == FormFailed(f) IN DOMAIN w = DOMAIN view /\ w.failures = view.failures
      /\ LET w == SectionFailed(f) IN DOMAIN w = DOMAIN view /\ w.failures = view.failures
  BY DEF ViewFailed, PaneFailed, DocumentFailed, FormFailed, SectionFailed, Untested
<1> QED
  BY <1>1 DEF Failed

LEMMA LostTyped ==
  ASSUME TypesInv, ConsoleInv, DocumentInv, NEW f \in fetches,
         FetchFails(f) \/ FetchUnauthorized(f), page' = page
  PROVE  TypesInv'
<1> DEFINE w == Failed(f)
<1>1. fetches' = fetches \ {f}
  BY DEF FetchFails, FetchUnauthorized, Unauthorized, Answered
<1>2. "failures" \in DOMAIN view /\ view.failures \in 0..MaxFailures /\ MaxFailures \in Nat
  BY KeysAssumption DEF TypesInv, ScreenTyped
<1>3. \/ view' = w
      \/ view' = [w EXCEPT !.failures = @ + 1] /\ view.failures < MaxFailures
  BY DEF FetchFails, FetchUnauthorized
<1>4. DOMAIN w = DOMAIN view /\ w.failures = view.failures
  BY FailedKeeps
<1> HIDE DEF w
<1>5. Becomes(w)
  <2>1. DOMAIN view' = DOMAIN w /\ \A x \in DOMAIN w : x # "failures" => view'[x] = w[x]
    BY <1>3, OneMore
  <2>2. view'.failures \in 0..MaxFailures
    <3>1. CASE view' = w
      BY <1>2, <1>4, <3>1
    <3>2. CASE view' = [w EXCEPT !.failures = @ + 1] /\ view.failures < MaxFailures
      <4>1. view'.failures = view.failures + 1
        BY <1>2, <1>4, <3>2
      <4> QED
        BY <1>2, <3>2, <4>1
    <3> QED
      BY <1>3, <3>1, <3>2
  <2> QED
    BY <2>1, <2>2 DEF Becomes
<1> USE DEF ConsoleInv
<1>6. CASE view.kind = "view"
  <2>1. w = ViewFailed(f)
    BY <1>6 DEF w, Failed, ViewFailed
  <2> QED
    BY <1>1, <1>5, <1>6, <2>1, ViewFailedTyped DEF IsView
<1>7. CASE view.kind = "pane"
  <2>1. w = PaneFailed(f)
    BY <1>7 DEF w, Failed, PaneFailed
  <2> QED
    BY <1>1, <1>5, <1>7, <2>1, PaneFailedTyped
<1>8. CASE view.kind = "form"
  <2>1. w = FormFailed(f)
    BY <1>8 DEF w, Failed, FormFailed
  <2> QED
    BY <1>1, <1>5, <1>8, <2>1, FormFailedTyped
<1>9. CASE view.kind = "section"
  <2>1. w = SectionFailed(f)
    BY <1>9 DEF w, Failed, SectionFailed
  <2> QED
    BY <1>1, <1>5, <1>9, <2>1, SectionFailedTyped
<1>10. CASE view.kind = "document" /\ f.op \notin Outliving
  <2>1. w = DocumentFailed(f)
    BY <1>10 DEF w, Failed, Outliving
  <2> QED
    BY <1>1, <1>5, <1>10, <2>1, DocumentFailedTyped
<1>11. CASE view.kind = "document" /\ f.op \in Outliving
  <2>1. w = view
    BY <1>11 DEF w, Failed, Outliving
  <2>2. FlagsTyped(view) /\ DocFields \subseteq DOMAIN view
    BY <1>11, DocTypes
  <2>3. DOMAIN view' = DOMAIN view /\ FlagsTyped(view')
    BY <1>5, <2>1, <2>2 DEF FlagsTyped, DocFields, Becomes
  <2> QED
    BY <1>1, <2>3, DocStepTyped
<1>12. CASE view.kind \notin {"view", "pane", "document", "form", "section"}
  <2>1. w = view
    BY <1>12 DEF w, Failed
  <2>2. "kind" \in DOMAIN view
    BY DEF ComponentOK, HasFields
  <2>3. view'.kind = view.kind /\ "failures" \in DOMAIN view' /\ view'.failures \in 0..MaxFailures
    BY <1>2, <1>5, <2>1, <2>2 DEF Becomes
  <2>4. ScreenTyped'
    BY <1>1, <2>3 DEF TypesInv, ScreenTyped
  <2> QED
    BY <1>12, <2>3, <2>4 DEF TypesInv, ViewTyped, PaneTyped, DocTyped, FormTyped, SectionTyped,
                             IsView
<1> QED
  BY <1>6, <1>7, <1>8, <1>9, <1>10, <1>11, <1>12

-----------------------------------------------------------------------------
(* Everything together.                                                     *)
LEMMA FetchEndsTyped ==
  ASSUME TypesInv, ConsoleInv, DocumentInv, NEW f \in fetches, FetchEnds(f), page' = page
  PROVE  TypesInv'
<1> USE DEF ConsoleInv
<1>1. CASE FetchAnswer(f)
  BY <1>1, FetchAnswerTyped
<1>2. CASE PaneAnswer(f)
  BY <1>2, PaneAnswerTyped
<1>3. CASE DocumentAnswer(f)
  BY <1>3, DocumentAnswerTyped
<1>4. CASE FormAnswer(f)
  BY <1>4, FormAnswerTyped
<1>5. CASE SectionAnswer(f)
  BY <1>5, SectionAnswerTyped
<1>6. CASE ServeDocument(f)
  BY <1>6, ServeDocumentTyped
<1>7. CASE ServeSection(f)
  BY <1>7, ServeSectionTyped
<1>8. CASE FetchFails(f) \/ FetchUnauthorized(f)
  BY <1>8, LostTyped
<1> QED
  BY <1>1, <1>2, <1>3, <1>4, <1>5, <1>6, <1>7, <1>8 DEF FetchEnds

LEMMA UserStepTyped ==
  ASSUME TypesInv, ConsoleInv, DocumentInv, UserStep
  PROVE  TypesInv'
<1> USE DEF ConsoleInv
<1>1. page' = page
  BY DEF UserStep
<1>2. CASE UserViewStep
  <2>1. IsView
    BY <1>2 DEF UserViewStep, Select, Apply, CloseDetails, Retry
  <2> QED
    BY <1>1, <1>2, <2>1, UserViewTyped
<1>3. CASE UserPaneStep
  BY <1>1, <1>3, UserPaneTyped
<1>4. CASE UserDocumentStep
  BY <1>1, <1>4, UserDocumentTyped
<1>5. CASE UserFormStep
  BY <1>1, <1>5, UserFormTyped
<1>6. CASE UserSectionStep
  BY <1>1, <1>6, UserSectionTyped
<1> QED
  BY <1>2, <1>3, <1>4, <1>5, <1>6 DEF UserStep

LEMMA TypesStepOK ==
  ConsoleInv /\ DocumentInv /\ TypesInv /\ [ConsoleNext]_consoleVars => TypesInv'
<1> SUFFICES ASSUME ConsoleInv, DocumentInv, TypesInv, [ConsoleNext]_consoleVars
             PROVE  TypesInv'
  OBVIOUS
<1>1. SessionSafe /\ ComponentOK
  BY DEF ConsoleInv
<1>2. CASE UserStep
  BY <1>2, UserStepTyped
<1>3. CASE Poll
  BY <1>1, <1>3, PollViewTyped, PollThreadTyped DEF Poll
<1>4. CASE RefreshStep
  BY <1>1, <1>4, RefreshTyped DEF RefreshStep
<1>5. CASE \E f \in fetches : FetchEnds(f) /\ UNCHANGED page
  BY <1>5, FetchEndsTyped
<1>6. CASE Open
  BY <1>1, <1>6, OpenTyped
<1>7. CASE \/ SwitchTab \/ Navigate \/ SignOut \/ Reloaded \/ SignIn \/ Age
           \/ \E f \in fetches : CampaignDeleted(f)
  BY <1>7, GoTyped
<1>8. CASE UNCHANGED consoleVars
  BY <1>8, FewerTyped DEF consoleVars, viewVars
<1> QED
  BY <1>2, <1>3, <1>4, <1>5, <1>6, <1>7, <1>8 DEF ConsoleNext

LEMMA TypesInitOK == ConsoleInit => TypesInv
<1> SUFFICES ASSUME ConsoleInit  PROVE TypesInv
  OBVIOUS
<1>1. view.kind = "nothing" /\ "failures" \in DOMAIN view /\ view.failures = 0 /\ fetches = {}
  BY DEF ConsoleInit, Nothing
<1>2. page \in PagesOfApp
  BY ShownPages DEF ConsoleInit
<1>3. ScreenTyped
  BY <1>1, <1>2, KeysAssumption DEF ScreenTyped, PagesOfApp
<1> QED
  BY <1>1, <1>3 DEF TypesInv, ViewTyped, PaneTyped, DocTyped, FormTyped, SectionTyped, IsView

(* The invariant that the types follow from.                                *)
THEOREM TypesInvariant == ConsoleSpec => []TypesInv
<1>1. ConsoleSpec => ConsoleInit /\ [][ConsoleNext]_consoleVars
  BY DEF ConsoleSpec
<1> QED
  BY <1>1, ConsoleInvariant, DocumentInvariant, TypesInitOK, TypesStepOK, PTL

(* Whatever is mounted, however its calls are answered, lost or outlive it: *)
(* selections name items there are, flags hold only calls of their own      *)
(* buttons, and the counters of sends and errors stay within what one press *)
(* more than the failures can explain.                                      *)
THEOREM ConsoleTypes == ConsoleSpec => []ConsoleTypeOK
<1>1. ConsoleInv /\ DocumentInv /\ TypesInv => ConsoleTypeOK
  <2> SUFFICES ASSUME ConsoleInv, DocumentInv, TypesInv  PROVE ConsoleTypeOK
    OBVIOUS
  <2>1. session \in Sessions /\ refresh \in Refreshes
    BY DEF ConsoleInv, SessionSafe
  <2>2. \A f \in fetches : f.op \in Ops
    BY DEF ConsoleInv, ComponentOK, OpsOf, OutlivingOf, Outliving, Ops
  <2>3. /\ \A f \in fetches : f.at \in FetchAt
        /\ page \in PublicPages \cup AdminPages \cup ClientPages
        /\ view.failures \in 0..MaxFailures
    BY DEF TypesInv, ScreenTyped
  <2>4. ViewTypeOK /\ PaneTypeOK
    BY DEF TypesInv, ViewTyped, PaneTyped, ViewTypeOK, PaneTypeOK
  <2>5. DocumentTypeOK
    BY DEF TypesInv, DocTyped, DocumentInv, DocSound, DocumentTypeOK
  <2>6. FormTypeOK /\ SectionTypeOK
    BY DEF TypesInv, FormTyped, SectionTyped, FormTypeOK, SectionTypeOK, At
  <2> QED
    BY <2>1, <2>2, <2>3, <2>4, <2>5, <2>6 DEF ConsoleTypeOK
<1> QED
  BY <1>1, ConsoleInvariant, DocumentInvariant, TypesInvariant, PTL

-----------------------------------------------------------------------------
(* Flags and skeletons.  SpinnersStop, that none stays for good, needs      *)
(* fairness; this is what it rests on, and what fairness cannot mend.       *)

(* The call whose end takes the skeleton away.                              *)
LoadingOp ==
  CASE view.kind = "view" -> "get"
    [] view.kind = "pane" -> "thread"
    [] view.kind = "document" -> "load"
    [] view.kind = "form" -> "list"
    [] OTHER -> "billing"

Loads(f) == f.op = LoadingOp /\ (IsView => ~Dropped(f))

SpinnersHaveCalls ==
  /\ view.loading /\ ~Endless => \E f \in fetches : Loads(f)
  /\ \A flag \in view.busy : \E f \in fetches : Holds(f) = flag

(* Which flags there are: a document's saves never hold that of a scrape.   *)
FlagsApart ==
  /\ {"busy", "loading"} \subseteq DOMAIN view
  /\ view.busy \subseteq Flags
  /\ view.kind = "nothing" => view.busy = {} /\ ~view.loading
  /\ IsView => view.busy = {} /\ (view.how.opens => ~view.how.drops)
  /\ OnForm(FormPages \ {"clients"}) => view.busy = {}
  /\ view.kind = "document" =>
       \A f \in fetches : f.op = "save" => f.tag.for \in {"save", "settings", "switch"}

SpinInv == FlagsApart /\ SpinnersHaveCalls

LEMMA Held ==
  ASSUME NEW f, NEW g, g.op = f.op, g.tag = f.tag
  PROVE  Holds(g) = Holds(f)
BY DEF Holds

LEMMA HeldOps ==
  ASSUME NEW f, f.op \notin {"load", "save"}
  PROVE  Holds(f) = f.op
BY DEF Holds

(* A step of a view leaves it with a call, if with a skeleton.              *)
LEMMA ViewSpins ==
  ASSUME SpinInv, IsView, DOMAIN view' = DOMAIN view, view'.kind = view.kind,
         view'.how = view.how, view'.busy = view.busy,
         view'.loading => \/ view.how.awaits /\ view'.failed
                          \/ \E g \in fetches' : g.op = "get" /\ (view.how.drops => g.tag = view'.key)
  PROVE  SpinInv'
<1>1. FlagsApart'
  BY DEF SpinInv, FlagsApart, IsView, OnForm
<1>2. view'.busy = {}
  BY DEF SpinInv, FlagsApart
<1>3. view'.loading /\ ~Endless' => \E g \in fetches' : Loads(g)'
  BY DEF Loads, LoadingOp, Dropped, IsView, Endless
<1> QED
  BY <1>1, <1>2, <1>3 DEF SpinInv, SpinnersHaveCalls

LEMMA ViewHasCall ==
  ASSUME SpinInv, IsView, view.loading
  PROVE  \/ view.how.awaits /\ view.failed
         \/ \E f \in fetches : f.op = "get" /\ (view.how.drops => f.tag = view.key)
BY DEF SpinInv, SpinnersHaveCalls, Loads, LoadingOp, Dropped, IsView, Endless

(* A step of another component: the calls that are lost carry no flag that  *)
(* stays, and a new flag has a call.                                        *)
LEMMA SpinsOn ==
  ASSUME SpinInv, ~IsView, FlagsApart', view'.kind = view.kind, NEW lost,
         \A f \in fetches : f \in lost \/ \E g \in fetches' : g.op = f.op /\ Holds(g) = Holds(f),
         view'.loading => \/ view.loading /\ \A f \in lost : f.op # LoadingOp
                          \/ \E g \in fetches' : g.op = LoadingOp,
         \A flag \in view'.busy :
           \/ flag \in view.busy /\ \A f \in lost : Holds(f) # flag
           \/ \E g \in fetches' : Holds(g) = flag
  PROVE  SpinInv'
<1>1. LoadingOp' = LoadingOp /\ ~IsView'
  BY DEF LoadingOp, IsView
<1>2. ASSUME view'.loading  PROVE \E g \in fetches' : Loads(g)'
  <2>1. \E g \in fetches' : g.op = LoadingOp
    <3>1. CASE view.loading /\ \A f \in lost : f.op # LoadingOp
      <4>1. PICK f \in fetches : f.op = LoadingOp
        BY <3>1 DEF SpinInv, SpinnersHaveCalls, Loads, Endless
      <4> QED
        BY <3>1, <4>1
    <3> QED
      BY <1>2, <3>1
  <2> QED
    BY <1>1, <2>1 DEF Loads
<1>3. ASSUME NEW flag \in view'.busy  PROVE \E g \in fetches' : Holds(g) = flag
  <2>1. CASE flag \in view.busy /\ \A f \in lost : Holds(f) # flag
    <3>1. PICK f \in fetches : Holds(f) = flag
      BY <2>1 DEF SpinInv, SpinnersHaveCalls
    <3> QED
      BY <2>1, <3>1
  <2> QED
    BY <1>3, <2>1
<1>4. \A flag \in view'.busy : \E g \in fetches' : Holds(g)' = flag
  BY <1>3 DEF Holds
<1> QED
  BY <1>2, <1>4 DEF SpinInv, SpinnersHaveCalls

(* The calls that are kept when others are made along, ...                  *)
LEMMA KeptAlong ==
  ASSUME SessionSafe, NEW others, NEW cs, \A c \in cs : IsCall(c) /\ c.at = "refreshing",
         RequestAlong(others, cs)
  PROVE  /\ \A f \in others : \E g \in fetches' : g.op = f.op /\ Holds(g) = Holds(f)
         /\ \A c \in cs : \E g \in fetches' : g.op = c.op /\ g.tag = c.tag /\ Holds(g) = Holds(c)
<1>1. /\ others \subseteq fetches'
      /\ \A c \in cs : \E g \in fetches' : g.op = c.op /\ g.tag = c.tag
  BY RequestFacts
<1> QED
  BY <1>1, Held

(* ... and when one is.                                                     *)
LEMMA KeptAlongOne ==
  ASSUME SessionSafe, NEW others, NEW op, NEW tag, RequestAlong(others, {Call(op, tag)})
  PROVE  /\ \A f \in others : \E g \in fetches' : g.op = f.op /\ Holds(g) = Holds(f)
         /\ \E g \in fetches' : /\ g.op = op /\ g.tag = tag
                                /\ Holds(g) = IF op \in {"load", "save"} THEN tag.for ELSE op
<1>1. PICK g : fetches' = others \cup {g} /\ g.op = op /\ g.tag = tag
  BY RequestOne
<1>2. Holds(g) = IF op \in {"load", "save"} THEN tag.for ELSE op
  BY <1>1 DEF Holds
<1> QED
  BY <1>1, <1>2
-----------------------------------------------------------------------------
(* The views.                                                               *)
LEMMA GetsMade ==
  ASSUME SessionSafe, NEW k, Request(Gets({k}))
  PROVE  fetches \subseteq fetches' /\ \E g \in fetches' : g.op = "get" /\ g.tag = k
<1>1. Gets({k}) = {Call("get", k)}
  BY DEF Gets
<1>2. RequestAlong(fetches, {Call("get", k)})
  BY <1>1 DEF Request
<1> QED
  BY <1>2, RequestOne

LEMMA UserViewSpins ==
  ASSUME SpinInv, TypesInv, SessionSafe, ComponentOK, IsView, UserViewStep
  PROVE  SpinInv'
<1> USE ViewTypes
<1>0. {"busy", "loading"} \subseteq DOMAIN view /\ (view.how.opens => ~view.how.drops)
  BY DEF SpinInv, FlagsApart
<1>1. ASSUME NEW k \in Keys, Select(k)  PROVE SpinInv'
  <2>1. CASE view.how.custom /\ k = CustomKey
    <3>1. view' = [view EXCEPT !.key = k, !.loading = FALSE]
      BY <1>1, <2>1 DEF Select
    <3> QED
      BY <1>0, <3>1, ViewSpins
  <2>2. CASE ~(view.how.custom /\ k = CustomKey)
    <3>1. view' = [view EXCEPT !.key = k, !.loading = @ \/ view.how.reloads] /\ Fetches(k)
      BY <1>1, <2>2 DEF Select
    <3>2. \E g \in fetches' : g.op = "get" /\ g.tag = k
      BY <3>1, GetsMade DEF Fetches
    <3> QED
      BY <1>0, <3>1, <3>2, ViewSpins
  <2> QED
    BY <2>1, <2>2
<1>2. CASE Apply
  <2>1. view' = [view EXCEPT !.loading = TRUE] /\ Fetches(CustomKey) /\ view.key = CustomKey
    BY <1>2 DEF Apply
  <2>2. \E g \in fetches' : g.op = "get" /\ g.tag = CustomKey
    BY <2>1, GetsMade DEF Fetches
  <2> QED
    BY <1>0, <2>1, <2>2, ViewSpins
<1>3. CASE CloseDetails
  <2>1. view' = [view EXCEPT !.key = NoKey, !.shown = NoKey] /\ fetches' = fetches /\ view.how.opens
    BY <1>3 DEF CloseDetails
  <2>2. view.loading => (view.how.awaits /\ view.failed) \/ \E g \in fetches' : g.op = "get"
    BY <2>1, ViewHasCall
  <2> QED
    BY <1>0, <2>1, <2>2, ViewSpins
<1>4. CASE Retry
  <2>1. /\ view' = [view EXCEPT !.failed = view.how.drops, !.loading = @ \/ view.how.reloads]
        /\ Fetches(view.key)
    BY <1>4 DEF Retry
  <2>2. \E g \in fetches' : g.op = "get" /\ g.tag = view.key
    BY <2>1, GetsMade DEF Fetches
  <2> QED
    BY <1>0, <2>1, <2>2, ViewSpins
<1> QED
  BY <1>1, <1>2, <1>3, <1>4 DEF UserViewStep

LEMMA PollViewSpins ==
  ASSUME SpinInv, SessionSafe, PollView, view' = view
  PROVE  SpinInv'
<1>1. IsView /\ Request(Gets({view.key}))
  BY DEF PollView
<1>2. fetches \subseteq fetches'
  BY <1>1, GetsMade
<1> QED
  BY <1>1, <1>2, ViewHasCall, ViewSpins

LEMMA FetchAnswerSpins ==
  ASSUME SpinInv, TypesInv, ComponentOK, NEW f \in fetches, FetchAnswer(f)
  PROVE  SpinInv'
<1>1. /\ f.op = "get" /\ fetches' = fetches \ {f}
      /\ view' = IF Dropped(f) THEN view
                 ELSE [view EXCEPT !.shown = f.tag, !.loading = FALSE, !.failed = FALSE]
  BY DEF FetchAnswer, Answered
<1>2. IsView
  BY <1>1 DEF ComponentOK, OpsOf, OutlivingOf, Outliving, IsView
<1>3. {"busy", "loading"} \subseteq DOMAIN view
  BY DEF SpinInv, FlagsApart
<1>4. CASE Dropped(f)
  <2>1. view.loading => \/ view.how.awaits /\ view.failed
                        \/ \E g \in fetches' : g.op = "get" /\ (view.how.drops => g.tag = view.key)
    BY <1>1, <1>2, <1>4, ViewHasCall DEF Dropped
  <2> QED
    BY <1>1, <1>2, <1>4, <2>1, ViewSpins
<1>5. CASE ~Dropped(f)
  BY <1>1, <1>2, <1>3, <1>5, ViewTypes, ViewSpins
<1> QED
  BY <1>4, <1>5

LEMMA ViewFailedSpins ==
  ASSUME SpinInv, TypesInv, ComponentOK, IsView, NEW f \in fetches, fetches' = fetches \ {f},
         Becomes(ViewFailed(f))
  PROVE  SpinInv'
<1> DEFINE w == ViewFailed(f)
<1>0. {"busy", "loading"} \subseteq DOMAIN view
  BY DEF SpinInv, FlagsApart
<1>1. CASE f.op # "get" \/ Dropped(f)
  <2>1. w = view
    BY <1>1 DEF ViewFailed
  <2>2. view.loading => \/ view.how.awaits /\ view.failed
                        \/ \E g \in fetches' : g.op = "get" /\ (view.how.drops => g.tag = view.key)
    BY <1>1, ViewHasCall DEF Dropped
  <2> QED
    BY <1>0, <2>1, <2>2, ViewTypes, ViewSpins DEF Becomes
<1>2. CASE f.op = "get" /\ ~Dropped(f)
  <2>1. w = [view EXCEPT !.shown = IF view.how.opens THEN NoKey ELSE @,
                         !.loading = @ /\ view.how.awaits, !.failed = TRUE]
    BY <1>2 DEF ViewFailed
  <2>2. /\ DOMAIN w = DOMAIN view /\ w.kind = view.kind /\ w.how = view.how
        /\ w.busy = view.busy /\ w.failed = TRUE /\ (w.loading => view.how.awaits)
    BY <1>0, <2>1, ViewTypes
  <2> HIDE DEF w
  <2>3. DOMAIN view' = DOMAIN w /\ \A x \in DOMAIN w : x # "failures" => view'[x] = w[x]
    BY DEF Becomes, w
  <2> QED
    BY <1>0, <2>2, <2>3, ViewTypes, ViewSpins
<1> QED
  BY <1>1, <1>2
-----------------------------------------------------------------------------
(* The panes: one flag, that of the reply box.                              *)
LEMMA PaneSpins ==
  ASSUME SpinInv, TypesInv, view.kind = "pane", DOMAIN view' = DOMAIN view, view'.kind = "pane",
         NEW lost,
         \A f \in fetches : f \in lost \/ \E g \in fetches' : g.op = f.op /\ Holds(g) = Holds(f),
         view'.loading => \/ view.loading /\ \A f \in lost : f.op # "thread"
                          \/ \E g \in fetches' : g.op = "thread",
         \/ view'.busy = {}
         \/ view'.busy = view.busy /\ \A f \in lost : Holds(f) # "reply"
         \/ view'.busy = {"reply"} /\ \E g \in fetches' : g.op = "reply"
  PROVE  SpinInv'
<1>1. view.busy \subseteq {"reply"}
  BY PaneTypes DEF PaneFieldsTyped
<1>2. FlagsApart'
  BY <1>1 DEF SpinInv, FlagsApart, IsView, OnForm, Flags
<1>3. LoadingOp = "thread" /\ ~IsView
  BY DEF LoadingOp, IsView
<1>4. \A flag \in view'.busy :
        \/ flag \in view.busy /\ \A f \in lost : Holds(f) # flag
        \/ \E g \in fetches' : Holds(g) = flag
  BY <1>1, HeldOps
<1> QED
  BY <1>2, <1>3, <1>4, SpinsOn

(* The flag stays, and so does the skeleton, or a thread is asked for.      *)
LEMMA PaneAskSpins ==
  ASSUME SpinInv, TypesInv, SessionSafe, view.kind = "pane", DOMAIN view' = DOMAIN view,
         view'.kind = "pane", view'.busy = view.busy, NEW lost, \A f \in lost : Holds(f) # "reply",
         NEW cs, \A c \in cs : IsCall(c) /\ c.at = "refreshing",
         RequestAlong(fetches \ lost, cs),
         view'.loading => \/ view.loading /\ \A f \in lost : f.op # "thread"
                          \/ \E c \in cs : c.op = "thread"
  PROVE  SpinInv'
<1>1. \A f \in fetches : f \in lost \/ \E g \in fetches' : g.op = f.op /\ Holds(g) = Holds(f)
  BY KeptAlong
<1>2. (\E c \in cs : c.op = "thread") => \E g \in fetches' : g.op = "thread"
  BY KeptAlong
<1> QED
  BY <1>1, <1>2, PaneSpins

LEMMA UserPaneSpins ==
  ASSUME SpinInv, TypesInv, SessionSafe, ComponentOK, UserPaneStep
  PROVE  SpinInv'
<1>0. view.kind = "pane"
  BY DEF UserPaneStep, SelectThread, Deselect, FilterInbox, RelistInbox, TypeReply, SendReply,
         ActOn, Showing
<1>a. PaneFields \subseteq DOMAIN view /\ fetches \ {} = fetches
  BY <1>0, PaneTypes
<1>1. ASSUME NEW k \in Keys, SelectThread(k)  PROVE SpinInv'
  <2>1. /\ Request(Threads({k}))
        /\ view' = [view EXCEPT !.sel = k, !.loading = Showing("inbox"), !.crossed = ThreadUnderWay]
    BY <1>1 DEF SelectThread
  <2>2. /\ \A c \in Threads({k}) : IsCall(c) /\ c.at = "refreshing"
        /\ \E c \in Threads({k}) : c.op = "thread"
    BY ThreadsFacts, CallFacts DEF Threads
  <2>3. DOMAIN view' = DOMAIN view /\ view'.kind = "pane" /\ view'.busy = view.busy
    BY <1>0, <1>a, <2>1 DEF PaneFields
  <2> QED
    BY <1>0, <1>a, <2>1, <2>2, <2>3, PaneAskSpins DEF Request
<1>2. CASE Deselect
  <2> DEFINE lost == {f \in fetches : f.op = "reply"}
  <2>1. /\ view' = [view EXCEPT !.sel = NoKey, !.draft = FALSE, !.busy = {}]
        /\ fetches' = {IF f.op = "reply" THEN [f EXCEPT !.op = "old reply"] ELSE f : f \in fetches}
    BY <1>2 DEF Deselect
  <2>2. /\ DOMAIN view' = DOMAIN view /\ view'.kind = "pane" /\ view'.busy = {}
        /\ view'.loading = view.loading
    BY <1>0, <1>a, <2>1 DEF PaneFields
  <2>3. \A f \in fetches : f \in lost \/ f \in fetches'
    BY <2>1
  <2>4. \A f \in lost : f.op # "thread"
    OBVIOUS
  <2> HIDE DEF lost
  <2> QED
    BY <1>0, <2>2, <2>3, <2>4, PaneSpins
<1>3. CASE FilterInbox \/ RelistInbox
  <2>1. /\ Request({List})
        /\ \/ view' = [Relist(view) EXCEPT !.sel = NoKey, !.shown = NoKey]
           \/ view' = Relist(view)
    BY <1>3 DEF FilterInbox, RelistInbox
  <2>2. /\ DOMAIN view' = DOMAIN view /\ view'.kind = "pane" /\ view'.busy = view.busy
        /\ view'.loading = view.loading
    BY <1>0, <1>a, <2>1 DEF PaneFields, Relist
  <2>3. \A c \in {List} : IsCall(c) /\ c.at = "refreshing"
    BY ThreadsFacts
  <2> QED
    BY <1>0, <1>a, <2>1, <2>2, <2>3, PaneAskSpins DEF Request
<1>4. ASSUME NEW op, ActOn(op)  PROVE SpinInv'
  <2>1. view' = view /\ Request({Call(op, view.sel)})
    BY <1>4 DEF ActOn
  <2>2. \A c \in {Call(op, view.sel)} : IsCall(c) /\ c.at = "refreshing"
    BY CallFacts
  <2> QED
    BY <1>0, <1>a, <2>1, <2>2, PaneAskSpins DEF Request
<1>5. CASE TypeReply
  <2>1. fetches' = fetches /\ view' = [view EXCEPT !.draft = TRUE, !.sends = 0, !.errors = 0]
    BY <1>5 DEF TypeReply
  <2>2. /\ DOMAIN view' = DOMAIN view /\ view'.kind = "pane" /\ view'.busy = view.busy
        /\ view'.loading = view.loading
    BY <1>0, <1>a, <2>1 DEF PaneFields
  <2> DEFINE lost == {f \in fetches : FALSE}
  <2>3. \A f \in fetches : f \in lost \/ \E g \in fetches' : g.op = f.op /\ Holds(g) = Holds(f)
    BY <2>1
  <2>4. \A f \in lost : f.op # "thread" /\ Holds(f) # "reply"
    OBVIOUS
  <2> HIDE DEF lost
  <2> QED
    BY <1>0, <2>2, <2>3, <2>4, PaneSpins
<1>6. CASE SendReply
  <2>1. /\ Request({Call("reply", view.sel)})
        /\ view' = [view EXCEPT !.busy = {"reply"}, !.sends = @ + 1]
    BY <1>6 DEF SendReply
  <2>2. /\ DOMAIN view' = DOMAIN view /\ view'.kind = "pane" /\ view'.busy = {"reply"}
        /\ view'.loading = view.loading
    BY <1>0, <1>a, <2>1 DEF PaneFields
  <2>3. /\ \A f \in fetches : \E g \in fetches' : g.op = f.op /\ Holds(g) = Holds(f)
        /\ \E g \in fetches' : g.op = "reply"
    BY <2>1, KeptAlongOne DEF Request
  <2>4. \A f \in fetches : f \in {} \/ \E g \in fetches' : g.op = f.op /\ Holds(g) = Holds(f)
    BY <2>3
  <2> QED
    BY <1>0, <2>2, <2>3, <2>4, PaneSpins
<1> QED
  BY <1>1, <1>2, <1>3, <1>4, <1>5, <1>6 DEF UserPaneStep

LEMMA PollThreadSpins ==
  ASSUME SpinInv, TypesInv, SessionSafe, PollThread, view' = view
  PROVE  SpinInv'
<1>1. view.kind = "pane" /\ Request(Threads({view.sel})) /\ fetches \ {} = fetches
  BY DEF PollThread, Showing
<1>2. \A c \in Threads({view.sel}) : IsCall(c) /\ c.at = "refreshing"
  BY ThreadsFacts
<1> QED
  BY <1>1, <1>2, PaneAskSpins DEF Request

LEMMA PaneAnswerSpins ==
  ASSUME SpinInv, TypesInv, SessionSafe, NEW f \in fetches, PaneAnswer(f)
  PROVE  SpinInv'
<1>0. view.kind = "pane"
  BY DEF PaneAnswer
<1>a. PaneFields \subseteq DOMAIN view
  BY <1>0, PaneTypes
<1>b. \A g \in fetches : g \in {f} \/ g \in fetches \ {f}
  OBVIOUS
<1>1. CASE f.op \in {"list", "thread", "reread"}
  <2>1. /\ fetches' = fetches \ {f}
        /\ \/ f.op = "list"
              /\ view' = [view EXCEPT !.listed = TRUE, !.listing = FALSE, !.failed = FALSE]
           \/ f.op = "thread" /\ view' = AfterThread(f.tag)
           \/ f.op = "reread" /\ view' = [view EXCEPT !.shown = f.tag]
    BY <1>1 DEF PaneAnswer, Answered
  <2>2. /\ DOMAIN view' = DOMAIN view /\ view'.kind = "pane" /\ view'.busy = view.busy
        /\ view'.loading => view.loading /\ f.op # "thread"
    BY <1>0, <1>a, <2>1 DEF PaneFields, AfterThread
  <2>3. Holds(f) # "reply"
    BY <1>1, HeldOps
  <2> QED
    BY <1>0, <2>1, <2>2, <2>3, PaneSpins
<1>2. CASE f.op \in {"status", "blacklist", "remove"}
  <2> DEFINE cs == {List} \cup IF f.op = "status" THEN Threads({f.tag}) ELSE {}
  <2>1. /\ \/ f.op = "status" /\ view' = AfterStatus(f.tag)
           \/ f.op # "status" /\ view' = AfterRemoval
        /\ RequestAlong(fetches \ {f}, cs)
    BY <1>2 DEF PaneAnswer
  <2>2. /\ DOMAIN view' = DOMAIN view /\ view'.kind = "pane" /\ view'.busy = view.busy
        /\ f.op # "status" => view'.loading = view.loading
    BY <1>0, <1>a, <2>1 DEF PaneFields, AfterStatus, AfterRemoval, Relist
  <2>3. Holds(f) # "reply" /\ f.op # "thread"
    BY <1>2, HeldOps
  <2>4. /\ \A c \in cs : IsCall(c) /\ c.at = "refreshing"
        /\ f.op = "status" => \E c \in cs : c.op = "thread"
    BY ThreadsFacts, CallFacts DEF Threads
  <2> HIDE DEF cs
  <2> QED
    BY <1>0, <2>1, <2>2, <2>3, <2>4, PaneAskSpins
<1>3. CASE f.op \in {"reply", "old reply"}
  <2>1. view' = AfterReply(f.op) /\ RequestAlong(fetches \ {f}, {Call("reread", f.tag)})
    BY <1>3 DEF PaneAnswer
  <2>2. /\ DOMAIN view' = DOMAIN view /\ view'.kind = "pane" /\ view'.loading = view.loading
        /\ view'.busy = IF f.op = "reply" THEN {} ELSE view.busy
    BY <1>0, <1>a, <2>1 DEF PaneFields, AfterReply
  <2>3. Holds(f) = f.op /\ f.op # "thread"
    BY <1>3, HeldOps
  <2>4. \A g \in fetches \ {f} : \E h \in fetches' : h.op = g.op /\ Holds(h) = Holds(g)
    BY <2>1, KeptAlongOne
  <2>5. \A g \in fetches : g \in {f} \/ \E h \in fetches' : h.op = g.op /\ Holds(h) = Holds(g)
    BY <2>4
  <2>6. view'.busy = {} \/ (view'.busy = view.busy /\ Holds(f) # "reply")
    BY <1>3, <2>2, <2>3
  <2> QED
    BY <1>0, <2>2, <2>3, <2>5, <2>6, PaneSpins
<1> QED
  BY <1>1, <1>2, <1>3 DEF PaneAnswer

LEMMA PaneFailedSpins ==
  ASSUME SpinInv, TypesInv, view.kind = "pane", NEW f \in fetches, fetches' = fetches \ {f},
         ComponentOK, Becomes(PaneFailed(f))
  PROVE  SpinInv'
<1> DEFINE w == PaneFailed(f)
<1>1. PaneFields \subseteq DOMAIN view
  BY PaneTypes
<1>2. /\ DOMAIN w = DOMAIN view /\ w.kind = "pane"
      /\ w.loading => view.loading /\ f.op # "thread"
      /\ w.busy = IF f.op = "reply" THEN {} ELSE view.busy
  <2>1. CASE f.op = "list"
    BY <1>1, <2>1 DEF PaneFailed, PaneFields
  <2>2. CASE f.op = "thread"
    BY <1>1, <2>2 DEF PaneFailed, PaneFields
  <2>3. CASE f.op = "reply"
    BY <1>1, <2>3 DEF PaneFailed, PaneFields
  <2>4. CASE f.op \notin {"list", "thread", "reply"}
    BY <2>4 DEF PaneFailed
  <2> QED
    BY <2>1, <2>2, <2>3, <2>4
<1>3. DOMAIN view' = DOMAIN w /\ \A x \in DOMAIN w : x # "failures" => view'[x] = w[x]
  BY DEF Becomes
<1> HIDE DEF w
<1>4. /\ DOMAIN view' = DOMAIN view /\ view'.kind = "pane"
      /\ view'.loading => view.loading /\ f.op # "thread"
      /\ view'.busy = IF f.op = "reply" THEN {} ELSE view.busy
  BY <1>1, <1>2, <1>3 DEF PaneFields
<1>5. Holds(f) = f.op
  BY HeldOps DEF ComponentOK, OpsOf, OutlivingOf, Outliving
<1> QED
  BY <1>4, <1>5, PaneSpins
-----------------------------------------------------------------------------
(* The documents: the flag of a save, held by the load that follows it, and *)
(* that of a scrape.                                                        *)
SaveFlags == {"save", "settings", "switch"}

LEMMA DocSpins ==
  ASSUME SpinInv, view.kind = "document", DOMAIN view' = DOMAIN view, view'.kind = "document",
         view'.busy \subseteq {"save", "scrape"},
         \A g \in fetches' : g.op = "save" => g.tag.for \in SaveFlags,
         NEW lost,
         \A f \in fetches : f \in lost \/ \E g \in fetches' : g.op = f.op /\ Holds(g) = Holds(f),
         view'.loading => \/ view.loading /\ \A f \in lost : f.op # "load"
                          \/ \E g \in fetches' : g.op = "load",
         \A flag \in view'.busy :
           \/ flag \in view.busy /\ \A f \in lost : Holds(f) # flag
           \/ \E g \in fetches' : Holds(g) = flag
  PROVE  SpinInv'
<1>1. FlagsApart'
  BY DEF SpinInv, FlagsApart, IsView, OnForm, Flags, SaveFlags
<1>2. LoadingOp = "load" /\ ~IsView
  BY DEF LoadingOp, IsView
<1> QED
  BY <1>1, <1>2, SpinsOn

LEMMA DocSpinTypes ==
  ASSUME SpinInv, TypesInv, DocumentInv, view.kind = "document"
  PROVE  /\ DocFields \subseteq DOMAIN view /\ view.busy \subseteq {"save", "scrape"}
         /\ \A f \in fetches : f.op = "save" => f.tag.for \in SaveFlags
BY DocTypes DEF FlagsTyped, SpinInv, FlagsApart, SaveFlags

HeldBy(op, tag) == IF op \in {"load", "save"} THEN tag.for ELSE op

MayHold(op, tag) ==
  /\ op \in {"load", "save"} => tag.for \in SaveFlags \cup {"page", "scrape"}
  /\ op = "save" => tag.for \in SaveFlags

(* What stays on the screen when some calls are lost and one is made.       *)
StaysWith(lost, op, tag) ==
  /\ view'.loading => (view.loading /\ \A f \in lost : f.op # "load") \/ op = "load"
  /\ view'.busy \subseteq {"save", "scrape"}
  /\ \A flag \in view'.busy :
       (flag \in view.busy /\ \A f \in lost : Holds(f) # flag) \/ flag = HeldBy(op, tag)

(* A call is made, with the flag it holds, if any, or with the skeleton.    *)
LEMMA AskSpins ==
  ASSUME SpinInv, TypesInv, DocumentInv, SessionSafe, view.kind = "document",
         DOMAIN view' = DOMAIN view, view'.kind = "document", NEW lost, NEW op, NEW tag,
         MayHold(op, tag),
         RequestAlong(fetches \ lost, {Call(op, tag)}),
         StaysWith(lost, op, tag)
  PROVE  SpinInv'
<1>1. /\ \A f \in fetches \ lost : \E g \in fetches' : g.op = f.op /\ Holds(g) = Holds(f)
      /\ \E g \in fetches' : /\ g.op = op /\ g.tag = tag
                             /\ Holds(g) = HeldBy(op, tag)
  BY KeptAlongOne DEF HeldBy
<1>2. \A g \in fetches' : g.op = "save" => g.tag.for \in SaveFlags
  <2>1. PICK c : fetches' = (fetches \ lost) \cup {c} /\ c.op = op /\ c.tag = tag
    BY RequestOne
  <2> QED
    BY <2>1, DocSpinTypes DEF MayHold
<1>3. \A f \in fetches : f \in lost \/ \E g \in fetches' : g.op = f.op /\ Holds(g) = Holds(f)
  BY <1>1
<1> QED
  BY <1>1, <1>2, <1>3, DocSpins DEF StaysWith

LEMMA WriteSpins ==
  ASSUME SpinInv, TypesInv, DocumentInv, SessionSafe, view.kind = "document",
         NEW op, NEW tag, NEW v, Write(Call(op, tag), v), DOMAIN v = DOMAIN view,
         v.kind = "document",
         MayHold(op, tag),
         v.loading => view.loading \/ op = "load",
         v.busy \subseteq {"save", "scrape"},
         \A flag \in v.busy :
           flag \in view.busy \/ flag = HeldBy(op, tag)
  PROVE  SpinInv'
<1>1. /\ view' = [v EXCEPT !.disturbed = @ \/ Overlaps]
      /\ RequestAlong(fetches, {Call(op, tag)})
  BY DEF Write, Request
<1>2. /\ DOMAIN view' = DOMAIN view /\ view'.kind = "document" /\ view'.busy = v.busy
      /\ view'.loading = v.loading
  BY <1>1, DocSpinTypes DEF DocFields
<1> DEFINE lost == {f \in fetches : FALSE}
<1>3. lost = {} /\ fetches \ lost = fetches
  OBVIOUS
<1> HIDE DEF lost
<1>4. RequestAlong(fetches \ lost, {Call(op, tag)})
  BY <1>1, <1>3
<1>5. StaysWith(lost, op, tag)
  BY <1>2, <1>3 DEF StaysWith
<1> QED
  BY <1>2, <1>4, <1>5, AskSpins

LEMMA UserDocumentSpins ==
  ASSUME SpinInv, TypesInv, DocumentInv, SessionSafe, UserDocumentStep
  PROVE  SpinInv'
<1>0. view.kind = "document"
  BY DEF UserDocumentStep, Edit, SaveDocument, CanSave, Editable, SaveCampaignSettings, IsDoc,
         ToggleCampaign, ToggleEngine, AssignProspects, Scrape, DeleteCampaign, RetryEngine
<1>a. /\ DocFields \subseteq DOMAIN view /\ view.busy \subseteq {"save", "scrape"}
      /\ \A f \in fetches : f.op = "save" => f.tag.for \in SaveFlags
  BY <1>0, DocSpinTypes
<1>1. ASSUME NEW p, Edit(p)  PROVE SpinInv'
  <2>1. /\ view' = [view EXCEPT !.local[p] = Other(@), !.dirty = @ \cup {p}]
        /\ fetches' = fetches
    BY <1>1 DEF Edit
  <2>2. /\ DOMAIN view' = DOMAIN view /\ view'.kind = "document" /\ view'.busy = view.busy
        /\ view'.loading = view.loading
    BY <1>0, <1>a, <2>1 DEF DocFields
  <2> DEFINE lost == {f \in fetches : FALSE}
  <2>3. \A f \in fetches : f \in lost \/ \E g \in fetches' : g.op = f.op /\ Holds(g) = Holds(f)
    BY <2>1
  <2>4. \A f \in lost : f.op # "load" /\ \A flag \in view'.busy : Holds(f) # flag
    OBVIOUS
  <2> HIDE DEF lost
  <2> QED
    BY <1>0, <1>a, <2>1, <2>2, <2>3, <2>4, DocSpins
<1>2. ASSUME SaveDocument \/ SaveCampaignSettings \/ ToggleEngine  PROVE SpinInv'
  <2>1. PICK for, data : for \in SaveFlags /\
          \/ for = "save"
             /\ Write(Call("save", Tag(for, data)), [view EXCEPT !.busy = @ \cup {"save"}])
          \/ Write(Call("save", Tag(for, data)), view)
    BY <1>2 DEF SaveDocument, SaveCampaignSettings, ToggleEngine, SaveFlags
  <2>2. Tag(for, data).for = for
    BY DEF Tag
  <2>3. CASE Write(Call("save", Tag(for, data)), view)
    BY <1>0, <1>a, <2>1, <2>2, <2>3, WriteSpins DEF MayHold
  <2>4. ASSUME for = "save",
               Write(Call("save", Tag(for, data)), [view EXCEPT !.busy = @ \cup {"save"}])
        PROVE SpinInv'
    <3> DEFINE v == [view EXCEPT !.busy = @ \cup {"save"}]
    <3>1. /\ DOMAIN v = DOMAIN view /\ v.kind = "document" /\ v.loading = view.loading
          /\ v.busy = view.busy \cup {"save"}
      BY <1>0, <1>a DEF DocFields
    <3>2. Write(Call("save", Tag(for, data)), v)
      BY <2>4
    <3> HIDE DEF v
    <3> QED
      BY <1>0, <1>a, <2>1, <2>2, <2>4, <3>1, <3>2, WriteSpins DEF MayHold, HeldBy
  <2> QED
    BY <2>1, <2>3, <2>4
<1>3. ASSUME ToggleCampaign \/ AssignProspects \/ DeleteCampaign  PROVE SpinInv'
  <2>1. \E op \in {"toggle", "assign", "delete"} : Write(Call(op, NoKey), view)
    BY <1>3 DEF ToggleCampaign, AssignProspects, DeleteCampaign
  <2> QED
    BY <1>0, <1>a, <2>1, WriteSpins DEF MayHold
<1>4. ASSUME Scrape  PROVE SpinInv'
  <2> DEFINE v == [view EXCEPT !.busy = @ \cup {"scrape"}]
  <2>1. Write(Call("scrape", NoKey), v)
    BY <1>4 DEF Scrape
  <2>2. /\ DOMAIN v = DOMAIN view /\ v.kind = "document" /\ v.loading = view.loading
        /\ v.busy = view.busy \cup {"scrape"}
    BY <1>0, <1>a DEF DocFields
  <2> HIDE DEF v
  <2> QED
    BY <1>0, <1>a, <2>1, <2>2, WriteSpins DEF MayHold, HeldBy
<1>5. ASSUME RetryEngine  PROVE SpinInv'
  <2> DEFINE v == [view EXCEPT !.loading = TRUE, !.failed = FALSE]
             tag == [how |-> "engine", for |-> "page", data |-> Everywhere("engine", Blank)]
  <2>1. Write(Call("load", tag), v)
    BY <1>5 DEF RetryEngine, LoadFor
  <2>2. /\ DOMAIN v = DOMAIN view /\ v.kind = "document" /\ v.busy = view.busy
        /\ tag.for = "page"
    BY <1>0, <1>a DEF DocFields
  <2> HIDE DEF v, tag
  <2> QED
    BY <1>0, <1>a, <2>1, <2>2, WriteSpins DEF MayHold, HeldBy
<1> QED
  BY <1>1, <1>2, <1>3, <1>4, <1>5 DEF UserDocumentStep

(* The load that follows a write takes over the flag of its call.           *)
LEMMA ReloadSpins ==
  ASSUME SpinInv, TypesInv, DocumentInv, SessionSafe, view.kind = "document",
         NEW f \in fetches, f.op # "load", NEW for \in {"page", "save", "scrape"}, NEW v,
         ReloadAfter(f, for, v), DOMAIN v = DOMAIN view, v.kind = "document",
         v.loading = view.loading, v.busy \subseteq view.busy,
         Holds(f) \notin v.busy \/ Holds(f) = for
  PROVE  SpinInv'
<1> DEFINE tag == [how |-> view.how, for |-> for, data |-> Everywhere(view.how, Blank)]
<1>1. /\ view' = [v EXCEPT !.failed = FALSE, !.disturbed = OthersThan(f)]
      /\ RequestAlong(fetches \ {f}, {Call("load", tag)})
  BY DEF ReloadAfter, LoadFor
<1>2. tag.for = for
  OBVIOUS
<1> HIDE DEF tag
<1>3. /\ DOMAIN view' = DOMAIN view /\ view'.kind = "document" /\ view'.busy = v.busy
      /\ view'.loading = v.loading /\ view.busy \subseteq {"save", "scrape"}
  BY <1>1, DocSpinTypes DEF DocFields
<1>4. StaysWith({f}, "load", tag)
  BY <1>2, <1>3 DEF StaysWith, HeldBy
<1>5. MayHold("load", tag)
  BY <1>2 DEF SaveFlags, MayHold
<1> QED
  BY <1>1, <1>3, <1>4, <1>5, AskSpins

LEMMA DocumentAnswerSpins ==
  ASSUME SpinInv, TypesInv, DocumentInv, SessionSafe, NEW f \in fetches, DocumentAnswer(f)
  PROVE  SpinInv'
<1>1. view.kind = "document"
  BY DEF DocumentAnswer
<1>2. /\ DocFields \subseteq DOMAIN view /\ view.busy \subseteq {"save", "scrape"}
      /\ \A g \in fetches : g.op = "save" => g.tag.for \in SaveFlags
  BY <1>1, DocSpinTypes
<1>a. ASSUME fetches' = fetches \ {f}
      PROVE  /\ \A g \in fetches :
                  g \in {f} \/ \E h \in fetches' : h.op = g.op /\ Holds(h) = Holds(g)
             /\ \A g \in fetches' : g.op = "save" => g.tag.for \in SaveFlags
  BY <1>2, <1>a
<1>3. CASE LoadAnswer(f)
  <2>1. /\ fetches' = fetches \ {f} /\ f.op = "load"
        /\ view' = [view EXCEPT !.local = f.tag.data, !.loaded = TRUE, !.loading = FALSE,
                                !.dirty = {}, !.busy = @ \ {f.tag.for}]
    BY <1>3 DEF LoadAnswer, Answered
  <2>2. /\ DOMAIN view' = DOMAIN view /\ view'.kind = "document" /\ view'.loading = FALSE
        /\ view'.busy = view.busy \ {Holds(f)}
    BY <1>1, <1>2, <2>1 DEF DocFields, Holds
  <2> QED
    BY <1>1, <1>2, <1>a, <2>1, <2>2, DocSpins
<1>4. CASE SaveAnswer(f)
  <2>0. view.how \in {"campaign", "engine", "settings"} /\ f.op = "save"
    BY <1>1, <1>4 DEF DocumentInv, DocSound, Documents, SaveAnswer
  <2>a. view.how # "engine" => f.tag.for # "switch"
    BY <1>1, <2>0 DEF DocumentInv, CallsSound, Ours
  <2>1. Holds(f) = f.tag.for /\ f.tag.for \in SaveFlags
    BY <1>2, <2>0 DEF Holds
  <2>2. CASE view.how = "campaign"
    <3> DEFINE v == [view EXCEPT !.busy = @ \ {f.tag.for}]
    <3>1. ReloadAfter(f, "page", v)
      BY <1>4, <2>2, <2>a DEF SaveAnswer
    <3>2. /\ DOMAIN v = DOMAIN view /\ v.kind = "document" /\ v.loading = view.loading
          /\ v.busy = view.busy \ {f.tag.for}
      BY <1>1, <1>2 DEF DocFields
    <3> HIDE DEF v
    <3> QED
      BY <1>1, <2>0, <2>1, <3>1, <3>2, ReloadSpins
  <2>3. CASE view.how = "settings"
    <3>1. /\ fetches' = fetches \ {f}
          /\ view' = [view EXCEPT !.busy = {},
                        !.dirty = {p \in @ : view.local[p] # f.tag.data[p]}]
      BY <1>4, <2>3, <2>a DEF SaveAnswer, Answered
    <3>2. /\ DOMAIN view' = DOMAIN view /\ view'.kind = "document" /\ view'.busy = {}
          /\ view'.loading = view.loading
      BY <1>1, <1>2, <3>1 DEF DocFields
    <3> QED
      BY <1>1, <1>a, <2>0, <3>1, <3>2, DocSpins
  <2>4. CASE view.how = "engine" /\ f.tag.for = "switch"
    <3>1. fetches' = fetches \ {f} /\ view' = [view EXCEPT !.local["active"] = Other(@)]
      BY <1>4, <2>4 DEF SaveAnswer, Answered
    <3>2. /\ DOMAIN view' = DOMAIN view /\ view'.kind = "document" /\ view'.busy = view.busy
          /\ view'.loading = view.loading
      BY <1>1, <1>2, <3>1 DEF DocFields
    <3>3. \A flag \in view'.busy : flag \in view.busy /\ \A g \in {f} : Holds(g) # flag
      BY <1>2, <2>1, <2>4, <3>2
    <3> QED
      BY <1>1, <1>2, <1>a, <2>0, <3>1, <3>2, <3>3, DocSpins
  <2>5. CASE view.how = "engine" /\ f.tag.for # "switch"
    <3>1. ReloadAfter(f, "save", view)
      BY <1>4, <2>5 DEF SaveAnswer
    <3>2. Holds(f) \notin view.busy \/ Holds(f) = "save"
      BY <1>2, <2>1 DEF SaveFlags
    <3> QED
      BY <1>1, <2>0, <3>1, <3>2, ReloadSpins
  <2> QED
    BY <2>0, <2>2, <2>3, <2>4, <2>5
<1>5. CASE f.op \in {"toggle", "assign"} /\ ReloadAfter(f, "page", view)
  BY <1>1, <1>2, <1>5, HeldOps, ReloadSpins
<1>6. CASE f.op = "scrape" /\ ReloadAfter(f, "scrape", view)
  BY <1>1, <1>2, <1>6, HeldOps, ReloadSpins
<1> QED
  BY <1>3, <1>4, <1>5, <1>6 DEF DocumentAnswer

(* A call that nobody waits for is over.                                    *)
LEMMA GoneSpins ==
  ASSUME SpinInv, view' = view, fetches' \subseteq fetches,
         \A f \in fetches : f \in fetches' \/ f.op \in {"gone", "late save"}
  PROVE  SpinInv'
<1>1. FlagsApart'
  BY DEF SpinInv, FlagsApart, IsView, OnForm
<1>2. ASSUME NEW f \in fetches, Loads(f)  PROVE f \in fetches' /\ Loads(f)'
  BY <1>2 DEF Loads, LoadingOp, IsView, Dropped
<1>3. ASSUME NEW flag \in view.busy, NEW f \in fetches, Holds(f) = flag  PROVE f \in fetches'
  <2>1. f.op \notin {"gone", "late save"}
    BY <1>3, HeldOps DEF SpinInv, FlagsApart, Flags
  <2> QED
    BY <2>1
<1>4. \A f : Holds(f)' = Holds(f)
  BY DEF Holds
<1> QED
  BY <1>1, <1>2, <1>3, <1>4 DEF SpinInv, SpinnersHaveCalls, Endless, IsView

LEMMA ServeDocumentSpins ==
  ASSUME SpinInv, TypesInv, ComponentOK, DocumentInv, NEW f \in fetches, ServeDocument(f)
  PROVE  SpinInv'
<1> DEFINE answer == IF f.op = "load" THEN [f EXCEPT !.tag.data = view.stored] ELSE f
           kept == [answer EXCEPT !.at = "answered"]
<1>1. f.op \in {"load", "save", "late save"} /\ IsCall(f)
  BY DEF ServeDocument, ComponentOK
<1>2. /\ \/ view' = view
         \/ IsDoc(f.tag.how) /\ view' = [view EXCEPT !.stored = Over(@, f.tag.data)]
      /\ fetches' = (fetches \ {f}) \cup (IF f.op = "late save" THEN {} ELSE {kept})
  BY DEF ServeDocument
<1>5. CASE view.kind = "document"
  <2>1. /\ DocFields \subseteq DOMAIN view /\ view.busy \subseteq {"save", "scrape"}
        /\ \A g \in fetches : g.op = "save" => g.tag.for \in SaveFlags
    BY <1>5, DocSpinTypes
  <2>2. /\ DOMAIN view' = DOMAIN view /\ view'.kind = "document" /\ view'.busy = view.busy
        /\ view'.loading = view.loading
    BY <1>2, <1>5, <2>1 DEF DocFields
  <2>3. kept.op = f.op /\ (f.op \in {"load", "save"} => kept.tag.for = f.tag.for)
    <3>1. CASE f.op = "load"
      <4>1. f.tag.for = [f.tag EXCEPT !.data = view.stored].for
        BY <1>5, <3>1 DEF DocumentInv, CallsSound, Ours
      <4>2. answer.tag = [f.tag EXCEPT !.data = view.stored] /\ answer.op = f.op
            /\ DOMAIN answer = DOMAIN f
        BY <1>1, <3>1 DEF IsCall
      <4> HIDE DEF answer
      <4> QED
        BY <1>1, <4>1, <4>2 DEF IsCall
    <3>2. CASE f.op # "load"
      BY <1>1, <3>2 DEF IsCall
    <3> QED
      BY <3>1, <3>2
  <2> HIDE DEF kept
  <2>4. f.op # "late save" => Holds(kept) = Holds(f)
    BY <1>1, <2>3 DEF Holds
  <2> DEFINE lost == {g \in fetches : g.op = "late save"}
  <2>5. \A g \in fetches : g \in lost \/ \E h \in fetches' : h.op = g.op /\ Holds(h) = Holds(g)
    BY <1>2, <2>3, <2>4
  <2>6. \A g \in fetches' : g.op = "save" => g.tag.for \in SaveFlags
    BY <1>2, <2>1, <2>3
  <2>7. \A g \in lost : g.op # "load" /\ Holds(g) = "late save"
    BY HeldOps
  <2> HIDE DEF lost
  <2>8. \A flag \in view'.busy : flag \in view.busy /\ \A g \in lost : Holds(g) # flag
    BY <2>1, <2>2, <2>7
  <2> QED
    BY <1>5, <2>1, <2>2, <2>5, <2>6, <2>7, <2>8, DocSpins
<1>6. CASE view.kind # "document"
  <2>1. f.op = "late save"
    BY <1>1, <1>6 DEF ComponentOK, OpsOf, OutlivingOf, Outliving
  <2>2. view' = view
    BY <1>2, <1>6 DEF IsDoc
  <2> QED
    BY <1>2, <2>1, <2>2, GoneSpins
<1> QED
  BY <1>5, <1>6

LEMMA DocumentFailedSpins ==
  ASSUME SpinInv, TypesInv, DocumentInv, view.kind = "document", NEW f \in fetches,
         fetches' = fetches \ {f}, Becomes(DocumentFailed(f))
  PROVE  SpinInv'
<1> DEFINE w == DocumentFailed(f)
<1>1. /\ DocFields \subseteq DOMAIN view /\ view.busy \subseteq {"save", "scrape"}
      /\ \A g \in fetches : g.op = "save" => g.tag.for \in SaveFlags
  BY DocSpinTypes
<1>2. /\ DOMAIN w = DOMAIN view /\ w.kind = "document" /\ w.busy = view.busy \ {Holds(f)}
      /\ w.loading => view.loading /\ f.op # "load"
  BY <1>1 DEF DocumentFailed, DocFields
<1> HIDE DEF w
<1>3. DOMAIN view' = DOMAIN w /\ \A x \in DOMAIN w : x # "failures" => view'[x] = w[x]
  BY DEF Becomes, w
<1>4. /\ DOMAIN view' = DOMAIN view /\ view'.kind = "document"
      /\ view'.busy = view.busy \ {Holds(f)}
      /\ view'.loading => view.loading /\ f.op # "load"
  BY <1>1, <1>2, <1>3 DEF DocFields
<1>5. \A g \in fetches : g \in {f} \/ \E h \in fetches' : h.op = g.op /\ Holds(h) = Holds(g)
  OBVIOUS
<1>6. view'.loading => view.loading /\ \A g \in {f} : g.op # "load"
  BY <1>4
<1>7. \A flag \in view'.busy : flag \in view.busy /\ \A g \in {f} : Holds(g) # flag
  BY <1>4
<1> QED
  BY <1>1, <1>4, <1>5, <1>6, <1>7, DocSpins
-----------------------------------------------------------------------------
(* The forms and the sections: their calls hold flags of their own name.    *)
Without(lost) ==
  \A f \in fetches : f \in lost \/ \E g \in fetches' : g.op = f.op /\ Holds(g) = Holds(f)

Made(op) == \E g \in fetches' : g.op = op /\ Holds(g) = op

(* What stays on the screen when some calls are lost and one is made.       *)
StaysBy(lost, op) ==
  /\ view'.loading => (view.loading /\ \A f \in lost : f.op # LoadingOp) \/ op = LoadingOp
  /\ \A flag \in view'.busy :
       (flag \in view.busy /\ \A f \in lost : Holds(f) # flag) \/ flag = op

LEMMA PartSpins ==
  ASSUME SpinInv, view.kind \in {"form", "section"}, DOMAIN view' = DOMAIN view,
         view'.kind = view.kind, view'.how = view.how, view'.busy \subseteq Flags,
         OnForm(FormPages \ {"clients"}) => view'.busy = {},
         NEW lost, Without(lost), NEW op, StaysBy(lost, op),
         op = "none" \/ Made(op)
  PROVE  SpinInv'
<1>1. FlagsApart'
  BY DEF SpinInv, FlagsApart, IsView, OnForm
<1>2. LoadingOp # "none" /\ ~IsView
  BY DEF LoadingOp, IsView
<1>3. "none" \notin view'.busy
  BY DEF Flags
<1>4. view'.loading => \/ view.loading /\ \A f \in lost : f.op # LoadingOp
                       \/ \E g \in fetches' : g.op = LoadingOp
  BY <1>2 DEF StaysBy, Made
<1>5. \A flag \in view'.busy :
        \/ flag \in view.busy /\ \A f \in lost : Holds(f) # flag
        \/ \E g \in fetches' : Holds(g) = flag
  BY <1>3 DEF StaysBy, Made
<1> QED
  BY <1>1, <1>2, <1>4, <1>5, SpinsOn DEF Without

LEMMA MadeAlong ==
  ASSUME SessionSafe, NEW lost, NEW op, op \notin {"load", "save"}, NEW tag,
         RequestAlong(fetches \ lost, {Call(op, tag)})
  PROVE  Without(lost) /\ Made(op)
<1>1. /\ \A f \in fetches \ lost : \E g \in fetches' : g.op = f.op /\ Holds(g) = Holds(f)
      /\ \E g \in fetches' : g.op = op /\ g.tag = tag
  BY KeptAlongOne
<1>2. \A g : g.op = op => Holds(g) = op
  BY HeldOps
<1> QED
  BY <1>1, <1>2 DEF Without, Made

LEMMA NoneMade ==
  ASSUME fetches' = fetches
  PROVE  Without({})
BY DEF Without

LEMMA OneLost ==
  ASSUME NEW f, fetches' = fetches \ {f}
  PROVE  Without({f})
BY DEF Without

(* The forms.                                                               *)
LEMMA FormFlags ==
  ASSUME SpinInv, TypesInv, view.kind = "form"
  PROVE  /\ LoadingOp = "list" /\ view.busy \subseteq {"create"} /\ view.busy \subseteq Flags
         /\ view.how # "clients" <=> OnForm(FormPages \ {"clients"})
         /\ view.how # "clients" => view.busy = {}
<1>1. view.how # "clients" <=> OnForm(FormPages \ {"clients"})
  BY FormTypes DEF OnForm
<1>2. view.busy \subseteq {"create"}
  BY FormTypes DEF FormFieldsTyped
<1> QED
  BY <1>1, <1>2 DEF LoadingOp, SpinInv, FlagsApart

LEMMA ModalSpins ==
  ASSUME SpinInv, TypesInv,
         OpenNew \/ OpenEmpty \/ (\E k \in Keys : OpenEdit(k)) \/ Fill \/ Close \/ Ask \/ Decline
  PROVE  SpinInv'
<1>1. view.kind = "form" /\ fetches' = fetches
  BY DEF OpenNew, OpenEmpty, OpenEdit, Fill, Close, Ask, Decline, OnForm
<1>2. FormFields \subseteq DOMAIN view
  BY <1>1, FormTypes
<1>3. \/ \E v \in {view, Blanked(view)}, open \in BOOLEAN : view' = [v EXCEPT !.open = open]
      \/ \E k \in Keys : view' = [Blanked(view) EXCEPT !.open = TRUE, !.editing = k,
                                                       !.about = k, !.filled = TRUE]
      \/ view' = [view EXCEPT !.filled = TRUE, !.sends = 0, !.errors = 0]
      \/ \E op : view' = [view EXCEPT !.asked = op]
  <2>1. CASE OpenNew
    BY <2>1 DEF OpenNew
  <2>2. CASE OpenEmpty
    BY <2>2 DEF OpenEmpty
  <2>3. CASE \E k \in Keys : OpenEdit(k)
    BY <2>3 DEF OpenEdit
  <2>4. CASE Fill
    BY <2>4 DEF Fill
  <2>5. CASE Close
    BY <2>5 DEF Close
  <2>6. CASE Ask \/ Decline
    BY <2>6 DEF Ask, Decline
  <2> QED
    BY <2>1, <2>2, <2>3, <2>4, <2>5, <2>6
<1>4. /\ DOMAIN view' = DOMAIN view /\ view'.kind = view.kind /\ view'.how = view.how
      /\ view'.busy = view.busy /\ view'.loading = view.loading
  <2>0. CASE \E open \in BOOLEAN : view' = [view EXCEPT !.open = open]
    BY <1>2, <2>0 DEF FormFields
  <2>1. CASE \E open \in BOOLEAN : view' = [Blanked(view) EXCEPT !.open = open]
    BY <1>2, <2>1 DEF FormFields, Blanked
  <2>2. CASE \E k \in Keys : view' = [Blanked(view) EXCEPT !.open = TRUE, !.editing = k,
                                                           !.about = k, !.filled = TRUE]
    BY <1>2, <2>2 DEF FormFields, Blanked
  <2>3. CASE view' = [view EXCEPT !.filled = TRUE, !.sends = 0, !.errors = 0]
    BY <1>2, <2>3 DEF FormFields
  <2>4. CASE \E op : view' = [view EXCEPT !.asked = op]
    BY <1>2, <2>4 DEF FormFields
  <2> QED
    BY <1>3, <2>0, <2>1, <2>2, <2>3, <2>4
<1>5. Without({}) /\ StaysBy({}, "none")
  BY <1>1, <1>4, NoneMade DEF StaysBy
<1> QED
  BY <1>1, <1>4, <1>5, FormFlags, PartSpins

(* A call is made, and holds a flag only on the page of the clients.        *)
LEMMA FormAskSpins ==
  ASSUME SpinInv, TypesInv, SessionSafe, view.kind = "form", DOMAIN view' = DOMAIN view,
         view'.kind = view.kind, view'.how = view.how, NEW lost, NEW op, op \notin {"load", "save"},
         NEW tag, RequestAlong(fetches \ lost, {Call(op, tag)}), StaysBy(lost, op),
         \/ view'.busy \subseteq view.busy
         \/ view.how = "clients" /\ view'.busy = {"create"}
  PROVE  SpinInv'
<1>1. Without(lost) /\ Made(op)
  BY MadeAlong
<1>2. view'.busy \subseteq Flags /\ (OnForm(FormPages \ {"clients"}) => view'.busy = {})
  BY FormFlags DEF Flags
<1> QED
  BY <1>1, <1>2, PartSpins

LEMMA UserFormSpins ==
  ASSUME SpinInv, TypesInv, SessionSafe, UserFormStep
  PROVE  SpinInv'
<1>0. fetches \ {} = fetches
  OBVIOUS
<1>1. CASE SaveForm
  <2>1. view.kind = "form"
    BY <1>1 DEF SaveForm, OnForm
  <2>2. /\ FormFields \subseteq DOMAIN view /\ ClientsCome
    BY <2>1, FormTypes
  <2>3. PICK op, tag : /\ RequestAlong(fetches, {Call(op, tag)}) /\ op \in {"create", "update"}
                       /\ op = "create" <=> view.editing = NoKey
    <3>1. CASE view.editing = NoKey
      BY <1>1, <3>1 DEF SaveForm, Request
    <3>2. CASE view.editing # NoKey
      BY <1>1, <3>2 DEF SaveForm, Request
    <3> QED
      BY <3>1, <3>2
  <2>4. CASE view.how = "clients"
    <3>1. view' = [view EXCEPT !.busy = {"create"}, !.sends = @ + 1] /\ op = "create"
      BY <1>1, <2>1, <2>2, <2>3, <2>4 DEF SaveForm, OnForm, ClientsCome
    <3>2. /\ DOMAIN view' = DOMAIN view /\ view'.kind = view.kind /\ view'.how = view.how
          /\ view'.busy = {"create"} /\ view'.loading = view.loading
      BY <2>2, <3>1 DEF FormFields
    <3>3. StaysBy({}, op)
      BY <3>1, <3>2 DEF StaysBy
    <3> QED
      BY <1>0, <2>1, <2>3, <2>4, <3>1, <3>2, <3>3, FormAskSpins
  <2>5. CASE view.how # "clients"
    <3>1. view' = view
      BY <1>1, <2>5 DEF SaveForm, OnForm
    <3>2. StaysBy({}, op)
      BY <3>1 DEF StaysBy
    <3> QED
      BY <1>0, <2>1, <2>3, <3>1, <3>2, FormAskSpins
  <2> QED
    BY <2>4, <2>5
<1>2. CASE Confirm \/ ActOnItem
  <2>1. /\ view.kind = "form" /\ view' = view
        /\ \E op \in {"remove", "convert", "status", "toggle"} :
             RequestAlong(fetches, {Call(op, NoKey)})
    <3>1. CASE Confirm
      <4>1. view.kind = "form" /\ view.asked \in {"remove", "convert"}
        BY <3>1, FormTypes DEF Confirm, OnForm, FormFieldsTyped
      <4> QED
        BY <3>1, <4>1 DEF Confirm, Request
    <3>2. CASE ActOnItem
      BY <3>2 DEF ActOnItem, OnForm, Request
    <3> QED
      BY <1>2, <3>1, <3>2
  <2>2. \A op : StaysBy({}, op)
    BY <2>1 DEF StaysBy
  <2> QED
    BY <1>0, <2>1, <2>2, FormAskSpins
<1>3. CASE RelistForm
  <2>1. /\ view.kind = "form" /\ RequestAlong(fetches, {Call("list", NoKey)})
        /\ view' = [view EXCEPT !.failed = FALSE, !.loading = @ \/ view.how = "clients"]
    BY <1>3 DEF RelistForm, OnForm, Request, Reread
  <2>2. /\ DOMAIN view' = DOMAIN view /\ view'.kind = view.kind /\ view'.how = view.how
        /\ view'.busy = view.busy
    BY <2>1, FormTypes DEF FormFields
  <2>3. StaysBy({}, "list")
    BY <2>1, <2>2, FormFlags DEF StaysBy
  <2> QED
    BY <1>0, <2>1, <2>2, <2>3, FormAskSpins
<1> QED
  BY <1>1, <1>2, <1>3, ModalSpins DEF UserFormStep

LEMMA FormAnswerSpins ==
  ASSUME SpinInv, TypesInv, SessionSafe, NEW f \in fetches, FormAnswer(f)
  PROVE  SpinInv'
<1>1. view.kind = "form"
  BY DEF FormAnswer
<1>2. FormFields \subseteq DOMAIN view
  BY <1>1, FormTypes
<1>3. CASE f.op = "list"
  <2>1. PICK found \in BOOLEAN : /\ view' = [view EXCEPT !.listed = found, !.loading = FALSE]
                                 /\ fetches' = fetches \ {f}
    BY <1>3 DEF FormAnswer, Answered
  <2>2. /\ DOMAIN view' = DOMAIN view /\ view'.kind = view.kind /\ view'.how = view.how
        /\ view'.busy = view.busy /\ view'.loading = FALSE
    BY <1>2, <2>1 DEF FormFields
  <2>3. StaysBy({f}, "none")
    BY <1>1, <1>3, <2>2, HeldOps, FormFlags DEF StaysBy
  <2> QED
    BY <1>1, <2>1, <2>2, <2>3, OneLost, FormFlags, PartSpins
<1>4. CASE f.op \in {"create", "update", "remove", "convert", "status", "toggle"}
  <2> DEFINE v == AfterSave(f.op)
  <2>1. view' = Listing(v) /\ RequestAlong(fetches \ {f}, {Call("list", NoKey)})
    BY <1>4 DEF FormAnswer, Reread
  <2>2. /\ DOMAIN v = DOMAIN view /\ v.kind = view.kind /\ v.how = view.how
        /\ v.busy = IF f.op \in {"create", "update"} THEN {} ELSE view.busy
    BY <1>2, <1>4 DEF AfterSave, Blanked, FormFields
  <2> HIDE DEF v
  <2>3. /\ DOMAIN view' = DOMAIN view /\ view'.kind = view.kind /\ view'.how = view.how
        /\ view'.busy = IF f.op \in {"create", "update"} THEN {} ELSE view.busy
    BY <1>2, <2>1, <2>2 DEF Listing, FormFields
  <2>4. StaysBy({f}, "list")
    <3>1. Holds(f) = f.op
      BY <1>4, HeldOps
    <3>2. \A flag \in view'.busy : flag \in view.busy /\ Holds(f) # flag
      BY <1>1, <1>4, <2>3, <3>1, FormFlags
    <3> QED
      BY <1>1, <3>2, FormFlags DEF StaysBy
  <2>5. view'.busy \subseteq view.busy
    BY <2>3
  <2> QED
    BY <1>1, <2>1, <2>3, <2>4, <2>5, FormAskSpins
<1> QED
  BY <1>3, <1>4 DEF FormAnswer

LEMMA FormFailedSpins ==
  ASSUME SpinInv, TypesInv, ComponentOK, view.kind = "form", NEW f \in fetches,
         fetches' = fetches \ {f}, Becomes(FormFailed(f))
  PROVE  SpinInv'
<1> DEFINE w == FormFailed(f)
<1>1. FormFields \subseteq DOMAIN view
  BY FormTypes
<1>2. /\ DOMAIN w = DOMAIN view /\ w.kind = view.kind /\ w.how = view.how
      /\ w.busy \subseteq view.busy \ {f.op}
      /\ w.loading => view.loading /\ f.op # "list"
  <2>1. CASE f.op = "list"
    <3>1. w = [view EXCEPT !.loading = FALSE, !.failed = TRUE]
      BY <2>1 DEF FormFailed
    <3> HIDE DEF w
    <3> QED
      BY <1>1, <2>1, <3>1, FormFlags DEF FormFields
  <2>2. CASE f.op = "create" /\ view.how = "clients"
    <3>1. w = [view EXCEPT !.busy = {}, !.errors = IF view.sends > 0 THEN @ + 1 ELSE @]
      BY <2>2 DEF FormFailed
    <3> HIDE DEF w
    <3> QED
      BY <1>1, <2>2, <3>1 DEF FormFields
  <2>3. CASE f.op # "list" /\ ~(f.op = "create" /\ view.how = "clients")
    <3>1. w = view
      BY <2>3 DEF FormFailed
    <3> HIDE DEF w
    <3> QED
      BY <2>3, <3>1, FormFlags
  <2> QED
    BY <2>1, <2>2, <2>3
<1>3. DOMAIN view' = DOMAIN w /\ \A x \in DOMAIN w : x # "failures" => view'[x] = w[x]
  BY DEF Becomes
<1> HIDE DEF w
<1>4. /\ DOMAIN view' = DOMAIN view /\ view'.kind = view.kind /\ view'.how = view.how
      /\ view'.busy \subseteq view.busy \ {f.op}
      /\ view'.loading => view.loading /\ f.op # "list"
  BY <1>1, <1>2, <1>3 DEF FormFields
<1>5. Holds(f) = f.op
  BY HeldOps DEF ComponentOK, OpsOf, OutlivingOf, Outliving
<1>6. StaysBy({f}, "none")
  BY <1>4, <1>5, FormFlags DEF StaysBy
<1>7. view'.busy \subseteq Flags /\ (OnForm(FormPages \ {"clients"}) => view'.busy = {})
  BY <1>4, FormFlags
<1> QED
  BY <1>4, <1>6, <1>7, OneLost, PartSpins

(* The sections.                                                            *)
LEMMA PressSpins ==
  ASSUME SpinInv, TypesInv, view.kind = "section", NEW op \in Flags \ {"loading"}, NEW tag, NEW v,
         Press(op, tag, v), DOMAIN v = DOMAIN view, v.kind = view.kind, v.how = view.how,
         v.loading = view.loading, v.busy \subseteq view.busy, op \notin {"load", "save"}
  PROVE  SpinInv'
<1>1. view' = [v EXCEPT !.busy = @ \cup {op}]
  BY DEF Press
<1>2. {"kind", "how", "busy", "loading"} \subseteq DOMAIN view /\ view.busy \subseteq Flags
  BY SectionTypes DEF SpinInv, FlagsApart
<1>3. /\ DOMAIN view' = DOMAIN view /\ view'.kind = view.kind /\ view'.how = view.how
      /\ view'.loading = view.loading /\ view'.busy = v.busy \cup {op}
  BY <1>1, <1>2
<1>4. PICK g : fetches' = fetches \cup {g} /\ g.op = op
  BY RawFacts DEF Press
<1>5. Without({}) /\ Made(op)
  BY <1>4, HeldOps DEF Without, Made
<1>6. StaysBy({}, op)
  BY <1>3 DEF StaysBy
<1>7. view'.busy \subseteq Flags /\ ~OnForm(FormPages \ {"clients"})
  BY <1>2, <1>3 DEF OnForm
<1> QED
  BY <1>3, <1>5, <1>6, <1>7, PartSpins

LEMMA UserSectionSpins ==
  ASSUME SpinInv, TypesInv, UserSectionStep
  PROVE  SpinInv'
<1>0. view.kind = "section"
  BY DEF UserSectionStep, SearchNumbers, BuyNumber, TestCRM, ConnectCRM, HasKey, ChooseCRM,
         TypeKey, ChooseBusiness, SubmitBusiness, NeedsInfo, Subscribe, OpenPortal, At
<1>a. {"kind", "how", "busy", "loading"} \subseteq DOMAIN view
  BY <1>0, SectionTypes DEF SpinInv, FlagsApart
<1> DEFINE Calm(v) == /\ DOMAIN v = DOMAIN view /\ v.kind = view.kind /\ v.how = view.how
                      /\ v.loading = view.loading /\ v.busy \subseteq view.busy
<1>b. Calm(view) /\ Calm(Untested(view)) /\ Calm(Counted(view))
  BY <1>a DEF Untested, Counted
<1>c. /\ Calm([view EXCEPT !.numbers = FALSE]) /\ Calm([view EXCEPT !.busy = {}])
      /\ \A excused : Calm([Untested(view) EXCEPT !.excused = excused])
  BY <1>a DEF Untested
<1>1. ASSUME NEW op \in {"search", "buy", "test", "connect", "submit", "checkout", "portal"},
             NEW tag, NEW v, Press(op, tag, v), Calm(v)
      PROVE SpinInv'
  BY <1>0, <1>1, PressSpins DEF Flags
<1> HIDE DEF Calm
<1>2. CASE \/ SearchNumbers \/ BuyNumber \/ TestCRM \/ ConnectCRM \/ SubmitBusiness
           \/ Subscribe \/ OpenPortal
  <2>1. CASE SearchNumbers \/ BuyNumber
    BY <1>b, <1>c, <1>1, <2>1 DEF SearchNumbers, BuyNumber
  <2>2. CASE TestCRM
    BY <1>c, <1>1, <2>2 DEF TestCRM
  <2>3. CASE ConnectCRM \/ SubmitBusiness
    BY <1>b, <1>1, <2>3 DEF ConnectCRM, SubmitBusiness
  <2>4. CASE Subscribe \/ OpenPortal
    BY <1>b, <1>c, <1>1, <2>4 DEF Subscribe, OpenPortal
  <2> QED
    BY <1>2, <2>1, <2>2, <2>3, <2>4
<1>3. ASSUME \/ \E type \in CRMs : ChooseCRM(type)
             \/ \E k \in Keys : TypeKey(k)
             \/ ChooseBusiness
      PROVE  SpinInv'
  <2>1. /\ fetches' = fetches
        /\ \/ \E type, excused :
                view' = [Untested(view) EXCEPT !.crmType = type, !.excused = excused]
           \/ \E k : view' = [view EXCEPT !.apiKey = k, !.excused = TRUE]
           \/ view' = [view EXCEPT !.chosen = TRUE]
    BY <1>3 DEF ChooseCRM, TypeKey, ChooseBusiness
  <2>2. /\ DOMAIN view' = DOMAIN view /\ view'.kind = view.kind /\ view'.how = view.how
        /\ view'.loading = view.loading /\ view'.busy = view.busy
    BY <1>a, <2>1 DEF Untested
  <2>3. Without({}) /\ StaysBy({}, "none")
    BY <2>1, <2>2, NoneMade DEF StaysBy
  <2>4. view'.busy \subseteq Flags /\ ~OnForm(FormPages \ {"clients"})
    BY <1>0, <2>2 DEF SpinInv, FlagsApart, OnForm
  <2> QED
    BY <1>0, <2>2, <2>3, <2>4, PartSpins
<1> QED
  BY <1>2, <1>3 DEF UserSectionStep

(* A call is over, and its flag with it.                                    *)
LEMMA SectionEndSpins ==
  ASSUME SpinInv, ComponentOK, view.kind = "section", NEW f \in fetches, fetches' = fetches \ {f},
         DOMAIN view' = DOMAIN view, view'.kind = view.kind, view'.how = view.how,
         view'.busy \subseteq view.busy \ {f.op},
         view'.loading => view.loading /\ f.op # "billing"
  PROVE  SpinInv'
<1>1. LoadingOp = "billing" /\ ~OnForm(FormPages \ {"clients"})
  BY DEF LoadingOp, OnForm
<1>2. Holds(f) = f.op
  BY HeldOps DEF ComponentOK, OpsOf, OutlivingOf, Outliving
<1>3. StaysBy({f}, "none")
  BY <1>1, <1>2 DEF StaysBy
<1>4. view'.busy \subseteq Flags
  BY DEF SpinInv, FlagsApart
<1> QED
  BY <1>1, <1>3, <1>4, OneLost, PartSpins

LEMMA ServeSectionSpins ==
  ASSUME SpinInv, TypesInv, ComponentOK, NEW f \in fetches, ServeSection(f)
  PROVE  SpinInv'
<1> DEFINE kept == [f EXCEPT !.at = "answered"]
<1>1. /\ view.kind = "section" /\ fetches' = (fetches \ {f}) \cup {kept}
      /\ \/ view' = [view EXCEPT !.has = TRUE]
         \/ \E status : view' = [view EXCEPT !.stored = status]
  BY DEF ServeSection
<1>2. kept.op = f.op /\ kept.tag = f.tag
  BY DEF ComponentOK, IsCall
<1> HIDE DEF kept
<1>3. Holds(kept) = Holds(f)
  BY <1>2, Held
<1>4. {"kind", "how", "busy", "loading"} \subseteq DOMAIN view
  BY <1>1, SectionTypes DEF SpinInv, FlagsApart
<1>5. /\ DOMAIN view' = DOMAIN view /\ view'.kind = view.kind /\ view'.how = view.how
      /\ view'.loading = view.loading /\ view'.busy = view.busy
  BY <1>1, <1>4
<1>6. Without({})
  BY <1>1, <1>2, <1>3 DEF Without
<1>7. StaysBy({}, "none")
  BY <1>5 DEF StaysBy
<1>8. view'.busy \subseteq Flags /\ ~OnForm(FormPages \ {"clients"})
  BY <1>1, <1>5 DEF SpinInv, FlagsApart, OnForm
<1> QED
  BY <1>1, <1>5, <1>6, <1>7, <1>8, PartSpins

LEMMA SectionAnswerSpins ==
  ASSUME SpinInv, TypesInv, ComponentOK, NEW f \in fetches, SectionAnswer(f)
  PROVE  SpinInv'
<1>1. view.kind = "section" /\ fetches' = fetches \ {f}
  BY DEF SectionAnswer, Answered
<1>2. /\ {"kind", "how", "busy", "loading"} \subseteq DOMAIN view
      /\ "billing" \notin view.busy
  BY <1>1, SectionTypes DEF SpinInv, FlagsApart, Flags
<1>3. \/ f.op = "search" /\ view' = [view EXCEPT !.numbers = TRUE, !.busy = @ \ {"search"}]
      \/ f.op = "buy" /\ view' = [view EXCEPT !.known = TRUE, !.busy = @ \ {"buy"}]
      \/ f.op \in {"test", "connect"} /\ view' = [Tested(f) EXCEPT !.busy = @ \ {f.op}]
      \/ f.op = "test" /\ view' = [Untested(view) EXCEPT !.busy = @ \ {"test"}]
      \/ f.op \in {"buy", "submit"} /\ view' = [view EXCEPT !.busy = @ \ {f.op}, !.errors = @ + 1]
      \/ /\ f.op = "submit"
         /\ view' = [view EXCEPT !.status = view.stored, !.typed = TRUE,
                                 !.submitted = TRUE, !.busy = {}]
      \/ f.op = "billing" /\ view' = [view EXCEPT !.known = view.status, !.loading = FALSE]
      \/ f.op \in {"checkout", "portal"} /\ view' = [view EXCEPT !.leaving = TRUE, !.busy = {}]
  BY DEF SectionAnswer
<1>4. /\ DOMAIN view' = DOMAIN view /\ view'.kind = view.kind /\ view'.how = view.how
      /\ view'.busy \subseteq view.busy \ {f.op}
      /\ view'.loading => view.loading /\ f.op # "billing"
  <2>1. CASE f.op = "search" /\ view' = [view EXCEPT !.numbers = TRUE, !.busy = @ \ {"search"}]
    BY <1>2, <2>1
  <2>2. CASE f.op = "buy" /\ view' = [view EXCEPT !.known = TRUE, !.busy = @ \ {"buy"}]
    BY <1>2, <2>2
  <2>3. CASE f.op \in {"test", "connect"} /\ view' = [Tested(f) EXCEPT !.busy = @ \ {f.op}]
    BY <1>2, <2>3 DEF Tested
  <2>4. CASE f.op = "test" /\ view' = [Untested(view) EXCEPT !.busy = @ \ {"test"}]
    BY <1>2, <2>4 DEF Untested
  <2>5. CASE /\ f.op \in {"buy", "submit"}
             /\ view' = [view EXCEPT !.busy = @ \ {f.op}, !.errors = @ + 1]
    BY <1>2, <2>5
  <2>6. CASE /\ f.op = "submit"
             /\ view' = [view EXCEPT !.status = view.stored, !.typed = TRUE,
                                     !.submitted = TRUE, !.busy = {}]
    BY <1>2, <2>6
  <2>7. CASE f.op = "billing" /\ view' = [view EXCEPT !.known = view.status, !.loading = FALSE]
    BY <1>2, <2>7
  <2>8. CASE /\ f.op \in {"checkout", "portal"}
             /\ view' = [view EXCEPT !.leaving = TRUE, !.busy = {}]
    BY <1>2, <2>8
  <2> QED
    BY <1>3, <2>1, <2>2, <2>3, <2>4, <2>5, <2>6, <2>7, <2>8
<1> QED
  BY <1>1, <1>4, SectionEndSpins

LEMMA SectionFailedSpins ==
  ASSUME SpinInv, TypesInv, ComponentOK, view.kind = "section", NEW f \in fetches,
         fetches' = fetches \ {f}, Becomes(SectionFailed(f))
  PROVE  SpinInv'
<1> DEFINE w == SectionFailed(f)
<1>1. /\ {"kind", "how", "busy", "loading"} \subseteq DOMAIN view
      /\ view.busy \subseteq Flags
  BY SectionTypes DEF SpinInv, FlagsApart
<1>2. /\ DOMAIN w = DOMAIN view /\ w.kind = view.kind /\ w.how = view.how
      /\ w.busy \subseteq view.busy \ {f.op}
      /\ w.loading => view.loading /\ f.op # "billing"
  <2>1. CASE f.op \in {"connect", "test"}
    <3>1. w = [Untested(view) EXCEPT !.busy = @ \ {f.op}]
      BY <2>1 DEF SectionFailed
    <3> HIDE DEF w
    <3> QED
      BY <1>1, <2>1, <3>1 DEF Untested
  <2>2. CASE f.op = "search"
    <3>1. w = [view EXCEPT !.busy = @ \ {"search"}]
      BY <2>2 DEF SectionFailed
    <3> HIDE DEF w
    <3> QED
      BY <1>1, <2>2, <3>1
  <2>3. CASE f.op \in {"buy", "submit"}
    <3>1. w = [view EXCEPT !.busy = @ \ {f.op}, !.errors = @ + 1]
      BY <2>3 DEF SectionFailed
    <3> HIDE DEF w
    <3> QED
      BY <1>1, <2>3, <3>1
  <2>4. CASE f.op = "billing"
    <3>1. w = [view EXCEPT !.loading = FALSE]
      BY <2>4 DEF SectionFailed
    <3> HIDE DEF w
    <3> QED
      BY <1>1, <2>4, <3>1 DEF Flags
  <2>5. CASE f.op \in {"checkout", "portal"}
    <3>1. w = [view EXCEPT !.busy = {}]
      BY <2>5 DEF SectionFailed
    <3> HIDE DEF w
    <3> QED
      BY <1>1, <2>5, <3>1
  <2>6. CASE f.op \notin {"connect", "test", "search", "buy", "submit", "billing", "checkout",
                          "portal"}
    <3>1. w = view
      BY <2>6 DEF SectionFailed
    <3>2. f.op = "gone"
      BY <2>6 DEF ComponentOK, OpsOf, OutlivingOf, Outliving
    <3> HIDE DEF w
    <3> QED
      BY <1>1, <3>1, <3>2 DEF Flags
  <2> QED
    BY <2>1, <2>2, <2>3, <2>4, <2>5, <2>6
<1>3. DOMAIN view' = DOMAIN w /\ \A x \in DOMAIN w : x # "failures" => view'[x] = w[x]
  BY DEF Becomes
<1> HIDE DEF w
<1>4. /\ DOMAIN view' = DOMAIN view /\ view'.kind = view.kind /\ view'.how = view.how
      /\ view'.busy \subseteq view.busy \ {f.op}
      /\ view'.loading => view.loading /\ f.op # "billing"
  BY <1>1, <1>2, <1>3
<1> QED
  BY <1>4, SectionEndSpins

-----------------------------------------------------------------------------
(* The shared refresh ends: only calls that nobody waits for are forgotten. *)
LEMMA RefreshSpins ==
  ASSUME SpinInv, TypesInv, ComponentOK, DocumentInv, NEW granted, RefreshEnds(granted),
         view' = view
  PROVE  SpinInv'
<1>1. \A f \in fetches : f.op # "gone" => \E g \in fetches' : g.op = f.op /\ g.tag = f.tag
  BY RefreshMoves
<1>2. \A g \in fetches' : \E f \in fetches : g.op = f.op /\ g.tag = f.tag
  BY RefreshMoves
<1>3. \A f \in fetches : \A g : g.op = f.op /\ g.tag = f.tag => Holds(g) = Holds(f)
  BY Held
<1> DEFINE lost == {f \in fetches : f.op = "gone"}
<1>4. \A f \in fetches : f \in lost \/ \E g \in fetches' : g.op = f.op /\ Holds(g) = Holds(f)
  BY <1>1, <1>3
<1>5. \A f \in lost : f.op = "gone" /\ Holds(f) = "gone"
  BY HeldOps
<1> HIDE DEF lost
<1>6. FlagsApart'
  BY <1>2 DEF SpinInv, FlagsApart, IsView, OnForm
<1>7. CASE IsView
  <2>1. view.loading => \/ view.how.awaits /\ view.failed
                        \/ \E g \in fetches' : g.op = "get" /\ (view.how.drops => g.tag = view'.key)
    BY <1>1, <1>7, ViewHasCall
  <2> QED
    BY <1>7, <2>1, ViewSpins
<1>8. CASE ~IsView
  <2>1. view'.loading => view.loading /\ \A f \in lost : f.op # LoadingOp
    BY <1>5 DEF LoadingOp
  <2>2. \A flag \in view'.busy : flag \in view.busy /\ \A f \in lost : Holds(f) # flag
    BY <1>5 DEF SpinInv, FlagsApart, Flags
  <2> QED
    BY <1>4, <1>6, <1>8, <2>1, <2>2, SpinsOn
<1> QED
  BY <1>7, <1>8

-----------------------------------------------------------------------------
(* A component is mounted.                                                  *)
LEMMA OpeningViews ==
  ASSUME NEW p, NEW how \in ViewsOf(p)
  PROVE  /\ {how.opens, how.drops} \subseteq BOOLEAN
         /\ how.opens => ~how.drops
<1> DEFINE Apart(h) == {h.opens, h.drops} \subseteq BOOLEAN /\ (h.opens => ~h.drops)
<1> USE DEF Plain
<1>1. Apart(Dashboard) /\ Apart(LeadFeed) /\ Apart(Bookings)
  BY DEF Dashboard, LeadFeed, Bookings
<1>2. Apart(Reports) /\ Apart(ROI) /\ Apart(Compliance) /\ Apart(MetricDetails)
  BY DEF Reports, ROI, Compliance, MetricDetails
<1>3. Apart(AdminCommandCenter) /\ Apart(AdminOverview) /\ Apart(AdminLeads)
        /\ Apart(AdminRevenue) /\ Apart(AdminInsights) /\ Apart(AdminAnalytics)
  BY DEF AdminCommandCenter, AdminOverview, AdminLeads, AdminRevenue, AdminInsights,
         AdminAnalytics
<1>4. \A h \in AgentViews : Apart(h)
  BY DEF AgentViews, AgentFleet, SystemMap, TaskQueueMonitor, CostDashboard, ActivityTimeline,
         AgentDetailPanel
<1>5. Apart(AdminClientDetail) /\ Apart(CampaignProspects)
        /\ Apart(CampaignAnalytics) /\ Apart(WorkerStatus)
  BY DEF AdminClientDetail, CampaignProspects, CampaignAnalytics, WorkerStatus
<1> HIDE DEF Apart
<1>6. Apart(how)
  BY <1>1, <1>2, <1>3, <1>4, <1>5 DEF ViewsOf
<1> QED
  BY <1>6 DEF Apart

(* Nothing is busy, and what the skeleton waits for is asked for.           *)
LEMMA MountSpins ==
  ASSUME {"kind", "busy", "loading"} \subseteq DOMAIN view', view'.kind # "nothing",
         view'.busy = {},
         IsView' => (view'.how.opens => ~view'.how.drops),
         view'.kind = "document" => \A g \in fetches' : g.op # "save",
         view'.loading => \E g \in fetches' : Loads(g)'
  PROVE  SpinInv'
BY DEF SpinInv, FlagsApart, SpinnersHaveCalls, IsView, OnForm

LEMMA MountViewSpins ==
  ASSUME SessionSafe, NEW how \in ViewsOf(page), MountView(how)
  PROVE  SpinInv'
<1> DEFINE cs == Gets({View(how).key} \ {NoKey})
<1>1. view' = View(how) /\ Request(cs)
  BY DEF MountView
<1>2. how.opens \in BOOLEAN /\ (how.opens => ~how.drops)
  BY OpeningViews
<1>3. /\ view'.kind = "view" /\ view'.how = how /\ view'.busy = {} /\ view'.loading = ~how.opens
      /\ view'.key = (IF how.opens THEN NoKey ELSE FirstKey)
      /\ {"kind", "busy", "loading"} \subseteq DOMAIN view'
  BY <1>1 DEF View
<1>4. ASSUME view'.loading  PROVE \E g \in fetches' : Loads(g)'
  <2>1. view'.key = FirstKey /\ FirstKey # NoKey /\ View(how).key = view'.key
    BY <1>1, <1>2, <1>3, <1>4, KeysAssumption
  <2>2. {View(how).key} \ {NoKey} = {view'.key}
    BY <2>1
  <2>3. \E g \in fetches' : g.op = "get" /\ g.tag = view'.key
    BY <1>1, <2>2, GetsMade
  <2> QED
    BY <1>3, <2>3 DEF Loads, LoadingOp, Dropped, IsView
<1> QED
  BY <1>2, <1>3, <1>4, MountSpins DEF IsView

LEMMA MountOneSpins ==
  ASSUME SessionSafe, NEW op, NEW tag, Request({Call(op, tag)}),
         {"kind", "busy", "loading"} \subseteq DOMAIN view', view'.busy = {},
         \/ view'.kind = "document" /\ op = "load" /\ \A f \in fetches : f.op # "save"
         \/ view'.kind = "form" /\ op = "list"
  PROVE  SpinInv'
<1>1. PICK g : fetches' = fetches \cup {g} /\ g.op = op /\ g.tag = tag
  BY RequestOne DEF Request
<1>2. Loads(g)'
  BY <1>1 DEF Loads, LoadingOp, IsView
<1> QED
  BY <1>1, <1>2, MountSpins DEF IsView

LEMMA OpenSpins ==
  ASSUME SessionSafe, ComponentOK, Open
  PROVE  SpinInv'
<1>1. view = Nothing
  BY DEF Open
<1>2. ASSUME NEW how, MountDocument(how)  PROVE SpinInv'
  <2>1. /\ view' = Doc(how)
        /\ Request({Call("load", [how |-> how, for |-> "page", data |-> Everywhere(how, Blank)])})
    BY <1>2 DEF MountDocument, LoadFor
  <2>2. {"kind", "busy", "loading"} \subseteq DOMAIN view' /\ view'.busy = {}
          /\ view'.kind = "document"
    BY <2>1 DEF Doc
  <2>3. \A f \in fetches : f.op # "save"
    BY <1>1, NothingCalls DEF Outliving
  <2> QED
    BY <2>1, <2>2, <2>3, MountOneSpins
<1>3. CASE \E how \in ViewsOf(page) : MountView(how)
  BY <1>3, MountViewSpins
<1>4. ASSUME NEW how, MountPane(how)  PROVE SpinInv'
  <2>1. \E k : view' = Pane(how, k)
    BY <1>4 DEF MountPane
  <2>2. /\ {"kind", "busy", "loading"} \subseteq DOMAIN view' /\ view'.busy = {}
        /\ view'.kind = "pane" /\ view'.loading = FALSE
    BY <2>1 DEF Pane
  <2> QED
    BY <2>2, MountSpins DEF IsView
<1>5. ASSUME NEW how, MountForm(how)  PROVE SpinInv'
  <2>1. view' = Form(how) /\ Request({Call("list", NoKey)})
    BY <1>5 DEF MountForm, Reread
  <2>2. {"kind", "busy", "loading"} \subseteq DOMAIN view' /\ view'.busy = {}
          /\ view'.kind = "form"
    BY <2>1 DEF Form
  <2> QED
    BY <2>1, <2>2, MountOneSpins
<1>6. ASSUME NEW how, MountSection(how)  PROVE SpinInv'
  <2>1. CASE \/ \E has \in BOOLEAN : view' = PhoneSection(has)
             \/ view' = CRMSection \/ view' = RegistrationSection
    <3>1. /\ {"kind", "busy", "loading"} \subseteq DOMAIN view' /\ view'.busy = {}
          /\ view'.kind = "section" /\ view'.loading = FALSE
      BY <2>1 DEF PhoneSection, CRMSection, RegistrationSection
    <3> QED
      BY <3>1, MountSpins DEF IsView
  <2>2. CASE /\ \E status \in BillingStatuses : view' = BillingSection(status)
             /\ RequestRaw("billing", NoKey)
    <3>1. /\ {"kind", "busy", "loading"} \subseteq DOMAIN view' /\ view'.busy = {}
          /\ view'.kind = "section"
      BY <2>2 DEF BillingSection
    <3>2. \E g \in fetches' : g.op = "billing"
      BY <2>2, RawFacts
    <3>3. \E g \in fetches' : Loads(g)'
      BY <3>1, <3>2 DEF Loads, LoadingOp, IsView
    <3> QED
      BY <3>1, <3>3, MountSpins DEF IsView
  <2> QED
    BY <1>6, <2>1, <2>2 DEF MountSection
<1> QED
  BY <1>2, <1>3, <1>4, <1>5, <1>6 DEF Open

LEMMA EmptySpins ==
  ASSUME view' = Nothing
  PROVE  SpinInv'
<1>1. /\ {"busy", "loading"} \subseteq DOMAIN view' /\ view'.kind = "nothing"
      /\ view'.busy = {} /\ view'.loading = FALSE
  BY DEF Nothing
<1> QED
  BY <1>1 DEF SpinInv, FlagsApart, SpinnersHaveCalls, IsView, OnForm

LEMMA GoSpins ==
  ASSUME SpinInv, ConsoleInv,
         \/ SwitchTab \/ Navigate \/ SignOut \/ Reloaded \/ SignIn \/ Age
         \/ \E f \in fetches : CampaignDeleted(f)
  PROVE  SpinInv'
<1>1. CASE SwitchTab \/ Navigate \/ SignOut \/ Reloaded \/ \E f \in fetches : CampaignDeleted(f)
  BY <1>1, EmptySpins DEF SwitchTab, Navigate, SignOut, Reloaded, CampaignDeleted, DeleteAnswer,
                          LeaveView
<1>2. CASE SignIn \/ Age
  <2>1. view' = view /\ fetches' = fetches
    BY <1>2 DEF SignIn, LogIn, Age, TokenAges
  <2> QED
    BY <2>1, GoneSpins
<1> QED
  BY <1>1, <1>2

-----------------------------------------------------------------------------
(* A call fails or is refused.                                              *)
LEMMA LostSpins ==
  ASSUME SpinInv, TypesInv, ConsoleInv, DocumentInv, NEW f \in fetches,
         FetchFails(f) \/ FetchUnauthorized(f), TypesInv'
  PROVE  SpinInv'
<1> DEFINE w == Failed(f)
<1>1. fetches' = fetches \ {f}
  BY DEF FetchFails, FetchUnauthorized, Unauthorized, Answered
<1>2. \/ view' = w
      \/ view' = [w EXCEPT !.failures = @ + 1]
  BY DEF FetchFails, FetchUnauthorized
<1>3. DOMAIN w = DOMAIN view
  BY FailedKeeps
<1> HIDE DEF w
<1>4. Becomes(w)
  <2>1. DOMAIN view' = DOMAIN w /\ \A x \in DOMAIN w : x # "failures" => view'[x] = w[x]
    BY <1>2, OneMore
  <2>2. view'.failures \in 0..MaxFailures
    BY DEF TypesInv, ScreenTyped
  <2> QED
    BY <2>1, <2>2 DEF Becomes
<1> USE DEF ConsoleInv
<1>5. CASE view.kind = "view"
  <2>1. w = ViewFailed(f)
    BY <1>5 DEF w, Failed, ViewFailed
  <2> QED
    BY <1>1, <1>4, <1>5, <2>1, ViewFailedSpins DEF IsView
<1>6. CASE view.kind = "pane"
  <2>1. w = PaneFailed(f)
    BY <1>6 DEF w, Failed, PaneFailed
  <2> QED
    BY <1>1, <1>4, <1>6, <2>1, PaneFailedSpins
<1>7. CASE view.kind = "form"
  <2>1. w = FormFailed(f)
    BY <1>7 DEF w, Failed, FormFailed
  <2> QED
    BY <1>1, <1>4, <1>7, <2>1, FormFailedSpins
<1>8. CASE view.kind = "section"
  <2>1. w = SectionFailed(f)
    BY <1>8 DEF w, Failed, SectionFailed
  <2> QED
    BY <1>1, <1>4, <1>8, <2>1, SectionFailedSpins
<1>9. CASE view.kind = "document" /\ f.op \notin Outliving
  <2>1. w = DocumentFailed(f)
    BY <1>9 DEF w, Failed, Outliving
  <2> QED
    BY <1>1, <1>4, <1>9, <2>1, DocumentFailedSpins
<1>10. CASE view.kind = "document" /\ f.op \in Outliving
  <2>1. w = view
    BY <1>10 DEF w, Failed, Outliving
  <2>2. /\ DOMAIN view' = DOMAIN view /\ view'.kind = "document" /\ view'.busy = view.busy
        /\ view'.loading = view.loading
        /\ view.busy \subseteq {"save", "scrape"}
        /\ \A g \in fetches : g.op = "save" => g.tag.for \in SaveFlags
    BY <1>4, <1>10, <2>1, DocSpinTypes DEF DocFields, Becomes
  <2>3. Holds(f) = f.op /\ f.op # "load"
    BY <1>10, HeldOps DEF Outliving
  <2>4. \A g \in fetches : g \in {f} \/ \E h \in fetches' : h.op = g.op /\ Holds(h) = Holds(g)
    BY <1>1
  <2>5. \A flag \in view'.busy : flag \in view.busy /\ \A g \in {f} : Holds(g) # flag
    BY <1>10, <2>2, <2>3 DEF Outliving
  <2> QED
    BY <1>1, <1>10, <2>2, <2>3, <2>4, <2>5, DocSpins
<1>11. CASE view.kind \notin {"view", "pane", "document", "form", "section"}
  <2>1. w = view
    BY <1>11 DEF w, Failed
  <2>2. f.op \in Outliving
    BY <1>11 DEF ComponentOK, OpsOf, OutlivingOf, Outliving
  <2>3. Holds(f) = f.op /\ f.op # LoadingOp /\ f.op \notin Flags
    BY <1>11, <2>2, HeldOps DEF Outliving, LoadingOp, Flags
  <2>4. /\ DOMAIN view' = DOMAIN view /\ view'.kind = view.kind
        /\ view'.busy = view.busy /\ view'.loading = view.loading
    BY <1>4, <2>1 DEF ComponentOK, HasFields, SpinInv, FlagsApart, Becomes
  <2>5. ~IsView /\ FlagsApart'
    BY <1>11, <2>4 DEF SpinInv, FlagsApart, IsView, OnForm
  <2>6. \A g \in fetches : g \in {f} \/ \E h \in fetches' : h.op = g.op /\ Holds(h) = Holds(g)
    BY <1>1
  <2>7. \A flag \in view'.busy : flag \in view.busy /\ \A g \in {f} : Holds(g) # flag
    BY <2>3, <2>4 DEF SpinInv, FlagsApart
  <2>8. view'.loading => view.loading /\ \A g \in {f} : g.op # LoadingOp
    BY <2>3, <2>4
  <2> QED
    BY <2>4, <2>5, <2>6, <2>7, <2>8, SpinsOn
<1> QED
  BY <1>5, <1>6, <1>7, <1>8, <1>9, <1>10, <1>11

-----------------------------------------------------------------------------
(* Everything together.                                                     *)
LEMMA FetchEndsSpins ==
  ASSUME SpinInv, TypesInv, TypesInv', ConsoleInv, DocumentInv, NEW f \in fetches, FetchEnds(f)
  PROVE  SpinInv'
<1> USE DEF ConsoleInv
<1>1. CASE FetchAnswer(f)
  BY <1>1, FetchAnswerSpins
<1>2. CASE PaneAnswer(f)
  BY <1>2, PaneAnswerSpins
<1>3. CASE DocumentAnswer(f)
  BY <1>3, DocumentAnswerSpins
<1>4. CASE FormAnswer(f)
  BY <1>4, FormAnswerSpins
<1>5. CASE SectionAnswer(f)
  BY <1>5, SectionAnswerSpins
<1>6. CASE ServeDocument(f)
  BY <1>6, ServeDocumentSpins
<1>7. CASE ServeSection(f)
  BY <1>7, ServeSectionSpins
<1>8. CASE FetchFails(f) \/ FetchUnauthorized(f)
  BY <1>8, LostSpins
<1> QED
  BY <1>1, <1>2, <1>3, <1>4, <1>5, <1>6, <1>7, <1>8 DEF FetchEnds

LEMMA UserStepSpins ==
  ASSUME SpinInv, TypesInv, ConsoleInv, DocumentInv, UserStep
  PROVE  SpinInv'
<1> USE DEF ConsoleInv
<1>1. CASE UserViewStep
  <2>1. IsView
    BY <1>1 DEF UserViewStep, Select, Apply, CloseDetails, Retry
  <2> QED
    BY <1>1, <2>1, UserViewSpins
<1>2. CASE UserPaneStep
  BY <1>2, UserPaneSpins
<1>3. CASE UserDocumentStep
  BY <1>3, UserDocumentSpins
<1>4. CASE UserFormStep
  BY <1>4, UserFormSpins
<1>5. CASE UserSectionStep
  BY <1>5, UserSectionSpins
<1> QED
  BY <1>1, <1>2, <1>3, <1>4, <1>5 DEF UserStep

LEMMA SpinStepOK ==
  ConsoleInv /\ DocumentInv /\ TypesInv /\ TypesInv' /\ SpinInv /\ [ConsoleNext]_consoleVars
    => SpinInv'
<1> SUFFICES ASSUME ConsoleInv, DocumentInv, TypesInv, TypesInv', SpinInv,
                    [ConsoleNext]_consoleVars
             PROVE  SpinInv'
  OBVIOUS
<1>1. SessionSafe /\ ComponentOK
  BY DEF ConsoleInv
<1>2. CASE UserStep
  BY <1>2, UserStepSpins
<1>3. CASE Poll
  BY <1>1, <1>3, PollViewSpins, PollThreadSpins DEF Poll
<1>4. CASE RefreshStep
  BY <1>1, <1>4, RefreshSpins DEF RefreshStep
<1>5. CASE \E f \in fetches : FetchEnds(f) /\ UNCHANGED page
  BY <1>5, FetchEndsSpins
<1>6. CASE Open
  BY <1>1, <1>6, OpenSpins
<1>7. CASE \/ SwitchTab \/ Navigate \/ SignOut \/ Reloaded \/ SignIn \/ Age
           \/ \E f \in fetches : CampaignDeleted(f)
  BY <1>7, GoSpins
<1>8. CASE UNCHANGED consoleVars
  BY <1>8, GoneSpins DEF consoleVars, viewVars
<1> QED
  BY <1>2, <1>3, <1>4, <1>5, <1>6, <1>7, <1>8 DEF ConsoleNext

LEMMA SpinInitOK == ConsoleInit => SpinInv
<1> SUFFICES ASSUME ConsoleInit  PROVE SpinInv
  OBVIOUS
<1>1. /\ {"busy", "loading"} \subseteq DOMAIN view /\ view.kind = "nothing"
      /\ view.busy = {} /\ view.loading = FALSE
  BY DEF ConsoleInit, Nothing
<1> QED
  BY <1>1 DEF SpinInv, FlagsApart, SpinnersHaveCalls, IsView, OnForm

(* No button is disabled and no skeleton shown without a call under way     *)
(* that will take it away, whatever is pressed, polled, answered, lost or   *)
(* refused meanwhile: no handler leaves a flag behind, and none takes the   *)
(* flag of another call.                                                    *)
THEOREM SpinnersWaitForCalls == ConsoleSpec => []SpinnersHaveCalls
<1>1. ConsoleSpec => ConsoleInit /\ [][ConsoleNext]_consoleVars
  BY DEF ConsoleSpec
<1>2. SpinInv => SpinnersHaveCalls
  BY DEF SpinInv
<1> QED
  BY <1>1, <1>2, ConsoleInvariant, DocumentInvariant, TypesInvariant, SpinInitOK, SpinStepOK, PTL
=============================================================================
