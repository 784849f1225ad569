--------------------------- MODULE DocumentsProofs ---------------------------
(***************************************************************************)
(* Proofs about the documents of Console: what is stored is never the      *)
(* blank form of a page that has not loaded, and a page at rest shows what *)
(* is stored.                                                              *)
(***************************************************************************)
EXTENDS ConsoleProofs

DocFields ==
  {"kind", "how", "local", "stored", "loading", "loaded", "failed", "busy", "dirty",
   "disturbed"}

(* What is stored, and what is loaded, was once in a form that had been     *)
(* loaded.  Only the settings page has a form before it is loaded, and once *)
(* it neither loads nor has failed to, it is loaded.                        *)
DocSound ==
  /\ DocFields \subseteq DOMAIN view /\ view.how \in Documents
  /\ view.stored \in [Parts(view.how) -> Contents]
  /\ view.local \in [Parts(view.how) -> Contents \cup {Blank}]
  /\ view.loaded => view.local \in [Parts(view.how) -> Contents]
  /\ view.how = "settings" /\ ~view.loading /\ ~view.failed => view.loaded
  /\ "active" \notin view.dirty

(* So was what is on its way there, also from a page that is gone.          *)
Saves(f) == f.op \in {"save", "late save"}

Sound(tag) ==
  /\ tag.how \in Documents
  /\ DOMAIN tag.data \subseteq Parts(tag.how)
  /\ \A p \in DOMAIN tag.data : tag.data[p] \in Contents

SavesSound == \A f \in fetches : Saves(f) => Sound(f.tag)

(* The calls of the mounted document.                                       *)
Ours(op, tag) ==
  /\ op = "save" =>
       /\ tag.how = view.how
       /\ tag.for = "switch" => view.how = "engine" /\ DOMAIN tag.data = {"active"}
       /\ view.how = "settings" => DOMAIN tag.data = Parts(view.how)
  /\ op = "load" => "data" \in DOMAIN tag
  /\ op \in {"toggle", "assign", "scrape"} => view.how # "settings"

CallsSound ==
  \A f \in fetches :
    /\ Ours(f.op, f.tag)
    /\ f.op = "load" /\ f.at = "answered" => f.tag.data \in [Parts(view.how) -> Contents]

(* An undisturbed document has one call under way, or none.                 *)
OneCall ==
  /\ \A f, g \in fetches : f.op # "gone" /\ g.op # "gone" => f = g
  /\ \A f \in fetches : f.op # "late save"

LoadsAreCurrent ==
  \A f \in fetches : f.op = "load" /\ f.at = "answered" => f.tag.data = view.stored

Clean(p) == p \in Parts(view.how) \ view.dirty

RestIsCurrent ==
  view.loaded /\ (\A f \in fetches : f.op = "gone")
    => \A p \in Parts(view.how) : Clean(p) => view.local[p] = view.stored[p]

(* Two saves are followed by no load: that of the settings, and the         *)
(* engine's switch, which shows the opposite once it is answered.           *)
Settles(f) == f.op = "save" /\ (f.tag.for = "switch" \/ view.how = "settings")

Comes(tag, p) ==
  IF tag.for = "switch" /\ p = "active" THEN Other(view.local[p]) ELSE view.local[p]

Meant(tag) == \A p \in DOMAIN tag.data : Clean(p) => tag.data[p] = Comes(tag, p)

InStep(f) ==
  IF f.at = "answered"
  THEN /\ \A p \in DOMAIN f.tag.data : view.stored[p] = f.tag.data[p]
       /\ \A p \in Parts(view.how) : Clean(p) => view.stored[p] = Comes(f.tag, p)
  ELSE /\ \A p \in Parts(view.how) : Clean(p) => view.stored[p] = view.local[p]
       /\ Meant(f.tag)

SavesInStep == view.loaded => \A f \in fetches : Settles(f) => InStep(f)

DocumentInv ==
  /\ view.kind \in {"nothing", "document"} => SavesSound
  /\ view.kind = "document" =>
       /\ DocSound /\ CallsSound
       /\ ~view.disturbed => OneCall /\ LoadsAreCurrent /\ RestIsCurrent /\ SavesInStep

-----------------------------------------------------------------------------
(* Contents, and what is made of a call.                                    *)
LEMMA OtherFacts ==
  /\ \A c \in Contents : Other(c) \in Contents
  /\ \A c \in Contents \cup {Blank} : Other(c) \in Contents \cup {Blank}
  /\ Blank \notin Contents
BY DEF Contents, Blank, Other

LEMMA RequestFresh ==
  ASSUME NEW others, NEW op, NEW tag, RequestAlong(others, {Call(op, tag)})
  PROVE  \E g : /\ fetches' = others \cup {g}
                /\ IsCall(g) /\ g.op = op /\ g.tag = tag /\ g.at # "answered"
<1> DEFINE c == Call(op, tag)
<1>1. IsCall(c) /\ c.op = op /\ c.tag = tag /\ c.at = "refreshing"
  BY CallFacts
<1>2. CASE NeedsRefresh
  <2>1. fetches' = others \cup {c}
    BY <1>2 DEF RequestAlong
  <2> QED
    BY <1>1, <2>1
<1>3. CASE ~NeedsRefresh
  <2> DEFINE g == [c EXCEPT !.at = SentAs]
  <2>1. fetches' = others \cup {g}
    BY <1>3 DEF RequestAlong
  <2>2. IsCall(g) /\ g.op = op /\ g.tag = tag /\ g.at = SentAs
    BY <1>1 DEF IsCall
  <2> HIDE DEF g
  <2>3. SentAs # "answered"
    BY DEF SentAs
  <2> QED
    BY <2>1, <2>2, <2>3
<1> QED
  BY <1>2, <1>3

-----------------------------------------------------------------------------
(* The shapes of a step.                                                    *)

(* Something on the screen changes, or a call is over.                      *)
Shaped ==
  /\ DOMAIN view' = DOMAIN view /\ view'.kind = view.kind /\ view'.how = view.how

LEMMA FrameInv ==
  ASSUME DocumentInv, view.kind = "document", Shaped,
         view'.stored = view.stored, view'.loaded = view.loaded,
         view'.how = "settings" /\ ~view'.loading /\ ~view'.failed => view.loaded,
         view'.local \in [Parts(view.how) -> Contents \cup {Blank}],
         view.loaded => view'.local \in [Parts(view.how) -> Contents],
         "active" \notin view'.dirty,
         \A p \in Parts(view.how) : Clean(p)' => Clean(p) /\ view'.local[p] = view.local[p],
         fetches' \subseteq fetches,
         \/ view'.disturbed
         \/ ~view.disturbed /\ \A f \in fetches : f \in fetches' \/ f.op = "gone"
  PROVE  DocumentInv'
<1> USE DEF Shaped
<1>1. SavesSound'
  BY DEF DocumentInv, SavesSound, Saves
<1>2. DocSound'
  BY DEF DocumentInv, DocSound
<1>3. CallsSound'
  BY DEF DocumentInv, CallsSound, Ours
<1>4. ASSUME ~view'.disturbed  PROVE OneCall' /\ LoadsAreCurrent' /\ RestIsCurrent' /\ SavesInStep'
  <2>1. OneCall /\ LoadsAreCurrent /\ RestIsCurrent /\ SavesInStep
    BY <1>4 DEF DocumentInv
  <2>2. OneCall' /\ LoadsAreCurrent'
    BY <2>1 DEF OneCall, LoadsAreCurrent
  <2>3. RestIsCurrent'
    BY <1>4, <2>1 DEF RestIsCurrent
  <2>4. ASSUME NEW f \in fetches', Settles(f)', view'.loaded  PROVE InStep(f)'
    <3>1. Settles(f) /\ InStep(f)
      BY <2>1, <2>4 DEF SavesInStep, Settles
    <3>2. \A p \in Parts(view.how) : Clean(p)' => Clean(p) /\ Comes(f.tag, p)' = Comes(f.tag, p)
      BY DEF Comes
    <3>3. f.op = "save" /\ Sound(f.tag) /\ f.tag.how = view.how
      BY <2>4, <3>1 DEF Settles, DocumentInv, SavesSound, Saves, CallsSound, Ours
    <3>4. Meant(f.tag) => Meant(f.tag)'
      BY <3>2, <3>3 DEF Meant, Sound
    <3> QED
      BY <3>1, <3>2, <3>4 DEF InStep
  <2> QED
    BY <2>2, <2>3, <2>4 DEF SavesInStep
<1> QED
  BY <1>1, <1>2, <1>3, <1>4 DEF DocumentInv

(* The document with nothing changed but its flags.                         *)
Alike(v) ==
  /\ DOMAIN v = DOMAIN view /\ v.kind = view.kind /\ v.how = view.how
  /\ v.local = view.local /\ v.stored = view.stored /\ v.loaded = view.loaded
  /\ v.dirty = view.dirty /\ v.disturbed = view.disturbed
  /\ v.how = "settings" /\ ~v.loading /\ ~v.failed => v.loaded

(* A call is made.                                                          *)
LEMMA WriteInv ==
  ASSUME DocumentInv, view.kind = "document", NEW op \in DocOps, NEW tag, NEW v, Alike(v),
         Ours(op, tag), op = "save" => Sound(tag) /\ Meant(tag),
         Write(Call(op, tag), v)
  PROVE  DocumentInv'
<1>1. /\ view' = [v EXCEPT !.disturbed = @ \/ Overlaps]
      /\ RequestAlong(fetches, {Call(op, tag)})
  BY DEF Write, Request
<1>2. DocSound /\ CallsSound /\ SavesSound
  BY DEF DocumentInv
<1>3. /\ DOMAIN view' = DOMAIN view /\ view'.kind = "document" /\ view'.how = view.how
      /\ view'.local = view.local /\ view'.stored = view.stored /\ view'.loaded = view.loaded
      /\ view'.dirty = view.dirty /\ (view'.disturbed <=> view.disturbed \/ Overlaps)
      /\ view'.how = "settings" /\ ~view'.loading /\ ~view'.failed => view'.loaded
  BY <1>1, <1>2 DEF Alike, DocSound, DocFields
<1>4. PICK g : /\ fetches' = fetches \cup {g}
               /\ IsCall(g) /\ g.op = op /\ g.tag = tag /\ g.at # "answered"
  BY <1>1, RequestFresh
<1>5. DocSound'
  BY <1>2, <1>3 DEF DocSound
<1>6. SavesSound'
  BY <1>2, <1>4 DEF SavesSound, Saves, DocOps
<1>7. CallsSound'
  BY <1>2, <1>3, <1>4 DEF CallsSound, Ours
<1>8. ASSUME ~view'.disturbed  PROVE OneCall' /\ LoadsAreCurrent' /\ RestIsCurrent' /\ SavesInStep'
  <2>1. ~view.disturbed /\ \A f \in fetches : f.op = "gone"
    BY <1>3, <1>8 DEF Overlaps
  <2>2. RestIsCurrent
    BY <2>1 DEF DocumentInv
  <2>3. OneCall' /\ LoadsAreCurrent'
    BY <1>4, <2>1 DEF OneCall, LoadsAreCurrent, DocOps
  <2>4. RestIsCurrent'
    BY <1>4 DEF RestIsCurrent, DocOps
  <2>5. ASSUME NEW f \in fetches', Settles(f)', view'.loaded  PROVE InStep(f)'
    <3>1. f = g /\ op = "save"
      BY <1>4, <2>1, <2>5 DEF Settles
    <3>2. \A p \in Parts(view.how) : Clean(p) => view.stored[p] = view.local[p]
      BY <1>3, <2>1, <2>2, <2>5 DEF RestIsCurrent
    <3>3. \A p : (Clean(p)' <=> Clean(p)) /\ Comes(tag, p)' = Comes(tag, p)
      BY <1>3 DEF Clean, Comes
    <3>4. Meant(tag)'
      BY <3>1, <3>3 DEF Meant
    <3> QED
      BY <1>3, <1>4, <3>1, <3>2, <3>3, <3>4 DEF InStep
  <2> QED
    BY <2>3, <2>4, <2>5 DEF SavesInStep
<1> QED
  BY <1>3, <1>5, <1>6, <1>7, <1>8 DEF DocumentInv

(* A call is answered, and everything loaded again.                         *)
LEMMA ReloadInv ==
  ASSUME DocumentInv, view.kind = "document", view.how # "settings", NEW f \in fetches,
         NEW for, NEW v, Alike(v), ReloadAfter(f, for, v)
  PROVE  DocumentInv'
<1> DEFINE tag == [how |-> view.how, for |-> for, data |-> Everywhere(view.how, Blank)]
<1>1. /\ view' = [v EXCEPT !.failed = FALSE, !.disturbed = OthersThan(f)]
      /\ RequestAlong(fetches \ {f}, {Call("load", tag)})
  BY DEF ReloadAfter, LoadFor
<1>2. DocSound /\ CallsSound /\ SavesSound
  BY DEF DocumentInv
<1>3. /\ DOMAIN view' = DOMAIN view /\ view'.kind = "document" /\ view'.how = view.how
      /\ view'.local = view.local /\ view'.stored = view.stored /\ view'.loaded = view.loaded
      /\ view'.dirty = view.dirty /\ view'.disturbed = OthersThan(f)
  BY <1>1, <1>2 DEF Alike, DocSound, DocFields
<1>a. "data" \in DOMAIN tag
  OBVIOUS
<1> HIDE DEF tag
<1>4. PICK g : /\ fetches' = (fetches \ {f}) \cup {g}
               /\ IsCall(g) /\ g.op = "load" /\ g.tag = tag /\ g.at # "answered"
  BY <1>1, RequestFresh
<1>5. DocSound'
  BY <1>2, <1>3 DEF DocSound
<1>6. SavesSound'
  BY <1>2, <1>4 DEF SavesSound, Saves
<1>7. CallsSound'
  BY <1>2, <1>3, <1>4, <1>a DEF CallsSound, Ours
<1>8. ASSUME ~view'.disturbed  PROVE OneCall' /\ LoadsAreCurrent' /\ RestIsCurrent' /\ SavesInStep'
  <2>1. \A h \in fetches \ {f} : h.op = "gone"
    BY <1>3, <1>8 DEF OthersThan
  <2>2. \A h \in fetches' : h = g \/ h.op = "gone"
    BY <1>4, <2>1
  <2> QED
    BY <1>4, <2>2 DEF OneCall, LoadsAreCurrent, RestIsCurrent, SavesInStep, Settles
<1> QED
  BY <1>3, <1>5, <1>6, <1>7, <1>8 DEF DocumentInv

(* The document is loaded.                                                  *)
LEMMA LoadAnswerInv ==
  ASSUME DocumentInv, view.kind = "document", NEW f \in fetches, f.at = "answered",
         LoadAnswer(f)
  PROVE  DocumentInv'
<1>1. /\ f.op = "load" /\ fetches' = fetches \ {f}
      /\ view' = [view EXCEPT !.local = f.tag.data, !.loaded = TRUE, !.loading = FALSE,
                              !.dirty = {}, !.busy = @ \ {f.tag.for}]
  BY DEF LoadAnswer, Answered
<1>2. DocSound /\ CallsSound /\ SavesSound
  BY DEF DocumentInv
<1>3. /\ DOMAIN view' = DOMAIN view /\ view'.kind = "document" /\ view'.how = view.how
      /\ view'.local = f.tag.data /\ view'.stored = view.stored /\ view'.loaded
      /\ view'.dirty = {} /\ view'.disturbed = view.disturbed
  BY <1>1, <1>2 DEF DocSound, DocFields
<1>4. f.tag.data \in [Parts(view.how) -> Contents]
  BY <1>1, <1>2 DEF CallsSound
<1>5. f.tag.data \in [Parts(view.how) -> Contents \cup {Blank}]
  BY <1>4
<1>6. DocSound'
  BY <1>2, <1>3, <1>4, <1>5 DEF DocSound
<1>7. SavesSound' /\ CallsSound'
  BY <1>1, <1>2, <1>3 DEF SavesSound, CallsSound, Ours
<1>8. ASSUME ~view'.disturbed  PROVE OneCall' /\ LoadsAreCurrent' /\ RestIsCurrent' /\ SavesInStep'
  <2>1. OneCall /\ LoadsAreCurrent
    BY <1>3, <1>8 DEF DocumentInv
  <2>2. \A h \in fetches' : h.op = "gone"
    BY <1>1, <2>1 DEF OneCall
  <2>3. view'.local = view'.stored
    BY <1>1, <1>3, <2>1 DEF LoadsAreCurrent
  <2> QED
    BY <2>2, <2>3 DEF OneCall, LoadsAreCurrent, RestIsCurrent, SavesInStep, Settles
<1> QED
  BY <1>3, <1>6, <1>7, <1>8 DEF DocumentInv

(* A save that no load follows is answered: what it sent is stored.         *)
LEMMA SettledInv ==
  ASSUME DocumentInv, view.kind = "document", NEW f \in fetches, f.op = "save",
         f.at = "answered", fetches' = fetches \ {f}, Shaped,
         view'.stored = view.stored, view'.loaded = view.loaded,
         view'.loading = view.loading, view'.failed = view.failed,
         view'.disturbed = view.disturbed,
         view'.local \in [Parts(view.how) -> Contents \cup {Blank}],
         view.loaded => view'.local \in [Parts(view.how) -> Contents],
         "active" \notin view'.dirty,
         InStep(f) => \A p \in Parts(view.how) : Clean(p)' => view'.local[p] = view.stored[p],
         Settles(f)
  PROVE  DocumentInv'
<1> USE DEF Shaped
<1>1. DocSound'
  BY DEF DocumentInv, DocSound
<1>2. SavesSound' /\ CallsSound'
  BY DEF DocumentInv, SavesSound, CallsSound, Ours
<1>3. ASSUME ~view'.disturbed  PROVE OneCall' /\ LoadsAreCurrent' /\ RestIsCurrent' /\ SavesInStep'
  <2>1. OneCall /\ SavesInStep
    BY <1>3 DEF DocumentInv
  <2>2. \A h \in fetches' : h.op = "gone"
    BY <2>1 DEF OneCall
  <2>3. view.loaded => InStep(f)
    BY <2>1 DEF SavesInStep
  <2>4. RestIsCurrent'
    BY <2>3 DEF RestIsCurrent
  <2> QED
    BY <2>2, <2>4 DEF OneCall, LoadsAreCurrent, SavesInStep, Settles
<1> QED
  BY <1>1, <1>2, <1>3 DEF DocumentInv

LEMMA SettingsAnswerInv ==
  ASSUME DocumentInv, view.kind = "document", view.how = "settings", NEW f \in fetches,
         f.op = "save", f.at = "answered", Answered(f),
         view' = [view EXCEPT !.busy = {},
                    !.dirty = {p \in @ : view.local[p] # f.tag.data[p]}]
  PROVE  DocumentInv'
<1>1. DocSound /\ CallsSound
  BY DEF DocumentInv
<1>2. /\ Shaped /\ view'.local = view.local /\ view'.stored = view.stored
      /\ view'.loaded = view.loaded /\ view'.loading = view.loading
      /\ view'.failed = view.failed /\ view'.disturbed = view.disturbed
      /\ view'.dirty = {p \in view.dirty : view.local[p] # f.tag.data[p]}
  BY <1>1 DEF Shaped, DocSound, DocFields
<1>3. DOMAIN f.tag.data = Parts(view.how) /\ f.tag.for # "switch"
  BY <1>1 DEF CallsSound, Ours
<1>4. ASSUME InStep(f), NEW p \in Parts(view.how), Clean(p)'
      PROVE  view'.local[p] = view.stored[p]
  <2>1. CASE Clean(p)
    BY <1>2, <1>3, <1>4, <2>1 DEF InStep, Comes
  <2>2. CASE ~Clean(p)
    <3>1. view.local[p] = f.tag.data[p]
      BY <1>2, <1>4, <2>2 DEF Clean, Shaped
    <3> QED
      BY <1>2, <1>3, <1>4, <3>1 DEF InStep
  <2> QED
    BY <2>1, <2>2
<1>5. Settles(f) /\ fetches' = fetches \ {f}
  BY DEF Settles, Answered
<1> QED
  BY <1>1, <1>2, <1>4, <1>5, SettledInv DEF DocSound

LEMMA SwitchAnswerInv ==
  ASSUME DocumentInv, view.kind = "document", NEW f \in fetches,
         f.op = "save", f.at = "answered", f.tag.for = "switch", Answered(f),
         view' = [view EXCEPT !.local["active"] = Other(@)]
  PROVE  DocumentInv'
<1>1. DocSound /\ CallsSound
  BY DEF DocumentInv
<1>2. /\ Shaped /\ view'.local = [view.local EXCEPT !["active"] = Other(@)]
      /\ view'.stored = view.stored
      /\ view'.loaded = view.loaded /\ view'.loading = view.loading
      /\ view'.failed = view.failed /\ view'.disturbed = view.disturbed
      /\ view'.dirty = view.dirty
  BY <1>1 DEF Shaped, DocSound, DocFields
<1>3. view.how = "engine" /\ "active" \in Parts(view.how)
  BY <1>1 DEF CallsSound, Ours, Parts
<1>4. /\ view'.local \in [Parts(view.how) -> Contents \cup {Blank}]
      /\ view.loaded => view'.local \in [Parts(view.how) -> Contents]
  BY <1>1, <1>2, <1>3, OtherFacts DEF DocSound
<1>5. \A p \in Parts(view.how) : view'.local[p] = Comes(f.tag, p)
  BY <1>1, <1>2, <1>3 DEF Comes, DocSound
<1>6. ASSUME InStep(f), NEW p \in Parts(view.how), Clean(p)'
      PROVE  view'.local[p] = view.stored[p]
  BY <1>2, <1>5, <1>6 DEF InStep, Clean, Shaped
<1>7. Settles(f) /\ fetches' = fetches \ {f}
  BY DEF Settles, Answered
<1> QED
  BY <1>1, <1>2, <1>4, <1>6, <1>7, SettledInv DEF DocSound

(* The server takes what is sent over what it had.                          *)
LEMMA Overlay ==
  ASSUME NEW tag, Sound(tag), NEW s \in [Parts(tag.how) -> Contents]
  PROVE  /\ Over(s, tag.data) \in [Parts(tag.how) -> Contents]
         /\ \A p \in DOMAIN tag.data : Over(s, tag.data)[p] = tag.data[p]
         /\ \A p \in Parts(tag.how) \ DOMAIN tag.data : Over(s, tag.data)[p] = s[p]
BY DEF Sound, Over

LEMMA ServeLoadInv ==
  ASSUME DocumentInv, ComponentOK, view.kind = "document", NEW f \in fetches,
         f.op = "load", ServeDocument(f)
  PROVE  DocumentInv'
<1> DEFINE kept == [[f EXCEPT !.tag.data = view.stored] EXCEPT !.at = "answered"]
<1>1. view' = view /\ fetches' = (fetches \ {f}) \cup {kept} /\ f.at = "sent"
  BY DEF ServeDocument
<1>2. DocSound /\ CallsSound /\ SavesSound
  BY DEF DocumentInv
<1>3. IsCall(f) /\ "data" \in DOMAIN f.tag
  BY <1>2 DEF ComponentOK, CallsSound, Ours
<1>4. kept.op = "load" /\ kept.tag.data = view.stored /\ "data" \in DOMAIN kept.tag
  BY <1>3 DEF IsCall
<1> HIDE DEF kept
<1>5. DocSound' /\ SavesSound'
  BY <1>1, <1>2, <1>4 DEF DocSound, SavesSound, Saves
<1>6. CallsSound'
  BY <1>1, <1>2, <1>4 DEF DocSound, CallsSound, Ours
<1>7. ASSUME ~view'.disturbed  PROVE OneCall' /\ LoadsAreCurrent' /\ RestIsCurrent' /\ SavesInStep'
  <2>1. OneCall /\ \A h \in fetches' : h = kept \/ h.op = "gone"
    BY <1>1, <1>7 DEF DocumentInv, OneCall
  <2> QED
    BY <1>1, <1>4, <2>1 DEF OneCall, LoadsAreCurrent, RestIsCurrent, SavesInStep, Settles
<1> QED
  BY <1>1, <1>5, <1>6, <1>7 DEF DocumentInv

LEMMA ServeSaveInv ==
  ASSUME DocumentInv, ComponentOK, view.kind = "document", NEW f \in fetches,
         f.op = "save", ServeDocument(f)
  PROVE  DocumentInv'
<1> DEFINE kept == [f EXCEPT !.at = "answered"]
           s == Over(view.stored, f.tag.data)
<1>1. DocSound /\ CallsSound /\ SavesSound
  BY DEF DocumentInv
<1>2. f.tag.how = view.how /\ Sound(f.tag)
  BY <1>1 DEF CallsSound, Ours, SavesSound, Saves
<1>3. /\ view' = [view EXCEPT !.stored = s] /\ f.at = "sent"
      /\ fetches' = (fetches \ {f}) \cup {kept}
  BY <1>2 DEF ServeDocument, IsDoc
<1>4. IsCall(f)
  BY DEF ComponentOK
<1>5. kept.op = "save" /\ kept.tag = f.tag /\ kept.at = "answered"
  BY <1>4 DEF IsCall
<1>6. /\ s \in [Parts(view.how) -> Contents]
      /\ \A p \in DOMAIN f.tag.data : s[p] = f.tag.data[p]
      /\ \A p \in Parts(view.how) \ DOMAIN f.tag.data : s[p] = view.stored[p]
  BY <1>1, <1>2, Overlay DEF DocSound
<1> HIDE DEF kept, s
<1>7. /\ Shaped /\ view'.stored = s /\ view'.local = view.local /\ view'.loaded = view.loaded
      /\ view'.loading = view.loading /\ view'.failed = view.failed
      /\ view'.dirty = view.dirty /\ view'.disturbed = view.disturbed
  BY <1>1, <1>3 DEF Shaped, DocSound, DocFields
<1>8. DocSound'
  BY <1>1, <1>6, <1>7 DEF DocSound, Shaped
<1>9. SavesSound' /\ CallsSound'
  BY <1>1, <1>3, <1>5, <1>7 DEF SavesSound, Saves, CallsSound, Ours, Shaped
<1>10. ASSUME ~view'.disturbed
       PROVE  OneCall' /\ LoadsAreCurrent' /\ RestIsCurrent' /\ SavesInStep'
  <2>1. OneCall /\ SavesInStep /\ \A h \in fetches' : h = kept \/ h.op = "gone"
    BY <1>3, <1>7, <1>10 DEF DocumentInv, OneCall
  <2>2. OneCall' /\ LoadsAreCurrent' /\ RestIsCurrent'
    BY <1>3, <1>5, <2>1 DEF OneCall, LoadsAreCurrent, RestIsCurrent
  <2>3. ASSUME NEW h \in fetches', Settles(h)', view'.loaded  PROVE InStep(h)'
    <3>1. h = kept /\ Settles(f) /\ InStep(f)
      BY <1>5, <1>7, <2>1, <2>3 DEF SavesInStep, Settles, Shaped
    <3>2. \A p : (Clean(p)' <=> Clean(p)) /\ Comes(f.tag, p)' = Comes(f.tag, p)
      BY <1>7 DEF Clean, Comes, Shaped
    <3>3. ASSUME NEW p \in Parts(view.how), Clean(p)  PROVE s[p] = Comes(f.tag, p)
      <4>1. f.tag.for = "switch" => "active" \in DOMAIN f.tag.data
        BY <1>1 DEF CallsSound, Ours
      <4>2. Meant(f.tag) /\ view.stored[p] = view.local[p]
        BY <1>3, <3>1, <3>3 DEF InStep
      <4>3. CASE p \in DOMAIN f.tag.data
        BY <1>6, <3>3, <4>2, <4>3 DEF Meant
      <4>4. CASE p \notin DOMAIN f.tag.data
        BY <1>6, <4>1, <4>2, <4>4 DEF Comes
      <4> QED
        BY <4>3, <4>4
    <3> QED
      BY <1>5, <1>6, <1>7, <3>1, <3>2, <3>3 DEF InStep, Shaped
  <2> QED
    BY <2>2, <2>3 DEF SavesInStep
<1> QED
  BY <1>7, <1>8, <1>9, <1>10 DEF DocumentInv, Shaped

LEMMA ServeLateInv ==
  ASSUME DocumentInv, view.kind = "document", NEW f \in fetches,
         f.op = "late save", ServeDocument(f)
  PROVE  DocumentInv'
<1> DEFINE s == Over(view.stored, f.tag.data)
<1>1. DocSound /\ CallsSound /\ SavesSound
  BY DEF DocumentInv
<1>2. Sound(f.tag)
  BY <1>1 DEF SavesSound, Saves
<1>3. /\ view' = IF IsDoc(f.tag.how) THEN [view EXCEPT !.stored = s] ELSE view
      /\ fetches' = fetches \ {f}
  BY DEF ServeDocument
<1>4. f.tag.how = view.how => s \in [Parts(view.how) -> Contents]
  BY <1>1, <1>2, Overlay DEF DocSound
<1> HIDE DEF s
<1>5. /\ Shaped /\ view'.stored \in [Parts(view.how) -> Contents] /\ view'.local = view.local
      /\ view'.loaded = view.loaded /\ view'.loading = view.loading
      /\ view'.failed = view.failed /\ view'.dirty = view.dirty
      /\ view'.disturbed = view.disturbed
  <2>1. CASE IsDoc(f.tag.how)
    BY <1>1, <1>3, <1>4, <2>1 DEF Shaped, DocSound, DocFields, IsDoc
  <2>2. CASE ~IsDoc(f.tag.how)
    BY <1>1, <1>3, <2>2 DEF Shaped, DocSound
  <2> QED
    BY <2>1, <2>2
<1>6. DocSound'
  BY <1>1, <1>5 DEF DocSound, Shaped
<1>7. SavesSound' /\ CallsSound'
  BY <1>1, <1>3, <1>5 DEF SavesSound, CallsSound, Ours, Shaped
<1>8. view.disturbed
  BY DEF DocumentInv, OneCall
<1> QED
  BY <1>5, <1>6, <1>7, <1>8 DEF DocumentInv, Shaped

(* A call fails.                                                            *)
LEMMA DocumentFailedInv ==
  ASSUME DocumentInv, view.kind = "document", NEW f \in fetches, Answered(f),
         \/ view' = DocumentFailed(f)
         \/ view' = [DocumentFailed(f) EXCEPT !.failures = @ + 1]
  PROVE  DocumentInv'
<1> DEFINE w == DocumentFailed(f)
<1>1. /\ DOMAIN view' = DOMAIN w
      /\ \A x \in DOMAIN w : x # "failures" => view'[x] = w[x]
  BY OneMore
<1>2. DocSound
  BY DEF DocumentInv
<1>3. /\ DOMAIN w = DOMAIN view /\ w.kind = view.kind /\ w.how = view.how
      /\ w.local = view.local /\ w.stored = view.stored /\ w.loaded = view.loaded
      /\ w.dirty = view.dirty /\ w.disturbed
      /\ w.loading = (view.loading /\ f.op # "load")
      /\ w.failed = (view.failed \/ (f.op = "load" /\ view.how # "campaign"))
  BY <1>2 DEF DocSound, DocFields, DocumentFailed
<1> HIDE DEF w
<1>4. /\ Shaped
      /\ view'.local = view.local /\ view'.stored = view.stored /\ view'.loaded = view.loaded
      /\ view'.dirty = view.dirty /\ view'.disturbed
      /\ view'.loading = (view.loading /\ f.op # "load")
      /\ view'.failed = (view.failed \/ (f.op = "load" /\ view.how # "campaign"))
  BY <1>1, <1>2, <1>3 DEF Shaped, DocSound, DocFields
<1>5. \A p \in Parts(view.how) : Clean(p)' => Clean(p)
  BY <1>4 DEF Clean, Shaped
<1>6. fetches' \subseteq fetches
  BY DEF Answered
<1> QED
  BY <1>2, <1>4, <1>5, <1>6, FrameInv DEF DocSound, Shaped

(* The refresh ends.                                                        *)
LEMMA DocumentRefreshed ==
  ASSUME ComponentOK, DocumentInv, NEW granted, RefreshEnds(granted), UNCHANGED view
  PROVE  DocumentInv'
<1> DEFINE at == IF granted \/ Accepted THEN "sent" ELSE "unauthorized"
           Moved(f) == IF f.at = "refreshing" THEN [f EXCEPT !.at = at] ELSE f
<1>1. fetches' = {f \in fetches : f.at # "refreshing"}
                   \cup {f \in {[f EXCEPT !.at = at] : f \in {g \in fetches : g.at = "refreshing"}} :
                           f.op # "gone" \/ at = "unauthorized"}
  BY DEF RefreshEnds
<1>2. at # "answered"
  OBVIOUS
<1> HIDE DEF at
<1>3. \A f \in fetches : /\ Moved(f).op = f.op /\ Moved(f).tag = f.tag
                         /\ Moved(f).at = "answered" <=> f.at = "answered"
  BY <1>2 DEF ComponentOK, IsCall
<1>4. \A g \in fetches' : \E f \in fetches : g = Moved(f)
  BY <1>1
<1>5. \A f \in fetches : f.op # "gone" => Moved(f) \in fetches'
  BY <1>1, <1>3
<1> HIDE DEF Moved
<1>6. SavesSound => SavesSound'
  BY <1>3, <1>4 DEF SavesSound, Saves
<1> SUFFICES ASSUME view.kind = "document"  PROVE DocumentInv'
  BY <1>6 DEF DocumentInv
<1>7. DocSound' /\ SavesSound'
  BY <1>6 DEF DocumentInv, DocSound
<1>8. CallsSound'
  BY <1>3, <1>4 DEF DocumentInv, CallsSound, Ours
<1>9. ASSUME ~view'.disturbed  PROVE OneCall' /\ LoadsAreCurrent' /\ RestIsCurrent' /\ SavesInStep'
  <2>1. OneCall /\ LoadsAreCurrent /\ RestIsCurrent /\ SavesInStep
    BY <1>9 DEF DocumentInv
  <2>2. OneCall'
    <3>1. ASSUME NEW g \in fetches', NEW h \in fetches', g.op # "gone", h.op # "gone"
          PROVE  g = h
      <4>1. PICK e \in fetches : g = Moved(e)
        BY <1>4
      <4>2. PICK f \in fetches : h = Moved(f)
        BY <1>4
      <4>3. e = f
        BY <1>3, <2>1, <3>1, <4>1, <4>2 DEF OneCall
      <4> QED
        BY <4>1, <4>2, <4>3
    <3>2. ASSUME NEW g \in fetches'  PROVE g.op # "late save"
      <4>1. PICK f \in fetches : g = Moved(f)
        BY <1>4
      <4>2. g.op = f.op
        BY <1>3, <4>1
      <4> QED
        BY <2>1, <4>2 DEF OneCall
    <3> QED
      BY <3>1, <3>2 DEF OneCall
  <2>3. LoadsAreCurrent' /\ RestIsCurrent'
    BY <1>3, <1>4, <1>5, <2>1 DEF LoadsAreCurrent, RestIsCurrent, Clean
  <2>4. ASSUME NEW g \in fetches', Settles(g)', view'.loaded  PROVE InStep(g)'
    <3>1. PICK f \in fetches : g = Moved(f)
      BY <1>4
    <3>2. Settles(f) /\ InStep(f)
      BY <1>3, <2>1, <2>4, <3>1 DEF SavesInStep, Settles
    <3>3. g.tag = f.tag /\ (g.at = "answered" <=> f.at = "answered")
      BY <1>3, <3>1
    <3>4. Meant(f.tag)' <=> Meant(f.tag)
      BY DEF Meant, Clean, Comes
    <3> QED
      BY <3>2, <3>3, <3>4 DEF InStep, Clean, Comes
  <2> QED
    BY <2>2, <2>3, <2>4 DEF SavesInStep
<1> QED
  BY <1>7, <1>8, <1>9 DEF DocumentInv

(* A document is opened.                                                    *)
LEMMA MountDocumentInv ==
  ASSUME ComponentOK, DocumentInv, view = Nothing, NEW how \in Documents, MountDocument(how)
  PROVE  DocumentInv'
<1> DEFINE tag == [how |-> how, for |-> "page", data |-> Everywhere(how, Blank)]
<1>1. view' = Doc(how) /\ RequestAlong(fetches, {Call("load", tag)})
  BY DEF MountDocument, LoadFor, Request
<1>2. "data" \in DOMAIN tag
  OBVIOUS
<1> HIDE DEF tag
<1>3. PICK g : /\ fetches' = fetches \cup {g}
               /\ IsCall(g) /\ g.op = "load" /\ g.tag = tag /\ g.at # "answered"
  BY <1>1, RequestFresh
<1>4. SavesSound /\ \A f \in fetches : f.op \in Outliving
  BY NothingIsOK, NothingCalls DEF DocumentInv
<1>5. /\ DocFields \subseteq DOMAIN view' /\ view'.kind = "document" /\ view'.how = how
      /\ view'.local = Everywhere(how, Blank) /\ view'.stored = Everywhere(how, 1)
      /\ view'.loading /\ ~view'.loaded /\ view'.dirty = {}
      /\ ~view'.disturbed => \A f \in fetches : f.op # "late save"
  BY <1>1 DEF Doc, DocFields
<1>6. DocSound'
  <2>1. /\ Everywhere(how, 1) \in [Parts(how) -> Contents]
        /\ Everywhere(how, Blank) \in [Parts(how) -> Contents \cup {Blank}]
    BY DEF Everywhere, Contents
  <2> QED
    BY <1>5, <2>1 DEF DocSound
<1>7. SavesSound' /\ CallsSound'
  BY <1>2, <1>3, <1>4 DEF SavesSound, Saves, CallsSound, Ours, Outliving
<1>8. ASSUME ~view'.disturbed  PROVE OneCall' /\ LoadsAreCurrent' /\ RestIsCurrent' /\ SavesInStep'
  <2>1. \A f \in fetches : f.op = "gone"
    BY <1>4, <1>5, <1>8 DEF Outliving
  <2> QED
    BY <1>3, <1>5, <2>1 DEF OneCall, LoadsAreCurrent, RestIsCurrent, SavesInStep
<1> QED
  BY <1>5, <1>6, <1>7, <1>8 DEF DocumentInv

(* And left.                                                                *)
LEMMA LeaveInv ==
  ASSUME ComponentOK, DocumentInv, view' = Nothing, fetches' = Leaving
  PROVE  DocumentInv'
<1>1. view'.kind = "nothing"
  BY NothingIsOK
<1>2. ASSUME NEW g \in fetches', Saves(g)  PROVE Sound(g.tag)
  <2>1. PICK f \in fetches : f.op \in {"save", "late save"} /\ g.tag = f.tag
    BY <1>2 DEF Leaving, Left, Saves, ComponentOK, IsCall
  <2>2. view.kind \in {"nothing", "document"}
    BY <2>1 DEF ComponentOK, OpsOf, OutlivingOf
  <2> QED
    BY <2>1, <2>2 DEF DocumentInv, SavesSound, Saves
<1> QED
  BY <1>1, <1>2 DEF DocumentInv, SavesSound, Saves

-----------------------------------------------------------------------------
(* The actions.                                                             *)
LEMMA EditInv ==
  ASSUME DocumentInv, NEW p, Edit(p)
  PROVE  DocumentInv'
<1>1. /\ view.kind = "document" /\ p \in Parts(view.how) /\ p # "active"
      /\ view' = [view EXCEPT !.local[p] = Other(@), !.dirty = @ \cup {p}]
      /\ UNCHANGED fetches
  BY DEF Edit, Editable
<1>2. DocSound
  BY <1>1 DEF DocumentInv
<1>3. /\ Shaped /\ view'.local = [view.local EXCEPT ![p] = Other(@)]
      /\ view'.stored = view.stored /\ view'.loaded = view.loaded
      /\ view'.loading = view.loading /\ view'.failed = view.failed
      /\ view'.dirty = view.dirty \cup {p} /\ view'.disturbed = view.disturbed
  BY <1>1, <1>2 DEF Shaped, DocSound, DocFields
<1>4. /\ view'.local \in [Parts(view.how) -> Contents \cup {Blank}]
      /\ view.loaded => view'.local \in [Parts(view.how) -> Contents]
  BY <1>1, <1>2, <1>3, OtherFacts DEF DocSound
<1>5. \A q \in Parts(view.how) : Clean(q)' => Clean(q) /\ view'.local[q] = view.local[q]
  BY <1>1, <1>2, <1>3 DEF Clean, Shaped, DocSound
<1>6. view'.disturbed \/ ~view.disturbed
  BY <1>3
<1> QED
  BY <1>1, <1>2, <1>3, <1>4, <1>5, <1>6, FrameInv DEF DocSound, Shaped

LEMMA AlikeFacts ==
  ASSUME DocumentInv, view.kind = "document"
  PROVE  /\ Alike(view)
         /\ \A x : Alike([view EXCEPT !.busy = x])
         /\ view.how # "settings" =>
              Alike([view EXCEPT !.loading = TRUE, !.failed = FALSE])
<1>1. DocSound
  BY DEF DocumentInv
<1>2. Alike(view)
  BY <1>1 DEF Alike, DocSound
<1>3. ASSUME NEW x  PROVE Alike([view EXCEPT !.busy = x])
  BY <1>1 DEF Alike, DocSound, DocFields
<1>4. ASSUME view.how # "settings"
      PROVE  Alike([view EXCEPT !.loading = TRUE, !.failed = FALSE])
  BY <1>1, <1>4 DEF Alike, DocSound, DocFields
<1> QED
  BY <1>2, <1>3, <1>4

(* What is edited may be saved: it had been loaded.                         *)
LEMMA EditableFacts ==
  ASSUME DocumentInv, Editable, view.how = "settings" => ~view.failed
  PROVE  view.loaded /\ view.local \in [Parts(view.how) -> Contents]
BY DEF DocumentInv, DocSound, Editable

LEMMA SaveInv ==
  ASSUME DocumentInv, SaveDocument \/ SaveCampaignSettings \/ ToggleEngine
  PROVE  DocumentInv'
<1>1. /\ view.kind = "document" /\ Editable
      /\ view.how = "settings" => ~view.failed
  BY DEF SaveDocument, SaveCampaignSettings, ToggleEngine, CanSave, Editable, IsDoc
<1>2. view.local \in [Parts(view.how) -> Contents] /\ view.how \in Documents
  BY <1>1, EditableFacts DEF DocumentInv, DocSound
<1>3. CASE SaveDocument
  <2> DEFINE data == IF view.how = "campaign" THEN Only("steps", view.local["steps"])
                     ELSE view.local
             tag == [how |-> view.how, for |-> "save", data |-> data]
             v == [view EXCEPT !.busy = @ \cup {"save"}]
  <2>1. Write(Call("save", tag), v)
    BY <1>3 DEF SaveDocument, Tag
  <2>2. Alike(v)
    BY <1>1, AlikeFacts
  <2>3. /\ DOMAIN data \subseteq Parts(view.how)
        /\ view.how # "campaign" => DOMAIN data = Parts(view.how)
        /\ \A p \in DOMAIN data : data[p] = view.local[p]
    BY <1>2 DEF Only, Parts
  <2>4. tag.how = view.how /\ tag.for = "save" /\ tag.data = data
    OBVIOUS
  <2> HIDE DEF tag, data, v
  <2>5. Ours("save", tag) /\ Sound(tag) /\ Meant(tag)
    BY <1>2, <2>3, <2>4 DEF Ours, Sound, Meant, Comes
  <2> QED
    BY <1>1, <2>1, <2>2, <2>5, WriteInv DEF DocOps
<1>4. CASE SaveCampaignSettings
  <2> DEFINE data == Only("settings", view.local["settings"])
             tag == [how |-> view.how, for |-> "settings", data |-> data]
  <2>1. Write(Call("save", tag), view) /\ view.how = "campaign"
    BY <1>4 DEF SaveCampaignSettings, Tag, IsDoc
  <2>2. "settings" \in Parts(view.how)
    BY <2>1 DEF Parts
  <2>3. /\ DOMAIN data \subseteq Parts(view.how)
        /\ \A p \in DOMAIN data : data[p] = view.local[p]
    BY <2>2 DEF Only
  <2>4. tag.how = view.how /\ tag.for = "settings" /\ tag.data = data
    OBVIOUS
  <2> HIDE DEF tag, data
  <2>5. Ours("save", tag) /\ Sound(tag) /\ Meant(tag)
    BY <1>2, <2>1, <2>3, <2>4 DEF Ours, Sound, Meant, Comes
  <2> QED
    BY <1>1, <2>1, <2>5, AlikeFacts, WriteInv DEF DocOps
<1>5. CASE ToggleEngine
  <2> DEFINE data == Only("active", Other(view.local["active"]))
             tag == [how |-> view.how, for |-> "switch", data |-> data]
  <2>1. Write(Call("save", tag), view) /\ view.how = "engine"
    BY <1>5 DEF ToggleEngine, Tag, IsDoc
  <2>2. "active" \in Parts(view.how)
    BY <2>1 DEF Parts
  <2>3. DOMAIN data = {"active"} /\ data["active"] = Other(view.local["active"])
    BY DEF Only
  <2>4. tag.how = view.how /\ tag.for = "switch" /\ tag.data = data
    OBVIOUS
  <2>5. Other(view.local["active"]) \in Contents
    BY <1>2, <2>2, OtherFacts
  <2> HIDE DEF tag, data
  <2>6. Ours("save", tag) /\ Sound(tag) /\ Meant(tag)
    BY <1>2, <2>1, <2>2, <2>3, <2>4, <2>5 DEF Ours, Sound, Meant, Comes
  <2> QED
    BY <1>1, <2>1, <2>6, AlikeFacts, WriteInv DEF DocOps
<1> QED
  BY <1>3, <1>4, <1>5

LEMMA UserDocumentInv ==
  ASSUME DocumentInv, UserDocumentStep
  PROVE  DocumentInv'
<1>1. CASE \E p \in {"steps", "settings"} : Edit(p)
  BY <1>1, EditInv
<1>2. CASE SaveDocument \/ SaveCampaignSettings \/ ToggleEngine
  BY <1>2, SaveInv
<1>3. CASE ToggleCampaign \/ AssignProspects \/ DeleteCampaign
  <2>1. /\ view.kind = "document" /\ view.how = "campaign"
        /\ \E op \in {"toggle", "assign", "delete"} : Write(Call(op, NoKey), view)
    BY <1>3 DEF ToggleCampaign, AssignProspects, DeleteCampaign, IsDoc
  <2>2. \A op \in {"toggle", "assign", "delete"} : op \in DocOps /\ Ours(op, NoKey)
    BY <2>1 DEF DocOps, Ours
  <2> QED
    BY <2>1, <2>2, AlikeFacts, WriteInv
<1>4. CASE Scrape
  <2>1. /\ view.kind = "document" /\ view.how = "engine"
        /\ Write(Call("scrape", NoKey), [view EXCEPT !.busy = @ \cup {"scrape"}])
    BY <1>4 DEF Scrape, IsDoc
  <2>2. "scrape" \in DocOps /\ Ours("scrape", NoKey)
    BY <2>1 DEF DocOps, Ours
  <2>3. Alike([view EXCEPT !.busy = @ \cup {"scrape"}])
    BY <2>1, AlikeFacts
  <2> QED
    BY <2>1, <2>2, <2>3, WriteInv
<1>5. CASE RetryEngine
  <2> DEFINE v == [view EXCEPT !.loading = TRUE, !.failed = FALSE]
             tag == [how |-> "engine", for |-> "page", data |-> Everywhere("engine", Blank)]
  <2>1. view.kind = "document" /\ view.how = "engine" /\ Write(Call("load", tag), v)
    BY <1>5 DEF RetryEngine, LoadFor, IsDoc
  <2>2. Alike(v)
    BY <2>1, AlikeFacts
  <2>3. "load" \in DocOps /\ Ours("load", tag)
    BY DEF DocOps, Ours
  <2> HIDE DEF v, tag
  <2> QED
    BY <2>1, <2>2, <2>3, WriteInv
<1> QED
  BY <1>1, <1>2, <1>3, <1>4, <1>5 DEF UserDocumentStep

LEMMA SaveAnswerInv ==
  ASSUME DocumentInv, view.kind = "document", NEW f \in fetches, f.at = "answered",
         SaveAnswer(f)
  PROVE  DocumentInv'
<1>1. f.op = "save" /\ view.how \in {"campaign", "engine", "settings"}
  BY DEF SaveAnswer, DocumentInv, DocSound, Documents
<1>2. CASE view.how = "campaign"
  <2> DEFINE v == [view EXCEPT !.busy = @ \ {f.tag.for}]
  <2>1. f.tag.for # "switch"
    BY <1>1, <1>2 DEF DocumentInv, CallsSound, Ours
  <2>2. ReloadAfter(f, "page", v)
    BY <1>2, <2>1 DEF SaveAnswer
  <2>3. Alike(v)
    BY AlikeFacts
  <2> HIDE DEF v
  <2> QED
    BY <1>2, <2>2, <2>3, ReloadInv
<1>3. CASE view.how = "settings"
  <2>1. f.tag.for # "switch"
    BY <1>1, <1>3 DEF DocumentInv, CallsSound, Ours
  <2>2. /\ view' = [view EXCEPT !.busy = {},
                      !.dirty = {p \in @ : view.local[p] # f.tag.data[p]}]
        /\ Answered(f)
    BY <1>3, <2>1 DEF SaveAnswer
  <2> QED
    BY <1>1, <1>3, <2>2, SettingsAnswerInv
<1>4. CASE view.how = "engine" /\ f.tag.for = "switch"
  <2>1. view' = [view EXCEPT !.local["active"] = Other(@)] /\ Answered(f)
    BY <1>4 DEF SaveAnswer
  <2> QED
    BY <1>1, <1>4, <2>1, SwitchAnswerInv
<1>5. CASE view.how = "engine" /\ f.tag.for # "switch"
  <2>1. ReloadAfter(f, "save", view)
    BY <1>5 DEF SaveAnswer
  <2> QED
    BY <1>5, <2>1, AlikeFacts, ReloadInv
<1> QED
  BY <1>1, <1>2, <1>3, <1>4, <1>5

LEMMA DocumentAnswerInv ==
  ASSUME DocumentInv, NEW f \in fetches, DocumentAnswer(f)
  PROVE  DocumentInv'
<1>1. view.kind = "document"
  BY DEF DocumentAnswer
<1>2. CASE f.at = "answered" /\ LoadAnswer(f)
  BY <1>1, <1>2, LoadAnswerInv
<1>3. CASE f.at = "answered" /\ SaveAnswer(f)
  BY <1>1, <1>3, SaveAnswerInv
<1>4. CASE /\ f.op \in {"toggle", "assign", "scrape"}
           /\ ReloadAfter(f, "page", view) \/ ReloadAfter(f, "scrape", view)
  <2>1. view.how # "settings"
    BY <1>1, <1>4 DEF DocumentInv, CallsSound, Ours
  <2> QED
    BY <1>1, <1>4, <2>1, AlikeFacts, ReloadInv
<1> QED
  BY <1>2, <1>3, <1>4 DEF DocumentAnswer

LEMMA ServeDocumentInv ==
  ASSUME ComponentOK, DocumentInv, NEW f \in fetches, ServeDocument(f)
  PROVE  DocumentInv'
<1>1. f.op \in {"load", "save", "late save"}
  BY DEF ServeDocument
<1>2. CASE view.kind = "document"
  BY <1>1, <1>2, ServeLoadInv, ServeSaveInv, ServeLateInv
<1>3. CASE view.kind # "document"
  <2>1. f.op = "late save" /\ view.kind = "nothing"
    BY <1>1, <1>3 DEF ComponentOK, OpsOf, OutlivingOf, Outliving
  <2>2. view' = view /\ fetches' = fetches \ {f}
    BY <1>3, <2>1 DEF ServeDocument, IsDoc
  <2> QED
    BY <2>1, <2>2 DEF DocumentInv, SavesSound, Saves
<1> QED
  BY <1>2, <1>3

(* What happens to other components has nothing to do with documents.       *)
LEMMA ElsewhereInv ==
  ASSUME view'.kind \notin {"nothing", "document"}
  PROVE  DocumentInv'
BY DEF DocumentInv

LEMMA FewerCalls ==
  ASSUME DocumentInv, view.kind # "document", view'.kind = view.kind,
         fetches' \subseteq fetches
  PROVE  DocumentInv'
BY DEF DocumentInv, SavesSound, Saves

LEMMA CallLost ==
  ASSUME ConsoleInv, DocumentInv, NEW f \in fetches, FetchFails(f) \/ FetchUnauthorized(f)
  PROVE  DocumentInv'
<1>1. /\ Answered(f) /\ fetches' = fetches \ {f}
      /\ view' = Failed(f) \/ view' = [Failed(f) EXCEPT !.failures = @ + 1]
  BY DEF FetchFails, FetchUnauthorized, Unauthorized, Answered
<1>2. view'.kind = view.kind
  BY <1>1, FailedOK
<1>3. CASE view.kind # "document"
  BY <1>1, <1>2, <1>3, FewerCalls
<1>4. CASE view.kind = "document" /\ f.op \notin Outliving
  <2>1. Failed(f) = DocumentFailed(f)
    BY <1>4 DEF Failed, Outliving
  <2> QED
    BY <1>1, <1>4, <2>1, DocumentFailedInv
<1>5. CASE view.kind = "document" /\ f.op \in Outliving
  <2>1. DocSound
    BY <1>5 DEF DocumentInv
  <2>2. view' = view \/ view' = [view EXCEPT !.failures = @ + 1]
    BY <1>1, <1>5 DEF Failed, Outliving
  <2>3. /\ DOMAIN view' = DOMAIN view
        /\ \A x \in DOMAIN view : x # "failures" => view'[x] = view[x]
    BY <2>2, OneMore
  <2>4. /\ Shaped
        /\ view'.local = view.local /\ view'.stored = view.stored
        /\ view'.loaded = view.loaded /\ view'.dirty = view.dirty
        /\ view'.loading = view.loading /\ view'.failed = view.failed
        /\ view'.disturbed = view.disturbed
    BY <2>1, <2>3 DEF Shaped, DocSound, DocFields
  <2>5. \A p \in Parts(view.how) : Clean(p)' => Clean(p)
    BY <2>4 DEF Clean, Shaped
  <2>6. \/ view'.disturbed
        \/ ~view.disturbed /\ \A g \in fetches : g \in fetches' \/ g.op = "gone"
    BY <1>1, <1>5, <2>4 DEF DocumentInv, OneCall, Outliving
  <2> QED
    BY <1>1, <1>5, <2>1, <2>4, <2>5, <2>6, FrameInv DEF DocSound, Shaped
<1> QED
  BY <1>3, <1>4, <1>5

LEMMA UserInv ==
  ASSUME ConsoleInv, DocumentInv, UserStep
  PROVE  DocumentInv'
<1> USE DEF ConsoleInv
<1>1. UNCHANGED page
  BY DEF UserStep
<1>2. CASE UserViewStep
  <2>1. IsView
    BY <1>2 DEF UserViewStep, Select, Apply, CloseDetails, Retry
  <2>2. ComponentStep
    BY <1>1, <1>2, SelectOK, ApplyOK, CloseDetailsOK, RetryOK DEF UserViewStep
  <2> QED
    BY <2>1, <2>2, ElsewhereInv DEF ComponentStep, IsView
<1>3. CASE UserPaneStep
  <2>1. view.kind = "pane"
    BY <1>3 DEF UserPaneStep, SelectThread, Deselect, FilterInbox, RelistInbox, TypeReply,
                SendReply, ActOn, Showing
  <2>2. ComponentStep
    BY <1>1, <1>3, SelectThreadOK, DeselectOK, RelistInboxOK, TypeReplyOK, SendReplyOK, ActOnOK
       DEF UserPaneStep
  <2> QED
    BY <2>1, <2>2, ElsewhereInv DEF ComponentStep
<1>4. CASE UserDocumentStep
  BY <1>4, UserDocumentInv
<1>5. CASE UserFormStep \/ UserSectionStep
  <2>1. view.kind \in {"form", "section"} /\ ComponentStep
    BY <1>1, <1>5, UserFormOK, UserSectionOK
  <2> QED
    BY <2>1, ElsewhereInv DEF ComponentStep
<1> QED
  BY <1>2, <1>3, <1>4, <1>5 DEF UserStep

LEMMA EndsInv ==
  ASSUME ConsoleInv, DocumentInv, NEW f \in fetches, FetchEnds(f), UNCHANGED page
  PROVE  DocumentInv'
<1> USE DEF ConsoleInv
<1>1. CASE FetchAnswer(f)
  <2>1. view.kind = "view"
    BY <1>1 DEF FetchAnswer, ComponentOK, OpsOf, OutlivingOf, Outliving
  <2>2. Ends(f)
    BY <1>1, FetchAnswerOK
  <2> QED
    BY <2>1, <2>2, ElsewhereInv DEF Ends
<1>2. CASE PaneAnswer(f) \/ FormAnswer(f) \/ SectionAnswer(f) \/ ServeSection(f)
  <2>1. view.kind \in {"pane", "form", "section"} /\ ComponentStep
    BY <1>2, PaneAnswerOK, FormAnswerOK, SectionAnswerOK, ServeSectionOK
  <2> QED
    BY <2>1, ElsewhereInv DEF ComponentStep
<1>3. CASE DocumentAnswer(f)
  BY <1>3, DocumentAnswerInv
<1>4. CASE ServeDocument(f)
  BY <1>4, ServeDocumentInv
<1>5. CASE FetchFails(f) \/ FetchUnauthorized(f)
  BY <1>5, CallLost
<1> QED
  BY <1>1, <1>2, <1>3, <1>4, <1>5 DEF FetchEnds

LEMMA OpenInv ==
  ASSUME ConsoleInv, DocumentInv, Open
  PROVE  DocumentInv'
<1>1. view = Nothing /\ ComponentOK
  BY DEF Open, ConsoleInv
<1>2. CASE \E how \in DocumentsOf(page) : MountDocument(how)
  <2>1. DocumentsOf(page) \subseteq Documents
    BY DEF DocumentsOf, Documents
  <2> QED
    BY <1>1, <1>2, <2>1, MountDocumentInv
<1>3. CASE \E how \in ViewsOf(page) : MountView(how)
  BY <1>3, ElsewhereInv DEF MountView, View
<1>4. CASE \E how \in PanesOf(page) : MountPane(how)
  BY <1>4, ElsewhereInv DEF MountPane, Pane
<1>5. CASE \E how \in FormsOf(page) : MountForm(how)
  BY <1>5, ElsewhereInv DEF MountForm, Form
<1>6. CASE LateSavesOf({}) /\ fetches = {} /\ \E how \in SectionsOf(page) : MountSection(how)
  <2>1. Mounted("section")
    BY <1>1, <1>6, MountSectionOK DEF ConsoleInv, Open
  <2> QED
    BY <2>1, ElsewhereInv DEF Mounted
<1> QED
  BY <1>2, <1>3, <1>4, <1>5, <1>6 DEF Open

LEMMA DocumentStepOK ==
  ConsoleInv /\ DocumentInv /\ [ConsoleNext]_consoleVars => DocumentInv'
<1> SUFFICES ASSUME ConsoleInv, DocumentInv, [ConsoleNext]_consoleVars  PROVE DocumentInv'
  OBVIOUS
<1>1. CASE UserStep
  BY <1>1, UserInv
<1>2. CASE Poll
  <2>1. view.kind \in {"view", "pane"} /\ UNCHANGED view
    BY <1>2 DEF Poll, PollView, PollThread, IsView, Showing
  <2> QED
    BY <2>1, ElsewhereInv
<1>3. CASE RefreshStep
  BY <1>3, DocumentRefreshed DEF RefreshStep, ConsoleInv
<1>4. CASE \E f \in fetches : FetchEnds(f) /\ UNCHANGED page
  BY <1>4, EndsInv
<1>5. CASE SwitchTab \/ Navigate \/ SignOut \/ \E f \in fetches : CampaignDeleted(f)
  BY <1>5, LeaveInv DEF SwitchTab, Navigate, SignOut, CampaignDeleted, DeleteAnswer, LeaveView,
                        ConsoleInv
<1>6. CASE Open
  BY <1>6, OpenInv
<1>7. CASE Reloaded
  <2>1. view'.kind = "nothing" /\ fetches' = {}
    BY <1>7, NothingIsOK DEF Reloaded, Unload
  <2> QED
    BY <2>1 DEF DocumentInv, SavesSound
<1>8. CASE SignIn \/ Age
  <2>1. UNCHANGED <<view, fetches>>
    BY <1>8 DEF SignIn, LogIn, Age, TokenAges
  <2>2. SignIn => view.kind = "nothing"
    BY DEF SignIn, LogIn, ConsoleInv, SessionSafe
  <2>3. Age => view.kind = "nothing"
    BY NothingIsOK DEF Age
  <2>4. view.kind # "document"
    BY <1>8, <2>2, <2>3
  <2> QED
    BY <2>1, <2>4, FewerCalls
<1>9. CASE UNCHANGED consoleVars
  <2>1. UNCHANGED <<view, fetches>>
    BY <1>9 DEF consoleVars, viewVars
  <2>2. /\ SavesSound' = SavesSound /\ DocSound' = DocSound /\ CallsSound' = CallsSound
        /\ OneCall' = OneCall /\ LoadsAreCurrent' = LoadsAreCurrent
        /\ RestIsCurrent' = RestIsCurrent
    BY <2>1 DEF SavesSound, Saves, DocSound, CallsSound, Ours, OneCall, LoadsAreCurrent,
                RestIsCurrent, Clean
  <2>3. SavesInStep' = SavesInStep
    BY <2>1 DEF SavesInStep, Settles, InStep, Meant, Comes, Clean
  <2> QED
    BY <2>1, <2>2, <2>3 DEF DocumentInv
<1> QED
  BY <1>1, <1>2, <1>3, <1>4, <1>5, <1>6, <1>7, <1>8, <1>9 DEF ConsoleNext

LEMMA DocumentInitOK == ConsoleInit => DocumentInv
<1> SUFFICES ASSUME ConsoleInit  PROVE DocumentInv
  OBVIOUS
<1>1. view.kind = "nothing" /\ fetches = {}
  BY NothingIsOK DEF ConsoleInit
<1> QED
  BY <1>1 DEF DocumentInv, SavesSound

-----------------------------------------------------------------------------
(* The invariant that the theorems below follow from.                       *)
THEOREM DocumentInvariant == ConsoleSpec => []DocumentInv
<1>1. ConsoleSpec => ConsoleInit /\ [][ConsoleNext]_consoleVars
  BY DEF ConsoleSpec
<1> QED
  BY <1>1, ConsoleInvariant, DocumentInitOK, DocumentStepOK, PTL

(* However calls are ordered, lost or outlive their page, no save takes the *)
(* empty copy of a page that has not loaded to the server: settings,        *)
(* campaigns and the engine's configuration are what somebody entered.      *)
THEOREM NothingIsBlanked == ConsoleSpec => []StoredIsNeverBlank
<1>1. DocumentInv => StoredIsNeverBlank
  BY OtherFacts DEF DocumentInv, DocSound, StoredIsNeverBlank
<1> QED
  BY <1>1, DocumentInvariant, PTL

(* A page at rest whose calls neither failed nor overlapped shows what the  *)
(* server has, in every part the user has not edited since.                 *)
THEOREM RestingDocumentsAreCurrent == ConsoleSpec => []RestingDocumentIsCurrent
<1>1. DocumentInv => RestingDocumentIsCurrent
  <2> SUFFICES ASSUME DocumentInv, view.kind = "document", view.loaded, ~view.disturbed,
                      ~Overlaps, NEW p \in Parts(view.how) \ view.dirty
               PROVE  view.local[p] = view.stored[p]
    BY DEF RestingDocumentIsCurrent
  <2>1. \A f \in fetches : f.op = "gone"
    BY DEF Overlaps
  <2> QED
    BY <2>1 DEF DocumentInv, RestIsCurrent, Clean
<1> QED
  BY <1>1, DocumentInvariant, PTL
=============================================================================
