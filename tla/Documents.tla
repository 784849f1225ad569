----------------------------- MODULE Documents -----------------------------
(***************************************************************************)
(* The pages that edit a copy of something stored on the server: a         *)
(* campaign, the sales engine's configuration, a client's settings.  They  *)
(* load it, edit it, save parts of it, and most load it again after each   *)
(* save, over whatever has been edited meanwhile.                          *)
(***************************************************************************)
EXTENDS Views

Documents == {"campaign", "engine", "settings"}

DocumentsOf(page) ==
  CASE page = "campaign" -> {"campaign"}
    [] page = "sales-engine" -> {"engine"}
    [] page = "settings" -> {"settings"}
    [] OTHER -> {}

Parts(how) ==
  CASE how = "campaign" -> {"steps", "settings"}
    [] how = "engine" -> {"settings", "active"}
    [] how = "settings" -> {"settings"}

(* Two contents of a part are told apart, and from a part that was never    *)
(* loaded.  The one stored when the page is opened is called 1.             *)
Blank == 0
Contents == 1..2
Other(content) == IF content = Blank THEN Blank ELSE 3 - content

Everywhere(how, content) == [p \in Parts(how) |-> content]

(* stored: the server's copy.  History: dirty, parts edited since they were *)
(* loaded; disturbed, a call failed, or ran along with another.             *)
Doc(how) ==
  [kind |-> "document", how |-> how, local |-> Everywhere(how, Blank),
   stored |-> Everywhere(how, 1), loading |-> TRUE, loaded |-> FALSE, failed |-> FALSE,
   busy |-> {}, dirty |-> {}, disturbed |-> \E f \in fetches : f.op = "late save",
   failures |-> 0]

IsDoc(how) == view.kind = "document" /\ view.how = how

DocumentTypeOK ==
  view.kind = "document" =>
    /\ view.how \in Documents
    /\ view.local \in [Parts(view.how) -> Contents \union {Blank}]
    /\ view.dirty \subseteq Parts(view.how) /\ view.busy \subseteq {"save", "scrape"}
    /\ {view.loading, view.loaded, view.failed, view.disturbed} \subseteq BOOLEAN

(* What a call is for: the guard it holds, and what follows its answer.     *)
Tag(for, data) == [how |-> view.how, for |-> for, data |-> data]
LoadFor(how, for) ==
  Call("load", [how |-> how, for |-> for, data |-> Everywhere(how, Blank)])

LateSavesOf(hows) == \A f \in fetches : f.op = "late save" => f.tag.how \in hows
OthersThan(f) == \E g \in fetches \ {f} : g.op # "gone"
Overlaps == \E g \in fetches : g.op # "gone"

-----------------------------------------------------------------------------
MountDocument(how) ==
  /\ view' = Doc(how)
  /\ Request({LoadFor(how, "page")})

(* The campaign and the engine render nothing to edit before they are       *)
(* loaded; the settings page renders its form over an empty configuration.  *)
Editable ==
  /\ view.kind = "document" /\ ~view.loading
  /\ view.loaded \/ view.how = "settings"

(* Bound: a part is edited once between two loads.                          *)
Edit(p) ==
  /\ Editable /\ p \in Parts(view.how) \ (view.dirty \union {"active"})
  /\ view' = [view EXCEPT !.local[p] = Other(@), !.dirty = @ \union {p}]
  /\ UNCHANGED <<session, refresh, fetches>>

Write(call, v) ==
  /\ Free
  /\ view' = [v EXCEPT !.disturbed = @ \/ Overlaps]
  /\ Request({call})
  /\ UNCHANGED session

Only(p, content) == [q \in {p} |-> content]

(* Wrong: settings that could not be loaded can be saved.                   *)
CanSaveUnloaded == Editable /\ "save" \notin view.busy

(* The button of the campaign's steps, and the save buttons of the engine   *)
(* and of the settings page, which hold a flag.                             *)
CanSave ==
  /\ Editable /\ "save" \notin view.busy
  /\ view.how = "settings" => ~view.failed

SaveDocument ==
  /\ CanSave
  /\ LET data == IF view.how = "campaign" THEN Only("steps", view.local["steps"])
                 ELSE view.local
     IN Write(Call("save", Tag("save", data)), [view EXCEPT !.busy = @ \union {"save"}])

SaveCampaignSettings ==
  /\ IsDoc("campaign") /\ Editable
  /\ Write(Call("save", Tag("settings", Only("settings", view.local["settings"]))), view)

(* Activate, pause or resume; and the engine's switch.                      *)
ToggleCampaign ==
  /\ IsDoc("campaign") /\ Editable
  /\ Write(Call("toggle", NoKey), view)

(* Wrong: the switch sends what is shown, not its opposite.                 *)
ToggleEngineToSame ==
  /\ IsDoc("engine") /\ Editable
  /\ Write(Call("save", Tag("switch", Only("active", view.local["active"]))), view)

ToggleEngine ==
  /\ IsDoc("engine") /\ Editable
  /\ Write(Call("save", Tag("switch", Only("active", Other(view.local["active"])))), view)

AssignProspects ==
  /\ IsDoc("campaign") /\ Editable
  /\ Write(Call("assign", NoKey), view)

Scrape ==
  /\ IsDoc("engine") /\ ~view.loading /\ "scrape" \notin view.busy
  /\ Write(Call("scrape", NoKey), [view EXCEPT !.busy = @ \union {"scrape"}])

DeleteCampaign ==
  /\ IsDoc("campaign") /\ Editable
  /\ Write(Call("delete", NoKey), view)

RetryEngine ==
  /\ IsDoc("engine") /\ view.failed /\ ~view.loading
  /\ Write(LoadFor("engine", "page"), [view EXCEPT !.loading = TRUE, !.failed = FALSE])

-----------------------------------------------------------------------------
(* The server keeps the parts a save does not send.                         *)
Over(stored, sent) ==
  [p \in DOMAIN stored |-> IF p \in DOMAIN sent THEN sent[p] ELSE stored[p]]

(* The server answers a load with what it has by then, and stores a save,   *)
(* also one whose page is gone.                                             *)
ServeDocument(f) ==
  /\ f.at = "sent" /\ f.op \in {"load", "save", "late save"}
  /\ LET stores == f.op # "load" /\ IsDoc(f.tag.how)
         answer == IF f.op = "load" THEN [f EXCEPT !.tag.data = view.stored] ELSE f
     IN /\ view' = IF stores THEN [view EXCEPT !.stored = Over(@, f.tag.data)] ELSE view
        /\ fetches' = (fetches \ {f})
             \union (IF f.op = "late save" THEN {} ELSE {[answer EXCEPT !.at = "answered"]})
  /\ UNCHANGED <<session, refresh>>

(* The load that follows a write: alone, it brings everything in step.      *)
ReloadAfter(f, for, v) ==
  /\ view' = [v EXCEPT !.failed = FALSE, !.disturbed = OthersThan(f)]
  /\ RequestAlong(fetches \ {f}, {LoadFor(view.how, for)})

LoadAnswer(f) ==
  /\ f.op = "load"
  /\ view' = [view EXCEPT !.local = f.tag.data, !.loaded = TRUE, !.loading = FALSE,
                          !.dirty = {}, !.busy = @ \ {f.tag.for}]
  /\ Answered(f) /\ UNCHANGED refresh

(* handleSaveSequence lets go of its button without waiting for the load;   *)
(* the engine's handlers hold theirs until it is there.                     *)
SaveAnswer(f) ==
  /\ f.op = "save"
  /\ CASE view.how = "campaign" ->
            ReloadAfter(f, "page", [view EXCEPT !.busy = @ \ {f.tag.for}])
       [] view.how = "settings" ->
            /\ view' = [view EXCEPT !.busy = {},
                          !.dirty = {p \in @ : view.local[p] # f.tag.data[p]}]
            /\ Answered(f) /\ UNCHANGED refresh
       [] f.tag.for = "switch" ->
            /\ view' = [view EXCEPT !.local["active"] = Other(@)]
            /\ Answered(f) /\ UNCHANGED refresh
       [] OTHER -> ReloadAfter(f, "save", view)

DocumentAnswer(f) ==
  /\ view.kind = "document"
  /\ \/ f.at = "answered" /\ (LoadAnswer(f) \/ SaveAnswer(f))
     \/ f.at = "sent" /\ f.op \in {"toggle", "assign"} /\ ReloadAfter(f, "page", view)
     \/ f.at = "sent" /\ f.op = "scrape" /\ ReloadAfter(f, "scrape", view)
  /\ UNCHANGED session

(* Deleted: the page goes back to the campaigns.                            *)
DeleteAnswer(f) ==
  /\ IsDoc("campaign") /\ f.op = "delete" /\ f.at = "sent"
  /\ view' = Nothing
  /\ fetches' = Leaving
  /\ UNCHANGED <<session, refresh>>

Holds(f) == CASE f.op \in {"load", "save"} -> f.tag.for [] OTHER -> f.op

DocumentFailed(f) ==
  [view EXCEPT !.disturbed = TRUE, !.busy = @ \ {Holds(f)},
               !.loading = @ /\ f.op # "load",
               !.failed = @ \/ (f.op = "load" /\ view.how # "campaign")]

UserDocumentStep ==
  \/ \E p \in {"steps", "settings"} : Edit(p)
  \/ SaveDocument \/ SaveCampaignSettings \/ ToggleCampaign \/ ToggleEngine
  \/ AssignProspects \/ Scrape \/ DeleteCampaign \/ RetryEngine

-----------------------------------------------------------------------------
(* A page that could not load the settings does not save its empty copy     *)
(* over the stored ones, however its calls were ordered or lost.            *)
StoredIsNeverBlank ==
  view.kind = "document" => \A p \in Parts(view.how) : view.stored[p] # Blank

(* A loaded page with no call under way shows what is stored, but for what  *)
(* the user has edited since; unless calls failed or ran along each other.  *)
RestingDocumentIsCurrent ==
  view.kind = "document" /\ view.loaded /\ ~view.disturbed /\ ~Overlaps
    => \A p \in Parts(view.how) \ view.dirty : view.local[p] = view.stored[p]
=============================================================================
