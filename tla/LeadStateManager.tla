--------------------------- MODULE LeadStateManager ---------------------------
(***************************************************************************)
(* src/workers/lead_state_manager.py: one loop that runs six phases, each  *)
(* in a session of its own.  A phase SELECTs the leads it is about, decides*)
(* on what it read, flushes its lead rows one by one, and commits.  It     *)
(* takes no lead lock and no FOR UPDATE, so web requests and the SMS       *)
(* dispatcher get in between the SELECT and the COMMIT.                    *)
(***************************************************************************)
EXTENDS LeadStore

CONSTANTS
  ColdFollowups   \* the plans the client may have: a subset of BOOLEAN,
                  \* the values of is_cold_followup_enabled(client.tier)

VARIABLE mgr
(* mgr.phase: the phase that runs or comes next; mgr.pc: "idle" before its  *)
(* SELECT, "flush" while it writes; mgr.chosen: the leads it works on;      *)
(* mgr.seen: their states when it read them; mgr.gets: the leads it adds a  *)
(* task for; mgr.flushed: the lead rows written so far.                     *)

Phases == {"sweep", "complete", "no_show", "archive", "dead", "recycle"}
Follows == [sweep |-> "complete", complete |-> "no_show", no_show |-> "archive",
            archive |-> "dead", dead |-> "recycle", recycle |-> "sweep"]

ManagerTypeOK ==
  mgr \in [pc : {"idle", "flush"}, phase : Phases, chosen : SUBSET Leads,
           seen : [Leads -> States], gets : SUBSET Leads, flushed : SUBSET Leads]

Between(phase) ==
  [pc |-> "idle", phase |-> phase, chosen |-> {},
   seen |-> [l \in Leads |-> "new"], gets |-> {}, flushed |-> {}]

ManagerInit == mgr = Between("sweep")

NextPhase == mgr' = Between(Follows[mgr.phase])

-----------------------------------------------------------------------------
(* The WHERE clauses.                                                       *)

StuckStates == {"intake_sent", "qualifying", "qualified", "booking"}

Overdue(l) == lead[l].state \in StuckStates /\ lead[l].age >= Stuck

Appointed(l) ==
  /\ lead[l].state = "booked"
  /\ ~lead[l].archived
  /\ booking[l].status = "confirmed"

Attended(l) == Appointed(l) /\ booking[l].when = PastDay

NoShow(l) == Appointed(l) /\ booking[l].windowed /\ booking[l].when = Missed

Exhausted(l) ==
  /\ lead[l].state = "cold"
  /\ ~lead[l].archived
  /\ lead[l].age >= Month \/ lead[l].outreach >= MaxOutreach

Recyclable(l) ==
  /\ lead[l].state = "cold"
  /\ ~lead[l].archived
  /\ lead[l].outreach < MaxOutreach
  /\ lead[l].age = Recycle

Selected(phase) ==
  {l \in 1..created :
     CASE phase = "sweep"    -> Overdue(l)
       [] phase = "complete" -> Attended(l)
       [] phase = "no_show"  -> NoShow(l)
       [] phase = "dead"     -> Exhausted(l)
       [] phase = "recycle"  -> Recyclable(l)
       [] OTHER              -> FALSE}

-----------------------------------------------------------------------------
(* What a phase schedules.                                                  *)

(* The type of task each phase schedules, and the types it cancels.  Wrong: *)
(* dead leads keep their tasks.                                             *)
Schedules ==
  [sweep |-> "booking_escalation", complete |-> "review_request",
   no_show |-> "no_show_recovery", recycle |-> "cold_nurture"]

CancelsOnComplete(phase) ==
  IF phase = "complete" THEN TaskTypes \ {"review_request"} ELSE {}

Cancels(phase) ==
  CASE phase = "complete" -> TaskTypes \ {"review_request"}
    [] phase = "dead"     -> TaskTypes
    [] OTHER              -> {}

(* Wrong: the cap on escalations is forgotten.                              *)
MayScheduleUncapped(l, k) ==
  /\ task[l][k].status # "pending"
  /\ k = "booking_escalation" => lead[l].state = "booking"
  /\ k = "cold_nurture" => TRUE \in ColdFollowups

(* Never a second task of a type while one is pending; an escalation only   *)
(* below the cap and for a lead stuck in "booking"; a nurture message only  *)
(* if the plan has cold follow-ups.                                         *)
MaySchedule(l, k) ==
  /\ task[l][k].status # "pending"
  /\ k = "booking_escalation" => /\ lead[l].state = "booking"
                                 /\ task[l][k].sent < MaxEscalations
  /\ k = "cold_nurture" => TRUE \in ColdFollowups

(* BOOKING_ESCALATION_COOLDOWN_HOURS after the last one sent, and the plan, *)
(* may forbid what MaySchedule allows.                                      *)
MustSchedule(l, k) ==
  /\ MaySchedule(l, k)
  /\ k = "booking_escalation" => task[l][k].sent = 0
  /\ k = "cold_nurture" => ColdFollowups = {TRUE}

(* The leads among ls that get a task: all that must, some that may.        *)
Receivers(phase, ls) ==
  IF phase \notin DOMAIN Schedules THEN {{}}
  ELSE LET k == Schedules[phase] IN
       {rs \in SUBSET {l \in ls : MaySchedule(l, k)} :
          {l \in ls : MustSchedule(l, k)} \subseteq rs}

-----------------------------------------------------------------------------
(* One pass of a phase over the leads it selected.                          *)

SelectLeads ==
  /\ mgr.pc = "idle"
  /\ mgr.phase # "archive"
  /\ Selected(mgr.phase) # {}
  /\ \E rs \in Receivers(mgr.phase, Selected(mgr.phase)) :
       mgr' = [mgr EXCEPT !.pc = "flush", !.chosen = Selected(mgr.phase), !.gets = rs,
                          !.seen = [l \in Leads |-> lead[l].state]]
  /\ StoreRests

NothingSelected ==
  /\ mgr.pc = "idle"
  /\ mgr.phase # "archive"
  /\ Selected(mgr.phase) = {}
  /\ NextPhase
  /\ StoreRests

(* The leads whose own row the phase writes: the sweep leaves a lead in     *)
(* "booking" alone, a no-show changes the booking only, and recycling       *)
(* writes next_followup_at of the leads that get a task.                    *)
Dirty ==
  CASE mgr.phase = "sweep"   -> {l \in mgr.chosen : mgr.seen[l] # "booking"}
    [] mgr.phase = "no_show" -> {}
    [] mgr.phase = "recycle" -> mgr.gets
    [] OTHER                 -> mgr.chosen

FlushLead(l) ==
  /\ mgr.pc = "flush"
  /\ l \in Dirty \ mgr.flushed
  /\ CanLock(Manager, LeadRow(l))
  /\ lockedBy' = Locked(Manager, {LeadRow(l)})
  /\ mgr' = [mgr EXCEPT !.flushed = @ \cup {l}]
  /\ wire' = NoSms
  /\ UNCHANGED <<created, lead, optedOut, booking, task>>

(* The state the phase assigns to a lead it saw in state s.                 *)
Assigned(phase, s) ==
  CASE phase = "sweep" /\ s = "intake_sent" -> "qualifying"
    [] phase = "sweep" /\ s \in {"qualifying", "qualified"} -> "cold"
    [] phase = "complete" -> "completed"
    [] phase = "dead" -> "dead"
    [] OTHER -> s

LeadsAfter ==
  [l \in Leads |->
     IF l \in Dirty
     THEN [lead[l] EXCEPT
             !.state = Written(mgr.seen[l], Assigned(mgr.phase, mgr.seen[l]), @),
             !.age = Fresh]
     ELSE lead[l]]

BookingsAfter ==
  [l \in Leads |->
     CASE l \in mgr.chosen /\ mgr.phase = "complete" -> [booking[l] EXCEPT !.status = "completed"]
       [] l \in mgr.chosen /\ mgr.phase = "no_show"  -> [booking[l] EXCEPT !.status = "no_show"]
       [] OTHER -> booking[l]]

TasksAfter ==
  [l \in Leads |-> [k \in TaskTypes |->
     LET t == task[l][k] IN
     CASE l \in mgr.gets /\ k = Schedules[mgr.phase] ->
            [t EXCEPT !.status = "pending", !.attempts = 0]
       [] l \in mgr.chosen /\ k \in Cancels(mgr.phase) /\ t.status = "pending" ->
            [t EXCEPT !.status = "cancelled"]
       [] OTHER -> t]]

(* Rows other than lead rows that the phase still has to lock: the bookings *)
(* it writes and the pending tasks it cancels.                              *)
Wanted ==
  {BookingRow(l) : l \in IF mgr.phase \in {"complete", "no_show"} THEN mgr.chosen ELSE {}}
    \cup UNION {{TaskRow(l, k) : k \in PendingTasks(l) \cap Cancels(mgr.phase)} : l \in mgr.chosen}

(* Wrong: flushed, but the transaction stays open.                          *)
CommitPhaseKeepsRows ==
  /\ mgr.pc = "flush"
  /\ Dirty \subseteq mgr.flushed
  /\ \A r \in Wanted : CanLock(Manager, r)
  /\ NextPhase
  /\ StoreRests

CommitPhase ==
  /\ mgr.pc = "flush"
  /\ Dirty \subseteq mgr.flushed
  /\ \A r \in Wanted : CanLock(Manager, r)
  /\ task' = TasksAfter
  /\ lead' = LeadsAfter
  /\ booking' = BookingsAfter
  /\ lockedBy' = Unlocked(Manager)
  /\ NextPhase
  /\ wire' = NoSms
  /\ UNCHANGED <<created, optedOut>>

(* _archive_old_leads is one UPDATE, which waits for locked rows.           *)
Archivable(l) ==
  /\ Exists(l)
  /\ lead[l].state \in {"completed", "dead", "opted_out"}
  /\ ~lead[l].archived
  /\ lead[l].age = Quarter

ArchiveOld ==
  /\ mgr.pc = "idle"
  /\ mgr.phase = "archive"
  /\ \A l \in Leads : Archivable(l) => lockedBy[LeadRow(l)] = NoProc
  /\ lead' = [l \in Leads |->
       IF Archivable(l) THEN [lead[l] EXCEPT !.archived = TRUE, !.age = Fresh] ELSE lead[l]]
  /\ NextPhase
  /\ wire' = NoSms
  /\ UNCHANGED <<created, optedOut, booking, task, lockedBy>>

(* An error in a phase (a deadlock, a lost connection) is caught by the     *)
(* loop: the session rolls back, and the next cycle starts with the sweep.  *)
RollBackPhase ==
  /\ lockedBy' = Unlocked(Manager)
  /\ mgr' = Between("sweep")
  /\ wire' = NoSms
  /\ UNCHANGED <<created, lead, optedOut, booking, task>>

ManagerNext ==
  \/ SelectLeads \/ NothingSelected \/ CommitPhase \/ ArchiveOld
  \/ \E l \in Leads : FlushLead(l)
=============================================================================
