---------------------------- MODULE LeadPipeline ----------------------------
(***************************************************************************)
(* The lead pipeline as it is deployed: web requests (Conductor) in the    *)
(* gunicorn workers, and the lead state manager and the SMS dispatcher as  *)
(* two loops of the one process that runs the background workers, all on   *)
(* the tables of LeadStore.  Added here: time, PostgreSQL's deadlock       *)
(* detector, and the crash of the worker process.                          *)
(***************************************************************************)
EXTENDS Conductor, LeadStateManager, SmsDispatch

workerVars == <<mgr, disp, nurtured>>
pipelineVars == <<vars, workerVars>>

PipelineTypeOK == TypeOK /\ ManagerTypeOK /\ DispatcherTypeOK

PipelineInit == Init /\ ManagerInit /\ DispatcherInit

-----------------------------------------------------------------------------
WebStep == ConductorNext /\ UNCHANGED workerVars

ManagerStep == ManagerNext /\ UNCHANGED <<conductorVars, disp, nurtured>>

DispatcherStep == DispatcherNext /\ UNCHANGED <<conductorVars, mgr>>

(* Time passes for a lead nobody writes to, and towards an appointment.     *)
LeadAges(l) ==
  /\ Exists(l)
  /\ lead[l].age < Quarter
  /\ lead' = [lead EXCEPT ![l].age = @ + 1]
  /\ wire' = NoSms
  /\ UNCHANGED <<created, optedOut, booking, task, lockedBy, conductorVars, workerVars>>

AppointmentNears(l) ==
  /\ booking[l].status # "none"
  /\ booking[l].when < PastDay
  /\ booking' = [booking EXCEPT ![l].when = @ + 1]
  /\ wire' = NoSms
  /\ UNCHANGED <<created, lead, optedOut, task, lockedBy, conductorVars, workerVars>>

-----------------------------------------------------------------------------
(* Which session waits for a row that session t holds.                      *)

StopWaits(p, t) ==
  /\ At(p, "cancelling")
  /\ \E k \in web[p].doomed : lockedBy[TaskRow(web[p].lead, k)] = t

ManagerWaits(t) ==
  /\ mgr.pc = "flush"
  /\ \/ \E l \in Dirty \ mgr.flushed : lockedBy[LeadRow(l)] = t
     \/ Dirty \subseteq mgr.flushed /\ \E r \in Wanted : lockedBy[r] = t

DispatcherWaits(t) ==
  /\ disp.pc = "next"
  /\ disp.todo = {} \/ \E i \in disp.todo : ~disp.seen[i[2]].loaded
  /\ \E l \in disp.dirty : lockedBy[LeadRow(l)] = t

Waits(s, t) ==
  /\ s # t
  /\ \/ s \in Web /\ StopWaits(s, t)
     \/ s = Manager /\ ManagerWaits(t)
     \/ s = Dispatcher /\ DispatcherWaits(t)

Blocked(c) == c # {} /\ \A s \in c : \E t \in c : Waits(s, t)
Deadlocked(c) == Blocked(c) /\ \A d \in SUBSET c : Blocked(d) => d = c

(* PostgreSQL aborts one session of a deadlock, whichever times out first.  *)
AbortStop(p) ==
  /\ lockedBy' = Unlocked(p)
  /\ Finish(p)
  /\ wire' = NoSms
  /\ UNCHANGED <<created, lead, optedOut, booking, task, lockVars, edgeVars, workerVars>>

AbortManager == RollBackPhase /\ UNCHANGED <<conductorVars, disp, nurtured>>
AbortDispatcher == RollBackRound /\ UNCHANGED <<conductorVars, mgr>>

BreakDeadlock ==
  \E c \in SUBSET Sessions :
    /\ Deadlocked(c)
    /\ \/ \E p \in c \cap Web : AbortStop(p)
       \/ Manager \in c /\ AbortManager
       \/ Dispatcher \in c /\ AbortDispatcher

(* The worker process dies and is started again.                            *)
WorkerCrash ==
  /\ "restart" \in Faults
  /\ mgr.pc # "idle" \/ disp.pc # "idle"
  /\ lockedBy' = [r \in Rows |-> IF lockedBy[r] \in {Manager, Dispatcher} THEN NoProc ELSE lockedBy[r]]
  /\ mgr' = Between("sweep")
  /\ disp' = Waiting("followups")
  /\ wire' = NoSms
  /\ UNCHANGED <<created, lead, optedOut, booking, task, nurtured, conductorVars>>

PipelineNext ==
  \/ WebStep \/ ManagerStep \/ DispatcherStep
  \/ BreakDeadlock \/ WorkerCrash
  \/ \E l \in Leads : LeadAges(l) \/ AppointmentNears(l)

(* Requests and both loops keep running, and the deadlock detector runs.    *)
(* The loops are strongly fair: PostgreSQL queues the sessions that wait    *)
(* for a row, so one that is released again and again is theirs in turn.    *)
PipelineFairness ==
  /\ ConductorFairness
  /\ SF_pipelineVars(ManagerStep)
  /\ SF_pipelineVars(DispatcherStep)
  /\ WF_pipelineVars(BreakDeadlock)

PipelineSpec == PipelineInit /\ [][PipelineNext]_pipelineVars /\ PipelineFairness

-----------------------------------------------------------------------------
(* The texts that are stopped by the row locks the opt-out needs too: the   *)
(* lead row for a reply, the followup_tasks row for a follow-up whose phase *)
(* writes the lead row, so that it is scheduled before the STOP's UPDATE or *)
(* after its COMMIT.  (FollowupsHonourStop is about the others.)            *)
Covered == {"reply", "cold_nurture", "review_request"}

Contract == INSTANCE OptOutContract WITH
  Nobody <- 0,
  stopped <- {l \in Leads : optedOut[l]},
  texted <- IF wire.kind \in Covered THEN wire.to ELSE 0

(* conductor.py:471-491, sms_dispatch.py:158-246, conductor.py:743-787: no  *)
(* interleaving of replies, follow-up rounds, deadlocks and crashes lets a  *)
(* reply, a nurture message or a review request out after the commit of the *)
(* lead's STOP, and none undoes the opt-out.                                *)
HonoursOptOut == Contract!Spec

(* conductor.py:746: "Process STOP/opt-out.  Immediately cease all          *)
(* messaging."  (An escalation is scheduled without writing the lead row:   *)
(* committed between the UPDATE and the COMMIT of a STOP, it is neither     *)
(* cancelled nor held back.)                                                *)
FollowupsHonourStop == wire.kind \in TaskTypes => ~optedOut[wire.to]

(* conductor.py:659-703: "booked" and its bookings row are committed as     *)
(* one, and no stale write separates them.  (The dashboard can: it sets any *)
(* state.)                                                                  *)
BookedHasBooking ==
  "status" \in Dashboard \/
  \A l \in Leads : lead[l].state = "booked" => booking[l].status # "none"

(* lead_state_manager.py:298-306,474-487: a lead that is closed is left     *)
(* alone: what was pending for it has been cancelled (a completed lead may  *)
(* still be asked for a review), and no later pass, working on what it read *)
(* before, adds a task.                                                     *)
ClosedIsLeftAlone ==
  "status" \in Dashboard \/
  \A l \in Leads :
    /\ lead[l].state = "dead" => PendingTasks(l) = {}
    /\ lead[l].state = "completed" => PendingTasks(l) \subseteq {"review_request"}

(* lead_state_manager.py:162: at most MAX_BOOKING_ESCALATIONS_PER_LEAD are  *)
(* recorded for a lead, counting the one that waits.                        *)
EscalationsCapped ==
  \A l \in Leads : LET t == task[l]["booking_escalation"] IN
    t.sent + (IF t.status = "pending" THEN 1 ELSE 0) <= MaxEscalations

(* Each round of the dispatcher and each phase of the manager ends: every   *)
(* deadlock among them and the requests is one the database breaks.         *)
RoundsEnd == disp.pc # "idle" ~> disp.pc = "idle"
PhasesEnd == mgr.pc # "idle" ~> mgr.pc = "idle"

(* compliance.py:243: "Max 3 cold outreach messages per lead, ever."        *)
NurtureLimit == \A l \in Leads : nurtured[l] <= MaxOutreach
=============================================================================
