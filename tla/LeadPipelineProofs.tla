-------------------------- MODULE LeadPipelineProofs --------------------------
(***************************************************************************)
(* Proofs about LeadPipeline, for any number of requests and leads, any    *)
(* limits, any set of faults: its type, what Conductor proved of the web   *)
(* side alone, and that it implements OptOutContract.                      *)
(***************************************************************************)
EXTENDS LeadPipeline, ConductorProofs

(* Every row the dispatcher took in this round.                             *)
InHand == disp.todo \cup disp.sent \cup disp.skipped \cup disp.raised
            \cup (IF disp.pc = "item" THEN {disp.cur} ELSE {})

HeldByDispatcher(l, k) == lockedBy[TaskRow(l, k)] = Dispatcher

(* The types of task that are scheduled by a phase that writes the row of   *)
(* the lead, so that a STOP and the phase exclude each other.               *)
Guarded == {"cold_nurture", "review_request"}

(* A pending task has an attempt left.                                      *)
AttemptsLeft ==
  \A l \in Leads, k \in TaskTypes :
    task[l][k].status = "pending" => task[l][k].attempts < MaxAttempts

(* The item at hand is an item, and its lead has been loaded.               *)
ItemLoaded == disp.pc = "item" => disp.cur \in Items /\ disp.seen[disp.cur[2]].loaded

(* The tasks of a round stay locked and pending until its commit.           *)
TasksHeld ==
  \A l \in Leads, k \in TaskTypes : <<k, l>> \in InHand =>
    HeldByDispatcher(l, k) /\ task[l][k].status = "pending"

(* While it has a guarded task of a lead in hand, what the dispatcher read  *)
(* of the lead's consent still holds: a STOP waits for the task's row.      *)
ClearStaysClear ==
  \A l \in Leads, k \in Guarded :
    <<k, l>> \in InHand /\ disp.seen[l].loaded /\ disp.seen[l].clear => ~optedOut[l]

(* Between rounds the dispatcher has nothing in hand and has read nothing.  *)
RoundStartsEmpty ==
  disp.pc = "idle" =>
    /\ disp.todo = {} /\ disp.sent = {} /\ disp.skipped = {} /\ disp.raised = {}
    /\ \A l \in Leads : ~disp.seen[l].loaded

DispatchSafe ==
  AttemptsLeft /\ ItemLoaded /\ TasksHeld /\ ClearStaysClear /\ RoundStartsEmpty

(* A phase of the manager schedules tasks only for leads it has selected.   *)
GetsAreChosen ==
  /\ mgr.gets \subseteq mgr.chosen
  /\ mgr.gets # {} => mgr.phase \in DOMAIN Schedules

(* The escalations that a sweep is about to add have room under the cap:    *)
(* nobody else schedules any.                                               *)
EscalationsHaveRoom ==
  mgr.phase = "sweep" => \A l \in mgr.gets : LET t == task[l]["booking_escalation"] IN
    t.status # "pending" /\ t.sent < MaxEscalations

EscalationsSafe == GetsAreChosen /\ EscalationsHaveRoom /\ EscalationsCapped

(* The manager holds the lead rows it has flushed in the phase.             *)
FlushedHeld == \A l \in mgr.flushed : lockedBy[LeadRow(l)] = Manager

(* Between the start of its UPDATE and its COMMIT a STOP has the pending    *)
(* guarded tasks of its lead before it or in hand: none is added meanwhile. *)
StopHoldsTasks ==
  \A p \in Web : web[p].pc = "cancelling" =>
    \A k \in Guarded : task[web[p].lead][k].status = "pending" =>
      k \in web[p].doomed \/ lockedBy[TaskRow(web[p].lead, k)] = p

StopsTakeTasks == FlushedHeld /\ StopHoldsTasks

PipelineInv ==
  PipelineTypeOK /\ ConductorSafe /\ DispatchSafe /\ EscalationsSafe /\ StopsTakeTasks

(* What a reply is about to write: it books only with a Booking, and closes *)
(* no lead.                                                                 *)
KeepsOpen(r) ==
  /\ r.pc \in {"stopping", "cancelling"} => r.new = "opted_out"
  /\ r.pc \in {"send", "commit"} =>
       /\ r.new \in {"dead", "completed"} => r.new = r.state
       /\ r.new = "booked" => r.books \/ r.state = "booked"

RepliesKeepOpen == \A p \in Web : KeepsOpen(web[p])

(* No lead is closed while a phase works on it: only the manager closes.    *)
ChosenAreOpen ==
  \A l \in mgr.chosen : lead[l].state \notin {"dead", "completed"}

StatesSafe ==
  /\ RepliesKeepOpen
  /\ "status" \in Dashboard \/ ChosenAreOpen
  /\ BookedHasBooking
  /\ ClosedIsLeftAlone

-----------------------------------------------------------------------------
LEMMA SessionsDiffer ==
  /\ Dispatcher \in Sessions /\ Manager \in Sessions /\ Web \subseteq Sessions
  /\ Dispatcher \notin Web /\ Manager \notin Web /\ Manager # Dispatcher
  /\ NoProc \notin Sessions
BY StoreConstants DEF Sessions

(* When session s takes rows it may take, or ends, no other session gains   *)
(* or loses a row.                                                          *)
LEMMA OthersKeepRows ==
  ASSUME lockedBy \in [Rows -> Sessions \cup {NoProc}],
         NEW s \in Sessions, NEW t \in Sessions, s # t, NEW r \in Rows,
         NEW rs, \A x \in rs : CanLock(s, x)
  PROVE  /\ Locked(s, rs)[r] = t <=> lockedBy[r] = t
         /\ Unlocked(s)[r] = t <=> lockedBy[r] = t
BY SessionsDiffer DEF Locked, Unlocked, CanLock

-----------------------------------------------------------------------------
(* What a step of a web request may do to the workers' business.            *)
WebFrame ==
  /\ \A r \in Rows, s \in {Manager, Dispatcher} : lockedBy'[r] = s <=> lockedBy[r] = s
  /\ \A l \in Leads, k \in TaskTypes :
       \/ task'[l][k] = task[l][k]
       \/ /\ task'[l][k] = [task[l][k] EXCEPT !.status = "cancelled"]
          /\ task[l][k].status = "pending"
          /\ ~HeldByDispatcher(l, k)
  /\ wire'.kind \notin TaskTypes
  /\ \/ optedOut' = optedOut
     \/ \E l \in Leads :
          /\ optedOut' = [optedOut EXCEPT ![l] = TRUE]
          /\ wire' = NoSms
          /\ \A k \in Guarded : task[l][k].status = "pending" => ~HeldByDispatcher(l, k)

LEMMA QuietFrame ==
  ASSUME UNCHANGED <<task, optedOut, lockedBy>>, wire'.kind \notin TaskTypes
  PROVE  WebFrame
BY DEF WebFrame

LEMMA RowFrame ==
  ASSUME TypeOK, NEW p \in Web, UNCHANGED <<task, optedOut>>, wire' = NoSms,
         \/ lockedBy' = Unlocked(p)
         \/ \E rs : (\A r \in rs : CanLock(p, r)) /\ lockedBy' = Locked(p, rs)
  PROVE  WebFrame
<1>1. ASSUME NEW r \in Rows, NEW s \in {Manager, Dispatcher}
      PROVE  lockedBy'[r] = s <=> lockedBy[r] = s
  <2>1. p \in Sessions /\ s \in Sessions /\ p # s
    BY SessionsDiffer
  <2>2. CASE lockedBy' = Unlocked(p)
    BY <2>1, <2>2, SessionsDiffer DEF Unlocked, TypeOK, StoreTypeOK
  <2>3. ASSUME NEW rs, \A x \in rs : CanLock(p, x), lockedBy' = Locked(p, rs)
        PROVE  lockedBy'[r] = s <=> lockedBy[r] = s
    BY <2>1, <2>3, OthersKeepRows DEF TypeOK, StoreTypeOK
  <2> QED
    BY <2>2, <2>3
<1>2. NoSms.kind \notin TaskTypes
  BY DEF NoSms, TaskTypes
<1> QED
  BY <1>1, <1>2 DEF WebFrame

LEMMA CommitStopFrame ==
  ASSUME TypeOK, StopHoldsTasks, NEW p \in Web, CommitStop(p)
  PROVE  WebFrame
<1> DEFINE l == web[p].lead
<1>1. l \in Leads
  BY RequestTyped DEF TypeOK, ConductorTypeOK
<1>2. \A k \in Guarded : task[l][k].status = "pending" => ~HeldByDispatcher(l, k)
  BY SessionsDiffer DEF CommitStop, At, StopHoldsTasks, HeldByDispatcher
<1>3. \A r \in Rows, s \in {Manager, Dispatcher} : lockedBy'[r] = s <=> lockedBy[r] = s
  BY SessionsDiffer DEF CommitStop, Unlocked, TypeOK, StoreTypeOK
<1>4. ASSUME NEW m \in Leads, NEW k \in TaskTypes
      PROVE  \/ task'[m][k] = task[m][k]
             \/ /\ task'[m][k] = [task[m][k] EXCEPT !.status = "cancelled"]
                /\ task[m][k].status = "pending"
                /\ ~HeldByDispatcher(m, k)
  <2> DEFINE ks == TakenTasks(p, l)
  <2>1. task' = Cancelled(l, ks)
    BY DEF CommitStop
  <2>a. k \in ks => ~HeldByDispatcher(l, k)
    BY SessionsDiffer DEF TakenTasks, HeldByDispatcher
  <2> HIDE DEF ks
  <2>2. CASE m # l
    BY <2>1, <2>2 DEF Cancelled, TypeOK, StoreTypeOK
  <2>3. CASE m = l /\ (task[l][k].status # "pending" \/ k \notin ks)
    BY <1>1, <2>1, <2>3 DEF Cancelled, TypeOK, StoreTypeOK
  <2>4. CASE m = l /\ task[l][k].status = "pending" /\ k \in ks
    <3>1. task'[l][k] = [task[l][k] EXCEPT !.status = "cancelled"]
      BY <1>1, <2>1, <2>4 DEF Cancelled, TypeOK, StoreTypeOK
    <3> QED
      BY <2>a, <2>4, <3>1
  <2> QED
    BY <2>2, <2>3, <2>4
<1>5. optedOut' = [optedOut EXCEPT ![l] = TRUE] /\ wire' = NoSms
  BY DEF CommitStop
<1>6. wire'.kind \notin TaskTypes
  BY <1>5 DEF NoSms, TaskTypes
<1> QED
  BY <1>1, <1>2, <1>3, <1>4, <1>5, <1>6 DEF WebFrame

LEMMA OtherTextKinds ==
  /\ NoSms.kind \notin TaskTypes
  /\ \A l, k : k \in {"reply", "intake", "duplicate_ack", "manual"} =>
       Sms(l, k).kind \notin TaskTypes
BY DEF NoSms, Sms, TaskTypes

LEMMA WebFrames ==
  ASSUME TypeOK, StopHoldsTasks, ConductorNext
  PROVE  WebFrame
<1> USE QuietFrame, OtherTextKinds
<1>1. ASSUME NEW p \in Web, NewLeadStep(p)
      PROVE  WebFrame
  BY <1>1 DEF NewLeadStep, RejectLead, CreateLead, PassCompliance, BlockLead, Greet, GreetFails,
    FinishGreeting, StoreRests
<1>2. ASSUME NEW p \in Web, FlushStop(p)
      PROVE  WebFrame
  <2>1. \A r \in {LeadRow(web[p].lead)} : CanLock(p, r)
    BY <1>2 DEF FlushStop
  <2> QED
    BY <1>2, <2>1, RowFrame DEF FlushStop
<1>3. ASSUME NEW p \in Web, CommitStop(p)
      PROVE  WebFrame
  BY <1>3, CommitStopFrame
<1>4. ASSUME NEW p \in Web, NEW s, NEW books, Flush(p, s, books)
      PROVE  WebFrame
  <2>1. \A r \in {LeadRow(web[p].lead)} : CanLock(p, r)
    BY <1>4 DEF Flush
  <2> QED
    BY <1>4, <2>1, RowFrame DEF Flush
<1>5. ASSUME NEW p \in Web, CommitReply(p) \/ Crash(p)
      PROVE  WebFrame
  BY <1>5, RowFrame DEF CommitReply, Crash
<1>6. ASSUME NEW p \in Web, ReplyStep(p)
      PROVE  WebFrame
  BY <1>4, <1>5, <1>6 DEF ReplyStep, EnterLock, WaitForLock, GiveUpReply, RouteTurnLimit,
    RouteToQualify, RouteToBook, RouteRaises, SendReply, WithholdReply, ReleaseLock, StoreRests
<1>7. ASSUME NEW p \in Web, SendManualReply(p) \/ Arrive(p)
      PROVE  WebFrame
  BY <1>7 DEF SendManualReply, Arrive, SubmitLead, AcknowledgeDuplicate, ReceiveStop,
    ReceiveReply, OpenManualReply, StoreRests
<1>8. ASSUME Environment
      PROVE  WebFrame
  BY <1>8 DEF Environment, DedupExpires, SetStatus, SetArchived, LockExpires, StoreRests
<1>9. ASSUME NEW p \in Web, NEW k \in TaskTypes, CancelTask(p, k)
      PROVE  WebFrame
  <2> DEFINE rs == {TaskRow(web[p].lead, j) : j \in {k} \cap PendingTasks(web[p].lead)}
  <2>1. \A r \in rs : CanLock(p, r)
    BY <1>9 DEF CancelTask
  <2>2. lockedBy' = Locked(p, rs) /\ UNCHANGED <<task, optedOut>> /\ wire' = NoSms
    BY <1>9 DEF CancelTask
  <2> HIDE DEF rs
  <2> QED
    BY <2>1, <2>2, RowFrame
<1>10. ASSUME NEW p \in Web, BeginCancel(p)
       PROVE  WebFrame
  BY <1>10 DEF BeginCancel, StoreRests
<1> QED
  BY <1>1, <1>2, <1>3, <1>5, <1>6, <1>7, <1>8, <1>9, <1>10
     DEF ConductorNext, Proceed, StopStep, UpdateTasks

-----------------------------------------------------------------------------
(* Types.  What a worker leaves alone stays in its type.                    *)
LEMMA WebTypesRest == ConductorTypeOK /\ UNCHANGED conductorVars => ConductorTypeOK'
BY LockRests DEF ConductorTypeOK, conductorVars, edgeVars

LEMMA BetweenTyped ==
  ASSUME NEW phase \in Phases
  PROVE  Between(phase) \in [pc : {"idle", "flush"}, phase : Phases, chosen : SUBSET Leads,
           seen : [Leads -> States], gets : SUBSET Leads, flushed : SUBSET Leads]
BY StatesNamed DEF Between

LEMMA PhasesFollow ==
  /\ "sweep" \in Phases
  /\ \A phase \in Phases : Follows[phase] \in Phases
BY DEF Phases, Follows

LEMMA WaitingTyped ==
  ASSUME NEW round \in Rounds
  PROVE  Waiting(round) \in
       [round : Rounds, pc : {"idle", "next", "item"}, todo : SUBSET Items,
        cur : Items \cup {<<>>}, sent : SUBSET Items, skipped : SUBSET Items,
        raised : SUBSET Items, dirty : SUBSET Leads,
        seen : [Leads -> [loaded : BOOLEAN, state : States,
                          outreach : 0..(MaxOutreach + 1), clear : BOOLEAN]]]
<1>1. Unseen \in [loaded : BOOLEAN, state : States, outreach : 0..(MaxOutreach + 1), clear : BOOLEAN]
  BY StatesNamed, StoreConstants DEF Unseen
<1> QED
  BY <1>1 DEF Waiting

LEMMA RoundsFollow ==
  /\ "followups" \in Rounds
  /\ \A round \in Rounds : RoundAfter[round] \in Rounds
BY DEF Rounds, RoundAfter

(* Every state the manager assigns is a state, and none is an opt-out, a    *)
(* booking, or (but by the two phases that close leads) a closing one,      *)
(* unless the lead was already there.                                       *)
LEMMA AssignedStates ==
  ASSUME NEW phase \in Phases, NEW s \in States, NEW current \in States
  PROVE  LET new == Written(s, Assigned(phase, s), current) IN
         /\ new \in States
         /\ new = "opted_out" => current = "opted_out"
         /\ new = "booked" => current = "booked"
         /\ new = "dead" => current = "dead" \/ phase = "dead"
         /\ new = "completed" => current = "completed" \/ phase = "complete"
BY DEF Written, Assigned, States

(* Each row the commit of a phase leaves is well typed.                     *)
LEMMA TaskRecordWritten ==
  ASSUME NEW t \in TaskRecords
  PROVE  /\ [t EXCEPT !.status = "pending", !.attempts = 0] \in TaskRecords
         /\ [t EXCEPT !.status = "cancelled"] \in TaskRecords
         /\ [t EXCEPT !.status = "skipped"] \in TaskRecords
         /\ [t EXCEPT !.status = "sent", !.sent = @ + 1] \in TaskRecords
<1> USE DEF TaskRecords
<1>1. {"pending", "cancelled", "skipped", "sent"} \subseteq TaskStatus /\ 0 \in 0..MaxAttempts
  BY StoreConstants DEF TaskStatus
<1>2. [t EXCEPT !.status = "pending", !.attempts = 0] \in TaskRecords
  BY <1>1
<1>3. [t EXCEPT !.status = "cancelled"] \in TaskRecords /\ [t EXCEPT !.status = "skipped"] \in TaskRecords
  BY <1>1
<1>4. t.sent + 1 \in Nat
  OBVIOUS
<1>5. [t EXCEPT !.status = "sent", !.sent = @ + 1] \in TaskRecords
  BY <1>1, <1>4
<1> QED
  BY <1>2, <1>3, <1>5

LEMMA TasksAfterTyped ==
  ASSUME task \in [Leads -> [TaskTypes -> TaskRecords]]
  PROVE  TasksAfter \in [Leads -> [TaskTypes -> TaskRecords]]
<1>1. ASSUME NEW l \in Leads, NEW k \in TaskTypes
      PROVE  TasksAfter[l][k] \in TaskRecords
  <2>1. task[l][k] \in TaskRecords
    OBVIOUS
  <2> QED
    BY <2>1, TaskRecordWritten DEF TasksAfter
<1> QED
  BY <1>1 DEF TasksAfter

LEMMA LeadWrites ==
  ASSUME NEW r \in LeadRecords, NEW s \in States, NEW o \in 0..(MaxOutreach + 1)
  PROVE  /\ [r EXCEPT !.state = s, !.age = Fresh] \in LeadRecords
         /\ [r EXCEPT !.outreach = o, !.age = Fresh] \in LeadRecords
         /\ [r EXCEPT !.archived = TRUE, !.age = Fresh] \in LeadRecords
         /\ r.age < Quarter => [r EXCEPT !.age = @ + 1] \in LeadRecords
<1>1. Fresh \in Ages
  BY DEF Ages, Fresh, Quarter
<1>2. r.age \in Ages /\ r.age < Quarter => r.age + 1 \in Ages
  BY DEF Ages, Fresh, Quarter
<1>3. r.age < Quarter => [r EXCEPT !.age = @ + 1] \in LeadRecords
  BY <1>2 DEF LeadRecords
<1> QED
  BY <1>1, <1>3 DEF LeadRecords

LEMMA MomentPasses ==
  ASSUME NEW b \in BookingRecords, b.when < PastDay
  PROVE  [b EXCEPT !.when = @ + 1] \in BookingRecords
<1>1. b.when + 1 \in Moments
  BY DEF BookingRecords, Moments, Later, PastDay
<1> QED
  BY <1>1 DEF BookingRecords

LEMMA LeadsAfterTyped ==
  ASSUME lead \in [Leads -> LeadRecords], ManagerTypeOK
  PROVE  LeadsAfter \in [Leads -> LeadRecords]
<1>1. ASSUME NEW l \in Leads
      PROVE  LeadsAfter[l] \in LeadRecords
  <2>1. lead[l] \in LeadRecords /\ lead[l].state \in States
    BY DEF LeadRecords
  <2>2. mgr.seen[l] \in States /\ mgr.phase \in Phases
    BY DEF ManagerTypeOK
  <2>3. Written(mgr.seen[l], Assigned(mgr.phase, mgr.seen[l]), lead[l].state) \in States
    BY <2>1, <2>2, AssignedStates
  <2>4. 0 \in 0..(MaxOutreach + 1)
    BY StoreConstants
  <2> QED
    BY <2>1, <2>3, <2>4, LeadWrites DEF LeadsAfter
<1> QED
  BY <1>1 DEF LeadsAfter

LEMMA BookingsAfterTyped ==
  ASSUME booking \in [Leads -> BookingRecords]
  PROVE  /\ BookingsAfter \in [Leads -> BookingRecords]
         /\ \A l \in Leads : BookingsAfter[l].status = "none" => booking[l].status = "none"
<1>1. ASSUME NEW l \in Leads
      PROVE  /\ BookingsAfter[l] \in BookingRecords
             /\ BookingsAfter[l].status = "none" => booking[l].status = "none"
  <2>1. booking[l] \in BookingRecords
    OBVIOUS
  <2> QED
    BY <2>1 DEF BookingsAfter, BookingRecords
<1> QED
  BY <1>1 DEF BookingsAfter

(* A phase selects leads, and none that is closed.                          *)
LEMMA SelectedLeads ==
  ASSUME StoreTypeOK, NEW phase
  PROVE  /\ Selected(phase) \subseteq Leads
         /\ \A l \in Selected(phase) : lead[l].state \notin {"dead", "completed"}
<1>1. 1..created \subseteq Leads
  BY StoreConstants DEF StoreTypeOK, Leads
<1>2. ASSUME NEW l \in Selected(phase)
      PROVE  /\ l \in 1..created
             /\ \/ Overdue(l) \/ Attended(l) \/ NoShow(l) \/ Exhausted(l) \/ Recyclable(l)
  BY DEF Selected
<1>3. ASSUME NEW l \in Selected(phase)
      PROVE  lead[l].state \in StuckStates \cup {"booked", "cold"}
  BY <1>2 DEF Overdue, Attended, NoShow, Appointed, Exhausted, Recyclable
<1> QED
  BY <1>1, <1>2, <1>3 DEF StuckStates

LEMMA ManagerTyped ==
  ASSUME StoreTypeOK, ManagerTypeOK, ManagerNext
  PROVE  StoreTypeOK' /\ ManagerTypeOK'
<1> DEFINE Sessions_ == [pc : {"idle", "flush"}, phase : Phases, chosen : SUBSET Leads,
             seen : [Leads -> States], gets : SUBSET Leads, flushed : SUBSET Leads]
<1>a. mgr \in Sessions_ /\ mgr.phase \in Phases
  BY DEF ManagerTypeOK
<1>b. ASSUME NextPhase PROVE ManagerTypeOK'
  BY <1>a, <1>b, BetweenTyped, PhasesFollow DEF NextPhase, ManagerTypeOK
<1>c. ASSUME lockedBy' = Unlocked(Manager)
      PROVE  lockedBy' \in [Rows -> Sessions \cup {NoProc}]
  BY <1>c, RowsTyped, SessionsDiffer DEF StoreTypeOK
<1>1. CASE SelectLeads
  <2>1. Selected(mgr.phase) \subseteq Leads
    BY SelectedLeads
  <2>2. \A rs \in Receivers(mgr.phase, Selected(mgr.phase)) : rs \subseteq Leads
    BY <2>1 DEF Receivers
  <2>3. [l \in Leads |-> lead[l].state] \in [Leads -> States]
    BY DEF StoreTypeOK, LeadRecords
  <2>4. PICK rs \in Receivers(mgr.phase, Selected(mgr.phase)) :
          mgr' = [mgr EXCEPT !.pc = "flush", !.chosen = Selected(mgr.phase), !.gets = rs,
                          !.seen = [l \in Leads |-> lead[l].state]]
    BY <1>1 DEF SelectLeads
  <2>5. mgr' \in Sessions_
    BY <1>a, <2>1, <2>2, <2>3, <2>4
  <2> QED
    BY <1>1, <2>5, RestingStoreTyped DEF SelectLeads, ManagerTypeOK
<1>2. CASE NothingSelected
  BY <1>2, <1>b, RestingStoreTyped DEF NothingSelected
<1>3. CASE CommitPhase
  <2>1. /\ task' \in [Leads -> [TaskTypes -> TaskRecords]]
        /\ lead' \in [Leads -> LeadRecords]
        /\ booking' \in [Leads -> BookingRecords]
    BY <1>3, TasksAfterTyped, LeadsAfterTyped, BookingsAfterTyped DEF CommitPhase, StoreTypeOK
  <2> QED
    BY <1>3, <1>b, <1>c, <2>1 DEF CommitPhase, StoreTypeOK
<1>4. CASE ArchiveOld
  <2>1. ASSUME NEW l \in Leads
        PROVE  lead'[l] \in LeadRecords
    <3>1. lead[l] \in LeadRecords /\ lead[l].state \in States /\ 0 \in 0..(MaxOutreach + 1)
      BY StoreConstants DEF StoreTypeOK, LeadRecords
    <3> QED
      BY <1>4, <3>1, LeadWrites DEF ArchiveOld
  <2>2. lead' \in [Leads -> LeadRecords]
    BY <1>4, <2>1 DEF ArchiveOld
  <2> QED
    BY <1>4, <1>b, <2>2 DEF ArchiveOld, StoreTypeOK
<1>5. ASSUME NEW l \in Leads, FlushLead(l)
      PROVE  StoreTypeOK' /\ ManagerTypeOK'
  <2>1. lockedBy' \in [Rows -> Sessions \cup {NoProc}]
    BY <1>5, RowsTyped, SessionsDiffer DEF FlushLead, StoreTypeOK
  <2>2. mgr' \in Sessions_
    BY <1>5, <1>a DEF FlushLead
  <2> QED
    BY <1>5, <2>1, <2>2 DEF FlushLead, StoreTypeOK, ManagerTypeOK
<1> QED
  BY <1>1, <1>2, <1>3, <1>4, <1>5 DEF ManagerNext

-----------------------------------------------------------------------------
(* The dispatcher's steps: what each of them leaves in the store.           *)
LEMMA TaskAfterCases ==
  ASSUME NEW t, NEW i
  PROVE  \/ i \in disp.sent /\ TaskAfter(t, i) = [t EXCEPT !.status = "sent", !.sent = @ + 1]
         \/ i \in disp.skipped /\ TaskAfter(t, i) = [t EXCEPT !.status = "skipped"]
         \/ /\ i \in disp.raised
            /\ TaskAfter(t, i) =
                 [t EXCEPT !.attempts = @ + 1,
                           !.status = IF t.attempts + 1 >= MaxAttempts THEN "failed" ELSE @]
         \/ /\ i \notin disp.sent \cup disp.skipped \cup disp.raised
            /\ TaskAfter(t, i) = t
BY DEF TaskAfter

(* What the commit of a round makes of a task: no new task appears, a text  *)
(* is recorded only for one that was pending, and one that stays pending    *)
(* has an attempt left.                                                     *)
LEMMA TaskAfterRound ==
  ASSUME NEW t \in TaskRecords, NEW i,
         t.status = "pending" => t.attempts < MaxAttempts,
         i \in disp.sent \cup disp.skipped \cup disp.raised => t.status = "pending"
  PROVE  LET u == TaskAfter(t, i) IN
         /\ u \in TaskRecords
         /\ u.status = "pending" => t.status = "pending" /\ u.attempts < MaxAttempts
         /\ \/ u.sent = t.sent
            \/ t.status = "pending" /\ u.status # "pending" /\ u.sent = t.sent + 1
<1> DEFINE u == TaskAfter(t, i)
           tried == [t EXCEPT !.attempts = @ + 1,
                              !.status = IF t.attempts + 1 >= MaxAttempts THEN "failed" ELSE @]
<1>1. CASE i \in disp.sent /\ u = [t EXCEPT !.status = "sent", !.sent = @ + 1]
  BY <1>1, TaskRecordWritten DEF TaskRecords
<1>2. CASE i \in disp.skipped /\ u = [t EXCEPT !.status = "skipped"]
  BY <1>2, TaskRecordWritten DEF TaskRecords
<1>3. CASE i \in disp.raised /\ u = tried
  <2>1. t.attempts < MaxAttempts /\ t.attempts \in 0..MaxAttempts
    BY <1>3 DEF TaskRecords
  <2>2. t.attempts + 1 \in 0..MaxAttempts
    BY <2>1, StoreConstants
  <2>3. (IF t.attempts + 1 >= MaxAttempts THEN "failed" ELSE t.status) \in TaskStatus
    BY DEF TaskRecords, TaskStatus
  <2>4. tried \in TaskRecords
    BY <2>2, <2>3 DEF TaskRecords
  <2>5. tried.status = "pending" => t.attempts + 1 < MaxAttempts /\ t.status = "pending"
    BY <2>1, StoreConstants DEF TaskRecords
  <2>6. tried.attempts = t.attempts + 1 /\ tried.sent = t.sent
    BY DEF TaskRecords
  <2> HIDE DEF tried, u
  <2> QED
    BY <1>3, <2>4, <2>5, <2>6 DEF u
<1>4. CASE u = t
  BY <1>4
<1> HIDE DEF tried
<1> QED
  BY <1>1, <1>2, <1>3, <1>4, TaskAfterCases DEF tried

LEMMA BookingAfterTyped ==
  ASSUME NEW l \in Leads, NEW b \in BookingRecords
  PROVE  /\ BookingAfter(b, l) \in BookingRecords
         /\ BookingAfter(b, l).status = b.status
BY DEF BookingAfter, BookingRecords

(* What a round may pick is an item; a task it picks is pending, and its    *)
(* row is free.                                                             *)
LEMMA DueTasks ==
  ASSUME StoreTypeOK, disp.round \in Rounds
  PROVE  /\ Due(disp.round) \subseteq Items
         /\ \A l \in Leads, k \in TaskTypes : <<k, l>> \in Due(disp.round) =>
              task[l][k].status = "pending" /\ lockedBy[TaskRow(l, k)] = NoProc
<1>1. 1..created \subseteq Leads
  BY StoreConstants DEF StoreTypeOK, Leads
<1>2. KindsOf[disp.round] \subseteq TaskTypes \cup Reminders
  BY DEF KindsOf, Rounds, Reminders
<1>3. \A i \in Due(disp.round) :
        i \in (KindsOf[disp.round] \cap Dispatched) \X (1..created) /\ Ripe(i[1], i[2])
          /\ lockedBy[ItemRow(i)] = NoProc
  BY DEF Due
<1>4. Due(disp.round) \subseteq Items
  BY <1>1, <1>2, <1>3 DEF Items
<1>5. ASSUME NEW l \in Leads, NEW k \in TaskTypes, <<k, l>> \in Due(disp.round)
      PROVE  task[l][k].status = "pending" /\ lockedBy[TaskRow(l, k)] = NoProc
  <2>1. Ripe(k, l) /\ lockedBy[ItemRow(<<k, l>>)] = NoProc
    BY <1>3, <1>5
  <2>2. k # "reminder"
    BY DEF TaskTypes
  <2> QED
    BY <2>1, <2>2 DEF Ripe, ItemRow
<1> QED
  BY <1>4, <1>5

LEMMA DispatcherTyped ==
  ASSUME StoreTypeOK, DispatcherTypeOK, DispatchSafe, DispatcherNext
  PROVE  StoreTypeOK' /\ DispatcherTypeOK'
<1> DEFINE Views_ == [loaded : BOOLEAN, state : States,
                      outreach : 0..(MaxOutreach + 1), clear : BOOLEAN]
           Sessions_ == [round : Rounds, pc : {"idle", "next", "item"}, todo : SUBSET Items,
             cur : Items \cup {<<>>}, sent : SUBSET Items, skipped : SUBSET Items,
             raised : SUBSET Items, dirty : SUBSET Leads, seen : [Leads -> Views_]]
<1>a. /\ disp \in Sessions_ /\ disp.round \in Rounds /\ disp.seen \in [Leads -> Views_]
      /\ nurtured \in [Leads -> 0..(MaxOutreach + 1)]
  BY DEF DispatcherTypeOK
<1>b. /\ Waiting(RoundAfter[disp.round]) \in Sessions_
      /\ disp' = Waiting(RoundAfter[disp.round]) /\ UNCHANGED nurtured => DispatcherTypeOK'
  BY <1>a, WaitingTyped, RoundsFollow DEF DispatcherTypeOK
<1>c. disp.pc = "item" => disp.cur \in Items /\ disp.cur[2] \in Leads
  BY DEF DispatchSafe, ItemLoaded, Items
<1>1. CASE Pick
  <2>1. \A picked \in SUBSET Due(disp.round) : picked \subseteq Items
    BY <1>a, DueTasks
  <2>2. disp' \in Sessions_
    BY <1>1, <1>a, <2>1 DEF Pick
  <2>3. lockedBy' \in [Rows -> Sessions \cup {NoProc}]
    BY <1>1, RowsTyped, SessionsDiffer DEF Pick, StoreTypeOK
  <2> QED
    BY <1>1, <1>a, <2>2, <2>3 DEF Pick, StoreTypeOK, DispatcherTypeOK
<1>2. CASE SkipRound
  BY <1>2, <1>b, RestingStoreTyped DEF SkipRound
<1>3. ASSUME NEW i \in Items, TakeItem(i)
      PROVE  StoreTypeOK' /\ DispatcherTypeOK'
  <2>1. i[2] \in Leads
    BY DEF Items
  <2>2. [loaded |-> TRUE, state |-> lead[i[2]].state,
         outreach |-> lead[i[2]].outreach, clear |-> ~optedOut[i[2]]] \in Views_
    BY <2>1 DEF StoreTypeOK, LeadRecords
  <2>3. disp' \in Sessions_
    BY <1>3, <1>a, <2>1, <2>2 DEF TakeItem
  <2>4. lockedBy' \in [Rows -> Sessions \cup {NoProc}]
    BY <1>3, RowsTyped, SessionsDiffer DEF TakeItem, StoreTypeOK
  <2> QED
    BY <1>3, <1>a, <2>3, <2>4 DEF TakeItem, StoreTypeOK, DispatcherTypeOK
<1>4. ASSUME disp.pc = "item", MaySend, RecordSent
      PROVE  disp' \in Sessions_
  <2> DEFINE c == disp.cur[2]
             o == IF disp.cur[1] = "cold_nurture" THEN disp.seen[c].outreach + 1
                  ELSE disp.seen[c].outreach
  <2>1. c \in Leads /\ disp.seen[c] \in Views_ /\ disp.cur \in Items
    BY <1>4, <1>a, <1>c
  <2>2. disp.cur[1] = "cold_nurture" => disp.seen[c].outreach < MaxOutreach
    BY <1>4 DEF MaySend, Seen, TaskTypes
  <2>3. o \in 0..(MaxOutreach + 1)
    BY <2>1, <2>2, StoreConstants
  <2>4. [disp.seen EXCEPT ![c].outreach = o] \in [Leads -> Views_]
    BY <1>a, <2>1, <2>3
  <2>5. disp' = [disp EXCEPT !.pc = "next", !.cur = <<>>, !.sent = @ \cup {disp.cur},
                   !.dirty = @ \cup {c}, !.seen = [disp.seen EXCEPT ![c].outreach = o]]
    BY <1>4, <1>a, <2>1 DEF RecordSent
  <2> HIDE DEF o
  <2> QED
    BY <1>a, <2>1, <2>4, <2>5
<1>5. CASE Send
  <2> DEFINE c == disp.cur[2]
  <2>1. disp.cur[1] \in SmsKinds
    BY <1>5, <1>c DEF Send, SmsKinds, Items, Reminders
  <2>2. StoreTypeOK'
    BY <1>5, <1>c, <2>1, TextTyped DEF Send
  <2>3. nurtured' \in [Leads -> 0..(MaxOutreach + 1)]
    <3>1. nurtured[c] \in 0..(MaxOutreach + 1) /\ nurtured[c] <= MaxOutreach
            => nurtured[c] + 1 \in 0..(MaxOutreach + 1)
      BY StoreConstants
    <3> QED
      BY <1>5, <1>a, <1>c, <3>1 DEF Send
  <2> QED
    BY <1>4, <1>5, <2>2, <2>3 DEF Send, DispatcherTypeOK
<1>6. CASE SendFails
  BY <1>4, <1>6, <1>a, RestingStoreTyped DEF SendFails, DispatcherTypeOK
<1>7. CASE Skip
  <2>1. disp.cur \in Items
    BY <1>7, <1>c DEF Skip
  <2>2. disp' \in Sessions_
    BY <1>7, <1>a, <2>1 DEF Skip
  <2> QED
    BY <1>7, <1>a, <2>2, RestingStoreTyped DEF Skip, DispatcherTypeOK
<1>8. CASE Raise
  <2>1. disp.cur \in Items
    BY <1>8, <1>c DEF Raise
  <2>2. disp' \in Sessions_
    BY <1>8, <1>a, <2>1 DEF Raise
  <2> QED
    BY <1>8, <1>a, <2>2, RestingStoreTyped DEF Raise, DispatcherTypeOK
<1>9. CASE CommitRound
  <2>1. ASSUME NEW l \in Leads, NEW k \in TaskTypes
        PROVE  task'[l][k] \in TaskRecords
    <3>1. task[l][k] \in TaskRecords
      BY DEF StoreTypeOK
    <3>2. <<k, l>> \in disp.sent \cup disp.skipped \cup disp.raised
            => task[l][k].status = "pending"
      BY DEF DispatchSafe, TasksHeld, InHand
    <3>3. task[l][k].status = "pending" => task[l][k].attempts < MaxAttempts
      BY DEF DispatchSafe, AttemptsLeft
    <3>4. TaskAfter(task[l][k], <<k, l>>) \in TaskRecords
      BY <3>1, <3>2, <3>3, TaskAfterRound
    <3> QED
      BY <1>9, <3>4 DEF CommitRound
  <2>2. task' \in [Leads -> [TaskTypes -> TaskRecords]]
    BY <1>9, <2>1 DEF CommitRound
  <2>3. booking' \in [Leads -> BookingRecords]
    BY <1>9, BookingAfterTyped DEF CommitRound, StoreTypeOK
  <2>4. ASSUME NEW l \in Leads
        PROVE  lead'[l] \in LeadRecords
    <3>1. lead[l] \in LeadRecords /\ lead[l].state \in States
          /\ disp.seen[l].outreach \in 0..(MaxOutreach + 1)
      BY <1>a DEF StoreTypeOK, LeadRecords
    <3> QED
      BY <1>9, <3>1, LeadWrites DEF CommitRound
  <2>5. lead' \in [Leads -> LeadRecords]
    BY <1>9, <2>4 DEF CommitRound
  <2>6. lockedBy' \in [Rows -> Sessions \cup {NoProc}]
    BY <1>9, RowsTyped, SessionsDiffer DEF CommitRound, StoreTypeOK
  <2> QED
    BY <1>9, <1>b, <2>2, <2>3, <2>5, <2>6 DEF CommitRound, StoreTypeOK
<1> QED
  BY <1>1, <1>2, <1>3, <1>5, <1>6, <1>7, <1>8, <1>9 DEF DispatcherNext

-----------------------------------------------------------------------------
(* What a step of a worker may do to the business of the other sessions.    *)

(* s takes rows it may take, gives its rows back, or does neither.          *)
OnlyOwnRows(s) ==
  \A r \in Rows, t \in Sessions \ {s} : lockedBy'[r] = t <=> lockedBy[r] = t

LEMMA WorkerRows ==
  ASSUME StoreTypeOK, NEW s \in Sessions,
         \/ lockedBy' = lockedBy
         \/ lockedBy' = Unlocked(s)
         \/ \E rs : (\A r \in rs : CanLock(s, r)) /\ lockedBy' = Locked(s, rs)
  PROVE  OnlyOwnRows(s)
<1> SUFFICES ASSUME NEW r \in Rows, NEW t \in Sessions, s # t
             PROVE  lockedBy'[r] = t <=> lockedBy[r] = t
  BY DEF OnlyOwnRows
<1>1. CASE lockedBy' = Unlocked(s)
  BY <1>1, SessionsDiffer DEF Unlocked
<1>2. ASSUME NEW rs, \A x \in rs : CanLock(s, x), lockedBy' = Locked(s, rs)
      PROVE  lockedBy'[r] = t <=> lockedBy[r] = t
  BY <1>2, OthersKeepRows DEF StoreTypeOK
<1> QED
  BY <1>1, <1>2

(* No task is new, and one that was sent was pending.                       *)
NoNewTasks ==
  \A l \in Leads, k \in TaskTypes :
    /\ task'[l][k].status = "pending" => task[l][k].status = "pending"
    /\ \/ task'[l][k].sent = task[l][k].sent
       \/ /\ task[l][k].status = "pending" /\ task'[l][k].status # "pending"
          /\ task'[l][k].sent = task[l][k].sent + 1

ManagerFrame ==
  /\ OnlyOwnRows(Manager)
  /\ wire' = NoSms /\ optedOut' = optedOut
  /\ \A l \in Leads : lead'[l].state = "opted_out" => lead[l].state = "opted_out"
  /\ \A l \in Leads, k \in TaskTypes :
       \/ task'[l][k] = task[l][k]
       \/ task'[l][k].status = "pending" /\ task'[l][k].attempts = 0
       \/ task'[l][k].status = "cancelled" /\ ~HeldByDispatcher(l, k)

DispatcherFrame ==
  /\ OnlyOwnRows(Dispatcher)
  /\ wire'.kind # "reply" /\ optedOut' = optedOut
  /\ \A l \in Leads : lead'[l].state = lead[l].state
  /\ \A l \in Leads : booking'[l].status = booking[l].status
  /\ NoNewTasks

(* The three things the commit of a phase does with a task.                 *)
LEMMA TasksAfterCases ==
  ASSUME NEW l \in Leads, NEW k \in TaskTypes
  PROVE  LET t == task[l][k]
             gets == l \in mgr.gets /\ k = Schedules[mgr.phase]
             loses == l \in mgr.chosen /\ k \in Cancels(mgr.phase) /\ t.status = "pending" IN
         \/ gets /\ TasksAfter[l][k] = [t EXCEPT !.status = "pending", !.attempts = 0]
         \/ loses /\ TasksAfter[l][k] = [t EXCEPT !.status = "cancelled"]
         \/ ~gets /\ ~loses /\ TasksAfter[l][k] = t
<1> DEFINE t == task[l][k]
           gets == l \in mgr.gets /\ k = Schedules[mgr.phase]
           loses == l \in mgr.chosen /\ k \in Cancels(mgr.phase) /\ t.status = "pending"
           scheduled == [t EXCEPT !.status = "pending", !.attempts = 0]
           cancelled == [t EXCEPT !.status = "cancelled"]
<1>1. TasksAfter[l][k] = CASE gets -> scheduled [] loses -> cancelled [] OTHER -> t
  BY DEF TasksAfter
<1> HIDE DEF t, gets, loses, scheduled, cancelled
<1>2. \/ gets /\ TasksAfter[l][k] = scheduled
      \/ loses /\ TasksAfter[l][k] = cancelled
      \/ ~gets /\ ~loses /\ TasksAfter[l][k] = t
  BY <1>1
<1> QED
  BY <1>2 DEF t, gets, loses, scheduled, cancelled

LEMMA ManagerFrames ==
  ASSUME StoreTypeOK, ManagerTypeOK, ManagerNext
  PROVE  ManagerFrame
<1>a. Manager \in Sessions
  BY SessionsDiffer
<1>b. ASSUME StoreRests PROVE ManagerFrame
  BY <1>a, <1>b, WorkerRows DEF StoreRests, ManagerFrame
<1>1. CASE SelectLeads \/ NothingSelected
  BY <1>1, <1>b DEF SelectLeads, NothingSelected
<1>2. CASE CommitPhase
  <2>1. OnlyOwnRows(Manager)
    BY <1>2, <1>a, WorkerRows DEF CommitPhase
  <2>2. ASSUME NEW l \in Leads, lead'[l].state = "opted_out"
        PROVE  lead[l].state = "opted_out"
    <3>1. lead[l] \in LeadRecords /\ lead[l].state \in States
      BY DEF StoreTypeOK, LeadRecords
    <3>2. mgr.phase \in Phases /\ mgr.seen[l] \in States
      BY DEF ManagerTypeOK
    <3>3. lead'[l].state \in
            {lead[l].state, Written(mgr.seen[l], Assigned(mgr.phase, mgr.seen[l]), lead[l].state)}
      BY <1>2, <3>1 DEF CommitPhase, LeadsAfter, LeadRecords
    <3> QED
      BY <2>2, <3>1, <3>2, <3>3, AssignedStates
  <2>3. ASSUME NEW l \in Leads, NEW k \in TaskTypes
        PROVE  \/ task'[l][k] = task[l][k]
               \/ task'[l][k].status = "pending" /\ task'[l][k].attempts = 0
               \/ task'[l][k].status = "cancelled" /\ ~HeldByDispatcher(l, k)
    <3> DEFINE t == task[l][k]
    <3>1. t \in TaskRecords
      BY DEF StoreTypeOK
    <3>2. \/ task'[l][k] = t
          \/ task'[l][k] = [t EXCEPT !.status = "pending", !.attempts = 0]
          \/ /\ l \in mgr.chosen /\ k \in Cancels(mgr.phase) /\ t.status = "pending"
             /\ task'[l][k] = [t EXCEPT !.status = "cancelled"]
      BY <1>2, TasksAfterCases DEF CommitPhase
    <3>3. CASE task'[l][k] = [t EXCEPT !.status = "pending", !.attempts = 0]
      BY <3>1, <3>3 DEF TaskRecords
    <3>4. CASE /\ l \in mgr.chosen /\ k \in Cancels(mgr.phase) /\ t.status = "pending"
               /\ task'[l][k] = [t EXCEPT !.status = "cancelled"]
      <4>1. TaskRow(l, k) \in Wanted
        BY <3>4 DEF Wanted, PendingTasks
      <4>2. CanLock(Manager, TaskRow(l, k))
        BY <1>2, <4>1 DEF CommitPhase
      <4>3. ~HeldByDispatcher(l, k)
        BY <4>2, SessionsDiffer DEF CanLock, HeldByDispatcher
      <4> QED
        BY <3>1, <3>4, <4>3 DEF TaskRecords
    <3> QED
      BY <3>2, <3>3, <3>4
  <2> QED
    BY <1>2, <2>1, <2>2, <2>3 DEF CommitPhase, ManagerFrame
<1>3. CASE ArchiveOld
  <2>1. OnlyOwnRows(Manager)
    BY <1>3, <1>a, WorkerRows DEF ArchiveOld
  <2>2. \A l \in Leads : lead'[l].state = lead[l].state
    BY <1>3 DEF ArchiveOld, StoreTypeOK, LeadRecords
  <2> QED
    BY <1>3, <2>1, <2>2 DEF ArchiveOld, ManagerFrame
<1>4. ASSUME NEW l \in Leads, FlushLead(l)
      PROVE  ManagerFrame
  <2>1. OnlyOwnRows(Manager)
    BY <1>4, <1>a, WorkerRows DEF FlushLead
  <2> QED
    BY <1>4, <2>1 DEF FlushLead, ManagerFrame
<1> QED
  BY <1>1, <1>2, <1>3, <1>4 DEF ManagerNext

LEMMA TextsOfDispatcher ==
  /\ NoSms.kind # "reply"
  /\ \A l, k : Sms(l, k).kind = k
  /\ \A k \in TaskTypes \cup Reminders : k # "reply"
BY DEF NoSms, Sms, TaskTypes, Reminders

LEMMA DispatcherFrames ==
  ASSUME StoreTypeOK, DispatcherTypeOK, DispatchSafe, DispatcherNext
  PROVE  DispatcherFrame
<1>a. Dispatcher \in Sessions
  BY SessionsDiffer
<1>b. UNCHANGED task => NoNewTasks
  BY DEF NoNewTasks
<1>c. ASSUME OnlyOwnRows(Dispatcher), wire'.kind # "reply",
             UNCHANGED <<lead, optedOut, booking, task>>
      PROVE  DispatcherFrame
  BY <1>b, <1>c DEF DispatcherFrame
<1>d. ASSUME StoreRests PROVE DispatcherFrame
  BY <1>a, <1>c, <1>d, WorkerRows, TextsOfDispatcher DEF StoreRests
<1>1. CASE Pick
  <2>1. PICK picked \in SUBSET Due(disp.round) :
          lockedBy' = Locked(Dispatcher, {ItemRow(i) : i \in picked})
    BY <1>1 DEF Pick
  <2>2. \A r \in {ItemRow(i) : i \in picked} : CanLock(Dispatcher, r)
    BY <2>1 DEF Due, CanLock
  <2>3. OnlyOwnRows(Dispatcher)
    BY <1>a, <2>1, <2>2, WorkerRows
  <2> QED
    BY <1>1, <1>c, <2>3, TextsOfDispatcher DEF Pick
<1>2. CASE SkipRound \/ SendFails \/ Skip \/ Raise
  BY <1>2, <1>d DEF SkipRound, SendFails, Skip, Raise
<1>3. ASSUME NEW i \in Items, TakeItem(i)
      PROVE  DispatcherFrame
  <2> DEFINE flushed == IF ~disp.seen[i[2]].loaded THEN disp.dirty ELSE {}
             rs == {LeadRow(m) : m \in flushed}
  <2>1. (\A r \in rs : CanLock(Dispatcher, r)) /\ lockedBy' = Locked(Dispatcher, rs)
    BY <1>3 DEF TakeItem
  <2>2. OnlyOwnRows(Dispatcher)
    BY <1>a, <2>1, WorkerRows
  <2> QED
    BY <1>3, <1>c, <2>2, TextsOfDispatcher DEF TakeItem
<1>4. CASE Send
  <2>1. disp.cur[1] \in TaskTypes \cup Reminders
    BY <1>4 DEF Send, DispatchSafe, ItemLoaded, Items
  <2>2. wire'.kind # "reply"
    BY <1>4, <2>1, TextsOfDispatcher DEF Send
  <2> QED
    BY <1>4, <1>a, <1>c, <2>2, WorkerRows DEF Send
<1>5. CASE CommitRound
  <2>1. OnlyOwnRows(Dispatcher)
    BY <1>5, <1>a, WorkerRows DEF CommitRound
  <2>2. \A l \in Leads : lead'[l].state = lead[l].state
    BY <1>5 DEF CommitRound, StoreTypeOK, LeadRecords
  <2>3. \A l \in Leads : booking'[l].status = booking[l].status
    BY <1>5, BookingAfterTyped DEF CommitRound, StoreTypeOK
  <2>4. NoNewTasks
    <3> SUFFICES ASSUME NEW l \in Leads, NEW k \in TaskTypes
                 PROVE  /\ task'[l][k].status = "pending" => task[l][k].status = "pending"
                        /\ \/ task'[l][k].sent = task[l][k].sent
                           \/ /\ task[l][k].status = "pending" /\ task'[l][k].status # "pending"
                              /\ task'[l][k].sent = task[l][k].sent + 1
      BY DEF NoNewTasks
    <3>1. task'[l][k] = TaskAfter(task[l][k], <<k, l>>) /\ task[l][k] \in TaskRecords
      BY <1>5 DEF CommitRound, StoreTypeOK
    <3>2. <<k, l>> \in disp.sent \cup disp.skipped \cup disp.raised
            => task[l][k].status = "pending"
      BY DEF DispatchSafe, TasksHeld, InHand
    <3>3. task[l][k].status = "pending" => task[l][k].attempts < MaxAttempts
      BY DEF DispatchSafe, AttemptsLeft
    <3> QED
      BY <3>1, <3>2, <3>3, TaskAfterRound
  <2> QED
    BY <1>5, <2>1, <2>2, <2>3, <2>4, TextsOfDispatcher DEF CommitRound, DispatcherFrame
<1> QED
  BY <1>1, <1>2, <1>3, <1>4, <1>5 DEF DispatcherNext

-----------------------------------------------------------------------------
(* Deadlocks broken, the crash of the workers, and time.                    *)
BackgroundStep ==
  BreakDeadlock \/ WorkerCrash \/ \E l \in Leads : LeadAges(l) \/ AppointmentNears(l)

(* They free rows and end what was in progress, but write nothing that the  *)
(* properties are about.                                                    *)
BackgroundFrame ==
  /\ UNCHANGED <<optedOut, task>> /\ wire' = NoSms
  /\ \A l \in Leads : lead'[l].state = lead[l].state
  /\ \A l \in Leads : booking'[l].status = booking[l].status
  /\ \/ mgr' = Between("sweep")
     \/ /\ mgr' = mgr
        /\ \A r \in Rows : lockedBy'[r] = Manager <=> lockedBy[r] = Manager
  /\ \/ disp' = Waiting("followups")
     \/ /\ disp' = disp
        /\ \A r \in Rows : lockedBy'[r] = Dispatcher <=> lockedBy[r] = Dispatcher
  /\ \/ /\ web' = web
        /\ \A r \in Rows, p \in Web : lockedBy'[r] = p <=> lockedBy[r] = p
     \/ \E p \in Web : Finish(p) /\ lockedBy' = Unlocked(p)

LEMMA BackgroundFrames ==
  ASSUME PipelineTypeOK, BackgroundStep
  PROVE  BackgroundFrame /\ PipelineTypeOK'
<1> USE WebTypesRest DEF PipelineTypeOK, TypeOK
<1>a. /\ Manager \in Sessions /\ Dispatcher \in Sessions /\ Manager # Dispatcher
      /\ Web \subseteq Sessions /\ Manager \notin Web /\ Dispatcher \notin Web
  BY SessionsDiffer
<1>b. mgr' = Between("sweep") => ManagerTypeOK'
  BY BetweenTyped, PhasesFollow DEF ManagerTypeOK
<1>c. disp' = Waiting("followups") /\ UNCHANGED nurtured => DispatcherTypeOK'
  BY WaitingTyped, RoundsFollow DEF DispatcherTypeOK
<1>d. /\ UNCHANGED mgr => ManagerTypeOK'
      /\ UNCHANGED <<disp, nurtured>> => DispatcherTypeOK'
  BY DEF ManagerTypeOK, DispatcherTypeOK
<1>1. ASSUME NEW p \in Web, AbortStop(p)
      PROVE  BackgroundFrame /\ PipelineTypeOK'
  <2>1. OnlyOwnRows(p)
    BY <1>1, <1>a, WorkerRows DEF AbortStop
  <2>2. StoreTypeOK'
    BY <1>1, <1>a, RowsTyped DEF AbortStop, StoreTypeOK, NoSms
  <2>3. ConductorTypeOK'
    BY <1>1, FinishTyped, LockRests DEF AbortStop, ConductorTypeOK, edgeVars
  <2>4. \A r \in Rows : /\ lockedBy'[r] = Dispatcher <=> lockedBy[r] = Dispatcher
                        /\ lockedBy'[r] = Manager <=> lockedBy[r] = Manager
    BY <1>a, <2>1 DEF OnlyOwnRows
  <2>5. BackgroundFrame
    BY <1>1, <2>4 DEF AbortStop, BackgroundFrame, workerVars
  <2> QED
    BY <1>1, <1>d, <2>2, <2>3, <2>5 DEF AbortStop, workerVars
<1>2. CASE AbortManager
  <2>1. OnlyOwnRows(Manager)
    BY <1>2, <1>a, WorkerRows DEF AbortManager, RollBackPhase
  <2>2. StoreTypeOK'
    BY <1>2, <1>a, RowsTyped DEF AbortManager, RollBackPhase, StoreTypeOK, NoSms
  <2>3. BackgroundFrame
    BY <1>2, <1>a, <2>1 DEF AbortManager, RollBackPhase, BackgroundFrame, OnlyOwnRows, conductorVars
  <2> QED
    BY <1>2, <1>b, <1>d, <2>2, <2>3 DEF AbortManager, RollBackPhase
<1>3. CASE AbortDispatcher
  <2>1. OnlyOwnRows(Dispatcher)
    BY <1>3, <1>a, WorkerRows DEF AbortDispatcher, RollBackRound
  <2>2. StoreTypeOK'
    BY <1>3, <1>a, RowsTyped DEF AbortDispatcher, RollBackRound, StoreTypeOK, NoSms
  <2>3. BackgroundFrame
    BY <1>3, <1>a, <2>1 DEF AbortDispatcher, RollBackRound, BackgroundFrame, OnlyOwnRows, conductorVars
  <2> QED
    BY <1>3, <1>c, <1>d, <2>2, <2>3 DEF AbortDispatcher, RollBackRound
<1>4. CASE WorkerCrash
  <2>1. \A r \in Rows, p \in Web : lockedBy'[r] = p <=> lockedBy[r] = p
    BY <1>4, <1>a, SessionsDiffer DEF WorkerCrash
  <2>2. lockedBy' \in [Rows -> Sessions \cup {NoProc}]
    BY <1>4 DEF WorkerCrash, StoreTypeOK
  <2>3. StoreTypeOK'
    BY <1>4, <2>2 DEF WorkerCrash, StoreTypeOK, NoSms
  <2>4. BackgroundFrame
    BY <1>4, <2>1 DEF WorkerCrash, BackgroundFrame, conductorVars
  <2> QED
    BY <1>4, <1>b, <1>c, <2>3, <2>4 DEF WorkerCrash
<1>5. ASSUME NEW l \in Leads, LeadAges(l)
      PROVE  BackgroundFrame /\ PipelineTypeOK'
  <2>1. lead[l] \in LeadRecords /\ lead[l].age < Quarter /\ lead[l].state \in States
    BY <1>5 DEF LeadAges, StoreTypeOK, LeadRecords
  <2>2. 0 \in 0..(MaxOutreach + 1)
    BY StoreConstants
  <2> DEFINE r == [lead[l] EXCEPT !.age = @ + 1]
  <2>3. r \in LeadRecords /\ r.state = lead[l].state
    BY <2>1, <2>2, LeadWrites DEF LeadRecords
  <2>4. lead' = [lead EXCEPT ![l] = r]
    BY <1>5 DEF LeadAges
  <2> HIDE DEF r
  <2>5. lead' \in [Leads -> LeadRecords] /\ \A m \in Leads : lead'[m].state = lead[m].state
    BY <2>3, <2>4 DEF StoreTypeOK
  <2>6. StoreTypeOK'
    BY <1>5, <2>5 DEF LeadAges, StoreTypeOK, NoSms
  <2>7. BackgroundFrame
    BY <1>5, <2>5 DEF LeadAges, BackgroundFrame, workerVars, conductorVars
  <2> QED
    BY <1>5, <1>d, <2>6, <2>7 DEF LeadAges, workerVars
<1>6. ASSUME NEW l \in Leads, AppointmentNears(l)
      PROVE  BackgroundFrame /\ PipelineTypeOK'
  <2> DEFINE r == [booking[l] EXCEPT !.when = @ + 1]
  <2>1. r \in BookingRecords /\ r.status = booking[l].status
    BY <1>6, MomentPasses DEF AppointmentNears, StoreTypeOK, BookingRecords
  <2>2. booking' = [booking EXCEPT ![l] = r]
    BY <1>6 DEF AppointmentNears
  <2> HIDE DEF r
  <2>3. /\ booking' \in [Leads -> BookingRecords]
        /\ \A m \in Leads : booking'[m].status = booking[m].status
    BY <2>1, <2>2 DEF StoreTypeOK
  <2>4. StoreTypeOK'
    BY <1>6, <2>3 DEF AppointmentNears, StoreTypeOK, NoSms
  <2>5. BackgroundFrame
    BY <1>6, <2>3 DEF AppointmentNears, BackgroundFrame, workerVars, conductorVars
  <2> QED
    BY <1>6, <1>d, <2>4, <2>5 DEF AppointmentNears, workerVars
<1> QED
  BY <1>1, <1>2, <1>3, <1>4, <1>5, <1>6 DEF BackgroundStep, BreakDeadlock

-----------------------------------------------------------------------------
(* The type, and what Conductor proved of the web side alone.               *)
LEMMA PipelineTypeStep ==
  ASSUME PipelineTypeOK, DispatchSafe, PipelineNext
  PROVE  PipelineTypeOK'
<1> USE DEF PipelineTypeOK
<1>1. CASE WebStep
  BY <1>1, TypeStep DEF WebStep, workerVars, ManagerTypeOK, DispatcherTypeOK
<1>2. CASE ManagerStep
  BY <1>2, ManagerTyped, WebTypesRest DEF ManagerStep, TypeOK, DispatcherTypeOK
<1>3. CASE DispatcherStep
  BY <1>3, DispatcherTyped, WebTypesRest DEF DispatcherStep, TypeOK, ManagerTypeOK
<1>4. CASE BackgroundStep
  BY <1>4, BackgroundFrames
<1> QED
  BY <1>1, <1>2, <1>3, <1>4 DEF PipelineNext, BackgroundStep

(* A worker that leaves the rows of the web requests alone.                 *)
LEMMA WebRowsRest ==
  ASSUME NEW s \in Sessions \ Web, OnlyOwnRows(s)
  PROVE  /\ \A l \in Leads, p \in Web : lockedBy'[LeadRow(l)] = p <=> lockedBy[LeadRow(l)] = p
         /\ \A l \in Leads, k \in TaskTypes, p \in Web :
              lockedBy'[TaskRow(l, k)] = p <=> lockedBy[TaskRow(l, k)] = p
BY LeadRows, TaskRows, SessionsDiffer DEF OnlyOwnRows

LEMMA PipelineSafeStep ==
  ASSUME PipelineTypeOK, ConductorSafe, DispatchSafe, PipelineNext
  PROVE  ConductorSafe'
<1> USE DEF PipelineTypeOK
<1>a. Manager \in Sessions \ Web /\ Dispatcher \in Sessions \ Web
  BY SessionsDiffer
<1>1. CASE WebStep
  BY <1>1, SafeStep DEF WebStep
<1>2. CASE ManagerStep
  BY <1>2, <1>a, ManagerFrames, WebRowsRest, RequestsRest, TextKinds
     DEF ManagerStep, ManagerFrame, conductorVars, TypeOK
<1>3. CASE DispatcherStep
  BY <1>3, <1>a, DispatcherFrames, WebRowsRest, RequestsRest
     DEF DispatcherStep, DispatcherFrame, conductorVars, TypeOK
<1>4. CASE BackgroundStep
  <2>1. BackgroundFrame
    BY <1>4, BackgroundFrames
  <2>2. CASE /\ web' = web
             /\ \A r \in Rows, p \in Web : lockedBy'[r] = p <=> lockedBy[r] = p
    BY <2>1, <2>2, LeadRows, TaskRows, RequestsRest, TextKinds DEF BackgroundFrame
  <2>3. ASSUME NEW p \in Web, Finish(p), lockedBy' = Unlocked(p)
        PROVE  ConductorSafe'
    <3>1. /\ Resting \in Requests /\ Resting.pc \notin Holding
          /\ Resting.state # "opted_out" /\ Resting.new # "opted_out"
      BY RestingRequest, LeadsAreNaturals, PlacesNamed DEF Resting, Holding
    <3>2. \A l \in Leads : lead'[l].state = "opted_out" => optedOut[l]
      BY <2>1 DEF BackgroundFrame, ConductorSafe, OptedOutHasConsentRecord
    <3> QED
      BY <2>1, <2>3, <3>1, <3>2, EndStep, TextKinds DEF BackgroundFrame, Finish
  <2> QED
    BY <2>1, <2>2, <2>3 DEF BackgroundFrame
<1> QED
  BY <1>1, <1>2, <1>3, <1>4 DEF PipelineNext, BackgroundStep

-----------------------------------------------------------------------------
(* The dispatcher's invariant.                                              *)

LEMMA GuardedTypes == Guarded \subseteq TaskTypes
BY DEF Guarded, TaskTypes

(* Steps of the others, which neither take a task out of its hands nor opt  *)
(* out a lead of which it has a guarded task.                               *)
LEMMA DispatchRests ==
  ASSUME StoreTypeOK, DispatchSafe, UNCHANGED disp,
         \A l \in Leads, k \in TaskTypes :
           lockedBy[TaskRow(l, k)] = Dispatcher => lockedBy'[TaskRow(l, k)] = Dispatcher,
         \A l \in Leads, k \in TaskTypes :
           \/ task'[l][k] = task[l][k]
           \/ task'[l][k].status = "pending" /\ task'[l][k].attempts = 0
           \/ task'[l][k].status = "cancelled" /\ ~HeldByDispatcher(l, k),
         \/ optedOut' = optedOut
         \/ \E l \in Leads :
              /\ optedOut' = [optedOut EXCEPT ![l] = TRUE]
              /\ \A k \in Guarded : task[l][k].status = "pending" => ~HeldByDispatcher(l, k)
  PROVE  DispatchSafe'
<1>1. AttemptsLeft'
  BY StoreConstants DEF DispatchSafe, AttemptsLeft
<1>2. ItemLoaded' /\ RoundStartsEmpty' /\ InHand' = InHand
  BY DEF DispatchSafe, ItemLoaded, RoundStartsEmpty, InHand
<1>3. TasksHeld'
  BY <1>2 DEF DispatchSafe, TasksHeld, HeldByDispatcher
<1>4. ClearStaysClear'
  <2> SUFFICES ASSUME NEW l \in Leads, NEW k \in Guarded,
                      <<k, l>> \in InHand, disp.seen[l].loaded, disp.seen[l].clear
               PROVE  ~optedOut'[l]
    BY <1>2 DEF ClearStaysClear
  <2>1. ~optedOut[l] /\ HeldByDispatcher(l, k) /\ task[l][k].status = "pending"
    BY GuardedTypes DEF DispatchSafe, ClearStaysClear, TasksHeld
  <2> QED
    BY <2>1 DEF StoreTypeOK
<1> QED
  BY <1>1, <1>2, <1>3, <1>4 DEF DispatchSafe

LEMMA NothingInHand ==
  ASSUME NEW round, disp' = Waiting(round), AttemptsLeft'
  PROVE  DispatchSafe'
<1>1. /\ disp'.pc = "idle" /\ disp'.todo = {} /\ disp'.sent = {}
      /\ disp'.skipped = {} /\ disp'.raised = {}
      /\ \A l \in Leads : ~disp'.seen[l].loaded
  BY DEF Waiting, Unseen
<1>2. InHand' = {}
  BY <1>1 DEF InHand
<1> QED
  BY <1>1, <1>2 DEF DispatchSafe, ItemLoaded, TasksHeld, ClearStaysClear, RoundStartsEmpty

(* An item that has been worked on is in hand until the commit, or a        *)
(* reminder that is let go.                                                 *)
LEMMA ItemDone ==
  ASSUME DispatcherTypeOK, DispatchSafe, disp.pc = "item",
         UNCHANGED <<task, optedOut, lockedBy>>,
         disp'.pc = "next", InHand' \subseteq InHand,
         \A l \in Leads : /\ disp'.seen[l].loaded = disp.seen[l].loaded
                          /\ disp'.seen[l].clear = disp.seen[l].clear
  PROVE  DispatchSafe'
<1>1. AttemptsLeft' /\ ItemLoaded' /\ RoundStartsEmpty'
  BY DEF DispatchSafe, AttemptsLeft, ItemLoaded, RoundStartsEmpty
<1>2. TasksHeld' /\ ClearStaysClear'
  BY DEF DispatchSafe, TasksHeld, ClearStaysClear, HeldByDispatcher
<1> QED
  BY <1>1, <1>2 DEF DispatchSafe

LEMMA DispatchStep ==
  ASSUME StoreTypeOK, DispatcherTypeOK, DispatchSafe, DispatcherNext
  PROVE  DispatchSafe'
<1> DEFINE Views_ == [loaded : BOOLEAN, state : States,
                      outreach : 0..(MaxOutreach + 1), clear : BOOLEAN]
           Sessions_ == [round : Rounds, pc : {"idle", "next", "item"}, todo : SUBSET Items,
             cur : Items \cup {<<>>}, sent : SUBSET Items, skipped : SUBSET Items,
             raised : SUBSET Items, dirty : SUBSET Leads, seen : [Leads -> Views_]]
<1>a. disp \in Sessions_ /\ disp.round \in Rounds /\ disp.seen \in [Leads -> Views_]
  BY DEF DispatcherTypeOK
<1>b. disp.pc = "item" => disp.cur \in Items /\ disp.cur[2] \in Leads
  BY DEF DispatchSafe, ItemLoaded, Items
<1>c. UNCHANGED task => AttemptsLeft'
  BY DEF DispatchSafe, AttemptsLeft
<1>1. CASE Pick
  <2>1. PICK picked \in SUBSET Due(disp.round) :
          /\ disp' = [disp EXCEPT !.pc = "next", !.todo = picked]
          /\ lockedBy' = Locked(Dispatcher, {ItemRow(i) : i \in picked})
    BY <1>1 DEF Pick
  <2>2. /\ disp'.pc = "next" /\ disp'.todo = picked /\ disp'.sent = {}
        /\ disp'.skipped = {} /\ disp'.raised = {} /\ disp'.seen = disp.seen
    BY <1>1, <1>a, <2>1 DEF Pick, DispatchSafe, RoundStartsEmpty
  <2>3. InHand' = picked
    BY <2>2 DEF InHand
  <2>4. TasksHeld'
    <3> SUFFICES ASSUME NEW l \in Leads, NEW k \in TaskTypes, <<k, l>> \in picked
                 PROVE  lockedBy'[TaskRow(l, k)] = Dispatcher /\ task'[l][k].status = "pending"
      BY <2>3 DEF TasksHeld, HeldByDispatcher
    <3>1. task[l][k].status = "pending"
      BY <1>a, DueTasks
    <3>2. ItemRow(<<k, l>>) = TaskRow(l, k) /\ TaskRow(l, k) \in Rows
      BY TaskRows DEF ItemRow
    <3>3. TaskRow(l, k) \in {ItemRow(i) : i \in picked}
      BY <3>2
    <3> QED
      BY <1>1, <2>1, <3>1, <3>2, <3>3 DEF Pick, Locked
  <2>5. ClearStaysClear' /\ RoundStartsEmpty' /\ ItemLoaded'
    BY <1>1, <2>2 DEF Pick, DispatchSafe, ClearStaysClear, RoundStartsEmpty, ItemLoaded
  <2> QED
    BY <1>1, <1>c, <2>4, <2>5 DEF Pick, DispatchSafe
<1>2. CASE SkipRound
  BY <1>2, <1>c, NothingInHand DEF SkipRound, StoreRests
<1>3. ASSUME NEW i \in Items, TakeItem(i)
      PROVE  DispatchSafe'
  <2> DEFINE l == i[2]
             fresh == ~disp.seen[l].loaded
             view == IF fresh THEN [loaded |-> TRUE, state |-> lead[l].state,
                                    outreach |-> lead[l].outreach, clear |-> ~optedOut[l]]
                     ELSE disp.seen[l]
             flushed == IF fresh THEN disp.dirty ELSE {}
  <2>1. l \in Leads
    BY DEF Items
  <2>2. /\ disp.pc = "next" /\ i \in disp.todo
        /\ UNCHANGED <<task, optedOut>>
        /\ lockedBy' = Locked(Dispatcher, {LeadRow(m) : m \in flushed})
        /\ disp' = [disp EXCEPT !.pc = "item", !.cur = i, !.todo = @ \ {i},
                      !.seen = [disp.seen EXCEPT ![l] = view]]
    BY <1>3, <1>a, <2>1 DEF TakeItem
  <2>3. /\ disp'.pc = "item" /\ disp'.cur = i /\ disp'.todo = disp.todo \ {i}
        /\ UNCHANGED <<disp.sent, disp.skipped, disp.raised>>
        /\ disp'.seen = [disp.seen EXCEPT ![l] = view]
    BY <1>a, <2>2
  <2>4. view.loaded /\ (fresh => view.clear = ~optedOut[l]) /\ (~fresh => view = disp.seen[l])
    OBVIOUS
  <2> HIDE DEF view
  <2>5. InHand' \subseteq InHand
    BY <2>2, <2>3 DEF InHand
  <2>6. ItemLoaded' /\ RoundStartsEmpty'
    BY <1>a, <2>1, <2>3, <2>4 DEF ItemLoaded, RoundStartsEmpty
  <2>7. TasksHeld'
    BY <2>2, <2>5, TaskRows DEF DispatchSafe, TasksHeld, HeldByDispatcher, Locked
  <2>8. ClearStaysClear'
    <3> SUFFICES ASSUME NEW m \in Leads, NEW k \in Guarded,
                        <<k, m>> \in InHand, disp'.seen[m].loaded, disp'.seen[m].clear
                 PROVE  ~optedOut[m]
      BY <2>2, <2>5 DEF ClearStaysClear
    <3>1. CASE m = l /\ fresh
      BY <1>a, <2>1, <2>3, <2>4, <3>1
    <3>2. CASE m # l \/ ~fresh
      BY <1>a, <2>1, <2>3, <2>4, <3>2 DEF DispatchSafe, ClearStaysClear
    <3> QED
      BY <3>1, <3>2
  <2> QED
    BY <1>c, <2>2, <2>6, <2>7, <2>8 DEF DispatchSafe
<1>4. ASSUME disp.pc = "item", RecordSent, UNCHANGED <<task, optedOut, lockedBy>>
      PROVE  DispatchSafe'
  <2> DEFINE c == disp.cur[2]
             o == IF disp.cur[1] = "cold_nurture" THEN disp.seen[c].outreach + 1
                  ELSE disp.seen[c].outreach
  <2>1. c \in Leads
    BY <1>4, <1>b
  <2>2. disp' = [disp EXCEPT !.pc = "next", !.cur = <<>>, !.sent = @ \cup {disp.cur},
                   !.dirty = @ \cup {c}, !.seen = [disp.seen EXCEPT ![c].outreach = o]]
    BY <1>4, <1>a, <2>1 DEF RecordSent
  <2> HIDE DEF o
  <2>3. /\ disp'.pc = "next" /\ disp'.sent = disp.sent \cup {disp.cur}
        /\ UNCHANGED <<disp.todo, disp.skipped, disp.raised>>
        /\ disp'.seen = [disp.seen EXCEPT ![c].outreach = o]
    BY <1>a, <2>2
  <2>4. \A m \in Leads : /\ disp'.seen[m].loaded = disp.seen[m].loaded
                         /\ disp'.seen[m].clear = disp.seen[m].clear
    BY <1>a, <2>1, <2>3
  <2>5. InHand' \subseteq InHand
    BY <1>4, <2>3 DEF InHand
  <2> QED
    BY <1>4, <2>3, <2>4, <2>5, ItemDone
<1>5. CASE Send \/ SendFails
  BY <1>4, <1>5 DEF Send, SendFails, StoreRests
<1>6. CASE Skip \/ Raise
  <2>1. /\ disp.pc = "item" /\ disp'.pc = "next" /\ UNCHANGED <<task, optedOut, lockedBy>>
        /\ UNCHANGED <<disp.todo, disp.sent, disp.seen>>
        /\ disp'.skipped \subseteq disp.skipped \cup {disp.cur}
        /\ disp'.raised \subseteq disp.raised \cup {disp.cur}
    BY <1>6, <1>a DEF Skip, Raise, StoreRests
  <2>2. InHand' \subseteq InHand
    BY <2>1 DEF InHand
  <2> QED
    BY <2>1, <2>2, ItemDone
<1>7. CASE CommitRound
  <2>1. ASSUME NEW l \in Leads, NEW k \in TaskTypes, task'[l][k].status = "pending"
        PROVE  task'[l][k].attempts < MaxAttempts
    <3>1. task'[l][k] = TaskAfter(task[l][k], <<k, l>>) /\ task[l][k] \in TaskRecords
      BY <1>7 DEF CommitRound, StoreTypeOK
    <3>2. <<k, l>> \in disp.sent \cup disp.skipped \cup disp.raised
            => task[l][k].status = "pending"
      BY DEF DispatchSafe, TasksHeld, InHand
    <3>3. task[l][k].status = "pending" => task[l][k].attempts < MaxAttempts
      BY DEF DispatchSafe, AttemptsLeft
    <3> QED
      BY <2>1, <3>1, <3>2, <3>3, TaskAfterRound
  <2>2. AttemptsLeft'
    BY <2>1 DEF AttemptsLeft
  <2> QED
    BY <1>7, <2>2, NothingInHand DEF CommitRound
<1> QED
  BY <1>1, <1>2, <1>3, <1>5, <1>6, <1>7 DEF DispatcherNext

LEMMA PipelineDispatchStep ==
  ASSUME PipelineTypeOK, DispatchSafe, StopHoldsTasks, PipelineNext
  PROVE  DispatchSafe'
<1> USE DEF PipelineTypeOK, TypeOK
<1>a. Dispatcher \in Sessions /\ Dispatcher # Manager
  BY SessionsDiffer
<1>1. CASE WebStep
  <2>1. WebFrame
    BY <1>1, WebFrames DEF WebStep
  <2>2. ASSUME NEW l \in Leads, NEW k \in TaskTypes
        PROVE  \/ task'[l][k] = task[l][k]
               \/ task'[l][k].status = "cancelled" /\ ~HeldByDispatcher(l, k)
    <3>1. task[l][k] \in TaskRecords
      BY DEF StoreTypeOK
    <3>2. [task[l][k] EXCEPT !.status = "cancelled"].status = "cancelled"
      BY <3>1 DEF TaskRecords
    <3> QED
      BY <2>1, <3>2 DEF WebFrame
  <2>3. \A l \in Leads, k \in TaskTypes :
          lockedBy[TaskRow(l, k)] = Dispatcher => lockedBy'[TaskRow(l, k)] = Dispatcher
    BY <2>1, TaskRows DEF WebFrame
  <2>4. \/ optedOut' = optedOut
        \/ \E l \in Leads :
             /\ optedOut' = [optedOut EXCEPT ![l] = TRUE]
             /\ \A k \in Guarded : task[l][k].status = "pending" => ~HeldByDispatcher(l, k)
    BY <2>1 DEF WebFrame
  <2>5. UNCHANGED disp
    BY <1>1 DEF WebStep, workerVars
  <2> QED
    BY <2>2, <2>3, <2>4, <2>5, DispatchRests
<1>2. CASE ManagerStep
  <2>1. ManagerFrame /\ UNCHANGED disp
    BY <1>2, ManagerFrames DEF ManagerStep
  <2>2. \A l \in Leads, k \in TaskTypes :
          lockedBy[TaskRow(l, k)] = Dispatcher => lockedBy'[TaskRow(l, k)] = Dispatcher
    BY <1>a, <2>1, TaskRows DEF ManagerFrame, OnlyOwnRows
  <2> QED
    BY <2>1, <2>2, DispatchRests DEF ManagerFrame
<1>3. CASE DispatcherStep
  BY <1>3, DispatchStep DEF DispatcherStep
<1>4. CASE BackgroundStep
  <2>1. BackgroundFrame
    BY <1>4, BackgroundFrames
  <2>2. CASE disp' = Waiting("followups")
    BY <2>1, <2>2, NothingInHand DEF BackgroundFrame, DispatchSafe, AttemptsLeft
  <2>3. CASE /\ disp' = disp
             /\ \A r \in Rows : lockedBy'[r] = Dispatcher <=> lockedBy[r] = Dispatcher
    BY <2>1, <2>3, TaskRows, DispatchRests DEF BackgroundFrame
  <2> QED
    BY <2>1, <2>2, <2>3 DEF BackgroundFrame
<1> QED
  BY <1>1, <1>2, <1>3, <1>4 DEF PipelineNext, BackgroundStep

-----------------------------------------------------------------------------
(* Escalations.                                                             *)
LEMMA EscalationsRest ==
  ASSUME StoreTypeOK, ManagerTypeOK, EscalationsSafe, NoNewTasks, mgr' = mgr \/ mgr' = Between("sweep")
  PROVE  EscalationsSafe'
<1>a. "booking_escalation" \in TaskTypes
  BY DEF TaskTypes
<1>1. EscalationsCapped'
  <2> SUFFICES ASSUME NEW l \in Leads
               PROVE  LET u == task'[l]["booking_escalation"] IN
                      u.sent + (IF u.status = "pending" THEN 1 ELSE 0) <= MaxEscalations
    BY DEF EscalationsCapped
  <2> DEFINE t == task[l]["booking_escalation"]
             u == task'[l]["booking_escalation"]
  <2>1. t.sent \in Nat /\ t.sent + (IF t.status = "pending" THEN 1 ELSE 0) <= MaxEscalations
    BY <1>a DEF StoreTypeOK, TaskRecords, EscalationsSafe, EscalationsCapped
  <2>2. /\ u.status = "pending" => t.status = "pending"
        /\ \/ u.sent = t.sent
           \/ t.status = "pending" /\ u.status # "pending" /\ u.sent = t.sent + 1
    BY <1>a DEF NoNewTasks
  <2> HIDE DEF t, u
  <2>3. u.sent + (IF u.status = "pending" THEN 1 ELSE 0) <= MaxEscalations
    BY <2>1, <2>2, StoreConstants
  <2> QED
    BY <2>3 DEF u
<1>2. CASE mgr' = mgr
  <2>1. mgr.gets \subseteq Leads
    BY DEF ManagerTypeOK
  <2>2. EscalationsHaveRoom'
    BY <1>a, <1>2, <2>1 DEF EscalationsSafe, EscalationsHaveRoom, NoNewTasks
  <2> QED
    BY <1>1, <1>2, <2>2 DEF EscalationsSafe, GetsAreChosen
<1>3. CASE mgr' = Between("sweep")
  BY <1>1, <1>3 DEF EscalationsSafe, GetsAreChosen, EscalationsHaveRoom, Between
<1> QED
  BY <1>2, <1>3

LEMMA ReceiversMay ==
  ASSUME NEW phase \in Phases, NEW ls, NEW rs \in Receivers(phase, ls)
  PROVE  /\ rs \subseteq ls
         /\ rs # {} => phase \in DOMAIN Schedules
         /\ phase = "sweep" => \A l \in rs : MaySchedule(l, "booking_escalation")
<1>1. CASE phase \notin DOMAIN Schedules
  BY <1>1 DEF Receivers, Schedules
<1>2. CASE phase \in DOMAIN Schedules
  <2>1. rs \subseteq {l \in ls : MaySchedule(l, Schedules[phase])}
    BY <1>2 DEF Receivers
  <2>2. Schedules["sweep"] = "booking_escalation"
    BY DEF Schedules
  <2> QED
    BY <1>2, <2>1, <2>2
<1> QED
  BY <1>1, <1>2

LEMMA EscalationsManaged ==
  ASSUME StoreTypeOK, ManagerTypeOK, EscalationsSafe, ManagerNext
  PROVE  EscalationsSafe'
<1> DEFINE Sessions_ == [pc : {"idle", "flush"}, phase : Phases, chosen : SUBSET Leads,
             seen : [Leads -> States], gets : SUBSET Leads, flushed : SUBSET Leads]
<1>a. mgr \in Sessions_ /\ mgr.phase \in Phases
  BY DEF ManagerTypeOK
<1>b. ASSUME EscalationsCapped', NextPhase
      PROVE  EscalationsSafe'
  BY <1>b DEF NextPhase, Between, EscalationsSafe, GetsAreChosen, EscalationsHaveRoom
<1>c. ASSUME UNCHANGED task PROVE EscalationsCapped'
  BY <1>c DEF EscalationsSafe, EscalationsCapped
<1>1. CASE SelectLeads
  <2>1. PICK rs \in Receivers(mgr.phase, Selected(mgr.phase)) :
          mgr' = [mgr EXCEPT !.pc = "flush", !.chosen = Selected(mgr.phase), !.gets = rs,
                          !.seen = [l \in Leads |-> lead[l].state]]
    BY <1>1 DEF SelectLeads
  <2>2. mgr'.gets = rs /\ mgr'.chosen = Selected(mgr.phase) /\ mgr'.phase = mgr.phase
    BY <1>a, <2>1
  <2>3. GetsAreChosen'
    BY <1>a, <2>2, ReceiversMay DEF GetsAreChosen
  <2>4. EscalationsHaveRoom'
    BY <1>1, <1>a, <2>2, ReceiversMay DEF SelectLeads, StoreRests, EscalationsHaveRoom, MaySchedule
  <2> QED
    BY <1>1, <1>c, <2>3, <2>4 DEF SelectLeads, StoreRests, EscalationsSafe
<1>2. CASE NothingSelected \/ ArchiveOld
  BY <1>2, <1>b, <1>c DEF NothingSelected, ArchiveOld, StoreRests
<1>3. CASE CommitPhase
  <2> DEFINE k == "booking_escalation"
  <2>1. EscalationsCapped'
    <3> SUFFICES ASSUME NEW l \in Leads
                 PROVE  LET u == task'[l][k] IN
                        u.sent + (IF u.status = "pending" THEN 1 ELSE 0) <= MaxEscalations
      BY DEF EscalationsCapped
    <3> DEFINE t == task[l][k]
               u == task'[l][k]
    <3>1. k \in TaskTypes /\ t \in TaskRecords
      BY DEF StoreTypeOK, TaskTypes
    <3>2. t.sent \in Nat /\ t.sent + (IF t.status = "pending" THEN 1 ELSE 0) <= MaxEscalations
      BY <3>1 DEF TaskRecords, EscalationsSafe, EscalationsCapped
    <3>3. \/ /\ l \in mgr.gets /\ k = Schedules[mgr.phase]
             /\ u = [t EXCEPT !.status = "pending", !.attempts = 0]
          \/ u = [t EXCEPT !.status = "cancelled"]
          \/ u = t
      BY <1>3, <3>1, TasksAfterCases DEF CommitPhase
    <3>4. CASE /\ l \in mgr.gets /\ k = Schedules[mgr.phase]
               /\ u = [t EXCEPT !.status = "pending", !.attempts = 0]
      <4>1. mgr.phase \in DOMAIN Schedules
        BY <3>4 DEF EscalationsSafe, GetsAreChosen
      <4>2. mgr.phase = "sweep"
        BY <3>4, <4>1 DEF Schedules
      <4>3. t.sent < MaxEscalations
        BY <3>4, <4>2 DEF EscalationsSafe, EscalationsHaveRoom
      <4>4. u.sent = t.sent /\ u.status = "pending"
        BY <3>1, <3>4 DEF TaskRecords
      <4> QED
        BY <3>2, <4>3, <4>4, StoreConstants
    <3>5. CASE u = [t EXCEPT !.status = "cancelled"]
      <4>1. u.sent = t.sent /\ u.status = "cancelled"
        BY <3>1, <3>5 DEF TaskRecords
      <4> QED
        BY <3>2, <4>1, StoreConstants
    <3> QED
      BY <3>2, <3>3, <3>4, <3>5
  <2> QED
    BY <1>3, <1>b, <2>1 DEF CommitPhase
<1>4. ASSUME NEW l \in Leads, FlushLead(l)
      PROVE  EscalationsSafe'
  <2>1. UNCHANGED <<mgr.gets, mgr.chosen, mgr.phase, task>>
    BY <1>4, <1>a DEF FlushLead
  <2> QED
    BY <1>c, <2>1 DEF EscalationsSafe, GetsAreChosen, EscalationsHaveRoom
<1> QED
  BY <1>1, <1>2, <1>3, <1>4 DEF ManagerNext

LEMMA WebAddsNoTasks ==
  ASSUME StoreTypeOK, WebFrame
  PROVE  NoNewTasks
<1> SUFFICES ASSUME NEW l \in Leads, NEW k \in TaskTypes
             PROVE  /\ task'[l][k].status = "pending" => task[l][k].status = "pending"
                    /\ task'[l][k].sent = task[l][k].sent
  BY DEF NoNewTasks
<1>1. task[l][k] \in TaskRecords
  BY DEF StoreTypeOK
<1>2. /\ [task[l][k] EXCEPT !.status = "cancelled"].status = "cancelled"
      /\ [task[l][k] EXCEPT !.status = "cancelled"].sent = task[l][k].sent
  BY <1>1 DEF TaskRecords
<1> QED
  BY <1>2 DEF WebFrame

LEMMA PipelineEscalationsStep ==
  ASSUME PipelineTypeOK, DispatchSafe, EscalationsSafe, StopHoldsTasks, PipelineNext
  PROVE  EscalationsSafe'
<1> USE DEF PipelineTypeOK, TypeOK
<1>1. CASE WebStep
  BY <1>1, WebFrames, WebAddsNoTasks, EscalationsRest DEF WebStep, workerVars
<1>2. CASE ManagerStep
  BY <1>2, EscalationsManaged DEF ManagerStep
<1>3. CASE DispatcherStep
  BY <1>3, DispatcherFrames, EscalationsRest DEF DispatcherStep, DispatcherFrame
<1>4. CASE BackgroundStep
  BY <1>4, BackgroundFrames, EscalationsRest DEF BackgroundFrame, NoNewTasks
<1> QED
  BY <1>1, <1>2, <1>3, <1>4 DEF PipelineNext, BackgroundStep

-----------------------------------------------------------------------------
(* A STOP and the phases of the manager: no guarded task appears between    *)
(* the UPDATE and the COMMIT of a STOP.                                     *)

(* A request that is in its UPDATE afterwards was there before, and has     *)
(* given back no task.                                                      *)
CancellersRest ==
  \A p \in Web : web'[p].pc = "cancelling" =>
    /\ web'[p] = web[p]
    /\ \A l \in Leads, k \in TaskTypes :
         lockedBy[TaskRow(l, k)] = p => lockedBy'[TaskRow(l, k)] = p

LEMMA StopHoldsRests ==
  ASSUME TypeOK, StopHoldsTasks, CancellersRest, NoNewTasks
  PROVE  StopHoldsTasks'
BY RequestTyped, GuardedTypes
   DEF StopHoldsTasks, CancellersRest, NoNewTasks, TypeOK, ConductorTypeOK

LEMMA OthersCancel ==
  ASSUME TypeOK, NEW q \in Web, OthersStay(q), web'[q].pc # "cancelling",
         \/ lockedBy' = lockedBy \/ lockedBy' = Unlocked(q)
         \/ \E rs : (\A r \in rs : CanLock(q, r)) /\ lockedBy' = Locked(q, rs)
  PROVE  CancellersRest
<1>1. OnlyOwnRows(q)
  BY WorkerRows, SessionsDiffer DEF TypeOK
<1>2. ASSUME NEW p \in Web, p # q, NEW l \in Leads, NEW k \in TaskTypes
      PROVE  lockedBy'[TaskRow(l, k)] = p <=> lockedBy[TaskRow(l, k)] = p
  BY <1>1, <1>2, TaskRows, SessionsDiffer DEF OnlyOwnRows
<1> QED
  BY <1>2 DEF CancellersRest, OthersStay, Stays

LEMMA WebCancellers ==
  ASSUME TypeOK, ConductorNext
  PROVE  \/ CancellersRest
         \/ \E q \in Web : BeginCancel(q) \/ \E k \in TaskTypes : CancelTask(q, k)
<1> USE DEF TypeOK, ConductorTypeOK
<1>a. UNCHANGED <<web, lockedBy>> => CancellersRest
  BY DEF CancellersRest
<1>1. ASSUME NEW q \in Web, NewLeadStep(q) \/ SendManualReply(q)
      PROVE  CancellersRest
  <2>1. lockedBy' = lockedBy
    BY <1>1 DEF NewLeadStep, RejectLead, CreateLead, PassCompliance, BlockLead, Greet, GreetFails,
      FinishGreeting, SendManualReply, StoreRests
  <2>2. CASE CreateLead(q)
    <3>1. OthersStay(q) /\ web'[q].pc # "cancelling"
      BY <2>2 DEF CreateLead, OthersStay, Stays, Resting
    <3> QED
      BY <2>1, <3>1, OthersCancel
  <2>3. CASE ~CreateLead(q)
    <3>1. OthersStay(q) /\ web'[q].pc # "cancelling"
      BY <1>1, <2>3, PlacesAfter DEF NewLeadStep, RejectLead, PassCompliance, BlockLead, Greet,
        GreetFails, FinishGreeting, SendManualReply
    <3> QED
      BY <2>1, <3>1, OthersCancel
  <2> QED
    BY <2>2, <2>3
<1>2. ASSUME NEW q \in Web, FlushStop(q)
      PROVE  CancellersRest
  <2>1. OthersStay(q) /\ web'[q].pc # "cancelling"
    BY <1>2 DEF FlushStop, OthersStay, Stays, Requests
  <2>2. \A r \in {LeadRow(web[q].lead)} : CanLock(q, r)
    BY <1>2 DEF FlushStop
  <2> QED
    BY <1>2, <2>1, <2>2, OthersCancel DEF FlushStop
<1>3. ASSUME NEW q \in Web, CommitStop(q) \/ Crash(q)
      PROVE  CancellersRest
  <2>1. lockedBy' = Unlocked(q) /\ OthersStay(q) /\ web'[q].pc # "cancelling"
    BY <1>3, PlacesAfter DEF CommitStop, Crash
  <2> QED
    BY <2>1, OthersCancel
<1>4. ASSUME NEW q \in Web, NEW s, NEW books, Flush(q, s, books)
      PROVE  CancellersRest
  <2>1. OthersStay(q) /\ web'[q].pc # "cancelling"
    BY <1>4, PlacesAfter
  <2>2. \A r \in {LeadRow(web[q].lead)} : CanLock(q, r)
    BY <1>4 DEF Flush
  <2> QED
    BY <1>4, <2>1, <2>2, OthersCancel DEF Flush
<1>5. ASSUME NEW q \in Web, ReplyStep(q)
      PROVE  CancellersRest
  <2>1. CASE WaitForLock(q)
    BY <1>a, <2>1 DEF WaitForLock, StoreRests
  <2>2. CASE CommitReply(q)
    <3>1. lockedBy' = Unlocked(q) /\ Forget(q, "release")
      BY <2>2 DEF CommitReply
    <3>2. OthersStay(q) /\ web'[q].pc # "cancelling"
      BY <3>1, PlacesAfter
    <3> QED
      BY <3>1, <3>2, OthersCancel
  <2>3. CASE \/ EnterLock(q) \/ GiveUpReply(q) \/ RouteRaises(q) \/ SendReply(q)
             \/ WithholdReply(q) \/ ReleaseLock(q)
    <3>1. lockedBy' = lockedBy
      BY <2>3 DEF EnterLock, GiveUpReply, RouteRaises, SendReply, WithholdReply, ReleaseLock,
        StoreRests
    <3>2. OthersStay(q) /\ web'[q].pc # "cancelling"
      BY <2>3, PlacesAfter DEF EnterLock, GiveUpReply, RouteRaises, SendReply, WithholdReply,
        ReleaseLock
    <3> QED
      BY <3>1, <3>2, OthersCancel
  <2> QED
    BY <1>4, <1>5, <2>1, <2>2, <2>3 DEF ReplyStep, RouteTurnLimit, RouteToQualify, RouteToBook
<1>6. ASSUME NEW q \in Web, Arrive(q)
      PROVE  CancellersRest
  <2>1. lockedBy' = lockedBy
    BY <1>6 DEF Arrive, SubmitLead, AcknowledgeDuplicate, ReceiveStop, ReceiveReply,
      OpenManualReply, StoreRests
  <2>2. CASE \E src \in Sources : AcknowledgeDuplicate(q, src)
    BY <1>a, <2>1, <2>2 DEF AcknowledgeDuplicate, conductorVars
  <2>3. CASE \E l \in Leads : OpenManualReply(q, l)
    <3>1. OthersStay(q) /\ web'[q].pc # "cancelling"
      BY <2>3 DEF OpenManualReply, OthersStay, Stays, Resting
    <3> QED
      BY <2>1, <3>1, OthersCancel
  <2>4. CASE (\E src \in Sources : SubmitLead(q, src)) \/ ReceiveStop(q) \/ ReceiveReply(q)
    <3>1. OthersStay(q) /\ web'[q].pc # "cancelling"
      BY <2>4, PlacesAfter DEF SubmitLead, ReceiveStop, ReceiveReply
    <3> QED
      BY <2>1, <3>1, OthersCancel
  <2> QED
    BY <1>6, <2>2, <2>3, <2>4 DEF Arrive
<1>7. ASSUME Environment
      PROVE  CancellersRest
  BY <1>7, <1>a DEF Environment, DedupExpires, SetStatus, SetArchived, LockExpires, StoreRests,
    conductorVars
<1> QED
  BY <1>1, <1>2, <1>3, <1>5, <1>6, <1>7 DEF ConductorNext, Proceed, StopStep, UpdateTasks

LEMMA BeginCancelHolds ==
  ASSUME TypeOK, StopHoldsTasks, NEW q \in Web, BeginCancel(q)
  PROVE  StopHoldsTasks'
<1> SUFFICES ASSUME NEW p \in Web, web'[p].pc = "cancelling", NEW k \in Guarded,
                    task'[web'[p].lead][k].status = "pending"
             PROVE  k \in web'[p].doomed \/ lockedBy'[TaskRow(web'[p].lead, k)] = p
  BY DEF StopHoldsTasks
<1>1. UNCHANGED <<task, lockedBy>>
  BY DEF BeginCancel, StoreRests
<1>2. CASE p = q
  <2>1. web'[p].lead = web[p].lead /\ web'[p].doomed = PendingTasks(web[p].lead)
    BY <1>2 DEF BeginCancel, TypeOK, ConductorTypeOK, Requests
  <2> QED
    BY <1>1, <2>1, GuardedTypes DEF PendingTasks
<1>3. CASE p # q
  <2>1. web'[p] = web[p]
    BY <1>3 DEF BeginCancel, TypeOK, ConductorTypeOK
  <2> QED
    BY <1>1, <2>1 DEF StopHoldsTasks
<1> QED
  BY <1>2, <1>3

LEMMA CancelTaskHolds ==
  ASSUME TypeOK, StopHoldsTasks, NEW q \in Web, NEW j \in TaskTypes, CancelTask(q, j)
  PROVE  StopHoldsTasks'
<1> DEFINE rs == {TaskRow(web[q].lead, i) : i \in {j} \cap PendingTasks(web[q].lead)}
<1> SUFFICES ASSUME NEW p \in Web, web'[p].pc = "cancelling", NEW k \in Guarded,
                    task'[web'[p].lead][k].status = "pending"
             PROVE  k \in web'[p].doomed \/ lockedBy'[TaskRow(web'[p].lead, k)] = p
  BY DEF StopHoldsTasks
<1>1. task' = task /\ lockedBy' = Locked(q, rs) /\ web[q].pc = "cancelling"
  BY DEF CancelTask, At
<1>2. web[p].lead \in Leads /\ k \in TaskTypes
  BY RequestTyped, GuardedTypes DEF TypeOK, ConductorTypeOK
<1>3. CASE p = q
  <2>1. /\ web'[p].lead = web[p].lead /\ web'[p].doomed = web[p].doomed \ {j}
        /\ task[web[p].lead][k].status = "pending"
    BY <1>1, <1>3 DEF CancelTask, TypeOK, ConductorTypeOK, Requests
  <2>2. TaskRow(web[p].lead, k) \in Rows
    BY <1>2, TaskRows
  <2>3. k = j => TaskRow(web[p].lead, k) \in rs
    BY <1>2, <1>3, <2>1 DEF PendingTasks
  <2>4. k \in web[p].doomed \/ lockedBy[TaskRow(web[p].lead, k)] = p
    BY <1>1, <1>3, <2>1 DEF StopHoldsTasks
  <2> HIDE DEF rs
  <2> QED
    BY <1>1, <1>3, <2>1, <2>2, <2>3, <2>4 DEF Locked
<1>4. CASE p # q
  <2>1. web'[p] = web[p]
    BY <1>4 DEF CancelTask, TypeOK, ConductorTypeOK
  <2>2. \A r \in rs : CanLock(q, r)
    BY DEF CancelTask
  <2> HIDE DEF rs
  <2>3. OnlyOwnRows(q)
    BY <1>1, <2>2, WorkerRows, SessionsDiffer DEF TypeOK
  <2>4. lockedBy'[TaskRow(web[p].lead, k)] = p <=> lockedBy[TaskRow(web[p].lead, k)] = p
    BY <1>2, <1>4, <2>3, TaskRows, SessionsDiffer DEF OnlyOwnRows
  <2> QED
    BY <1>1, <2>1, <2>4 DEF StopHoldsTasks
<1> QED
  BY <1>3, <1>4

(* A phase that commits a guarded task holds the row of its lead, and so    *)
(* does a STOP in its UPDATE: they are of different leads.                  *)
LEMMA PhaseGuards ==
  ASSUME StoreTypeOK, EscalationsSafe, FlushedHeld, ManagerNext,
         NEW l \in Leads, NEW k \in Guarded,
         task'[l][k].status = "pending", task[l][k].status # "pending"
  PROVE  lockedBy[LeadRow(l)] = Manager
<1>1. CommitPhase
  BY DEF ManagerNext, SelectLeads, NothingSelected, ArchiveOld, FlushLead, StoreRests
<1>2. k \in TaskTypes
  BY GuardedTypes
<1>3. task[l][k] \in TaskRecords
  BY <1>2 DEF StoreTypeOK
<1>4. l \in mgr.gets /\ k = Schedules[mgr.phase]
  <2>1. [task[l][k] EXCEPT !.status = "cancelled"].status = "cancelled"
    BY <1>3 DEF TaskRecords
  <2> QED
    BY <1>1, <1>2, <2>1, TasksAfterCases DEF CommitPhase
<1>5. mgr.phase \in DOMAIN Schedules /\ l \in mgr.chosen
  BY <1>4 DEF EscalationsSafe, GetsAreChosen
<1>6. mgr.phase \in {"complete", "recycle"}
  BY <1>4, <1>5 DEF Schedules, Guarded
<1>7. l \in Dirty
  BY <1>4, <1>5, <1>6 DEF Dirty
<1> QED
  BY <1>1, <1>7 DEF CommitPhase, FlushedHeld

LEMMA ManagerStopHolds ==
  ASSUME TypeOK, ManagerTypeOK, ConductorSafe, EscalationsSafe, StopsTakeTasks, ManagerNext,
         UNCHANGED web
  PROVE  StopHoldsTasks'
<1> SUFFICES ASSUME NEW p \in Web, web[p].pc = "cancelling", NEW k \in Guarded,
                    task'[web[p].lead][k].status = "pending"
             PROVE  k \in web[p].doomed \/ lockedBy'[TaskRow(web[p].lead, k)] = p
  BY DEF StopHoldsTasks
<1>1. web[p].lead \in Leads /\ k \in TaskTypes
  BY RequestTyped, GuardedTypes DEF TypeOK, ConductorTypeOK
<1>2. lockedBy[LeadRow(web[p].lead)] # Manager
  BY SessionsDiffer DEF ConductorSafe, RowsHeld, Holding
<1>3. task[web[p].lead][k].status = "pending"
  BY <1>1, <1>2, PhaseGuards DEF StopsTakeTasks, TypeOK
<1>4. OnlyOwnRows(Manager)
  BY ManagerFrames DEF ManagerFrame, TypeOK
<1>5. lockedBy'[TaskRow(web[p].lead, k)] = p <=> lockedBy[TaskRow(web[p].lead, k)] = p
  BY <1>1, <1>4, WebRowsRest, SessionsDiffer
<1> QED
  BY <1>3, <1>5 DEF StopsTakeTasks, StopHoldsTasks

LEMMA ManagerFlushedHeld ==
  ASSUME StoreTypeOK, ManagerTypeOK, FlushedHeld, ManagerNext
  PROVE  FlushedHeld'
<1>a. DOMAIN mgr = {"pc", "phase", "chosen", "seen", "gets", "flushed"} /\ mgr.flushed \subseteq Leads
  BY DEF ManagerTypeOK
<1>1. CASE SelectLeads
  <2>1. mgr'.flushed = mgr.flushed /\ lockedBy' = lockedBy
    BY <1>a, <1>1 DEF SelectLeads, StoreRests
  <2> QED
    BY <2>1 DEF FlushedHeld
<1>2. CASE NothingSelected \/ CommitPhase \/ ArchiveOld
  <2>1. NextPhase
    BY <1>2 DEF NothingSelected, CommitPhase, ArchiveOld
  <2>2. mgr'.flushed = {}
    BY <2>1 DEF NextPhase, Between
  <2> QED
    BY <2>2 DEF FlushedHeld
<1>3. ASSUME NEW l \in Leads, FlushLead(l)
      PROVE  FlushedHeld'
  <2>1. mgr'.flushed = mgr.flushed \cup {l} /\ lockedBy' = Locked(Manager, {LeadRow(l)})
    BY <1>a, <1>3 DEF FlushLead
  <2> QED
    BY <1>a, <2>1, RowsAfter DEF FlushedHeld
<1> QED
  BY <1>1, <1>2, <1>3 DEF ManagerNext

LEMMA PipelineStopsStep ==
  ASSUME PipelineTypeOK, ConductorSafe, DispatchSafe, EscalationsSafe, StopsTakeTasks,
         PipelineNext
  PROVE  StopsTakeTasks'
<1> USE DEF PipelineTypeOK
<1>a. mgr.flushed \subseteq Leads
  BY DEF ManagerTypeOK
<1>b. ASSUME mgr' = mgr, \A r \in Rows : lockedBy'[r] = Manager <=> lockedBy[r] = Manager
      PROVE  FlushedHeld'
  BY <1>a, <1>b, LeadRows DEF StopsTakeTasks, FlushedHeld
<1>c. ASSUME CancellersRest, NoNewTasks
      PROVE  StopHoldsTasks'
  BY <1>c, StopHoldsRests DEF StopsTakeTasks
<1>1. CASE WebStep
  <2>1. WebFrame
    BY <1>1, WebFrames DEF WebStep, StopsTakeTasks
  <2>2. FlushedHeld'
    BY <1>1, <1>b, <2>1 DEF WebFrame, WebStep, workerVars
  <2>3. StopHoldsTasks'
    BY <1>1, <1>c, <2>1, WebCancellers, WebAddsNoTasks, BeginCancelHolds, CancelTaskHolds
       DEF WebStep, StopsTakeTasks, TypeOK
  <2> QED
    BY <2>2, <2>3 DEF StopsTakeTasks
<1>2. CASE ManagerStep
  BY <1>2, ManagerFlushedHeld, ManagerStopHolds
     DEF ManagerStep, conductorVars, StopsTakeTasks, TypeOK
<1>3. CASE DispatcherStep
  <2>1. DispatcherFrame /\ mgr' = mgr /\ web' = web
    BY <1>3, DispatcherFrames DEF DispatcherStep, conductorVars, TypeOK
  <2>2. FlushedHeld'
    BY <1>b, <2>1, SessionsDiffer DEF DispatcherFrame, OnlyOwnRows
  <2>3. CancellersRest
    BY <2>1, WebRowsRest, SessionsDiffer DEF DispatcherFrame, CancellersRest
  <2> QED
    BY <1>c, <2>1, <2>2, <2>3 DEF DispatcherFrame, StopsTakeTasks
<1>4. CASE BackgroundStep
  <2>1. BackgroundFrame
    BY <1>4, BackgroundFrames
  <2>2. FlushedHeld'
    BY <1>b, <2>1 DEF BackgroundFrame, FlushedHeld, Between
  <2>3. ASSUME web' = web, \A r \in Rows, p \in Web : lockedBy'[r] = p <=> lockedBy[r] = p
        PROVE  CancellersRest
    BY <2>3, TaskRows DEF CancellersRest
  <2>4. ASSUME NEW p \in Web, Finish(p), lockedBy' = Unlocked(p)
        PROVE  CancellersRest
    BY <2>4, PlacesAfter, OthersCancel DEF TypeOK, ConductorTypeOK
  <2>5. NoNewTasks
    BY <2>1 DEF BackgroundFrame, NoNewTasks
  <2>6. CancellersRest
    BY <2>1, <2>3, <2>4 DEF BackgroundFrame
  <2> QED
    BY <1>c, <2>2, <2>5, <2>6 DEF StopsTakeTasks
<1> QED
  BY <1>1, <1>2, <1>3, <1>4 DEF PipelineNext, BackgroundStep

-----------------------------------------------------------------------------
(* States of leads.                                                         *)

(* What a web step may make of them.                                        *)
WebStates ==
  /\ RepliesKeepOpen'
  /\ "status" \in Dashboard \/
     \A l \in Leads :
       \/ lead'[l].state = lead[l].state
       \/ lead'[l].state \notin {"booked", "dead", "completed"}
       \/ lead'[l].state = "booked" /\ booking'[l].status # "none"
  /\ \A l \in Leads : booking'[l].status = "none" => booking[l].status = "none"

LEMMA StatesRest ==
  ASSUME StoreTypeOK, ManagerTypeOK, StatesSafe, WebStates, NoNewTasks,
         mgr' = mgr \/ mgr' = Between("sweep")
  PROVE  StatesSafe'
<1>1. CASE "status" \in Dashboard
  BY <1>1 DEF StatesSafe, WebStates, BookedHasBooking, ClosedIsLeftAlone
<1>2. CASE "status" \notin Dashboard
  <2>1. ChosenAreOpen'
    <3>1. mgr.chosen \subseteq Leads
      BY DEF ManagerTypeOK
    <3>2. CASE mgr' = mgr
      BY <1>2, <3>1, <3>2 DEF StatesSafe, WebStates, ChosenAreOpen
    <3>3. CASE mgr' = Between("sweep")
      BY <3>3 DEF ChosenAreOpen, Between
    <3> QED
      BY <3>2, <3>3
  <2>2. BookedHasBooking'
    BY <1>2 DEF StatesSafe, WebStates, BookedHasBooking
  <2>3. \A l \in Leads : PendingTasks(l)' \subseteq PendingTasks(l)
    BY DEF NoNewTasks, PendingTasks
  <2>4. ClosedIsLeftAlone'
    BY <1>2, <2>3 DEF StatesSafe, WebStates, ClosedIsLeftAlone
  <2> QED
    BY <2>1, <2>2, <2>4 DEF StatesSafe, WebStates
<1> QED
  BY <1>1, <1>2

LEMMA StatesUntouched ==
  ASSUME StatesSafe, RepliesKeepOpen', UNCHANGED booking,
         \A l \in Leads : lead'[l].state = lead[l].state
  PROVE  WebStates
BY DEF WebStates

(* The ways a request moves on.                                             *)
LEMMA RequestMovesOn ==
  ASSUME StoreTypeOK, ConductorTypeOK, RepliesKeepOpen, NEW p \in Web, NEW r, KeepsOpen(r),
         web' = [web EXCEPT ![p] = r]
  PROVE  RepliesKeepOpen'
BY DEF RepliesKeepOpen, ConductorTypeOK

LEMMA RequestMoves ==
  ASSUME StoreTypeOK, ConductorTypeOK, RepliesKeepOpen, NEW p \in Web,
         \/ UNCHANGED web
         \/ Finish(p) \/ Forget(p, "release")
         \/ \E l \in Leads, pc \in {"stop", "lock"} : Load(p, l, pc)
         \/ \E l \in Leads, pc \in {"check", "manual"} :
              web' = [web EXCEPT ![p] = [Resting EXCEPT !.pc = pc, !.lead = l]]
         \/ \E pc \in Places \ {"stopping", "cancelling", "send", "commit"} : Go(p, pc)
         \/ web[p].pc = "send" /\ Go(p, "commit")
  PROVE  RepliesKeepOpen'
<1> USE RequestMovesOn
<1>0. CASE UNCHANGED web
  BY <1>0 DEF RepliesKeepOpen
<1>1. CASE Finish(p)
  <2>1. KeepsOpen(Resting)
    BY DEF KeepsOpen, Resting
  <2> QED
    BY <1>1, <2>1 DEF Finish
<1>2. CASE Forget(p, "release")
  <2> DEFINE r == [Resting EXCEPT !.pc = "release", !.lead = web[p].lead]
  <2>1. KeepsOpen(r)
    BY DEF KeepsOpen, Resting
  <2> HIDE DEF r
  <2> QED
    BY <1>2, <2>1 DEF Forget, r
<1>3. ASSUME NEW l \in Leads, NEW pc \in {"stop", "lock"}, Load(p, l, pc)
      PROVE  RepliesKeepOpen'
  <2> DEFINE r == [Resting EXCEPT !.pc = pc, !.lead = l, !.state = lead[l].state,
                     !.turn = lead[l].turn, !.new = lead[l].state]
  <2>1. KeepsOpen(r)
    BY DEF KeepsOpen, Resting
  <2>2. web' = [web EXCEPT ![p] = r]
    BY <1>3 DEF Load
  <2> HIDE DEF r
  <2> QED
    BY <2>1, <2>2
<1>4. ASSUME NEW l \in Leads, NEW pc \in {"check", "manual"},
             web' = [web EXCEPT ![p] = [Resting EXCEPT !.pc = pc, !.lead = l]]
      PROVE  RepliesKeepOpen'
  <2> DEFINE r == [Resting EXCEPT !.pc = pc, !.lead = l]
  <2>1. KeepsOpen(r)
    BY DEF KeepsOpen, Resting
  <2>2. web' = [web EXCEPT ![p] = r]
    BY <1>4
  <2> HIDE DEF r
  <2> QED
    BY <2>1, <2>2
<1>5. ASSUME NEW pc \in Places, Go(p, pc),
             \/ pc \notin {"stopping", "cancelling", "send", "commit"}
             \/ pc = "commit" /\ web[p].pc = "send"
      PROVE  RepliesKeepOpen'
  <2> DEFINE r == [web[p] EXCEPT !.pc = pc]
  <2>1. web[p] \in Requests /\ KeepsOpen(web[p])
    BY DEF ConductorTypeOK, RepliesKeepOpen
  <2>2. r.pc = pc /\ r.new = web[p].new /\ r.state = web[p].state /\ r.books = web[p].books
    BY <2>1 DEF Requests
  <2>3. web' = [web EXCEPT ![p] = r]
    BY <1>5 DEF Go
  <2> HIDE DEF r
  <2>4. KeepsOpen(r)
    BY <1>5, <2>1, <2>2 DEF KeepsOpen
  <2> QED
    BY <2>3, <2>4
<1> QED
  BY <1>0, <1>1, <1>2, <1>3, <1>4, <1>5, PlacesNamed

LEMMA FlushKeepsOpen ==
  ASSUME StoreTypeOK, ConductorTypeOK, StatesSafe, NEW p \in Web, NEW s \in States,
         NEW books \in BOOLEAN, Flush(p, s, books),
         s \in {"dead", "completed"} => s = web[p].state,
         s = "booked" => books \/ web[p].state = "booked"
  PROVE  WebStates
<1> DEFINE r == [web[p] EXCEPT !.pc = "send", !.new = s, !.books = books,
                               !.clear = ~optedOut[web[p].lead]]
<1>1. web[p] \in Requests /\ RepliesKeepOpen
  BY DEF ConductorTypeOK, StatesSafe
<1>2. r.pc = "send" /\ r.new = s /\ r.state = web[p].state /\ r.books = books
  BY <1>1 DEF Requests
<1>3. web' = [web EXCEPT ![p] = r] /\ UNCHANGED <<lead, booking>>
  BY DEF Flush
<1> HIDE DEF r
<1>4. KeepsOpen(r)
  BY <1>2 DEF KeepsOpen
<1> QED
  BY <1>1, <1>3, <1>4, RequestMovesOn, StatesUntouched

(* The state a reply or a STOP leaves its lead in.                          *)
LEMMA CommittedState ==
  ASSUME StoreTypeOK, ConductorTypeOK, StatesSafe, NEW p \in Web,
         web[p].pc \in {"cancelling", "commit"}
  PROVE  LET old == lead[web[p].lead].state IN
         /\ StateOf(p) \in States
         /\ \/ StateOf(p) = old
            \/ StateOf(p) \notin {"booked", "dead", "completed"}
            \/ StateOf(p) = "booked" /\ web[p].books /\ web[p].pc = "commit"
<1>1. KeepsOpen(web[p]) /\ StateOf(p) \in States
  BY StateOfTyped DEF StatesSafe, RepliesKeepOpen, StoreTypeOK, ConductorTypeOK
<1> QED
  BY <1>1 DEF StateOf, Written, KeepsOpen

LEMMA CommitReplyStates ==
  ASSUME StoreTypeOK, ConductorTypeOK, StatesSafe, NEW p \in Web, CommitReply(p)
  PROVE  WebStates
<1> DEFINE l == web[p].lead
<1>a. web[p].turn \in Nat
  BY RequestTyped DEF ConductorTypeOK
<1>b. web[p].turn + 1 \in Nat
  BY <1>a
<1>1. /\ l \in Leads /\ web[p].turn + 1 \in Nat /\ web[p].pc = "commit"
      /\ lead \in [Leads -> LeadRecords]
  BY <1>b, RequestTyped DEF CommitReply, At, ConductorTypeOK, StoreTypeOK
<1>2. /\ lead'[l].state = StateOf(p)
      /\ \A m \in Leads : m # l => lead'[m] = lead[m]
  <2>1. StateOf(p) \in States
    BY <1>1, CommittedState
  <2>2. lead' = [WithState(l, StateOf(p)) EXCEPT ![l].turn = web[p].turn + 1]
    BY DEF CommitReply
  <2> QED
    BY <1>1, <2>1, <2>2, TurnWritten
<1>3. RepliesKeepOpen'
  BY RequestMoves DEF CommitReply, StatesSafe
<1>4. /\ web[p].books => booking'[l].status = "confirmed"
      /\ \A m \in Leads : booking'[m].status = "none" => booking[m].status = "none"
  <2>1. ASSUME NEW a \in Appointments,
               booking' = [booking EXCEPT ![l] = [NoBooking EXCEPT
                 !.status = "confirmed", !.when = a.when, !.windowed = a.windowed]]
        PROVE  /\ booking'[l].status = "confirmed"
               /\ \A m \in Leads : m # l => booking'[m] = booking[m]
    <3> DEFINE b == [NoBooking EXCEPT !.status = "confirmed", !.when = a.when,
                                      !.windowed = a.windowed]
    <3>1. b.status = "confirmed"
      BY DEF NoBooking
    <3> HIDE DEF b
    <3>2. booking' = [booking EXCEPT ![l] = b]
      BY <2>1 DEF b
    <3> QED
      BY <1>1, <3>1, <3>2 DEF StoreTypeOK
  <2> QED
    BY <2>1 DEF CommitReply
<1> QED
  BY <1>1, <1>2, <1>3, <1>4, CommittedState DEF WebStates

LEMMA CommitStopStates ==
  ASSUME StoreTypeOK, ConductorTypeOK, StatesSafe, NEW p \in Web, CommitStop(p)
  PROVE  WebStates
<1> DEFINE l == web[p].lead
<1>1. /\ l \in Leads /\ web[p].pc = "cancelling" /\ lead \in [Leads -> LeadRecords]
  BY RequestTyped DEF CommitStop, At, ConductorTypeOK, StoreTypeOK
<1>2. /\ lead'[l].state = StateOf(p)
      /\ \A m \in Leads : m # l => lead'[m] = lead[m]
  BY <1>1, CommittedState, LeadWritten DEF CommitStop
<1>3. RepliesKeepOpen' /\ UNCHANGED booking
  BY RequestMoves DEF CommitStop, StatesSafe
<1> QED
  BY <1>1, <1>2, <1>3, CommittedState DEF WebStates

LEMMA NewLeadStates ==
  ASSUME StoreTypeOK, ConductorTypeOK, StatesSafe, NEW p \in Web, NewLeadStep(p)
  PROVE  WebStates
<1> USE PlacesNamed DEF StatesSafe
<1>1. CASE CreateLead(p)
  <2>0. created \in 0..MaxLeads /\ created < MaxLeads
    BY <1>1 DEF CreateLead, StoreTypeOK
  <2>1. created + 1 \in Leads
    BY <2>0, StoreConstants DEF Leads
  <2>2. \A l \in Leads : lead'[l] = lead[l] \/ lead'[l].state = "new"
    BY <1>1, <2>1 DEF CreateLead, StoreTypeOK, NewLead
  <2>3. RepliesKeepOpen'
    BY <1>1, <2>1, RequestMoves DEF CreateLead
  <2> QED
    BY <1>1, <2>2, <2>3 DEF CreateLead, WebStates
<1>2. CASE FinishGreeting(p)
  <2> DEFINE l == web[p].lead
  <2>1. l \in Leads /\ lead \in [Leads -> LeadRecords]
    BY RequestTyped DEF ConductorTypeOK, StoreTypeOK
  <2>2. lead' = WithState(l, "intake_sent")
    BY <1>2 DEF FinishGreeting, Written
  <2>3. \A m \in Leads : lead'[m] = lead[m] \/ lead'[m].state = "intake_sent"
    BY <2>1, <2>2, LeadWritten, StatesNamed
  <2>4. RepliesKeepOpen'
    BY <1>2, RequestMoves DEF FinishGreeting
  <2> QED
    BY <1>2, <2>3, <2>4 DEF FinishGreeting, WebStates
<1>3. CASE RejectLead(p) \/ PassCompliance(p) \/ BlockLead(p) \/ Greet(p) \/ GreetFails(p)
  <2>1. RepliesKeepOpen'
    BY <1>3, RequestMoves DEF RejectLead, PassCompliance, BlockLead, Greet, GreetFails
  <2> QED
    BY <1>3, <2>1, StatesUntouched
       DEF RejectLead, PassCompliance, BlockLead, Greet, GreetFails, StoreRests
<1> QED
  BY <1>1, <1>2, <1>3 DEF NewLeadStep

LEMMA ReplyStates ==
  ASSUME StoreTypeOK, ConductorTypeOK, StatesSafe, NEW p \in Web, ReplyStep(p)
  PROVE  WebStates
<1> USE PlacesNamed
<1>a. web[p].state \in States
  BY RequestTyped DEF ConductorTypeOK
<1>1. CASE EnterLock(p) \/ WaitForLock(p) \/ GiveUpReply(p) \/ RouteRaises(p) \/ ReleaseLock(p)
  <2>1. RepliesKeepOpen'
    BY <1>1, RequestMoves
       DEF EnterLock, WaitForLock, GiveUpReply, RouteRaises, ReleaseLock, StatesSafe
  <2> QED
    BY <1>1, <2>1, StatesUntouched
       DEF EnterLock, WaitForLock, GiveUpReply, RouteRaises, ReleaseLock, StoreRests
<1>2. CASE SendReply(p) \/ WithholdReply(p)
  <2>1. RepliesKeepOpen'
    BY <1>2, RequestMoves DEF SendReply, WithholdReply, At, StatesSafe
  <2> QED
    BY <1>2, <2>1, StatesUntouched DEF SendReply, WithholdReply, StoreRests
<1>3. CASE RouteTurnLimit(p)
  BY <1>3, FlushKeepsOpen, StatesNamed DEF RouteTurnLimit
<1>4. CASE RouteToQualify(p)
  <2>1. PICK s \in {"qualified", "cold", Entry(p), "qualifying"} : Flush(p, s, FALSE)
    BY <1>4 DEF RouteToQualify
  <2>2. s \in States
    BY <1>a, EntryTyped, StatesNamed DEF ConductorTypeOK
  <2>3. /\ s \in {"dead", "completed"} => s = web[p].state
        /\ s = "booked" => web[p].state = "booked"
    BY DEF Entry, Reengaged
  <2> QED
    BY <2>1, <2>2, <2>3, FlushKeepsOpen
<1>5. CASE RouteToBook(p)
  BY <1>5, FlushKeepsOpen, StatesNamed DEF RouteToBook
<1>6. CASE CommitReply(p)
  BY <1>6, CommitReplyStates
<1> QED
  BY <1>1, <1>2, <1>3, <1>4, <1>5, <1>6 DEF ReplyStep

LEMMA ArriveStates ==
  ASSUME StoreTypeOK, ConductorTypeOK, StatesSafe, NEW p \in Web,
         Arrive(p) \/ SendManualReply(p) \/ Crash(p)
  PROVE  WebStates
<1> USE PlacesNamed DEF StatesSafe
<1>1. ASSUME created > 0 PROVE created \in Leads
  BY <1>1 DEF StoreTypeOK, Leads
<1>2. ASSUME NEW src \in Sources, SubmitLead(p, src) \/ AcknowledgeDuplicate(p, src)
      PROVE  WebStates
  <2>1. RepliesKeepOpen'
    BY <1>2, RequestMoves DEF SubmitLead, AcknowledgeDuplicate, conductorVars
  <2> QED
    BY <1>2, <2>1, StatesUntouched DEF SubmitLead, AcknowledgeDuplicate, StoreRests
<1>3. CASE ReceiveStop(p) \/ ReceiveReply(p)
  <2>1. RepliesKeepOpen'
    BY <1>1, <1>3, RequestMoves DEF ReceiveStop, ReceiveReply
  <2> QED
    BY <1>3, <2>1, StatesUntouched DEF ReceiveStop, ReceiveReply, StoreRests
<1>4. ASSUME NEW l \in Leads, OpenManualReply(p, l)
      PROVE  WebStates
  <2>1. RepliesKeepOpen'
    BY <1>4, RequestMoves DEF OpenManualReply
  <2> QED
    BY <1>4, <2>1, StatesUntouched DEF OpenManualReply, StoreRests
<1>5. CASE SendManualReply(p) \/ Crash(p)
  <2>1. RepliesKeepOpen'
    BY <1>5, RequestMoves DEF SendManualReply, Crash
  <2> QED
    BY <1>5, <2>1, StatesUntouched DEF SendManualReply, Crash
<1> QED
  BY <1>2, <1>3, <1>4, <1>5 DEF Arrive

LEMMA EnvironmentStates ==
  ASSUME StoreTypeOK, ConductorTypeOK, StatesSafe, Environment
  PROVE  WebStates
<1>a. UNCHANGED web => RepliesKeepOpen'
  BY DEF StatesSafe, RepliesKeepOpen
<1>1. ASSUME NEW src \in Sources, DedupExpires(src)
      PROVE  WebStates
  BY <1>a, <1>1, StatesUntouched DEF DedupExpires, StoreRests
<1>2. ASSUME NEW l \in Leads, NEW s \in DashboardStates, SetStatus(l, s)
      PROVE  WebStates
  BY <1>a, <1>2 DEF SetStatus, conductorVars, WebStates
<1>3. ASSUME NEW l \in Leads, NEW b \in BOOLEAN, SetArchived(l, b)
      PROVE  WebStates
  <2>1. \A m \in Leads : lead'[m].state = lead[m].state
    BY <1>3 DEF SetArchived, StoreTypeOK, LeadRecords
  <2> QED
    BY <1>a, <1>3, <2>1, StatesUntouched DEF SetArchived, conductorVars
<1>4. ASSUME NEW l \in Leads, LockExpires(l)
      PROVE  WebStates
  BY <1>a, <1>4, StatesUntouched DEF LockExpires, StoreRests
<1> QED
  BY <1>1, <1>2, <1>3, <1>4 DEF Environment

LEMMA WebKeepsStates ==
  ASSUME StoreTypeOK, ConductorTypeOK, StatesSafe, ConductorNext
  PROVE  WebStates
<1>1. ASSUME NEW p \in Web, FlushStop(p)
      PROVE  WebStates
  <2> DEFINE r == [web[p] EXCEPT !.pc = "stopping", !.new = "opted_out"]
  <2>1. web[p] \in Requests /\ RepliesKeepOpen
    BY DEF ConductorTypeOK, StatesSafe
  <2>2. r.pc = "stopping" /\ r.new = "opted_out"
    BY <2>1 DEF Requests
  <2>3. web' = [web EXCEPT ![p] = r] /\ UNCHANGED <<lead, booking>>
    BY <1>1 DEF FlushStop
  <2> HIDE DEF r
  <2> QED
    BY <2>1, <2>2, <2>3, RequestMovesOn, StatesUntouched DEF KeepsOpen
<1>2. ASSUME NEW p \in Web, web[p].pc \in {"stopping", "cancelling"},
             web'[p].pc = "cancelling", web'[p].new = web[p].new, OthersStay(p),
             UNCHANGED <<lead, booking>>
      PROVE  WebStates
  <2>1. RepliesKeepOpen
    BY DEF StatesSafe
  <2>2. KeepsOpen(web'[p])
    BY <1>2, <2>1 DEF KeepsOpen, RepliesKeepOpen
  <2>3. RepliesKeepOpen'
    BY <1>2, <2>1, <2>2 DEF RepliesKeepOpen, OthersStay, Stays
  <2> QED
    BY <1>2, <2>3, StatesUntouched
<1>3. ASSUME NEW p \in Web, BeginCancel(p)
      PROVE  WebStates
  <2> DEFINE ks == PendingTasks(web[p].lead)
  <2>1. web[p].pc = "stopping" /\ web[p] \in Requests /\ web \in [Web -> Requests]
    BY <1>3 DEF BeginCancel, At, ConductorTypeOK
  <2>2. web' = [web EXCEPT ![p] = [@ EXCEPT !.pc = "cancelling", !.doomed = ks]]
    BY <1>3 DEF BeginCancel
  <2> HIDE DEF ks
  <2>3. web'[p].pc = "cancelling" /\ web'[p].new = web[p].new /\ OthersStay(p)
    BY <2>1, <2>2 DEF Requests, OthersStay, Stays
  <2>4. UNCHANGED <<lead, booking>>
    BY <1>3 DEF BeginCancel, StoreRests
  <2> QED
    BY <1>2, <2>1, <2>3, <2>4
<1>4. ASSUME NEW p \in Web, NEW k \in TaskTypes, CancelTask(p, k)
      PROVE  WebStates
  <2> DEFINE ks == web[p].doomed \ {k}
  <2>1. web[p].pc = "cancelling" /\ web[p] \in Requests /\ web \in [Web -> Requests]
    BY <1>4 DEF CancelTask, At, ConductorTypeOK
  <2>2. web' = [web EXCEPT ![p] = [@ EXCEPT !.doomed = ks]]
    BY <1>4 DEF CancelTask
  <2> HIDE DEF ks
  <2>3. web'[p].pc = "cancelling" /\ web'[p].new = web[p].new /\ OthersStay(p)
    BY <2>1, <2>2 DEF Requests, OthersStay, Stays
  <2>4. UNCHANGED <<lead, booking>>
    BY <1>4 DEF CancelTask
  <2> QED
    BY <1>2, <2>1, <2>3, <2>4
<1> QED
  BY <1>1, <1>3, <1>4, NewLeadStates, CommitStopStates, ReplyStates, ArriveStates,
     EnvironmentStates DEF ConductorNext, Proceed, StopStep, UpdateTasks

(* The manager closes leads only with what is pending for them, and adds a  *)
(* task only to leads that are open.                                        *)
LEMMA ManagerKeepsStates ==
  ASSUME StoreTypeOK, ManagerTypeOK, StatesSafe, GetsAreChosen, ManagerNext, UNCHANGED web
  PROVE  StatesSafe'
<1> DEFINE Sessions_ == [pc : {"idle", "flush"}, phase : Phases, chosen : SUBSET Leads,
             seen : [Leads -> States], gets : SUBSET Leads, flushed : SUBSET Leads]
<1>a. mgr \in Sessions_ /\ mgr.phase \in Phases
  BY DEF ManagerTypeOK
<1>b. RepliesKeepOpen'
  BY DEF StatesSafe, RepliesKeepOpen
<1>c. NextPhase => ChosenAreOpen'
  BY DEF NextPhase, Between, ChosenAreOpen
<1>d. ASSUME UNCHANGED <<booking, task>>, \A l \in Leads : lead'[l].state = lead[l].state,
             ChosenAreOpen \/ "status" \in Dashboard => ChosenAreOpen' \/ "status" \in Dashboard
      PROVE  StatesSafe'
  BY <1>b, <1>d DEF StatesSafe, BookedHasBooking, ClosedIsLeftAlone, PendingTasks
<1>1. CASE SelectLeads
  <2>1. UNCHANGED lead /\ mgr'.chosen = Selected(mgr.phase)
    BY <1>1, <1>a DEF SelectLeads, StoreRests
  <2>2. ChosenAreOpen'
    BY <2>1, SelectedLeads DEF ChosenAreOpen
  <2> QED
    BY <1>1, <1>d, <2>2 DEF SelectLeads, StoreRests
<1>2. CASE NothingSelected
  BY <1>2, <1>c, <1>d DEF NothingSelected, StoreRests
<1>3. CASE ArchiveOld
  <2>1. \A l \in Leads : lead'[l].state = lead[l].state
    BY <1>3 DEF ArchiveOld, StoreTypeOK, LeadRecords
  <2> QED
    BY <1>3, <1>c, <1>d, <2>1 DEF ArchiveOld
<1>4. ASSUME NEW l \in Leads, FlushLead(l)
      PROVE  StatesSafe'
  <2>1. UNCHANGED <<mgr.chosen, lead, booking, task>>
    BY <1>4, <1>a DEF FlushLead
  <2> QED
    BY <1>d, <2>1 DEF ChosenAreOpen
<1>5. CASE CommitPhase
  <2>1. CASE "status" \in Dashboard
    BY <1>b, <2>1 DEF StatesSafe, BookedHasBooking, ClosedIsLeftAlone
  <2>2. CASE "status" \notin Dashboard
    <3>a. ASSUME NEW l \in Leads
          PROVE  /\ lead'[l].state = "booked" => lead[l].state = "booked"
                 /\ lead'[l].state = "dead" =>
                      \/ lead[l].state = "dead" /\ l \notin mgr.chosen
                      \/ mgr.phase = "dead" /\ l \in mgr.chosen
                 /\ lead'[l].state = "completed" =>
                      \/ lead[l].state = "completed" /\ l \notin mgr.chosen
                      \/ mgr.phase = "complete" /\ l \in mgr.chosen
      <4> DEFINE new == Written(mgr.seen[l], Assigned(mgr.phase, mgr.seen[l]), lead[l].state)
      <4>1. lead[l] \in LeadRecords /\ lead[l].state \in States /\ mgr.seen[l] \in States
        BY <1>a DEF StoreTypeOK, LeadRecords
      <4>2. \/ l \notin Dirty /\ lead'[l].state = lead[l].state
            \/ l \in Dirty /\ lead'[l].state = new
        BY <1>5, <4>1 DEF CommitPhase, LeadsAfter, LeadRecords
      <4>3. Dirty \subseteq mgr.chosen
        BY <1>a DEF Dirty, GetsAreChosen
      <4>4. l \in mgr.chosen => lead[l].state \notin {"dead", "completed"}
        BY <2>2 DEF StatesSafe, ChosenAreOpen
      <4>5. /\ new = "booked" => lead[l].state = "booked"
            /\ new = "dead" => lead[l].state = "dead" \/ mgr.phase = "dead"
            /\ new = "completed" => lead[l].state = "completed" \/ mgr.phase = "complete"
        BY <1>a, <4>1, AssignedStates
      <4> HIDE DEF new
      <4> QED
        BY <4>2, <4>3, <4>4, <4>5
    <3>1. BookedHasBooking'
      <4>1. \A l \in Leads : booking'[l].status = "none" => booking[l].status = "none"
        BY <1>5, BookingsAfterTyped DEF CommitPhase, StoreTypeOK
      <4> QED
        BY <2>2, <3>a, <4>1 DEF StatesSafe, BookedHasBooking
    <3>b. ASSUME NEW l \in Leads, l \notin mgr.chosen
          PROVE  \A k \in TaskTypes : task'[l][k] = task[l][k]
      BY <1>5, <3>b, TasksAfterCases DEF CommitPhase, GetsAreChosen
    <3>c. ASSUME NEW l \in Leads, l \in mgr.chosen, NEW k \in TaskTypes,
                 task'[l][k].status = "pending"
          PROVE  /\ mgr.phase # "dead"
                 /\ mgr.phase = "complete" => k = "review_request"
      <4> DEFINE t == task[l][k]
                 gets == l \in mgr.gets /\ k = Schedules[mgr.phase]
                 loses == k \in Cancels(mgr.phase) /\ t.status = "pending"
      <4>1. \/ gets
            \/ loses /\ task'[l][k] = [t EXCEPT !.status = "cancelled"]
            \/ ~gets /\ ~loses /\ task'[l][k] = t
        BY <1>5, <3>c, TasksAfterCases DEF CommitPhase
      <4>2. gets => /\ mgr.phase # "dead"
                    /\ mgr.phase = "complete" => k = "review_request"
        BY DEF GetsAreChosen, Schedules
      <4>3. t \in TaskRecords
        BY DEF StoreTypeOK
      <4>4. [t EXCEPT !.status = "cancelled"].status = "cancelled"
        BY <4>3 DEF TaskRecords
      <4>5. ~loses /\ t.status = "pending" =>
              /\ mgr.phase # "dead"
              /\ mgr.phase = "complete" => k = "review_request"
        BY DEF Cancels
      <4> HIDE DEF gets, loses, t
      <4> QED
        BY <3>c, <4>1, <4>2, <4>4, <4>5
    <3>2. ClosedIsLeftAlone'
      <4> SUFFICES ASSUME NEW l \in Leads
                   PROVE  /\ lead'[l].state = "dead" => PendingTasks(l)' = {}
                          /\ lead'[l].state = "completed" =>
                               PendingTasks(l)' \subseteq {"review_request"}
        BY DEF ClosedIsLeftAlone
      <4>1. CASE l \notin mgr.chosen
        <5>1. PendingTasks(l)' = PendingTasks(l)
          BY <3>b, <4>1 DEF PendingTasks
        <5> QED
          BY <2>2, <3>a, <4>1, <5>1 DEF StatesSafe, ClosedIsLeftAlone
      <4>2. CASE l \in mgr.chosen
        BY <3>a, <3>c, <4>2 DEF PendingTasks
      <4> QED
        BY <4>1, <4>2
    <3> QED
      BY <1>5, <1>b, <1>c, <3>1, <3>2 DEF CommitPhase, StatesSafe
  <2> QED
    BY <2>1, <2>2
<1> QED
  BY <1>1, <1>2, <1>3, <1>4, <1>5 DEF ManagerNext

LEMMA PipelineStatesStep ==
  ASSUME PipelineTypeOK, DispatchSafe, EscalationsSafe, StopHoldsTasks, StatesSafe, PipelineNext
  PROVE  StatesSafe'
<1> USE DEF PipelineTypeOK, TypeOK
<1>1. CASE WebStep
  <2>1. WebStates /\ NoNewTasks
    BY <1>1, WebKeepsStates, WebFrames, WebAddsNoTasks DEF WebStep
  <2> QED
    BY <1>1, <2>1, StatesRest DEF WebStep, workerVars
<1>2. CASE ManagerStep
  BY <1>2, ManagerKeepsStates DEF ManagerStep, EscalationsSafe, conductorVars
<1>3. CASE DispatcherStep
  <2>1. DispatcherFrame /\ UNCHANGED <<web, mgr>>
    BY <1>3, DispatcherFrames DEF DispatcherStep, conductorVars
  <2>2. WebStates
    BY <2>1 DEF DispatcherFrame, WebStates, StatesSafe, RepliesKeepOpen
  <2> QED
    BY <2>1, <2>2, StatesRest DEF DispatcherFrame
<1>4. CASE BackgroundStep
  <2>1. BackgroundFrame /\ NoNewTasks
    BY <1>4, BackgroundFrames DEF BackgroundFrame, NoNewTasks
  <2>2. RepliesKeepOpen'
    BY <2>1, RequestMoves DEF BackgroundFrame, StatesSafe, RepliesKeepOpen
  <2>3. WebStates
    BY <2>1, <2>2 DEF BackgroundFrame, WebStates
  <2> QED
    BY <2>1, <2>3, StatesRest DEF BackgroundFrame
<1> QED
  BY <1>1, <1>2, <1>3, <1>4 DEF PipelineNext, BackgroundStep

-----------------------------------------------------------------------------
(* The invariant holds at the start, and every step keeps it.               *)
LEMMA PipelineInvInit == PipelineInit => PipelineInv /\ StatesSafe
<1> SUFFICES ASSUME PipelineInit PROVE PipelineInv /\ StatesSafe
  OBVIOUS
<1>1. TypeOK /\ ConductorSafe
  BY TypeInit, SafeInit DEF PipelineInit
<1>2. ManagerTypeOK
  BY BetweenTyped, PhasesFollow DEF PipelineInit, ManagerInit, ManagerTypeOK
<1>3. DispatcherTypeOK
  <2>1. nurtured \in [Leads -> 0..(MaxOutreach + 1)]
    BY StoreConstants DEF PipelineInit, DispatcherInit
  <2> QED
    BY <2>1, WaitingTyped, RoundsFollow DEF PipelineInit, DispatcherInit, DispatcherTypeOK
<1>4. \A l \in Leads, k \in TaskTypes : task[l][k].status = "none" /\ task[l][k].sent = 0
  BY DEF PipelineInit, Init, StoreInit, NoTask
<1>5. DispatchSafe
  <2>1. disp.pc = "idle" /\ disp.todo = {} /\ disp.sent = {} /\ disp.skipped = {}
          /\ disp.raised = {} /\ \A l \in Leads : ~disp.seen[l].loaded
    BY DEF PipelineInit, DispatcherInit, Waiting, Unseen
  <2>2. InHand = {}
    BY <2>1 DEF InHand
  <2> QED
    BY <1>4, <2>1, <2>2 DEF DispatchSafe, AttemptsLeft, ItemLoaded, TasksHeld,
                            ClearStaysClear, RoundStartsEmpty
<1>6. mgr.gets = {} /\ mgr.chosen = {}
  BY DEF PipelineInit, ManagerInit, Between
<1>7. EscalationsSafe
  <2>1. \A l \in Leads : task[l]["booking_escalation"].status = "none"
                           /\ task[l]["booking_escalation"].sent = 0
    BY <1>4 DEF TaskTypes
  <2>2. EscalationsCapped
    BY <2>1, StoreConstants DEF EscalationsCapped
  <2> QED
    BY <1>6, <2>2 DEF EscalationsSafe, GetsAreChosen, EscalationsHaveRoom
<1>8. \A p \in Web : web[p].pc = "idle"
  BY DEF PipelineInit, Init, ConductorInit, Resting
<1>9. StopsTakeTasks
  <2>1. mgr.flushed = {}
    BY DEF PipelineInit, ManagerInit, Between
  <2> QED
    BY <1>8, <2>1 DEF StopsTakeTasks, FlushedHeld, StopHoldsTasks
<1>10. StatesSafe
  <2>2. \A l \in Leads : lead[l].state = "new"
    BY DEF PipelineInit, Init, StoreInit, NewLead
  <2> QED
    BY <1>6, <1>8, <2>2 DEF StatesSafe, RepliesKeepOpen, KeepsOpen, ChosenAreOpen,
                            BookedHasBooking, ClosedIsLeftAlone
<1> QED
  BY <1>1, <1>2, <1>3, <1>5, <1>7, <1>10, <1>9 DEF PipelineInv, PipelineTypeOK

LEMMA PipelineInvStep ==
  ASSUME PipelineInv, StatesSafe, PipelineNext
  PROVE  PipelineInv' /\ StatesSafe'
<1> USE DEF PipelineInv, StopsTakeTasks
<1>1. PipelineTypeOK' /\ ConductorSafe' /\ DispatchSafe'
  BY PipelineTypeStep, PipelineSafeStep, PipelineDispatchStep
<1>2. EscalationsSafe' /\ StopsTakeTasks' /\ StatesSafe'
  BY PipelineEscalationsStep, PipelineStopsStep, PipelineStatesStep
<1> QED
  BY <1>1, <1>2

LEMMA PipelineInvRests ==
  ASSUME PipelineInv, StatesSafe, UNCHANGED pipelineVars
  PROVE  PipelineInv' /\ StatesSafe'
<1> USE DEF pipelineVars, workerVars, vars, storeVars, conductorVars
<1>1. TypeOK' /\ ConductorSafe'
  BY TypeRests, SafeRests DEF PipelineInv, PipelineTypeOK
<1>2. ManagerTypeOK' /\ DispatcherTypeOK'
  BY DEF PipelineInv, PipelineTypeOK, ManagerTypeOK, DispatcherTypeOK
<1>3. DispatchSafe'
  <2>1. InHand' = InHand
    BY DEF InHand
  <2>2. AttemptsLeft' /\ ItemLoaded' /\ RoundStartsEmpty'
    BY DEF PipelineInv, DispatchSafe, AttemptsLeft, ItemLoaded, RoundStartsEmpty
  <2>3. TasksHeld' /\ ClearStaysClear'
    BY <2>1 DEF PipelineInv, DispatchSafe, TasksHeld, ClearStaysClear, HeldByDispatcher
  <2> QED
    BY <2>2, <2>3 DEF DispatchSafe
<1>4. EscalationsSafe'
  BY DEF PipelineInv, EscalationsSafe, GetsAreChosen, EscalationsHaveRoom, EscalationsCapped
<1>5. StatesSafe'
  BY DEF StatesSafe, RepliesKeepOpen, ChosenAreOpen, BookedHasBooking, ClosedIsLeftAlone,
         PendingTasks
<1>6. StopsTakeTasks'
  BY DEF PipelineInv, StopsTakeTasks, FlushedHeld, StopHoldsTasks
<1> QED
  BY <1>1, <1>2, <1>3, <1>4, <1>5, <1>6 DEF PipelineInv, PipelineTypeOK

LEMMA PipelineInvariant == PipelineSpec => [](PipelineInv /\ StatesSafe)
<1>1. PipelineInv /\ StatesSafe /\ [PipelineNext]_pipelineVars => (PipelineInv /\ StatesSafe)'
  BY PipelineInvStep, PipelineInvRests
<1> QED
  BY PipelineInvInit, <1>1, PTL DEF PipelineSpec

-----------------------------------------------------------------------------
(* The tables, the requests and both workers' sessions keep their types,    *)
(* whatever deadlocks are broken and however often the workers restart.     *)
THEOREM PipelineTypes == PipelineSpec => []PipelineTypeOK
<1>1. PipelineInv => PipelineTypeOK
  BY DEF PipelineInv
<1> QED
  BY <1>1, PipelineInvariant, PTL

(* conductor.py:659-703: a lead is in "booked" only with its bookings row.  *)
THEOREM BookedLeadsHaveBookings == PipelineSpec => []BookedHasBooking
<1>1. StatesSafe => BookedHasBooking
  BY DEF StatesSafe
<1> QED
  BY <1>1, PipelineInvariant, PTL

(* lead_state_manager.py:298-306,474-487: what is closed is left alone.     *)
THEOREM ClosedLeadsAreLeftAlone == PipelineSpec => []ClosedIsLeftAlone
<1>1. StatesSafe => ClosedIsLeftAlone
  BY DEF StatesSafe
<1> QED
  BY <1>1, PipelineInvariant, PTL

(* lead_state_manager.py:162: the cap holds although the sweep counts the   *)
(* sent ones at its SELECT and writes the next at its COMMIT.               *)
THEOREM EscalationsAreCapped == PipelineSpec => []EscalationsCapped
<1>1. PipelineInv => EscalationsCapped
  BY DEF PipelineInv, EscalationsSafe
<1> QED
  BY <1>1, PipelineInvariant, PTL

(* What ReplyHonoursStop says of the web side holds beside both workers.    *)
THEOREM PipelineRepliesHonourStop == PipelineSpec => []ReplyHonoursStop
<1>1. PipelineInv => ReplyHonoursStop
  BY DEF PipelineInv, ConductorSafe
<1> QED
  BY <1>1, PipelineInvariant, PTL

-----------------------------------------------------------------------------
(* The refinement: the initial states agree, and each step opts a lead out, *)
(* texts one that has not opted out, or is invisible from outside.          *)
stoppedLeads == {l \in Leads : optedOut[l]}
textedLead == IF wire.kind \in Covered THEN wire.to ELSE 0

LEMMA ContractInit == PipelineInit => Contract!Init
BY DEF PipelineInit, Init, StoreInit, NoSms, Covered, Contract!Init

(* A follow-up goes out only while its task is in hand, and for a guarded   *)
(* one what was read of the lead's consent holds that long.                 *)
LEMMA FollowupsAreClear ==
  ASSUME StoreTypeOK, DispatcherTypeOK, DispatchSafe, DispatcherNext, wire'.kind \in Guarded
  PROVE  ~optedOut[wire'.to]
<1>1. NoSms.kind \notin Guarded
  BY DEF NoSms, Guarded
<1>2. Send
  BY <1>1 DEF DispatcherNext, Pick, SkipRound, TakeItem, SendFails, Skip, Raise, CommitRound,
              StoreRests
<1> DEFINE l == disp.cur[2]
           k == disp.cur[1]
<1>3. /\ disp.pc = "item" /\ disp.cur \in Items /\ disp.seen[l].loaded
      /\ wire'.to = l /\ k \in Guarded /\ MaySend
  BY <1>2 DEF Send, Sms, DispatchSafe, ItemLoaded
<1>4. l \in Leads /\ k \in TaskTypes /\ disp.cur = <<k, l>>
  <2>1. disp.cur \in (TaskTypes \cup Reminders) \X Leads
    BY <1>3 DEF Items
  <2> QED
    BY <1>3, <2>1, GuardedTypes
<1>5. disp.seen[l].clear /\ <<k, l>> \in InHand
  BY <1>3, <1>4 DEF MaySend, Seen, InHand
<1> QED
  BY <1>3, <1>4, <1>5 DEF DispatchSafe, ClearStaysClear

LEMMA ContractStep ==
  ASSUME PipelineInv, PipelineInv', PipelineNext
  PROVE  Contract!Next
<1> DEFINE l == wire'.to
<1>1. CASE optedOut' = optedOut /\ wire'.kind \notin Covered
  BY <1>1 DEF Contract!Next, Contract!Rest
<1>2. CASE optedOut' = optedOut /\ l \in Leads /\ ~optedOut[l] /\ wire'.kind \in Covered
  BY <1>2 DEF Contract!Next, Contract!Text
<1>3. ASSUME NEW m \in Leads, optedOut' = [optedOut EXCEPT ![m] = TRUE], wire' = NoSms
      PROVE  Contract!Next
  <2>1. {n \in Leads : optedOut'[n]} = {n \in Leads : optedOut[n]} \cup {m}
    BY <1>3 DEF PipelineInv, PipelineTypeOK, TypeOK, StoreTypeOK
  <2>2. wire'.kind \notin Covered
    BY <1>3 DEF NoSms, Covered
  <2> QED
    BY <2>1, <2>2 DEF Contract!Next, Contract!Stop
<1>4. wire'.kind \in Covered => l \in Leads
  BY DEF PipelineInv, PipelineTypeOK, TypeOK, StoreTypeOK, NoSms, Covered
<1>5. wire'.kind = "reply" => ~optedOut'[l]
  BY DEF PipelineInv, ConductorSafe, ReplyHonoursStop
<1>6. CASE WebStep
  <2>1. WebFrame
    BY <1>6, WebFrames DEF WebStep, PipelineInv, PipelineTypeOK, StopsTakeTasks
  <2>2. CASE optedOut' = optedOut
    BY <1>1, <1>2, <1>4, <1>5, <2>1, <2>2 DEF WebFrame, Covered, TaskTypes
  <2> QED
    BY <1>3, <2>1, <2>2 DEF WebFrame
<1>7. CASE ManagerStep
  <2>1. ManagerFrame
    BY <1>7, ManagerFrames DEF ManagerStep, PipelineInv, PipelineTypeOK, TypeOK
  <2> QED
    BY <1>1, <2>1 DEF ManagerFrame, NoSms, Covered
<1>8. CASE DispatcherStep
  <2>1. DispatcherFrame /\ (wire'.kind \in Guarded => ~optedOut[l])
    BY <1>8, DispatcherFrames, FollowupsAreClear
       DEF DispatcherStep, PipelineInv, PipelineTypeOK, TypeOK
  <2> QED
    BY <1>1, <1>2, <1>4, <2>1 DEF DispatcherFrame, Covered, Guarded
<1>9. CASE BackgroundStep
  <2>1. BackgroundFrame
    BY <1>9, BackgroundFrames DEF PipelineInv
  <2> QED
    BY <1>1, <2>1 DEF BackgroundFrame, NoSms, Covered
<1> QED
  BY <1>6, <1>7, <1>8, <1>9 DEF PipelineNext, BackgroundStep

(* conductor.py:471-491, sms_dispatch.py:158-246, conductor.py:743-787: the *)
(* pipeline implements OptOutContract for replies, nurture messages and     *)
(* review requests.  The row locks carry the argument: a reply's on the     *)
(* lead, the dispatcher's on the tasks it has in hand, both of which the    *)
(* STOP must take before its commit; and the manager's on the lead, with    *)
(* which a phase keeps the STOP out until its new tasks are committed.      *)
THEOREM OptOutsAreHonoured == PipelineSpec => HonoursOptOut
<1>1. PipelineInv /\ PipelineInv' /\ [PipelineNext]_pipelineVars
        => [Contract!Next]_<<stoppedLeads, textedLead>>
  <2> SUFFICES ASSUME PipelineInv, PipelineInv', [PipelineNext]_pipelineVars
               PROVE  [Contract!Next]_<<stoppedLeads, textedLead>>
    OBVIOUS
  <2>1. CASE PipelineNext
    BY <2>1, ContractStep
  <2>2. CASE UNCHANGED pipelineVars
    BY <2>2 DEF pipelineVars, vars, storeVars, stoppedLeads, textedLead
  <2> QED
    BY <2>1, <2>2
<1> QED
  BY ContractInit, PipelineInvariant, <1>1, PTL
     DEF PipelineSpec, HonoursOptOut, Contract!Spec, stoppedLeads, textedLead

-----------------------------------------------------------------------------
(* Deadlocks.                                                               *)

(* Only a STOP that is about to commit is aborted: with its lead's row      *)
(* taken it waits for the tasks of the lead.                                *)
LEMMA DeadlockAborts ==
  ASSUME BreakDeadlock
  PROVE  \/ AbortManager \/ AbortDispatcher
         \/ \E p \in Web : /\ At(p, "cancelling") /\ AbortStop(p)
                           /\ \E c \in SUBSET Sessions : Deadlocked(c) /\ p \in c
<1>1. PICK c \in SUBSET Sessions :
        /\ Deadlocked(c)
        /\ \/ \E p \in c \cap Web : AbortStop(p)
           \/ Manager \in c /\ AbortManager
           \/ Dispatcher \in c /\ AbortDispatcher
  BY DEF BreakDeadlock
<1>2. ASSUME NEW p \in c \cap Web
      PROVE  At(p, "cancelling")
  <2>1. \E t \in c : Waits(p, t)
    BY <1>1, <1>2 DEF Deadlocked, Blocked
  <2> QED
    BY <1>2, <2>1, SessionsDiffer DEF Waits, StopWaits
<1> QED
  BY <1>1, <1>2

(* The manager locks rows of leads only.  (What it cancels it locks in the  *)
(* step that commits.)                                                      *)
ManagerTakesNoTask ==
  \A l \in Leads, k \in TaskTypes : lockedBy[TaskRow(l, k)] # Manager

LEMMA NoTaskTaken ==
  ASSUME ManagerTakesNoTask,
         \/ lockedBy' = lockedBy
         \/ \E s : lockedBy' = Unlocked(s)
         \/ \E m \in Leads : lockedBy' = Locked(Manager, {LeadRow(m)})
  PROVE  ManagerTakesNoTask'
<1> SUFFICES ASSUME NEW l \in Leads, NEW k \in TaskTypes
             PROVE  lockedBy'[TaskRow(l, k)] # Manager
  BY DEF ManagerTakesNoTask
<1>a. TaskRow(l, k) \in Rows /\ \A m \in Leads : TaskRow(l, k) # LeadRow(m)
  BY TaskRows
<1>1. ASSUME NEW s, lockedBy' = Unlocked(s)
      PROVE  lockedBy'[TaskRow(l, k)] # Manager
  BY <1>a, <1>1, SessionsDiffer DEF Unlocked, ManagerTakesNoTask
<1>2. ASSUME NEW m \in Leads, lockedBy' = Locked(Manager, {LeadRow(m)})
      PROVE  lockedBy'[TaskRow(l, k)] # Manager
  BY <1>a, <1>2 DEF Locked, ManagerTakesNoTask
<1> QED
  BY <1>1, <1>2 DEF ManagerTakesNoTask

LEMMA ManagerTakesNoTaskStep ==
  ASSUME PipelineInv, ManagerTakesNoTask, PipelineNext
  PROVE  ManagerTakesNoTask'
<1> USE DEF PipelineInv, PipelineTypeOK
<1>a. ASSUME \A r \in Rows : lockedBy'[r] = Manager <=> lockedBy[r] = Manager
      PROVE  ManagerTakesNoTask'
  BY <1>a, TaskRows DEF ManagerTakesNoTask
<1>1. CASE WebStep
  <2>1. WebFrame
    BY <1>1, WebFrames DEF WebStep, StopsTakeTasks
  <2> QED
    BY <1>a, <2>1 DEF WebFrame
<1>2. CASE ManagerStep
  BY <1>2, NoTaskTaken DEF ManagerStep, ManagerNext, SelectLeads, NothingSelected, CommitPhase,
    ArchiveOld, FlushLead, StoreRests
<1>3. CASE DispatcherStep
  <2>1. OnlyOwnRows(Dispatcher)
    BY <1>3, DispatcherFrames DEF DispatcherStep, DispatcherFrame, TypeOK
  <2> QED
    BY <1>a, <2>1, SessionsDiffer DEF OnlyOwnRows
<1>4. CASE BreakDeadlock
  BY <1>4, NoTaskTaken, DeadlockAborts DEF AbortStop, AbortManager, AbortDispatcher,
    RollBackPhase, RollBackRound
<1>5. CASE WorkerCrash
  BY <1>5, TaskRows, SessionsDiffer DEF WorkerCrash, ManagerTakesNoTask
<1>6. ASSUME NEW l \in Leads, LeadAges(l) \/ AppointmentNears(l)
      PROVE  ManagerTakesNoTask'
  BY <1>6, NoTaskTaken DEF LeadAges, AppointmentNears
<1> QED
  BY <1>1, <1>2, <1>3, <1>4, <1>5, <1>6 DEF PipelineNext

LEMMA ManagerTakesNoTaskAlways == PipelineSpec => []ManagerTakesNoTask
<1>1. PipelineInit => ManagerTakesNoTask
  BY TaskRows, SessionsDiffer DEF PipelineInit, Init, StoreInit, ManagerTakesNoTask
<1>2. PipelineInv /\ ManagerTakesNoTask /\ [PipelineNext]_pipelineVars => ManagerTakesNoTask'
  BY ManagerTakesNoTaskStep DEF pipelineVars, vars, storeVars, ManagerTakesNoTask
<1> QED
  BY PipelineInvariant, <1>1, <1>2, PTL DEF PipelineSpec

(* A STOP that waits for a row waits for the dispatcher: another STOP would *)
(* have to hold the row of the same lead.                                   *)
LEMMA StopsWaitForDispatcher ==
  ASSUME TypeOK, ConductorSafe, ManagerTakesNoTask,
         NEW p \in Web, NEW t \in Sessions, Waits(p, t)
  PROVE  t = Dispatcher
<1>1. p # t /\ StopWaits(p, t)
  BY SessionsDiffer DEF Waits
<1>2. web[p].pc = "cancelling" /\ web[p].lead \in Leads /\ web[p].doomed \subseteq TaskTypes
  BY <1>1 DEF StopWaits, At, TypeOK, ConductorTypeOK, Requests
<1>3. PICK k \in TaskTypes : lockedBy[TaskRow(web[p].lead, k)] = t
  BY <1>1, <1>2 DEF StopWaits
<1>4. t # Manager
  BY <1>2, <1>3 DEF ManagerTakesNoTask
<1>5. t \notin Web
  <2> SUFFICES ASSUME t \in Web
               PROVE  FALSE
    OBVIOUS
  <2>1. web[t].lead = web[p].lead /\ web[t].pc = "cancelling"
    BY <1>2, <1>3 DEF ConductorSafe, TaskRowsTaken
  <2>2. lockedBy[LeadRow(web[p].lead)] = p /\ lockedBy[LeadRow(web[t].lead)] = t
    BY <1>2, <2>1 DEF ConductorSafe, RowsHeld, Holding
  <2> QED
    BY <1>1, <2>1, <2>2
<1> QED
  BY <1>4, <1>5 DEF Sessions

LEMMA BlockedByDispatcher ==
  ASSUME TypeOK, ConductorSafe, ManagerTakesNoTask, NEW c \in SUBSET Sessions, Blocked(c)
  PROVE  Dispatcher \in c
<1>1. ASSUME NEW p \in c, p \in Web
      PROVE  Dispatcher \in c
  <2>1. PICK t \in c : Waits(p, t)
    BY DEF Blocked
  <2> QED
    BY <1>1, <2>1, StopsWaitForDispatcher
<1>2. ASSUME c \subseteq {Manager}
      PROVE  FALSE
  BY <1>2 DEF Blocked, Waits
<1> QED
  BY <1>1, <1>2 DEF Blocked, Sessions

(* sms_dispatch.py:158-246, conductor.py:743-787: the requests and the      *)
(* manager never deadlock among themselves: a request that holds a lead's   *)
(* row waits with it for nothing but the lead's tasks, which no other       *)
(* request and no phase holds.  Whatever is blocked is blocked by the       *)
(* dispatcher, which texts one lead with the rows of others in hand.        *)
THEOREM DeadlocksNeedTheDispatcher ==
  PipelineSpec => [](\A c \in SUBSET Sessions : Blocked(c) => Dispatcher \in c)
<1>1. PipelineInv /\ ManagerTakesNoTask
        => \A c \in SUBSET Sessions : Blocked(c) => Dispatcher \in c
  BY BlockedByDispatcher DEF PipelineInv, PipelineTypeOK
<1> QED
  BY <1>1, PipelineInvariant, ManagerTakesNoTaskAlways, PTL

-----------------------------------------------------------------------------
(* The locks, the turns and the STOPs of the web side, beside both workers. *)

(* What the workers and time leave alone of it.                             *)
WebSideRests ==
  /\ UNCHANGED conductorVars /\ created' = created
  /\ \A l \in Leads : lead'[l].turn = lead[l].turn

(* A STOP that a deadlock ends.                                             *)
StopAborted(p) ==
  /\ At(p, "cancelling") /\ AbortStop(p)
  /\ \E c \in SUBSET Sessions : Deadlocked(c) /\ p \in c

LEMMA ManagerKeepsTurns ==
  ASSUME StoreTypeOK, ManagerNext
  PROVE  created' = created /\ \A l \in Leads : lead'[l].turn = lead[l].turn
<1> USE DEF StoreTypeOK, LeadRecords
<1>1. CASE CommitPhase
  BY <1>1 DEF CommitPhase, LeadsAfter
<1>2. CASE ArchiveOld
  BY <1>2 DEF ArchiveOld
<1>3. CASE SelectLeads \/ NothingSelected \/ \E l \in Leads : FlushLead(l)
  BY <1>3 DEF SelectLeads, NothingSelected, FlushLead, StoreRests
<1> QED
  BY <1>1, <1>2, <1>3 DEF ManagerNext

LEMMA DispatcherKeepsTurns ==
  ASSUME StoreTypeOK, DispatcherNext
  PROVE  created' = created /\ \A l \in Leads : lead'[l].turn = lead[l].turn
<1>1. CASE CommitRound
  BY <1>1 DEF CommitRound, StoreTypeOK, LeadRecords
<1>2. CASE ~CommitRound
  BY <1>2 DEF DispatcherNext, Pick, SkipRound, TakeItem, Send, SendFails, Skip, Raise, StoreRests
<1> QED
  BY <1>1, <1>2

(* Every step is one of the web side, ends a STOP, or leaves it alone.      *)
LEMMA SidesOfPipeline ==
  ASSUME PipelineTypeOK, PipelineNext
  PROVE  ConductorNext \/ WebSideRests \/ \E p \in Web : StopAborted(p)
<1> USE DEF PipelineTypeOK, TypeOK, WebSideRests
<1>1. CASE WebStep
  BY <1>1 DEF WebStep
<1>2. CASE ManagerStep
  BY <1>2, ManagerKeepsTurns DEF ManagerStep
<1>3. CASE DispatcherStep
  BY <1>3, DispatcherKeepsTurns DEF DispatcherStep
<1>4. CASE BreakDeadlock
  BY <1>4, DeadlockAborts DEF StopAborted, AbortManager, AbortDispatcher, RollBackPhase,
    RollBackRound
<1>5. CASE WorkerCrash
  BY <1>5 DEF WorkerCrash
<1>6. ASSUME NEW l \in Leads, LeadAges(l)
      PROVE  WebSideRests
  BY <1>6 DEF LeadAges, StoreTypeOK, LeadRecords
<1>7. ASSUME NEW l \in Leads, AppointmentNears(l)
      PROVE  WebSideRests
  BY <1>7 DEF AppointmentNears
<1> QED
  BY <1>1, <1>2, <1>3, <1>4, <1>5, <1>6, <1>7 DEF PipelineNext

LEMMA PipelineTypesAlways == PipelineSpec => [](PipelineTypeOK /\ TypeOK)
<1>1. PipelineTypeOK => TypeOK
  BY DEF PipelineTypeOK
<1> QED
  BY <1>1, PipelineTypes, PTL

LEMMA LockStepOfPipeline ==
  ASSUME PipelineTypeOK, [PipelineNext]_pipelineVars
  PROVE  [Lock!LockNext]_lockVars
<1>1. ASSUME NEW p \in Web, StopAborted(p)
      PROVE  UNCHANGED lockVars
  BY <1>1 DEF StopAborted, AbortStop
<1>2. WebSideRests => UNCHANGED lockVars
  BY DEF WebSideRests, conductorVars
<1>3. UNCHANGED pipelineVars => UNCHANGED lockVars
  BY DEF pipelineVars, vars, conductorVars
<1>4. ConductorNext => [Lock!LockNext]_lockVars
  BY LockStepOfWeb DEF PipelineTypeOK
<1> QED
  BY <1>1, <1>2, <1>3, <1>4, SidesOfPipeline

(* locks.py, conductor.py:366: also beside the workers, and however their   *)
(* deadlocks are broken, the lead locks in Redis are those of LeadLock.     *)
THEOREM PipelineImplementsLock == PipelineSpec => Lock!LockInit /\ [][Lock!LockNext]_lockVars
<1>1. PipelineInit => Lock!LockInit
  BY LockInitOfWeb DEF PipelineInit
<1>2. PipelineTypeOK /\ [PipelineNext]_pipelineVars => [Lock!LockNext]_lockVars
  BY LockStepOfPipeline
<1> QED
  BY <1>1, <1>2, PipelineTypes, PTL DEF PipelineSpec

LEMMA PipelineLocksMatch == PipelineSpec => []LocksMatch
<1>1. PipelineTypeOK /\ LocksMatch /\ [PipelineNext]_pipelineVars => LocksMatch'
  <2> SUFFICES ASSUME PipelineTypeOK, LocksMatch, [PipelineNext]_pipelineVars
               PROVE  LocksMatch'
    OBVIOUS
  <2>1. ASSUME NEW p \in Web, StopAborted(p)
        PROVE  LocksMatch'
    <3>1. UNCHANGED <<at, want>> /\ Finish(p) /\ web[p].pc = "cancelling"
      BY <2>1 DEF StopAborted, AbortStop, At, lockVars
    <3> QED
      BY <3>1, MatchAway, PlacesAfter DEF PipelineTypeOK, TypeOK, ConductorTypeOK, InsideLock
  <2>2. CASE WebSideRests
    BY <2>2, MatchRests DEF WebSideRests, conductorVars, lockVars
  <2>3. CASE UNCHANGED pipelineVars
    BY <2>3, MatchRests DEF pipelineVars, vars, conductorVars, lockVars
  <2>4. CASE ConductorNext
    BY <2>4, MatchStep DEF PipelineTypeOK
  <2> QED
    BY <2>1, <2>2, <2>3, <2>4, SidesOfPipeline
<1>2. PipelineInit => LocksMatch
  BY MatchInit DEF PipelineInit
<1> QED
  BY <1>1, <1>2, PipelineTypes, PTL DEF PipelineSpec

(* conductor.py:366-370: what the lock gives the replies holds beside the   *)
(* workers: one reply of a lead at a time, if none outlives the TTL and     *)
(* Redis answers; and a request's key in Redis belongs to its reply.        *)
THEOREM PipelineRepliesAreExclusive ==
  ASSUME "ttl" \notin Faults, "redis" \notin Faults
  PROVE  PipelineSpec => []OneReplyPerLead
<1>1. Lock!LockTypeOK /\ LocksMatch /\ Lock!Exclusive => OneReplyPerLead
  BY ExclusiveReplies
<1> QED
  BY <1>1, LockExcludes, LockIsSafe, PipelineLocksMatch, PipelineImplementsLock, PTL
     DEF LockSafety

(* locks.py:19-43: and no deadlock or restart leaves a key behind.          *)
THEOREM PipelineKeysBelongToReplies == PipelineSpec => []KeysOfReplies
<1>1. LocksMatch /\ Lock!KeyHasItsOwner => KeysOfReplies
  BY OwnedKeys
<1> QED
  BY <1>1, LockIsSafe, PipelineLocksMatch, PipelineImplementsLock, PTL DEF LockSafety

LEMMA PipelineTurns ==
  ASSUME PipelineTypeOK, [PipelineNext]_pipelineVars
  PROVE  TurnStep
<1>1. ASSUME NEW p \in Web, StopAborted(p)
      PROVE  TurnStep
  <2>1. TurnsStay /\ created' = created /\ Finish(p)
    BY <1>1 DEF StopAborted, AbortStop, edgeVars, TurnsStay
  <2>2. LoadsTurn(p)
    BY <2>1, PlacesAfter DEF LoadsTurn, InTurn, PipelineTypeOK, TypeOK, ConductorTypeOK
  <2> QED
    BY <2>1, <2>2 DEF TurnStep
<1>2. CASE WebSideRests
  BY <1>2 DEF WebSideRests, conductorVars, edgeVars, TurnStep, TurnsStay
<1>3. CASE UNCHANGED pipelineVars
  BY <1>3 DEF pipelineVars, vars, storeVars, conductorVars, edgeVars, TurnStep, TurnsStay
<1>4. CASE ConductorNext
  BY <1>4, WebTurns DEF PipelineTypeOK
<1> QED
  BY <1>1, <1>2, <1>3, <1>4, SidesOfPipeline

(* conductor.py:366, 418, 439-442: neither worker makes a lead count a turn *)
(* it has not replied, ...                                                  *)
THEOREM PipelineTurnsNeverRunAhead ==
  PipelineSpec => [](\A l \in Leads : lead[l].turn <= heard[l])
<1>1. PipelineTypeOK /\ TypeOK /\ TurnsAreHeard /\ [PipelineNext]_pipelineVars => TurnsAreHeard'
  BY PipelineTurns, HeardStep
<1>2. TurnsAreHeard => \A l \in Leads : lead[l].turn <= heard[l]
  BY DEF TurnsAreHeard
<1>3. PipelineInit => TurnsAreHeard
  BY HeardInit DEF PipelineInit
<1> QED
  BY <1>1, <1>2, <1>3, PipelineTypesAlways, PTL DEF PipelineSpec

(* ... nor lose one (conductor.py:418): only replies that overlap do.       *)
THEOREM PipelineTurnsCount ==
  PipelineSpec /\ []RepliesDontOverlap => []TurnsCountReplies
<1>1. /\ PipelineTypeOK /\ TypeOK /\ TurnsAreCounted /\ RepliesDontOverlap
      /\ [PipelineNext]_pipelineVars
      => TurnsAreCounted'
  BY PipelineTurns, CountedStep
<1>2. TurnsAreCounted => TurnsCountReplies
  BY DEF TurnsAreCounted
<1>3. PipelineInit => TurnsAreCounted
  BY CountedInit DEF PipelineInit
<1> QED
  BY <1>1, <1>2, <1>3, PipelineTypesAlways, PTL DEF PipelineSpec

-----------------------------------------------------------------------------
(* How a STOP may end.                                                      *)
StopLostToDeadlock(p) ==
  /\ AbortStop(p)
  /\ \E c \in SUBSET Sessions : Deadlocked(c) /\ {p, Dispatcher} \subseteq c

StopKept ==
  \A p \in Web : LeavesStop(p) => \/ optedOut'[web[p].lead]
                                  \/ Crash(p)
                                  \/ StopLostToDeadlock(p)

LEMMA StopKeptStep ==
  ASSUME PipelineInv, ManagerTakesNoTask, PipelineNext
  PROVE  StopKept
<1> USE DEF PipelineInv, PipelineTypeOK
<1> SUFFICES ASSUME NEW p \in Web, LeavesStop(p)
             PROVE  optedOut'[web[p].lead] \/ Crash(p) \/ StopLostToDeadlock(p)
  BY DEF StopKept
<1>1. CASE ConductorNext
  BY <1>1, StopLeft, StopCommitted
<1>2. CASE WebSideRests
  BY <1>2 DEF WebSideRests, conductorVars, LeavesStop
<1>3. ASSUME NEW q \in Web, StopAborted(q)
      PROVE  StopLostToDeadlock(p)
  <2>1. q = p
    BY <1>3, PlacesAfter DEF StopAborted, AbortStop, TypeOK, ConductorTypeOK, OthersStay, Stays,
      LeavesStop
  <2>2. PICK c \in SUBSET Sessions : Deadlocked(c) /\ p \in c
    BY <1>3, <2>1 DEF StopAborted
  <2>3. Dispatcher \in c
    BY <2>2, BlockedByDispatcher DEF Deadlocked
  <2> QED
    BY <1>3, <2>1, <2>2, <2>3 DEF StopAborted, StopLostToDeadlock
<1> QED
  BY <1>1, <1>2, <1>3, SidesOfPipeline

(* conductor.py:371-376,743-787: in the deployed pipeline a STOP that has   *)
(* reached its lead ends in the opt-out, but for two causes: the crash of   *)
(* its web worker, and a deadlock with the dispatcher, of which it is the   *)
(* victim.  (The second is the counterexample of StopTakesEffect.)          *)
THEOREM PipelineStopsAreKept == PipelineSpec => [][StopKept]_pipelineVars
<1>1. PipelineInv /\ ManagerTakesNoTask /\ [PipelineNext]_pipelineVars
        => [StopKept]_pipelineVars
  BY StopKeptStep
<1> QED
  BY <1>1, PipelineInvariant, ManagerTakesNoTaskAlways, PTL DEF PipelineSpec

-----------------------------------------------------------------------------
(* Cold outreach: leads.cold_outreach_count, and the SMS that went out.     *)

(* What the record says, and will say after the round, is within the limit. *)
OutreachCapped ==
  \A l \in Leads : lead[l].outreach <= MaxOutreach /\ disp.seen[l].outreach <= MaxOutreach

(* What the dispatcher has in hand or has loaded exists, and as long as it  *)
(* has not changed a count, the count is the one on record.                 *)
RoundKnown ==
  /\ \A l \in disp.dirty : disp.seen[l].loaded
  /\ \A i \in disp.todo : i[2] <= created
  /\ disp.pc = "item" => disp.cur[2] <= created
  /\ \A l \in Leads : disp.seen[l].loaded =>
       l <= created /\ (l \in disp.dirty \/ disp.seen[l].outreach = lead[l].outreach)
  /\ \A l \in Leads : l > created => lead[l].outreach = 0

OutreachSafe == OutreachCapped /\ RoundKnown

(* No nurture SMS has gone out that the round will not have recorded.       *)
NurtureRecorded ==
  \A l \in Leads :
    nurtured[l] <= IF disp.seen[l].loaded THEN disp.seen[l].outreach ELSE lead[l].outreach

(* A step that has nothing to do with it.                                   *)
OutreachStays ==
  /\ created' \in Nat /\ created <= created'
  /\ \A l \in Leads : lead'[l].outreach = lead[l].outreach

LEMMA OutreachWrites ==
  ASSUME lead \in [Leads -> LeadRecords], NEW l \in Leads, NEW s
  PROVE  \A m \in Leads : WithState(l, s)[m].outreach = lead[m].outreach
BY DEF WithState, LeadRecords

LEMMA WebOutreach ==
  ASSUME TypeOK, RoundKnown, ConductorNext
  PROVE  OutreachStays
<1> USE RequestTyped, StoreConstants DEF TypeOK, ConductorTypeOK, StoreTypeOK
<1>a. ASSUME UNCHANGED <<created, lead>>
      PROVE  OutreachStays
  BY <1>a DEF OutreachStays
<1>b. ASSUME NEW l \in Leads, NEW s, lead' = WithState(l, s), created' = created
      PROVE  OutreachStays
  BY <1>b, OutreachWrites DEF OutreachStays
<1>1. ASSUME NEW p \in Web, CreateLead(p)
      PROVE  OutreachStays
  <2>1. created' = created + 1 /\ lead' = [lead EXCEPT ![created + 1] = NewLead]
    BY <1>1 DEF CreateLead
  <2>2. created + 1 \in Leads => lead[created + 1].outreach = 0
    BY DEF RoundKnown
  <2>3. NewLead.outreach = 0
    BY DEF NewLead
  <2> QED
    BY <2>1, <2>2, <2>3 DEF OutreachStays
<1>2. ASSUME NEW p \in Web, NewLeadStep(p), ~CreateLead(p)
      PROVE  OutreachStays
  BY <1>2, <1>a, <1>b DEF NewLeadStep, RejectLead, PassCompliance, BlockLead, Greet, GreetFails,
    FinishGreeting, StoreRests
<1>3. ASSUME NEW p \in Web, StopStep(p)
      PROVE  OutreachStays
  BY <1>3, <1>a, <1>b DEF StopStep, UpdateTasks, FlushStop, BeginCancel, CancelTask, CommitStop, StoreRests
<1>4. ASSUME NEW p \in Web, CommitReply(p)
      PROVE  OutreachStays
  <2> DEFINE l == web[p].lead
             old == WithState(l, StateOf(p))
  <2>1. l \in Leads /\ old \in [Leads -> LeadRecords]
    BY LeadWritten, StateOfTyped
  <2>2. \A m \in Leads : old[m].outreach = lead[m].outreach
    BY <2>1, OutreachWrites
  <2>3. lead' = [old EXCEPT ![l].turn = web[p].turn + 1] /\ created' = created
    BY <1>4 DEF CommitReply
  <2> HIDE DEF old
  <2> QED
    BY <2>1, <2>2, <2>3 DEF OutreachStays, LeadRecords
<1>5. ASSUME NEW p \in Web, NEW s, NEW books, Flush(p, s, books)
      PROVE  OutreachStays
  BY <1>5, <1>a DEF Flush
<1>6. ASSUME NEW p \in Web, ReplyStep(p)
      PROVE  OutreachStays
  BY <1>4, <1>5, <1>6, <1>a DEF ReplyStep, EnterLock, WaitForLock, GiveUpReply, RouteTurnLimit,
    RouteToQualify, RouteToBook, RouteRaises, SendReply, WithholdReply, ReleaseLock, StoreRests
<1>7. ASSUME NEW p \in Web, SendManualReply(p) \/ Arrive(p) \/ Crash(p)
      PROVE  OutreachStays
  BY <1>7, <1>a DEF SendManualReply, Arrive, SubmitLead, AcknowledgeDuplicate, ReceiveStop,
    ReceiveReply, OpenManualReply, Crash, StoreRests
<1>8. ASSUME Environment
      PROVE  OutreachStays
  <2>1. ASSUME NEW l \in Leads, NEW b, SetArchived(l, b)
        PROVE  OutreachStays
    BY <2>1 DEF SetArchived, OutreachStays, LeadRecords
  <2> QED
    BY <1>8, <2>1, <1>a, <1>b DEF Environment, DedupExpires, SetStatus, LockExpires, StoreRests
<1> QED
  BY <1>1, <1>2, <1>3, <1>6, <1>7, <1>8 DEF ConductorNext, Proceed

LEMMA ManagerOutreach ==
  ASSUME StoreTypeOK, ManagerNext
  PROVE  OutreachStays
<1>a. created \in Nat
  BY StoreConstants DEF StoreTypeOK
<1>b. ASSUME created' = created, \A l \in Leads : lead'[l].outreach = lead[l].outreach
      PROVE  OutreachStays
  BY <1>a, <1>b DEF OutreachStays
<1> USE DEF StoreTypeOK, LeadRecords
<1>1. CASE CommitPhase
  BY <1>1, <1>b DEF CommitPhase, LeadsAfter
<1>2. CASE ArchiveOld
  BY <1>2, <1>b DEF ArchiveOld
<1>3. CASE SelectLeads \/ NothingSelected \/ \E l \in Leads : FlushLead(l)
  BY <1>3, <1>b DEF SelectLeads, NothingSelected, FlushLead, StoreRests
<1> QED
  BY <1>1, <1>2, <1>3 DEF ManagerNext

LEMMA OutreachRests ==
  ASSUME OutreachSafe, StoreTypeOK, DispatcherTypeOK, DispatchSafe, OutreachStays, disp' = disp
  PROVE  /\ OutreachSafe'
         /\ NurtureRecorded /\ nurtured' = nurtured => NurtureRecorded'
<1>1. OutreachCapped'
  BY DEF OutreachSafe, OutreachCapped, OutreachStays
<1>2. \A n \in Leads : n <= created => n <= created'
  BY StoreConstants DEF StoreTypeOK, OutreachStays, Leads
<1>3. RoundKnown'
  <2>1. \A i \in disp.todo : i[2] \in Leads
    BY DEF DispatcherTypeOK, Items
  <2>2. disp.pc = "item" => disp.cur[2] \in Leads
    BY DEF DispatchSafe, ItemLoaded, Items
  <2>3. /\ \A i \in disp.todo : i[2] <= created'
        /\ disp.pc = "item" => disp.cur[2] <= created'
        /\ \A l \in Leads : disp.seen[l].loaded => l <= created'
    BY <1>2, <2>1, <2>2 DEF OutreachSafe, RoundKnown
  <2>4. \A l \in Leads : l > created' => l > created
    BY <1>2, StoreConstants DEF StoreTypeOK, OutreachStays, Leads
  <2> QED
    BY <2>3, <2>4 DEF OutreachSafe, RoundKnown, OutreachStays
<1> QED
  BY <1>1, <1>3 DEF OutreachSafe, NurtureRecorded, OutreachStays

(* The limit is checked against the count the round has loaded and kept up. *)
LEMMA SendWithinLimit ==
  ASSUME DispatcherTypeOK, DispatchSafe, disp.pc = "item", MaySend, RecordSent
  PROVE  LET c == disp.cur[2]
             n == IF disp.cur[1] = "cold_nurture" THEN 1 ELSE 0 IN
         /\ c \in Leads /\ disp.seen[c].loaded
         /\ n = 1 => disp.seen[c].outreach < MaxOutreach
         /\ disp'.seen[c].outreach = disp.seen[c].outreach + n
         /\ disp'.seen[c].loaded
         /\ \A l \in Leads : l # c => disp'.seen[l] = disp.seen[l]
         /\ disp'.dirty = disp.dirty \cup {c}
         /\ disp'.todo = disp.todo /\ disp'.pc = "next"
<1> DEFINE c == disp.cur[2]
           S == [loaded : BOOLEAN, state : States, outreach : 0..(MaxOutreach + 1), clear : BOOLEAN]
<1>1. c \in Leads /\ disp.seen[c].loaded
  BY DEF DispatchSafe, ItemLoaded, Items
<1>2. disp.seen \in [Leads -> S] /\ disp.seen[c] \in S /\ disp.seen[c].outreach \in Nat
  BY <1>1, StoreConstants DEF DispatcherTypeOK
<1>3. disp.cur[1] = "cold_nurture" => disp.seen[c].outreach < MaxOutreach
  BY DEF MaySend, Seen, TaskTypes
<1>4. DOMAIN disp = {"round", "pc", "todo", "cur", "sent", "skipped", "raised", "dirty", "seen"}
  BY DEF DispatcherTypeOK
<1> DEFINE n == IF disp.cur[1] = "cold_nurture" THEN 1 ELSE 0
           r == [disp.seen[c] EXCEPT !.outreach =
                   IF disp.cur[1] = "cold_nurture" THEN @ + 1 ELSE @]
<1>5. /\ disp'.seen = [disp.seen EXCEPT ![c] = r]
      /\ disp'.dirty = disp.dirty \cup {c}
      /\ disp'.todo = disp.todo /\ disp'.pc = "next"
  BY <1>4 DEF RecordSent, DispatcherTypeOK
<1>6. r.outreach = disp.seen[c].outreach + n /\ r.loaded
  BY <1>1, <1>2
<1> HIDE DEF r
<1>7. disp'.seen[c] = r /\ \A l \in Leads : l # c => disp'.seen[l] = disp.seen[l]
  BY <1>1, <1>2, <1>5
<1> QED
  BY <1>1, <1>3, <1>5, <1>6, <1>7

(* Nothing is loaded or in hand.                                            *)
LEMMA EmptyRound ==
  ASSUME NEW round, disp' = Waiting(round)
  PROVE  /\ disp'.todo = {} /\ disp'.dirty = {} /\ disp'.pc = "idle"
         /\ \A l \in Leads : ~disp'.seen[l].loaded /\ disp'.seen[l].outreach = 0
BY DEF Waiting, Unseen

LEMMA OutreachForgotten ==
  ASSUME OutreachSafe, StoreTypeOK, NEW round, disp' = Waiting(round), OutreachStays
  PROVE  OutreachSafe'
<1>1. OutreachCapped'
  BY EmptyRound, StoreConstants DEF OutreachSafe, OutreachCapped, OutreachStays
<1>2. \A l \in Leads : l > created' => l > created
  BY StoreConstants DEF StoreTypeOK, OutreachStays, Leads
<1>3. RoundKnown'
  BY <1>2, EmptyRound DEF OutreachSafe, RoundKnown, OutreachStays
<1> QED
  BY <1>1, <1>3 DEF OutreachSafe

LEMMA RoundOutreach ==
  ASSUME StoreTypeOK, DispatcherTypeOK, DispatchSafe, OutreachSafe, DispatcherNext
  PROVE  OutreachSafe' /\ (NurtureRecorded => NurtureRecorded')
<1>a. /\ created \in Nat /\ MaxOutreach \in Nat
      /\ \A l \in Leads : l \in Nat /\ nurtured[l] \in Nat /\ lead[l].outreach \in Nat
                            /\ disp.seen[l].outreach \in Nat
  BY StoreConstants DEF StoreTypeOK, LeadRecords, DispatcherTypeOK, Leads
<1>b. DOMAIN disp = {"round", "pc", "todo", "cur", "sent", "skipped", "raised", "dirty", "seen"}
  BY DEF DispatcherTypeOK
<1>c. UNCHANGED <<created, lead>> => OutreachStays
  BY <1>a DEF OutreachStays
<1> USE DEF OutreachSafe
<1>1. CASE Pick
  <2>1. PICK picked \in SUBSET Due(disp.round) :
          disp' = [disp EXCEPT !.pc = "next", !.todo = picked]
    BY <1>1 DEF Pick
  <2>2. /\ disp'.todo = picked /\ disp'.pc = "next" /\ disp'.dirty = disp.dirty
        /\ disp'.seen = disp.seen
    BY <1>b, <2>1
  <2>3. \A i \in picked : i[2] <= created
    BY <1>a, <2>1 DEF Due
  <2>4. UNCHANGED <<created, lead, nurtured>>
    BY <1>1 DEF Pick
  <2> QED
    BY <2>2, <2>3, <2>4 DEF OutreachCapped, RoundKnown, NurtureRecorded
<1>2. CASE SkipRound
  <2>1. PICK round \in Rounds : disp' = Waiting(round)
    BY <1>2, RoundsFollow DEF SkipRound, DispatcherTypeOK
  <2>2. UNCHANGED <<created, lead, nurtured>> /\ disp.pc = "idle"
    BY <1>2 DEF SkipRound, StoreRests
  <2>3. OutreachSafe'
    BY <1>c, <2>1, <2>2, OutreachForgotten
  <2>4. \A l \in Leads : ~disp.seen[l].loaded
    BY <2>2 DEF DispatchSafe, RoundStartsEmpty
  <2> QED
    BY <2>1, <2>2, <2>3, <2>4, EmptyRound DEF NurtureRecorded
<1>3. ASSUME NEW i \in Items, TakeItem(i)
      PROVE  OutreachSafe' /\ (NurtureRecorded => NurtureRecorded')
  <2> DEFINE l == i[2]
             now == [loaded |-> TRUE, state |-> lead[l].state,
                     outreach |-> lead[l].outreach, clear |-> ~optedOut[l]]
  <2>1. l \in Leads /\ l <= created /\ UNCHANGED <<created, lead, nurtured>>
    BY <1>3 DEF TakeItem, RoundKnown, Items
  <2>2. /\ disp'.pc = "item" /\ disp'.cur = i /\ disp'.todo = disp.todo \ {i}
        /\ disp'.dirty = disp.dirty
        /\ disp'.seen = [disp.seen EXCEPT ![l] = IF ~disp.seen[l].loaded THEN now ELSE @]
    BY <1>b, <1>3 DEF TakeItem
  <2>3. now.loaded /\ now.outreach = lead[l].outreach
    OBVIOUS
  <2> HIDE DEF now
  <2>4. /\ \A m \in Leads : m # l => disp'.seen[m] = disp.seen[m]
        /\ disp'.seen[l] = IF ~disp.seen[l].loaded THEN now ELSE disp.seen[l]
    BY <2>1, <2>2 DEF DispatcherTypeOK
  <2>5. OutreachCapped'
    BY <2>1, <2>3, <2>4 DEF OutreachCapped
  <2>6. \A m \in disp.dirty : m \in Leads /\ disp'.seen[m].loaded
    BY <2>3, <2>4 DEF RoundKnown, DispatcherTypeOK
  <2>7. \A m \in Leads : disp'.seen[m].loaded =>
          m <= created /\ (m \in disp.dirty \/ disp'.seen[m].outreach = lead[m].outreach)
    BY <2>1, <2>3, <2>4 DEF RoundKnown
  <2>8. RoundKnown'
    BY <2>1, <2>2, <2>6, <2>7 DEF RoundKnown
  <2>9. NurtureRecorded => NurtureRecorded'
    BY <2>1, <2>3, <2>4 DEF NurtureRecorded
  <2> QED
    BY <2>5, <2>8, <2>9
<1>4. CASE Send \/ SendFails
  <2> DEFINE c == disp.cur[2]
             n == IF disp.cur[1] = "cold_nurture" THEN 1 ELSE 0
  <2>1. /\ disp.pc = "item" /\ MaySend /\ RecordSent /\ UNCHANGED <<created, lead>>
        /\ nurtured' = nurtured \/ Send
    BY <1>4 DEF Send, SendFails, StoreRests
  <2>2. /\ c \in Leads /\ disp.seen[c].loaded
        /\ n = 1 => disp.seen[c].outreach < MaxOutreach
        /\ disp'.seen[c].outreach = disp.seen[c].outreach + n
        /\ disp'.seen[c].loaded
        /\ \A l \in Leads : l # c => disp'.seen[l] = disp.seen[l]
        /\ disp'.dirty = disp.dirty \cup {c}
        /\ disp'.todo = disp.todo /\ disp'.pc = "next"
    BY <2>1, SendWithinLimit
  <2>3. n \in {0, 1}
    OBVIOUS
  <2>4. \A l \in Leads : /\ nurtured'[l] <= nurtured[l] + (IF l = c THEN n ELSE 0)
                         /\ nurtured'[l] \in Nat
    <3>1. CASE nurtured' = nurtured
      BY <1>a, <2>3, <3>1
    <3>2. CASE Send
      BY <1>a, <2>2, <3>2 DEF Send, DispatcherTypeOK
    <3> QED
      BY <2>1, <3>1, <3>2
  <2> HIDE DEF n
  <2>5. OutreachCapped'
    BY <1>a, <2>1, <2>2, <2>3 DEF OutreachCapped
  <2>6. c <= created /\ \A m \in disp.dirty \cup {c} : m \in Leads
    BY <2>2 DEF RoundKnown, DispatcherTypeOK
  <2>7. RoundKnown'
    BY <2>1, <2>2, <2>6 DEF RoundKnown
  <2>8. NurtureRecorded => NurtureRecorded'
    <3> SUFFICES ASSUME NurtureRecorded, NEW l \in Leads
                 PROVE  nurtured'[l] <= IF disp'.seen[l].loaded THEN disp'.seen[l].outreach
                                                                ELSE lead'[l].outreach
      BY DEF NurtureRecorded
    <3>1. CASE l = c
      BY <1>a, <2>2, <2>3, <2>4, <3>1 DEF NurtureRecorded
    <3>2. CASE l # c
      <4>1. nurtured'[l] <= nurtured[l]
        BY <1>a, <2>4, <3>2
      <4> QED
        BY <1>a, <2>1, <2>2, <2>4, <3>2, <4>1 DEF NurtureRecorded
    <3> QED
      BY <3>1, <3>2
  <2> QED
    BY <2>5, <2>7, <2>8
<1>5. CASE Skip \/ Raise
  <2>1. /\ disp'.pc = "next" /\ disp'.todo = disp.todo /\ disp'.dirty = disp.dirty
        /\ disp'.seen = disp.seen
    BY <1>b, <1>5 DEF Skip, Raise
  <2>2. UNCHANGED <<created, lead, nurtured>>
    BY <1>5 DEF Skip, Raise, StoreRests
  <2> QED
    BY <2>1, <2>2 DEF OutreachCapped, RoundKnown, NurtureRecorded
<1>6. CASE CommitRound
  <2>1. PICK round \in Rounds : disp' = Waiting(round)
    BY <1>6, RoundsFollow DEF CommitRound, DispatcherTypeOK
  <2>2. /\ UNCHANGED <<created, nurtured>>
        /\ \A l \in Leads : lead'[l].outreach =
             IF l \in disp.dirty THEN disp.seen[l].outreach ELSE lead[l].outreach
    BY <1>6 DEF CommitRound, StoreTypeOK, LeadRecords
  <2>3. OutreachCapped'
    BY <2>1, <2>2, EmptyRound, StoreConstants DEF OutreachCapped
  <2>4. \A l \in Leads : l > created => l \notin disp.dirty
    BY <1>a DEF RoundKnown
  <2>5. RoundKnown'
    BY <2>1, <2>2, <2>4, EmptyRound DEF RoundKnown
  <2>6. NurtureRecorded => NurtureRecorded'
    <3>1. \A l \in Leads : lead'[l].outreach =
            IF disp.seen[l].loaded THEN disp.seen[l].outreach ELSE lead[l].outreach
      BY <2>2 DEF RoundKnown
    <3> QED
      BY <2>1, <2>2, <3>1, EmptyRound DEF NurtureRecorded
  <2> QED
    BY <2>3, <2>5, <2>6
<1> QED
  BY <1>1, <1>2, <1>3, <1>4, <1>5, <1>6 DEF DispatcherNext

(* A round that texted, or may have, ends without its commit.               *)
LosesRound == disp.pc # "idle" /\ disp'.pc = "idle" /\ ~CommitRound

LEMMA BackgroundOutreach ==
  ASSUME PipelineTypeOK, DispatchSafe, OutreachSafe, BackgroundStep
  PROVE  OutreachSafe' /\ (NurtureRecorded /\ ~LosesRound => NurtureRecorded' \/ CommitRound)
<1> USE DEF PipelineTypeOK, TypeOK
<1>a. created \in Nat /\ disp.pc \in {"idle", "next", "item"}
  BY StoreConstants DEF StoreTypeOK, DispatcherTypeOK
<1>b. /\ OutreachStays /\ nurtured' = nurtured
      /\ disp' = disp \/ disp' = Waiting("followups")
  <2>1. CASE BreakDeadlock
    BY <1>a, <2>1, DeadlockAborts DEF AbortStop, AbortManager, AbortDispatcher, RollBackPhase,
      RollBackRound, OutreachStays, workerVars
  <2>2. CASE WorkerCrash
    BY <1>a, <2>2 DEF WorkerCrash, OutreachStays
  <2>3. ASSUME NEW l \in Leads, LeadAges(l) \/ AppointmentNears(l)
        PROVE  OutreachStays /\ nurtured' = nurtured /\ disp' = disp
    BY <1>a, <2>3 DEF LeadAges, AppointmentNears, OutreachStays, workerVars, StoreTypeOK, LeadRecords
  <2> QED
    BY <2>1, <2>2, <2>3 DEF BackgroundStep
<1>1. CASE disp' = disp
  BY <1>b, <1>1, OutreachRests
<1>2. CASE disp' = Waiting("followups")
  <2>1. OutreachSafe'
    BY <1>b, <1>2, OutreachForgotten
  <2>2. CASE disp.pc = "idle"
    <3>1. \A l \in Leads : ~disp.seen[l].loaded
      BY <2>2 DEF DispatchSafe, RoundStartsEmpty
    <3> QED
      BY <1>b, <1>2, <2>1, <3>1, EmptyRound DEF NurtureRecorded, OutreachStays
  <2>3. CASE disp.pc # "idle"
    BY <1>2, <2>1, <2>3, EmptyRound DEF LosesRound
  <2> QED
    BY <2>2, <2>3
<1> QED
  BY <1>b, <1>1, <1>2

LEMMA OutreachStep ==
  ASSUME PipelineInv, OutreachSafe, PipelineNext
  PROVE  OutreachSafe' /\ (NurtureRecorded /\ ~LosesRound => NurtureRecorded')
<1> USE DEF PipelineInv, PipelineTypeOK, TypeOK
<1>1. CASE WebStep
  <2>1. OutreachStays
    BY <1>1, WebOutreach DEF WebStep, OutreachSafe
  <2> QED
    BY <1>1, <2>1, OutreachRests DEF WebStep, workerVars
<1>2. CASE ManagerStep
  BY <1>2, ManagerOutreach, OutreachRests DEF ManagerStep
<1>3. CASE DispatcherStep
  BY <1>3, RoundOutreach DEF DispatcherStep
<1>4. CASE BackgroundStep
  BY <1>4, BackgroundOutreach, RoundOutreach DEF DispatcherNext
<1> QED
  BY <1>1, <1>2, <1>3, <1>4 DEF PipelineNext, BackgroundStep

LEMMA OutreachInit == PipelineInit => OutreachSafe /\ NurtureRecorded
<1> SUFFICES ASSUME PipelineInit PROVE OutreachSafe /\ NurtureRecorded
  OBVIOUS
<1>1. /\ disp.todo = {} /\ disp.dirty = {} /\ disp.pc = "idle"
      /\ \A l \in Leads : ~disp.seen[l].loaded /\ disp.seen[l].outreach = 0
  BY DEF PipelineInit, DispatcherInit, Waiting, Unseen
<1>2. \A l \in Leads : lead[l].outreach = 0 /\ nurtured[l] = 0
  BY DEF PipelineInit, DispatcherInit, Init, StoreInit, NewLead
<1> QED
  BY <1>1, <1>2, StoreConstants DEF OutreachSafe, OutreachCapped, RoundKnown, NurtureRecorded

LEMMA OutreachInvariant == PipelineSpec => []OutreachSafe
<1>1. PipelineInv /\ OutreachSafe /\ [PipelineNext]_pipelineVars => OutreachSafe'
  BY OutreachStep DEF pipelineVars, workerVars, vars, storeVars, OutreachSafe, OutreachCapped,
    RoundKnown
<1> QED
  BY <1>1, OutreachInit, PipelineInvariant, PTL DEF PipelineSpec

(* compliance.py:249, sms_dispatch.py:235,288: whatever is rolled back,     *)
(* cold_outreach_count never passes the limit: ...                          *)
THEOREM RecordedOutreachIsCapped ==
  PipelineSpec => [](\A l \in Leads : lead[l].outreach <= MaxOutreach)
<1>1. OutreachSafe => \A l \in Leads : lead[l].outreach <= MaxOutreach
  BY DEF OutreachSafe, OutreachCapped
<1> QED
  BY <1>1, OutreachInvariant, PTL

(* ... what passes it is the number of SMS, and only when a round has lost  *)
(* its records (sms_dispatch.py:181 never reached): as long as every round  *)
(* that has texted commits, no lead gets more than MAX_COLD_OUTREACH        *)
(* nurture messages, ever.                                                  *)
THEOREM NurtureLimitHoldsUnlessRoundsAreLost ==
  PipelineSpec /\ [][~LosesRound]_pipelineVars => []NurtureLimit
<1>1. PipelineInv /\ OutreachSafe /\ NurtureRecorded /\ [PipelineNext]_pipelineVars
        /\ [~LosesRound]_pipelineVars => NurtureRecorded'
  BY OutreachStep DEF pipelineVars, workerVars, vars, storeVars, NurtureRecorded
<1>2. PipelineInv /\ OutreachSafe /\ NurtureRecorded => NurtureLimit
  <2> SUFFICES ASSUME PipelineInv, OutreachSafe, NurtureRecorded, NEW l \in Leads
               PROVE  nurtured[l] <= MaxOutreach
    BY DEF NurtureLimit
  <2> DEFINE recorded == IF disp.seen[l].loaded THEN disp.seen[l].outreach ELSE lead[l].outreach
  <2>1. nurtured[l] \in Nat /\ MaxOutreach \in Nat
    BY StoreConstants DEF PipelineInv, PipelineTypeOK, DispatcherTypeOK
  <2>2. lead[l].outreach \in Nat /\ disp.seen[l].outreach \in Nat
    BY StoreConstants DEF PipelineInv, PipelineTypeOK, TypeOK, StoreTypeOK, LeadRecords,
      DispatcherTypeOK
  <2>3. recorded <= MaxOutreach /\ nurtured[l] <= recorded
    BY DEF OutreachSafe, OutreachCapped, NurtureRecorded
  <2> QED
    BY <2>1, <2>2, <2>3
<1> QED
  BY <1>1, <1>2, OutreachInit, OutreachInvariant, PipelineInvariant, PTL DEF PipelineSpec

-----------------------------------------------------------------------------
(* A nurture SMS and the task it was sent for.                              *)
NurtureItem(l) == <<"cold_nurture", l>>
Nurtures(l) == task[l]["cold_nurture"].sent

(* An item of a round has one outcome, and has it once: what is still to be *)
(* worked on, or is being, is not done.                                     *)
Done == disp.sent \cup disp.skipped \cup disp.raised

ItemsApart ==
  /\ disp.sent \cap disp.skipped = {} /\ disp.sent \cap disp.raised = {}
  /\ disp.skipped \cap disp.raised = {}
  /\ disp.todo \cap Done = {}
  /\ disp.pc = "item" => disp.cur \notin disp.todo \cup Done

(* Every SMS belongs to a task that was sent, or is about to be recorded.   *)
OneSmsPerTask ==
  \A l \in Leads : nurtured[l] <= Nurtures(l) + (IF NurtureItem(l) \in disp.sent THEN 1 ELSE 0)

NurturesStay == \A l \in Leads : Nurtures(l) <= Nurtures(l)' /\ Nurtures(l)' \in Nat

LEMMA NurturesTyped ==
  ASSUME StoreTypeOK, DispatcherTypeOK, NEW l \in Leads
  PROVE  /\ Nurtures(l) \in Nat /\ nurtured[l] \in Nat
         /\ "cold_nurture" \in TaskTypes /\ task[l]["cold_nurture"] \in TaskRecords
<1>1. "cold_nurture" \in TaskTypes
  BY DEF TaskTypes
<1>2. task[l]["cold_nurture"] \in TaskRecords
  BY <1>1 DEF StoreTypeOK
<1> QED
  BY <1>1, <1>2, StoreConstants DEF Nurtures, TaskRecords, DispatcherTypeOK

LEMMA NoNewNurtures ==
  ASSUME StoreTypeOK, DispatcherTypeOK, NoNewTasks
  PROVE  NurturesStay
<1> SUFFICES ASSUME NEW l \in Leads
             PROVE  Nurtures(l) <= Nurtures(l)' /\ Nurtures(l)' \in Nat
  BY DEF NurturesStay
<1>1. \/ task'[l]["cold_nurture"].sent = task[l]["cold_nurture"].sent
      \/ task'[l]["cold_nurture"].sent = task[l]["cold_nurture"].sent + 1
  BY NurturesTyped DEF NoNewTasks
<1> QED
  BY <1>1, NurturesTyped DEF Nurtures

LEMMA ManagerNurtures ==
  ASSUME StoreTypeOK, DispatcherTypeOK, ManagerNext
  PROVE  NurturesStay
<1>1. CASE CommitPhase
  <2> SUFFICES ASSUME NEW l \in Leads
               PROVE  Nurtures(l) <= Nurtures(l)' /\ Nurtures(l)' \in Nat
    BY DEF NurturesStay
  <2> DEFINE t == task[l]["cold_nurture"]
  <2>1. t \in TaskRecords /\ Nurtures(l) \in Nat
    BY NurturesTyped
  <2>2. \/ task'[l]["cold_nurture"] = t
        \/ task'[l]["cold_nurture"] = [t EXCEPT !.status = "pending", !.attempts = 0]
        \/ task'[l]["cold_nurture"] = [t EXCEPT !.status = "cancelled"]
    BY <1>1, TasksAfterCases, NurturesTyped DEF CommitPhase
  <2>3. task'[l]["cold_nurture"].sent = t.sent
    BY <2>1, <2>2 DEF TaskRecords
  <2> QED
    BY <2>1, <2>3 DEF Nurtures
<1>2. CASE ~CommitPhase
  <2>1. UNCHANGED task
    BY <1>2 DEF ManagerNext, SelectLeads, NothingSelected, ArchiveOld, FlushLead, StoreRests
  <2> QED
    BY <2>1, NurturesTyped DEF NurturesStay, Nurtures
<1> QED
  BY <1>1, <1>2

LEMMA SmsRests ==
  ASSUME StoreTypeOK, DispatcherTypeOK, NurturesStay, nurtured' = nurtured, disp' = disp
  PROVE  /\ ItemsApart => ItemsApart'
         /\ OneSmsPerTask => OneSmsPerTask'
<1>1. ItemsApart => ItemsApart'
  BY DEF ItemsApart, Done
<1>2. ASSUME OneSmsPerTask, NEW l \in Leads
      PROVE  nurtured[l] <= Nurtures(l)' + (IF NurtureItem(l) \in disp.sent THEN 1 ELSE 0)
  BY <1>2, NurturesTyped DEF OneSmsPerTask, NurturesStay
<1> QED
  BY <1>1, <1>2 DEF OneSmsPerTask, NurtureItem

LEMMA RoundTextsOnce ==
  ASSUME StoreTypeOK, DispatcherTypeOK, DispatchSafe, ItemsApart, DispatcherNext
  PROVE  ItemsApart' /\ (OneSmsPerTask => OneSmsPerTask')
<1>a. DOMAIN disp = {"round", "pc", "todo", "cur", "sent", "skipped", "raised", "dirty", "seen"}
  BY DEF DispatcherTypeOK
<1>b. \A l \in Leads : Nurtures(l) \in Nat /\ nurtured[l] \in Nat
  BY NurturesTyped
<1>c. ASSUME UNCHANGED <<task, nurtured>>, disp'.sent = disp.sent
      PROVE  OneSmsPerTask => OneSmsPerTask'
  BY <1>c DEF OneSmsPerTask, Nurtures, NurtureItem
<1>1. CASE Pick
  <2>1. /\ disp.pc = "idle" /\ disp'.pc = "next" /\ disp'.sent = disp.sent
        /\ disp'.skipped = disp.skipped /\ disp'.raised = disp.raised
        /\ UNCHANGED <<task, nurtured>>
    BY <1>a, <1>1 DEF Pick
  <2>2. Done = {}
    BY <2>1 DEF DispatchSafe, RoundStartsEmpty, Done
  <2> QED
    BY <1>c, <2>1, <2>2 DEF ItemsApart, Done
<1>2. CASE SkipRound
  <2>1. /\ disp.pc = "idle" /\ disp'.pc = "idle" /\ disp'.sent = {} /\ disp'.todo = {}
        /\ disp'.skipped = {} /\ disp'.raised = {} /\ UNCHANGED <<task, nurtured>>
    BY <1>2 DEF SkipRound, StoreRests, Waiting
  <2>2. disp.sent = {}
    BY <2>1 DEF DispatchSafe, RoundStartsEmpty
  <2> QED
    BY <1>c, <2>1, <2>2 DEF ItemsApart, Done
<1>3. ASSUME NEW i \in Items, TakeItem(i)
      PROVE  ItemsApart' /\ (OneSmsPerTask => OneSmsPerTask')
  <2>1. /\ i \in disp.todo /\ disp'.pc = "item" /\ disp'.cur = i /\ disp'.sent = disp.sent
        /\ disp'.skipped = disp.skipped /\ disp'.raised = disp.raised
        /\ disp'.todo = disp.todo \ {i} /\ UNCHANGED <<task, nurtured>>
    BY <1>a, <1>3 DEF TakeItem
  <2> QED
    BY <1>c, <2>1 DEF ItemsApart, Done
<1>4. CASE Send \/ SendFails
  <2>1. /\ disp.pc = "item" /\ disp'.pc = "next" /\ disp'.sent = disp.sent \cup {disp.cur}
        /\ disp'.skipped = disp.skipped /\ disp'.raised = disp.raised
        /\ disp'.todo = disp.todo /\ task' = task
    BY <1>a, <1>4 DEF Send, SendFails, RecordSent, StoreRests
  <2>2. disp.cur \notin disp.todo \cup Done
    BY <2>1 DEF ItemsApart
  <2>3. ItemsApart'
    BY <2>1, <2>2 DEF ItemsApart, Done
  <2>4. ASSUME OneSmsPerTask, NEW l \in Leads
        PROVE  nurtured'[l] <= Nurtures(l) + (IF NurtureItem(l) \in disp'.sent THEN 1 ELSE 0)
    <3>1. disp.cur = NurtureItem(l) <=> disp.cur[1] = "cold_nurture" /\ disp.cur[2] = l
      <4>1. disp.cur \in (TaskTypes \cup Reminders) \X Leads
        BY <2>1 DEF DispatchSafe, ItemLoaded, Items
      <4> QED
        BY <4>1 DEF NurtureItem
    <3>2. CASE disp.cur = NurtureItem(l)
      <4>1. nurtured'[l] <= nurtured[l] + 1 /\ nurtured'[l] \in Nat
        BY <1>4, <1>b, <3>1, <3>2 DEF Send, SendFails, DispatcherTypeOK
      <4>2. nurtured[l] <= Nurtures(l)
        BY <1>b, <2>2, <2>4, <3>2 DEF OneSmsPerTask, Done
      <4> QED
        BY <1>b, <2>1, <3>2, <4>1, <4>2
    <3>3. CASE disp.cur # NurtureItem(l)
      <4>1. nurtured'[l] = nurtured[l]
        BY <1>4, <3>1, <3>3 DEF Send, SendFails, DispatcherTypeOK
      <4>2. NurtureItem(l) \in disp'.sent <=> NurtureItem(l) \in disp.sent
        BY <2>1, <3>3
      <4> QED
        BY <2>4, <4>1, <4>2 DEF OneSmsPerTask
    <3> QED
      BY <3>2, <3>3
  <2> QED
    BY <2>1, <2>3, <2>4 DEF OneSmsPerTask, Nurtures, NurtureItem
<1>5. CASE Skip \/ Raise
  <2>1. /\ disp.pc = "item" /\ disp'.pc = "next"
        /\ disp'.sent = disp.sent /\ disp'.todo = disp.todo
        /\ \/ disp'.skipped \in {disp.skipped, disp.skipped \cup {disp.cur}} /\ disp'.raised = disp.raised
           \/ disp'.skipped = disp.skipped /\ disp'.raised = disp.raised \cup {disp.cur}
        /\ UNCHANGED <<task, nurtured>>
    BY <1>a, <1>5 DEF Skip, Raise, StoreRests
  <2>2. disp.cur \notin disp.todo \cup Done
    BY <2>1 DEF ItemsApart
  <2> QED
    BY <1>c, <2>1, <2>2 DEF ItemsApart, Done
<1>6. CASE CommitRound
  <2>1. /\ disp'.pc = "idle" /\ disp'.sent = {} /\ disp'.todo = {}
        /\ disp'.skipped = {} /\ disp'.raised = {} /\ nurtured' = nurtured
    BY <1>6 DEF CommitRound, Waiting
  <2>2. ASSUME NEW l \in Leads
        PROVE  /\ Nurtures(l)' \in Nat
               /\ Nurtures(l)' = Nurtures(l) + (IF NurtureItem(l) \in disp.sent THEN 1 ELSE 0)
    <3> DEFINE t == task[l]["cold_nurture"]
    <3>1. t \in TaskRecords /\ t.sent \in Nat
      BY NurturesTyped DEF TaskRecords
    <3>2. task'[l]["cold_nurture"] = TaskAfter(t, NurtureItem(l))
      BY <1>6, NurturesTyped DEF CommitRound, NurtureItem
    <3>3. TaskAfter(t, NurtureItem(l)).sent
            = t.sent + (IF NurtureItem(l) \in disp.sent THEN 1 ELSE 0)
      <4> DEFINE i == NurtureItem(l)
                 textd == [t EXCEPT !.status = "sent", !.sent = @ + 1]
                 skipd == [t EXCEPT !.status = "skipped"]
                 tried == [t EXCEPT !.attempts = @ + 1,
                             !.status = IF t.attempts + 1 >= MaxAttempts THEN "failed" ELSE @]
      <4>1. textd.sent = t.sent + 1 /\ skipd.sent = t.sent /\ tried.sent = t.sent
        BY <3>1 DEF TaskRecords
      <4>2. \/ i \in disp.sent /\ TaskAfter(t, i) = textd
            \/ i \in disp.skipped /\ TaskAfter(t, i) = skipd
            \/ i \in disp.raised /\ TaskAfter(t, i) = tried
            \/ i \notin disp.sent /\ TaskAfter(t, i) = t
        BY TaskAfterCases
      <4> HIDE DEF i, textd, skipd, tried
      <4>3. i \in disp.sent => i \notin disp.skipped /\ i \notin disp.raised
        BY DEF ItemsApart
      <4>4. TaskAfter(t, i).sent = t.sent + (IF i \in disp.sent THEN 1 ELSE 0)
        BY <3>1, <4>1, <4>2, <4>3
      <4> QED
        BY <4>4 DEF i
    <3> QED
      BY <3>1, <3>2, <3>3 DEF Nurtures
  <2>3. OneSmsPerTask => OneSmsPerTask'
    BY <1>b, <2>1, <2>2 DEF OneSmsPerTask
  <2> QED
    BY <2>1, <2>3 DEF ItemsApart, Done
<1> QED
  BY <1>1, <1>2, <1>3, <1>4, <1>5, <1>6 DEF DispatcherNext

LEMMA SmsStep ==
  ASSUME PipelineInv, ItemsApart, PipelineNext
  PROVE  ItemsApart' /\ (OneSmsPerTask /\ ~LosesRound => OneSmsPerTask')
<1> USE DEF PipelineInv, PipelineTypeOK, TypeOK
<1>1. CASE WebStep
  BY <1>1, WebFrames, WebAddsNoTasks, NoNewNurtures, SmsRests DEF WebStep, workerVars,
    StopsTakeTasks
<1>2. CASE ManagerStep
  BY <1>2, ManagerNurtures, SmsRests DEF ManagerStep
<1>3. CASE DispatcherStep
  BY <1>3, RoundTextsOnce DEF DispatcherStep
<1>4. CASE BackgroundStep
  <2>1. /\ NurturesStay /\ nurtured' = nurtured
        /\ disp' = disp \/ disp' = Waiting("followups")
    <3>1. task' = task /\ (disp' = disp \/ disp' = Waiting("followups"))
      BY <1>4, BackgroundFrames DEF BackgroundFrame
    <3>2. nurtured' = nurtured
      BY <1>4, DeadlockAborts DEF BackgroundStep, AbortStop, AbortManager, AbortDispatcher,
        RollBackPhase, RollBackRound, WorkerCrash, LeadAges, AppointmentNears, workerVars
    <3> QED
      BY <3>1, <3>2, NurturesTyped DEF NurturesStay, Nurtures
  <2>2. CASE disp' = disp
    BY <2>1, <2>2, SmsRests
  <2>3. CASE disp' = Waiting("followups")
    <3>1. ItemsApart' /\ disp'.pc = "idle" /\ disp'.sent = {}
      BY <2>3 DEF Waiting, ItemsApart, Done
    <3>2. CASE disp.pc = "idle"
      <4>1. disp.sent = {}
        BY <3>2 DEF DispatchSafe, RoundStartsEmpty
      <4>2. ASSUME OneSmsPerTask, NEW l \in Leads
            PROVE  nurtured[l] <= Nurtures(l)' + 0
        BY <2>1, <4>1, <4>2, NurturesTyped DEF OneSmsPerTask, NurturesStay
      <4> QED
        BY <2>1, <3>1, <4>2 DEF OneSmsPerTask
    <3>3. CASE CommitRound
      BY <3>3, RoundTextsOnce DEF DispatcherNext
    <3> QED
      BY <3>1, <3>2, <3>3 DEF LosesRound
  <2> QED
    BY <2>1, <2>2, <2>3
<1> QED
  BY <1>1, <1>2, <1>3, <1>4 DEF PipelineNext, BackgroundStep

(* sms_dispatch.py:168-181, 331-345, 455-482: a row that a round picked is  *)
(* texted for, skipped or counted as a failed attempt, never two of these,  *)
(* and never worked on twice before the commit.                             *)
THEOREM ItemsHaveOneOutcome == PipelineSpec => []ItemsApart
<1>1. PipelineInit => ItemsApart
  BY DEF PipelineInit, DispatcherInit, Waiting, ItemsApart, Done
<1>2. PipelineInv /\ ItemsApart /\ [PipelineNext]_pipelineVars => ItemsApart'
  BY SmsStep DEF pipelineVars, workerVars, ItemsApart, Done
<1> QED
  BY <1>1, <1>2, PipelineInvariant, PTL DEF PipelineSpec

(* sms_dispatch.py:144-181: a nurture task is texted for once, whatever     *)
(* raises or is skipped beside it, unless a round loses its records: then   *)
(* its rows are picked, and their leads texted, again.                      *)
THEOREM NurtureTasksTextOnce ==
  PipelineSpec /\ [][~LosesRound]_pipelineVars => []OneSmsPerTask
<1>1. PipelineInit => OneSmsPerTask
  BY NurturesTyped DEF PipelineInit, DispatcherInit, Init, StoreInit, NoTask, TaskTypes,
    OneSmsPerTask, Nurtures, Waiting
<1>2. PipelineInv /\ ItemsApart /\ OneSmsPerTask /\ [PipelineNext]_pipelineVars
        /\ [~LosesRound]_pipelineVars => OneSmsPerTask'
  <2>1. ASSUME OneSmsPerTask, UNCHANGED pipelineVars
        PROVE  OneSmsPerTask'
    BY <2>1 DEF pipelineVars, workerVars, vars, storeVars, OneSmsPerTask, Nurtures
  <2> QED
    BY <2>1, SmsStep
<1> QED
  BY <1>1, <1>2, ItemsHaveOneOutcome, PipelineInvariant, PTL DEF PipelineSpec

-----------------------------------------------------------------------------
(* The rows of the workers.  The manager holds the leads it has flushed in  *)
(* this phase, the dispatcher rows of this round, and of leads only those   *)
(* it has changed.                                                          *)
WorkerRowsInRounds ==
  /\ \A r \in Rows : lockedBy[r] = Manager =>
       mgr.pc = "flush" /\ \E l \in mgr.flushed : r = LeadRow(l)
  /\ \A r \in Rows : lockedBy[r] = Dispatcher => disp.pc # "idle"
  /\ \A l \in Leads : lockedBy[LeadRow(l)] = Dispatcher => l \in disp.dirty

KeepsRowsOf(t) == \A r \in Rows : lockedBy'[r] = t <=> lockedBy[r] = t

LEMMA RowsOfLeads ==
  /\ \A l \in Leads : LeadRow(l) \in Rows
  /\ \A l, m \in Leads : LeadRow(l) = LeadRow(m) => l = m
  /\ \A i \in Items, l \in Leads : ItemRow(i) # LeadRow(l)
<1>1. /\ \A l \in Leads : LeadRow(l) \in Rows
      /\ \A l, m \in Leads : LeadRow(l) = LeadRow(m) => l = m
  BY LeadRows
<1>2. ASSUME NEW i \in Items, NEW l \in Leads
      PROVE  ItemRow(i) # LeadRow(l)
  <2>1. LeadRow(l)[1] = "lead"
    BY DEF LeadRow
  <2>2. CASE i[1] \in TaskTypes
    <3>1. ItemRow(i)[1] = i[1] /\ i[1] # "lead"
      BY <2>2 DEF ItemRow, TaskRow, TaskTypes
    <3> QED
      BY <2>1, <3>1
  <2>3. CASE i[1] \notin TaskTypes
    <3>1. ItemRow(i)[1] = "booking"
      BY <2>3 DEF ItemRow, BookingRow
    <3> QED
      BY <2>1, <3>1
  <2> QED
    BY <2>2, <2>3
<1> QED
  BY <1>1, <1>2

LEMMA WebKeepsWorkersRows ==
  ASSUME TypeOK, StopHoldsTasks, ConductorNext
  PROVE  KeepsRowsOf(Manager) /\ KeepsRowsOf(Dispatcher)
BY WebFrames DEF WebFrame, KeepsRowsOf

LEMMA RowsOfManagerStep ==
  ASSUME StoreTypeOK, ManagerTypeOK, WorkerRowsInRounds, ManagerNext, disp' = disp
  PROVE  WorkerRowsInRounds'
<1>1. KeepsRowsOf(Dispatcher)
  BY ManagerFrames, SessionsDiffer DEF ManagerFrame, OnlyOwnRows, KeepsRowsOf
<1>2. ASSUME NEW r \in Rows, lockedBy'[r] = Manager
      PROVE  mgr'.pc = "flush" /\ \E l \in mgr'.flushed : r = LeadRow(l)
  <2>1. CASE SelectLeads \/ NothingSelected \/ ArchiveOld
    <3>1. mgr.pc = "idle" /\ lockedBy' = lockedBy
      BY <2>1 DEF SelectLeads, NothingSelected, ArchiveOld, StoreRests
    <3> QED
      BY <1>2, <3>1 DEF WorkerRowsInRounds
  <2>2. CASE CommitPhase
    BY <1>2, <2>2, SessionsDiffer DEF CommitPhase, Unlocked
  <2>3. ASSUME NEW l \in Leads, FlushLead(l)
        PROVE  mgr'.pc = "flush" /\ \E m \in mgr'.flushed : r = LeadRow(m)
    <3>1. mgr.pc = "flush" /\ mgr'.pc = "flush" /\ mgr'.flushed = mgr.flushed \cup {l}
      BY <2>3 DEF FlushLead, ManagerTypeOK
    <3>2. r = LeadRow(l) \/ lockedBy[r] = Manager
      BY <1>2, <2>3 DEF FlushLead, Locked
    <3> QED
      BY <3>1, <3>2 DEF WorkerRowsInRounds
  <2> QED
    BY <2>1, <2>2, <2>3 DEF ManagerNext
<1>3. /\ \A r \in Rows : lockedBy'[r] = Dispatcher => disp.pc # "idle"
      /\ \A l \in Leads : lockedBy'[LeadRow(l)] = Dispatcher => l \in disp.dirty
  BY <1>1, RowsOfLeads DEF KeepsRowsOf, WorkerRowsInRounds
<1> QED
  BY <1>2, <1>3 DEF WorkerRowsInRounds

LEMMA RowsOfDispatcherStep ==
  ASSUME StoreTypeOK, DispatcherTypeOK, DispatchSafe, WorkerRowsInRounds, DispatcherNext,
         mgr' = mgr
  PROVE  WorkerRowsInRounds'
<1> DEFINE Held == /\ \A r \in Rows : lockedBy'[r] = Dispatcher => disp'.pc # "idle"
                   /\ \A l \in Leads : lockedBy'[LeadRow(l)] = Dispatcher => l \in disp'.dirty
<1>a. DOMAIN disp = {"round", "pc", "todo", "cur", "sent", "skipped", "raised", "dirty", "seen"}
  BY DEF DispatcherTypeOK
<1>b. KeepsRowsOf(Manager)
  BY DispatcherFrames, SessionsDiffer DEF DispatcherFrame, OnlyOwnRows, KeepsRowsOf
<1>c. \A r \in Rows : lockedBy'[r] = Manager =>
        mgr.pc = "flush" /\ \E l \in mgr.flushed : r = LeadRow(l)
  BY <1>b DEF KeepsRowsOf, WorkerRowsInRounds
<1>1. ASSUME Pick
      PROVE  Held
  <2>1. PICK picked \in SUBSET Due(disp.round) :
          /\ disp' = [disp EXCEPT !.pc = "next", !.todo = picked]
          /\ lockedBy' = Locked(Dispatcher, {ItemRow(i) : i \in picked})
    BY <1>1 DEF Pick
  <2>2. disp'.pc = "next" /\ disp'.dirty = disp.dirty
    BY <1>a, <2>1
  <2>3. picked \subseteq Items
    BY <2>1, DueTasks DEF DispatcherTypeOK
  <2>4. \A l \in Leads : LeadRow(l) \in Rows /\ LeadRow(l) \notin {ItemRow(i) : i \in picked}
    BY <2>3, RowsOfLeads
  <2>5. \A l \in Leads : lockedBy'[LeadRow(l)] = lockedBy[LeadRow(l)]
    BY <2>1, <2>4 DEF Locked
  <2> QED
    BY <2>2, <2>5 DEF WorkerRowsInRounds
<1>2. ASSUME SkipRound
      PROVE  Held
  <2>1. disp.pc = "idle" /\ lockedBy' = lockedBy
    BY <1>2 DEF SkipRound, StoreRests
  <2>2. \A r \in Rows : lockedBy[r] # Dispatcher
    BY <2>1 DEF WorkerRowsInRounds
  <2> QED
    BY <2>1, <2>2, RowsOfLeads
<1>3. ASSUME NEW i \in Items, TakeItem(i)
      PROVE  Held
  <2> DEFINE flushed == IF ~disp.seen[i[2]].loaded THEN disp.dirty ELSE {}
             rs == {LeadRow(m) : m \in flushed}
  <2>1. /\ disp.pc = "next" /\ lockedBy' = Locked(Dispatcher, rs)
        /\ disp'.pc = "item" /\ disp'.dirty = disp.dirty
    BY <1>a, <1>3 DEF TakeItem
  <2>2. flushed \subseteq disp.dirty /\ disp.dirty \subseteq Leads
    BY DEF DispatcherTypeOK
  <2>3. ASSUME NEW l \in Leads, lockedBy'[LeadRow(l)] = Dispatcher
        PROVE  l \in disp.dirty
    <3>1. LeadRow(l) \in rs \/ lockedBy[LeadRow(l)] = Dispatcher
      BY <2>1, <2>3, RowsOfLeads DEF Locked
    <3> QED
      BY <2>2, <3>1, RowsOfLeads DEF WorkerRowsInRounds
  <2> QED
    BY <2>1, <2>3
<1>4. ASSUME Send \/ SendFails \/ Skip \/ Raise
      PROVE  Held
  <2>a. lockedBy' = lockedBy
    BY <1>4 DEF Send, SendFails, Skip, Raise, StoreRests
  <2>b. ASSUME RecordSent
        PROVE  disp'.pc = "next" /\ disp.dirty \subseteq disp'.dirty
    BY <1>a, <2>b DEF RecordSent
  <2>c. ASSUME Skip \/ Raise
        PROVE  disp'.pc = "next" /\ disp'.dirty = disp.dirty
    BY <1>a, <2>c DEF Skip, Raise
  <2>1. disp'.pc = "next" /\ disp.dirty \subseteq disp'.dirty /\ lockedBy' = lockedBy
    BY <1>4, <2>a, <2>b, <2>c DEF Send, SendFails
  <2> QED
    BY <2>1 DEF WorkerRowsInRounds
<1>5. ASSUME CommitRound
      PROVE  Held
  BY <1>5, RowsOfLeads, SessionsDiffer DEF CommitRound, Unlocked
<1>6. Held
  BY <1>1, <1>2, <1>3, <1>4, <1>5 DEF DispatcherNext
<1> QED
  BY <1>c, <1>6 DEF WorkerRowsInRounds

LEMMA WorkerRowsStep ==
  ASSUME PipelineInv, WorkerRowsInRounds, PipelineNext
  PROVE  WorkerRowsInRounds'
<1> USE DEF PipelineInv, PipelineTypeOK, TypeOK
<1>a. ASSUME KeepsRowsOf(Manager), KeepsRowsOf(Dispatcher), UNCHANGED <<mgr, disp>>
      PROVE  WorkerRowsInRounds'
  BY <1>a, RowsOfLeads DEF KeepsRowsOf, WorkerRowsInRounds
<1>1. CASE WebStep
  BY <1>1, <1>a, WebKeepsWorkersRows DEF WebStep, workerVars, StopsTakeTasks
<1>2. CASE ManagerStep
  BY <1>2, RowsOfManagerStep DEF ManagerStep
<1>3. CASE DispatcherStep
  BY <1>3, RowsOfDispatcherStep DEF DispatcherStep
<1>4. ASSUME NEW p \in Web, AbortStop(p)
      PROVE  WorkerRowsInRounds'
  <2>1. OnlyOwnRows(p)
    BY <1>4, WorkerRows, SessionsDiffer DEF AbortStop
  <2>2. KeepsRowsOf(Manager) /\ KeepsRowsOf(Dispatcher)
    BY <2>1, SessionsDiffer DEF OnlyOwnRows, KeepsRowsOf
  <2> QED
    BY <1>4, <1>a, <2>2 DEF AbortStop, workerVars
<1>5. CASE AbortManager
  <2>1. /\ KeepsRowsOf(Dispatcher) /\ disp' = disp
        /\ \A r \in Rows : lockedBy'[r] # Manager
    BY <1>5, SessionsDiffer DEF AbortManager, RollBackPhase, Unlocked, KeepsRowsOf
  <2> QED
    BY <2>1, RowsOfLeads DEF KeepsRowsOf, WorkerRowsInRounds
<1>6. CASE AbortDispatcher
  <2>1. /\ KeepsRowsOf(Manager) /\ mgr' = mgr
        /\ \A r \in Rows : lockedBy'[r] # Dispatcher
    BY <1>6, SessionsDiffer DEF AbortDispatcher, RollBackRound, Unlocked, KeepsRowsOf
  <2> QED
    BY <2>1, RowsOfLeads DEF KeepsRowsOf, WorkerRowsInRounds
<1>7. CASE WorkerCrash
  <2>1. \A r \in Rows : lockedBy'[r] # Manager /\ lockedBy'[r] # Dispatcher
    BY <1>7, SessionsDiffer DEF WorkerCrash
  <2> QED
    BY <2>1, RowsOfLeads DEF WorkerRowsInRounds
<1>8. ASSUME NEW l \in Leads, LeadAges(l) \/ AppointmentNears(l)
      PROVE  WorkerRowsInRounds'
  BY <1>8, <1>a DEF LeadAges, AppointmentNears, workerVars, KeepsRowsOf
<1> QED
  BY <1>1, <1>2, <1>3, <1>4, <1>5, <1>6, <1>7, <1>8, DeadlockAborts DEF PipelineNext

(* lead_state_manager.py:106-132, sms_dispatch.py:146-181 (a session for    *)
(* each phase): no commit, deadlock or restart leaves a row locked by a     *)
(* worker that is between two rounds.                                       *)
THEOREM WorkersFreeTheirRows == PipelineSpec => []WorkerRowsInRounds
<1>1. PipelineInit => WorkerRowsInRounds
  BY RowsOfLeads, SessionsDiffer DEF PipelineInit, Init, StoreInit, WorkerRowsInRounds
<1>2. PipelineInv /\ WorkerRowsInRounds /\ [PipelineNext]_pipelineVars => WorkerRowsInRounds'
  <2>1. ASSUME WorkerRowsInRounds, UNCHANGED pipelineVars
        PROVE  WorkerRowsInRounds'
    BY <2>1 DEF pipelineVars, workerVars, vars, storeVars, WorkerRowsInRounds
  <2> QED
    BY <2>1, WorkerRowsStep
<1> QED
  BY <1>1, <1>2, PipelineInvariant, PTL DEF PipelineSpec

(* conductor.py:371-376: and the row of a lead is held by a request only    *)
(* between its flush and its commit on that lead, also beside the workers.  *)
THEOREM PipelineRowLocksAreInTransactions == PipelineSpec => []RowLocksInTransaction
<1>1. PipelineInv => RowLocksInTransaction
  BY SafeRowLocks DEF PipelineInv
<1> QED
  BY <1>1, PipelineInvariant, PTL

=============================================================================
