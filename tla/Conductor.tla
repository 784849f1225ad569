------------------------------ MODULE Conductor ------------------------------
(***************************************************************************)
(* The web side of the lead pipeline: src/agents/conductor.py behind the   *)
(* webhooks of src/api/webhooks.py, and the two dashboard endpoints that   *)
(* write a lead's state or text a lead (src/api/dash_leads.py).            *)
(*                                                                         *)
(* A request is a record web[p]; its pc names the await it is suspended    *)
(* at.  Four kinds of request:                                             *)
(*                                                                         *)
(*   new lead  idle -> create -> check -> greet -> greeted -> idle         *)
(*   STOP      idle -> stop -> stopping -> cancelling -> idle              *)
(*   reply     idle -> lock -> route -> send -> commit -> release -> idle  *)
(*   manual    idle -> manual -> idle                                      *)
(*                                                                         *)
(* What the AI agents, the clock (quiet hours) and the carrier decide is   *)
(* chosen nondeterministically among the outcomes the code handles.  The   *)
(* text of messages, scores, costs and the event log are left out.         *)
(***************************************************************************)
EXTENDS LeadStore

CONSTANTS
  Orphan, MaxPolls,          \* see LeadLock
  Faults,                    \* what may go wrong: those of LeadLock,
                             \* "carrier", a transient error of the carrier,
                             \* "restart", of the worker process
  Sources,                   \* the lead sources (LeadEnvelope.source)
  MaxTurns,                  \* settings.max_conversation_turns
  Appointments,              \* [when, windowed]: what the agent may book
  Dashboard                  \* which of its endpoints are used: a subset of
                             \* {"status", "archive", "reply"}

ASSUME ConductorConstants ==
  /\ MaxTurns \in Nat
  /\ MaxPolls \in Nat
  /\ Appointments \subseteq [when : {Later, Tomorrow, Today}, windowed : BOOLEAN]
  /\ Orphan \notin Sessions
  /\ Orphan # NoProc

VARIABLES
  web,       \* the requests in progress
  key, at, want, polls,  \* the lead locks in Redis (LeadLock)
  dedup,     \* the sources whose deduplication key is set in Redis
  retries,   \* the leads an sms_retry task was queued for
  heard      \* inbound replies recorded in conversations, per lead

Lock == INSTANCE LeadLock WITH Procs <- Web

lockVars == <<key, at, want, polls>>
edgeVars == <<dedup, retries, heard>>
conductorVars == <<web, lockVars, edgeVars>>
vars == <<storeVars, conductorVars>>

-----------------------------------------------------------------------------
(* What a request holds between two awaits: the lead it works on, the state *)
(* and turn count it loaded, the state it assigned, whether it added a      *)
(* Booking, whether the consent it read was clear of an opt-out, and the    *)
(* types of the tasks a STOP's UPDATE has yet to cancel.                    *)
Resting == [pc |-> "idle", lead |-> 1, state |-> "new", turn |-> 0,
            new |-> "new", books |-> FALSE, clear |-> FALSE, doomed |-> {}]

Places == {"idle", "create", "check", "greet", "greeted", "stop", "stopping",
           "cancelling", "lock", "route", "send", "commit", "release", "manual"}

Requests ==
  [pc : Places, lead : Leads, state : States, turn : Nat, new : States,
   books : BOOLEAN, clear : BOOLEAN, doomed : SUBSET TaskTypes]

ConductorTypeOK ==
  /\ web \in [Web -> Requests]
  /\ Lock!LockTypeOK
  /\ dedup \subseteq Sources
  /\ retries \subseteq Leads
  /\ heard \in [Leads -> Nat]

TypeOK == StoreTypeOK /\ ConductorTypeOK

ConductorInit ==
  /\ web = [p \in Web |-> Resting]
  /\ key = [l \in Leads |-> NoProc]
  /\ at = [p \in Web |-> "out"]
  /\ want = [p \in Web |-> 1]
  /\ polls = [p \in Web |-> 0]
  /\ dedup = {}
  /\ retries = {}
  /\ heard = [l \in Leads |-> 0]

Idle(p) == web[p].pc = "idle"
At(p, pc) == web[p].pc = pc
Go(p, pc) == web' = [web EXCEPT ![p].pc = pc]
Finish(p) == web' = [web EXCEPT ![p] = Resting]

(* Only the lead and the place matter from here on.                         *)
Forget(p, pc) ==
  web' = [web EXCEPT ![p] = [Resting EXCEPT !.pc = pc, !.lead = web[p].lead]]

(* Request p loads lead l and is then suspended at pc.                      *)
Load(p, l, pc) ==
  web' = [web EXCEPT ![p] = [Resting EXCEPT !.pc = pc, !.lead = l,
            !.state = lead[l].state, !.turn = lead[l].turn,
            !.new = lead[l].state]]

(* An UPDATE of leads.state, and the state request p writes.                *)
WithState(l, s) == [lead EXCEPT ![l] = [@ EXCEPT !.state = s, !.age = Fresh]]
StateOf(p) == Written(web[p].state, web[p].new, lead[web[p].lead].state)

(* Replies of lead l that have been recorded or are on their way.           *)
InReply(p, l) == web[p].lead = l /\ web[p].pc \in {"lock", "route", "send", "commit"}
RepliesSoFar(l) == heard[l] + Cardinality({p \in Web : InReply(p, l)})

-----------------------------------------------------------------------------
(* New leads: handle_new_lead.                                              *)

(* Bound: no new lead is submitted once MaxLeads exist or are on their way. *)
RoomForLead == created + Cardinality({p \in Web : web[p].pc = "create"}) < MaxLeads

(* A lead form or a first text arrives.  SET NX sets the deduplication key, *)
(* or Redis fails and the lead counts as new.                               *)
SubmitLead(p, src) ==
  /\ Idle(p)
  /\ RoomForLead
  /\ src \notin dedup \/ "redis" \in Faults
  /\ \/ dedup' = dedup \cup {src}
     \/ "redis" \in Faults /\ dedup' = dedup
  /\ Go(p, "create")
  /\ StoreRests
  /\ UNCHANGED <<lockVars, retries, heard>>

(* The key is there: the acknowledgement goes out with no check of any      *)
(* kind, and nothing is recorded.                                           *)
AcknowledgeDuplicate(p, src) ==
  /\ Idle(p)
  /\ src \in dedup
  /\ created > 0
  /\ wire' = Sms(created, "duplicate_ack")
  /\ UNCHANGED <<created, lead, optedOut, booking, task, lockedBy,
                 conductorVars>>

DedupExpires(src) ==
  /\ src \in dedup
  /\ RoomForLead
  /\ dedup' = dedup \ {src}
  /\ StoreRests
  /\ UNCHANGED <<web, lockVars, retries, heard>>

(* No client, or its monthly lead limit is reached.                         *)
RejectLead(p) ==
  /\ At(p, "create")
  /\ Finish(p)
  /\ StoreRests
  /\ UNCHANGED <<lockVars, edgeVars>>

(* The first commit: consent record and lead in state "new".                *)
CreateLead(p) ==
  /\ At(p, "create")
  /\ created < MaxLeads
  /\ created' = created + 1
  /\ lead' = [lead EXCEPT ![created + 1] = NewLead]
  /\ web' = [web EXCEPT ![p] = [Resting EXCEPT !.pc = "check", !.lead = created + 1]]
  /\ wire' = NoSms
  /\ UNCHANGED <<optedOut, booking, task, lockedBy, lockVars, edgeVars>>

(* The opt-outs of the phone's other consent records, read after the first  *)
(* commit.                                                                  *)
PriorOptOut(l) == \E m \in Leads : m # l /\ optedOut[m]

PassCompliance(p) ==
  /\ At(p, "check")
  /\ ~PriorOptOut(web[p].lead)
  /\ Go(p, "greet")
  /\ StoreRests
  /\ UNCHANGED <<lockVars, edgeVars>>

(* Prior opt-out, quiet hours or template content: the lead stays "new".    *)
BlockLead(p) ==
  /\ At(p, "check")
  /\ Finish(p)
  /\ StoreRests
  /\ UNCHANGED <<lockVars, edgeVars>>

Greet(p) ==
  /\ At(p, "greet")
  /\ Go(p, "greeted")
  /\ wire' = Sms(web[p].lead, "intake")
  /\ UNCHANGED <<created, lead, optedOut, booking, task, lockedBy, lockVars, edgeVars>>

(* The carrier refuses for now: the sms_retry task is committed in a        *)
(* session of its own.  A permanent failure queues nothing.                 *)
GreetFails(p) ==
  /\ At(p, "greet")
  /\ Go(p, "greeted")
  /\ \/ retries' = retries
     \/ "carrier" \in Faults /\ retries' = retries \cup {web[p].lead}
  /\ StoreRests
  /\ UNCHANGED <<lockVars, dedup, heard>>

(* The second commit writes state "intake_sent" over whatever is there.     *)
FinishGreeting(p) ==
  LET l == web[p].lead IN
  /\ At(p, "greeted")
  /\ CanLock(p, LeadRow(l))
  /\ lead' = WithState(l, Written("new", "intake_sent", lead[l].state))
  /\ Finish(p)
  /\ wire' = NoSms
  /\ UNCHANGED <<created, optedOut, booking, task, lockedBy, lockVars, edgeVars>>

-----------------------------------------------------------------------------
(* STOP: twilio_sms_webhook, is_stop_keyword, _handle_opt_out.              *)

(* A STOP reaches the phone's most recent lead.                             *)
ReceiveStop(p) ==
  /\ Idle(p)
  /\ created > 0
  /\ Load(p, created, "stop")
  /\ StoreRests
  /\ UNCHANGED <<lockVars, dedup, retries, heard>>

(* lead.state is flushed before the followup_tasks UPDATE runs.             *)
FlushStop(p) ==
  LET l == web[p].lead IN
  /\ At(p, "stop")
  /\ CanLock(p, LeadRow(l))
  /\ lockedBy' = Locked(p, {LeadRow(l)})
  /\ web' = [web EXCEPT ![p].pc = "stopping", ![p].new = "opted_out"]
  /\ wire' = NoSms
  /\ UNCHANGED <<created, lead, optedOut, booking, task, lockVars, edgeVars>>

(* The UPDATE of followup_tasks starts: it works on the tasks that are      *)
(* committed and pending now.  One that is committed later, before the      *)
(* COMMIT of the STOP, is not among them.                                   *)
BeginCancel(p) ==
  /\ At(p, "stopping")
  /\ web' = [web EXCEPT ![p].pc = "cancelling", ![p].doomed = PendingTasks(web[p].lead)]
  /\ StoreRests
  /\ UNCHANGED <<lockVars, edgeVars>>

(* The UPDATE takes its rows one by one, waiting for the holder of each; a  *)
(* row that is no longer pending then is left alone.  (The next task of its *)
(* type counts as the same row.)                                            *)
CancelTask(p, k) ==
  /\ At(p, "cancelling")
  /\ k \in web[p].doomed
  /\ CanLock(p, TaskRow(web[p].lead, k))
  /\ web' = [web EXCEPT ![p].doomed = @ \ {k}]
  /\ lockedBy' = Locked(p, {TaskRow(web[p].lead, j) : j \in {k} \cap PendingTasks(web[p].lead)})
  /\ wire' = NoSms
  /\ UNCHANGED <<created, lead, optedOut, booking, task, lockVars, edgeVars>>

(* The one statement of the two (TLC counts it as one action: the web side  *)
(* alone has no task to take).                                              *)
UpdateTasks(p) ==
  /\ web[p].pc \in {"stopping", "cancelling"}
  /\ BeginCancel(p) \/ \E k \in TaskTypes : CancelTask(p, k)

TakenTasks(p, l) == {k \in TaskTypes : lockedBy[TaskRow(l, k)] = p}

(* Wrong: the consent record is left as it is. *)
CommitStopLeadOnly(p) ==
  LET l == web[p].lead IN
  /\ At(p, "cancelling")
  /\ web[p].doomed = {}
  /\ lead' = WithState(l, StateOf(p))
  /\ task' = Cancelled(l, TakenTasks(p, l))
  /\ lockedBy' = Unlocked(p)
  /\ Finish(p)
  /\ wire' = NoSms
  /\ UNCHANGED <<created, optedOut, booking, lockVars, edgeVars>>

(* One commit: the lead, its consent record and the rows the UPDATE took.   *)
CommitStop(p) ==
  LET l == web[p].lead IN
  /\ At(p, "cancelling")
  /\ web[p].doomed = {}
  /\ lead' = WithState(l, StateOf(p))
  /\ optedOut' = [optedOut EXCEPT ![l] = TRUE]
  /\ task' = Cancelled(l, TakenTasks(p, l))
  /\ lockedBy' = Unlocked(p)
  /\ Finish(p)
  /\ wire' = NoSms
  /\ UNCHANGED <<created, booking, lockVars, edgeVars>>

-----------------------------------------------------------------------------
(* Replies: handle_inbound_reply, _process_reply_locked.                    *)

(* The webhook loads the lead first and asks for its lock afterwards.       *)
ReceiveReply(p) ==
  /\ Idle(p)
  /\ created > 0
  /\ RepliesSoFar(created) < TurnCap
  /\ Load(p, created, "lock")
  /\ Lock!Request(p, created)
  /\ StoreRests
  /\ UNCHANGED edgeVars

EnterLock(p) ==
  /\ At(p, "lock")
  /\ Lock!Acquire(p) \/ Lock!ProceedUnlocked(p)
  /\ Go(p, "route")
  /\ StoreRests
  /\ UNCHANGED edgeVars

(* Wrong: the time waited so far is not compared with LOCK_WAIT_SECONDS.    *)
WaitTooLong(p) ==
  /\ At(p, "lock")
  /\ key[want[p]] # NoProc
  /\ polls' = [polls EXCEPT ![p] = @ + 1]
  /\ StoreRests
  /\ UNCHANGED <<web, key, at, want, edgeVars>>

WaitForLock(p) ==
  /\ At(p, "lock")
  /\ Lock!Poll(p)
  /\ StoreRests
  /\ UNCHANGED <<web, edgeVars>>

(* "lock_timeout" is answered and the reply is dropped.                     *)
GiveUpReply(p) ==
  /\ At(p, "lock")
  /\ Lock!TimeOut(p)
  /\ Finish(p)
  /\ StoreRests
  /\ UNCHANGED edgeVars

(* Cold and dead leads re-engage before the reply is routed.                *)
Reengaged(s) == IF s \in {"cold", "dead"} THEN "qualifying" ELSE s
Entry(p) == Reengaged(web[p].state)
AtTurnLimit(p) == web[p].turn + 1 > MaxTurns /\ Entry(p) \in {"qualifying", "booking"}

(* Wrong: the consent is read before the row lock is taken, not after. *)
FlushUnlocked(p, s, books) ==
  LET l == web[p].lead IN
  /\ CanLock(p, LeadRow(l))
  /\ books => booking[l].status = "none"
  /\ web' = [web EXCEPT ![p] = [@ EXCEPT !.pc = "send", !.new = s, !.books = books,
                                          !.clear = ~optedOut[l]]]
  /\ wire' = NoSms
  /\ UNCHANGED <<created, lead, optedOut, booking, task, lockedBy, lockVars, edgeVars>>

(* The agent has answered with state s: reading the consent record flushes  *)
(* the lead (row lock) and the Booking (unique lead_id) first.              *)
Flush(p, s, books) ==
  LET l == web[p].lead IN
  /\ CanLock(p, LeadRow(l))
  /\ books => booking[l].status = "none"
  /\ lockedBy' = Locked(p, {LeadRow(l)})
  /\ web' = [web EXCEPT ![p] = [@ EXCEPT !.pc = "send", !.new = s, !.books = books,
                                          !.clear = ~optedOut[l]]]
  /\ wire' = NoSms
  /\ UNCHANGED <<created, lead, optedOut, booking, task, lockVars, edgeVars>>

RouteTurnLimit(p) ==
  /\ At(p, "route")
  /\ AtTurnLimit(p)
  /\ Flush(p, "booking", FALSE)

(* ready_to_book, mark_cold, escalate_emergency (the state stays), others.  *)
RouteToQualify(p) ==
  /\ At(p, "route")
  /\ ~AtTurnLimit(p)
  /\ Entry(p) \notin {"qualified", "booking"}
  /\ \E s \in {"qualified", "cold", Entry(p), "qualifying"} : Flush(p, s, FALSE)

RouteToBook(p) ==
  /\ At(p, "route")
  /\ ~AtTurnLimit(p)
  /\ Entry(p) \in {"qualified", "booking"}
  /\ Flush(p, "booked", TRUE) \/ Flush(p, "booking", FALSE)

(* An exception before the reply is sent: an agent or a query fails, or a   *)
(* second Booking for the lead violates the unique key.  The session rolls  *)
(* back, the lock is released, the request ends in a 500.                   *)
RouteRaises(p) ==
  /\ At(p, "route")
  /\ Forget(p, "release")
  /\ StoreRests
  /\ UNCHANGED <<lockVars, edgeVars>>

SendReply(p) ==
  /\ At(p, "send")
  /\ web[p].clear
  /\ Go(p, "commit")
  /\ wire' = Sms(web[p].lead, "reply")
  /\ UNCHANGED <<created, lead, optedOut, booking, task, lockedBy, lockVars, edgeVars>>

(* Opted out, quiet hours, or the carrier failed: nothing goes out.         *)
WithholdReply(p) ==
  /\ At(p, "send")
  /\ Go(p, "commit")
  /\ StoreRests
  /\ UNCHANGED <<lockVars, edgeVars>>

(* Wrong: the Booking goes to the database later, on its own. *)
CommitReplyNoBooking(p) ==
  LET l == web[p].lead IN
  /\ At(p, "commit")
  /\ lead' = [WithState(l, StateOf(p)) EXCEPT ![l].turn = web[p].turn + 1]
  /\ heard' = [heard EXCEPT ![l] = @ + 1]
  /\ lockedBy' = Unlocked(p)
  /\ Forget(p, "release")
  /\ wire' = NoSms
  /\ UNCHANGED <<created, optedOut, task, booking, lockVars, dedup, retries>>

(* Wrong: flushed, but the transaction stays open.                          *)
CommitReplyKeepsRow(p) ==
  /\ At(p, "commit")
  /\ heard' = [heard EXCEPT ![web[p].lead] = @ + 1]
  /\ Forget(p, "release")
  /\ wire' = NoSms
  /\ UNCHANGED <<created, lead, optedOut, booking, task, lockedBy, lockVars, dedup, retries>>

(* One commit: inbound row, turn count, state, and the Booking.             *)
CommitReply(p) ==
  LET l == web[p].lead IN
  /\ At(p, "commit")
  /\ lead' = [WithState(l, StateOf(p)) EXCEPT ![l].turn = web[p].turn + 1]
  /\ heard' = [heard EXCEPT ![l] = @ + 1]
  /\ \/ ~web[p].books /\ UNCHANGED booking
     \/ /\ web[p].books
        /\ \E a \in Appointments :
             booking' = [booking EXCEPT ![l] = [NoBooking EXCEPT
               !.status = "confirmed", !.when = a.when, !.windowed = a.windowed]]
  /\ lockedBy' = Unlocked(p)
  /\ Forget(p, "release")
  /\ wire' = NoSms
  /\ UNCHANGED <<created, optedOut, task, lockVars, dedup, retries>>

ReleaseLock(p) ==
  /\ At(p, "release")
  /\ Lock!Release(p) \/ Lock!ReleaseFails(p)
  /\ Finish(p)
  /\ StoreRests
  /\ UNCHANGED edgeVars

-----------------------------------------------------------------------------
(* The dashboard: update_lead_status, archive_lead, reply_to_lead.          *)

DashboardStates == States \ {"intake_sent", "opted_out"}

SetStatus(l, s) ==
  /\ "status" \in Dashboard
  /\ Exists(l)
  /\ lockedBy[LeadRow(l)] = NoProc
  /\ lead' = WithState(l, s)
  /\ wire' = NoSms
  /\ UNCHANGED <<created, optedOut, booking, task, lockedBy, conductorVars>>

SetArchived(l, b) ==
  /\ "archive" \in Dashboard
  /\ Exists(l)
  /\ lockedBy[LeadRow(l)] = NoProc
  /\ lead' = [lead EXCEPT ![l] = [@ EXCEPT !.archived = b, !.age = Fresh]]
  /\ wire' = NoSms
  /\ UNCHANGED <<created, optedOut, booking, task, lockedBy, conductorVars>>

(* The manual reply looks at lead.state for the opt-out, not at consent.    *)
OpenManualReply(p, l) ==
  /\ "reply" \in Dashboard
  /\ Idle(p)
  /\ Exists(l)
  /\ lead[l].state # "opted_out"
  /\ web' = [web EXCEPT ![p] = [Resting EXCEPT !.pc = "manual", !.lead = l]]
  /\ StoreRests
  /\ UNCHANGED <<lockVars, edgeVars>>

(* The SMS goes out; then Conversation(twilio_sid=...) names a column the   *)
(* model does not have, the request raises and nothing is recorded.         *)
SendManualReply(p) ==
  /\ At(p, "manual")
  /\ wire' = Sms(web[p].lead, "manual")
  /\ Finish(p)
  /\ UNCHANGED <<created, lead, optedOut, booking, task, lockedBy, lockVars, edgeVars>>

-----------------------------------------------------------------------------
(* The environment.                                                         *)

LockExpires(l) ==
  /\ Lock!Expire(l)
  /\ StoreRests
  /\ UNCHANGED <<web, edgeVars>>

(* The web worker process dies: its transaction is rolled back, its Redis   *)
(* key stays until the TTL.                                                 *)
Crash(p) ==
  /\ "crash" \in Faults
  /\ ~Idle(p)
  /\ Lock!LockCrash(p) \/ (at[p] = "out" /\ UNCHANGED lockVars)
  /\ lockedBy' = Unlocked(p)
  /\ Finish(p)
  /\ wire' = NoSms
  /\ UNCHANGED <<created, lead, optedOut, booking, task, edgeVars>>

-----------------------------------------------------------------------------
NewLeadStep(p) ==
  \/ RejectLead(p) \/ CreateLead(p) \/ PassCompliance(p) \/ BlockLead(p)
  \/ Greet(p) \/ GreetFails(p) \/ FinishGreeting(p)

StopStep(p) == FlushStop(p) \/ UpdateTasks(p) \/ CommitStop(p)

ReplyStep(p) ==
  \/ EnterLock(p) \/ WaitForLock(p) \/ GiveUpReply(p)
  \/ RouteTurnLimit(p) \/ RouteToQualify(p) \/ RouteToBook(p) \/ RouteRaises(p)
  \/ SendReply(p) \/ WithholdReply(p) \/ CommitReply(p) \/ ReleaseLock(p)

(* A step of a request in progress.                                         *)
Proceed(p) == NewLeadStep(p) \/ StopStep(p) \/ ReplyStep(p) \/ SendManualReply(p)

Arrive(p) ==
  \/ \E src \in Sources : SubmitLead(p, src) \/ AcknowledgeDuplicate(p, src)
  \/ ReceiveStop(p) \/ ReceiveReply(p)
  \/ \E l \in Leads : OpenManualReply(p, l)

Environment ==
  \/ \E src \in Sources : DedupExpires(src)
  \/ \E l \in Leads, s \in DashboardStates : SetStatus(l, s)
  \/ \E l \in Leads, b \in BOOLEAN : SetArchived(l, b)
  \/ \E l \in Leads : LockExpires(l)

ConductorNext ==
  \/ \E p \in Web : Arrive(p) \/ Proceed(p) \/ Crash(p)
  \/ Environment

-----------------------------------------------------------------------------
Init == StoreInit /\ ConductorInit

(* A request in progress is run to its end by the web worker (awaits have   *)
(* time limits, row locks are waited for), and Redis expires keys.  Nothing *)
(* obliges anybody to start a request, to crash or to use the dashboard.    *)
(* The steps that wait for a row lock are strongly fair: PostgreSQL queues  *)
(* the sessions that wait for a row.  (A route may raise instead, for ever.)*)
TakesRowLock(p) ==
  FinishGreeting(p) \/ FlushStop(p) \/ \E k \in TaskTypes : CancelTask(p, k)

ConductorFairness ==
  /\ \A p \in Web : WF_vars(Proceed(p)) /\ SF_vars(TakesRowLock(p))
  /\ \A l \in Leads : WF_vars(LockExpires(l))

ConductorSpec == Init /\ [][ConductorNext]_vars /\ ConductorFairness

-----------------------------------------------------------------------------
(* conductor.py:471-491: a reply never leaves after the lead's STOP was     *)
(* committed.  The consent is read one await before the SMS is sent; what   *)
(* closes the gap is the row lock on the lead, which the STOP needs too.    *)
ReplyHonoursStop == wire.kind = "reply" => ~optedOut[wire.to]

(* conductor.py:747-758: a lead in state opted_out has an opted-out consent *)
(* record, whatever stale value a concurrent request writes back.           *)
OptedOutHasConsentRecord ==
  \A l \in Leads : lead[l].state = "opted_out" => optedOut[l]

(* A row lock belongs to a request that is between its flush and its        *)
(* commit on that very lead: no return path, exception or crash keeps one.  *)
(* That of a task row belongs to a STOP of its lead.                        *)
RowLocksInTransaction ==
  \A l \in Leads : \A p \in Web :
    /\ lockedBy[LeadRow(l)] = p =>
         web[p].lead = l /\ web[p].pc \in {"stopping", "cancelling", "send", "commit"}
    /\ \A k \in TaskTypes : lockedBy[TaskRow(l, k)] = p =>
         web[p].lead = l /\ web[p].pc = "cancelling"

(* Every request comes to an end: no set of requests waits for each other's *)
(* row locks and Redis keys for ever, even after a crash.                   *)
RequestsEnd == \A p \in Web : ~Idle(p) ~> Idle(p)

(* conductor.py:59: "opted_out": []  # Terminal - no transitions out        *)
OptedOutIsTerminal ==
  [][\A l \in Leads : lead[l].state = "opted_out" => lead'[l].state = "opted_out"]_vars

(* locks.py:2, conductor.py:366: the lock "prevents race conditions": every *)
(* reply that was recorded has been counted in conversation_turn.           *)
TurnsCountReplies == \A l \in Leads : lead[l].turn = heard[l]

(* conductor.py:371: opt-out "overrides everything": a STOP that reaches    *)
(* _handle_opt_out ends with the lead opted out.                            *)
StopTakesEffect ==
  \A p \in Web, l \in Leads : At(p, "stop") /\ web[p].lead = l ~> optedOut[l]
=============================================================================
