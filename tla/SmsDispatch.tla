----------------------------- MODULE SmsDispatch -----------------------------
(***************************************************************************)
(* src/workers/sms_dispatch.py: one loop that runs three phases, each in   *)
(* one transaction: due follow-up tasks, day-before reminders, same-day    *)
(* reminders.  A phase locks the rows it picked (FOR UPDATE SKIP LOCKED),  *)
(* works through them one by one, texting as it goes, and commits once at  *)
(* the end: an error at the end undoes the records of every SMS it sent.   *)
(***************************************************************************)
EXTENDS LeadStore

CONSTANTS
  Dispatched     \* the task types and reminders that can come due: a subset
                 \* of TaskTypes \cup Reminders

VARIABLES
  disp,       \* the dispatcher's session
  nurtured    \* cold nurture SMS that reached the carrier, per lead (history)

Reminders == {"reminder", "same_day_reminder"}
Rounds == {"followups", "reminders", "same_day"}
RoundAfter == [followups |-> "reminders", reminders |-> "same_day",
               same_day |-> "followups"]
Items == (TaskTypes \cup Reminders) \X Leads
ItemRow(i) == IF i[1] \in TaskTypes THEN TaskRow(i[2], i[1]) ELSE BookingRow(i[2])

(* disp.seen[l]: what the session loaded of lead l and its consent, once    *)
(* (identity map).  disp.dirty: leads whose changed row is not flushed yet. *)
Unseen == [loaded |-> FALSE, state |-> "new", outreach |-> 0, clear |-> FALSE]

DispatcherTypeOK ==
  /\ disp \in
       [round : Rounds, pc : {"idle", "next", "item"}, todo : SUBSET Items,
        cur : Items \cup {<<>>}, sent : SUBSET Items, skipped : SUBSET Items,
        raised : SUBSET Items, dirty : SUBSET Leads,
        seen : [Leads -> [loaded : BOOLEAN, state : States,
                          outreach : 0..(MaxOutreach + 1), clear : BOOLEAN]]]
  /\ nurtured \in [Leads -> 0..(MaxOutreach + 1)]

Waiting(round) ==
  [round |-> round, pc |-> "idle", todo |-> {}, cur |-> <<>>, sent |-> {},
   skipped |-> {}, raised |-> {}, dirty |-> {}, seen |-> [l \in Leads |-> Unseen]]

DispatcherInit ==
  /\ disp = Waiting("followups")
  /\ nurtured = [l \in Leads |-> 0]

-----------------------------------------------------------------------------
(* The rows a round may pick: pending follow-up tasks (any of them may be   *)
(* due), tomorrow's bookings, bookings whose window starts within 2 hours.  *)
KindsOf == [followups |-> TaskTypes, reminders |-> {"reminder"},
            same_day |-> {"same_day_reminder"}]

Ripe(k, l) ==
  CASE k \in TaskTypes -> task[l][k].status = "pending"
    [] k = "reminder"  -> /\ booking[l].status = "confirmed"
                          /\ booking[l].when = Tomorrow
                          /\ ~booking[l].reminded
    [] OTHER           -> /\ booking[l].status = "confirmed"
                          /\ booking[l].when = Soon
                          /\ booking[l].windowed
                          /\ ~booking[l].sameDay

Due(round) ==
  {i \in (KindsOf[round] \cap Dispatched) \X (1..created) :
     Ripe(i[1], i[2]) /\ lockedBy[ItemRow(i)] = NoProc}

(* Wrong: the SELECT without FOR UPDATE. *)
PickUnlocked ==
  /\ disp.pc = "idle"
  /\ \E picked \in SUBSET Due(disp.round) \ {{}} :
       disp' = [disp EXCEPT !.pc = "next", !.todo = picked]
  /\ wire' = NoSms
  /\ UNCHANGED <<created, lead, optedOut, booking, task, lockedBy, nurtured>>

Pick ==
  /\ disp.pc = "idle"
  /\ \E picked \in SUBSET Due(disp.round) \ {{}} :
       /\ disp' = [disp EXCEPT !.pc = "next", !.todo = picked]
       /\ lockedBy' = Locked(Dispatcher, {ItemRow(i) : i \in picked})
  /\ wire' = NoSms
  /\ UNCHANGED <<created, lead, optedOut, booking, task, nurtured>>

(* Nothing is due; for follow-ups, what is pending may be due later.        *)
SkipRound ==
  /\ disp.pc = "idle"
  /\ disp.round = "followups" \/ Due(disp.round) = {}
  /\ disp' = Waiting(RoundAfter[disp.round])
  /\ StoreRests
  /\ UNCHANGED nurtured

(* Loading a lead that is not in the identity map flushes what is dirty.    *)
TakeItem(i) ==
  LET l == i[2]
      fresh == ~disp.seen[l].loaded
      flushed == IF fresh THEN disp.dirty ELSE {} IN
  /\ disp.pc = "next"
  /\ i \in disp.todo
  /\ \A m \in flushed : CanLock(Dispatcher, LeadRow(m))
  /\ lockedBy' = Locked(Dispatcher, {LeadRow(m) : m \in flushed})
  /\ disp' = [disp EXCEPT !.pc = "item", !.cur = i, !.todo = @ \ {i},
       !.seen[l] = IF fresh
                   THEN [loaded |-> TRUE, state |-> lead[l].state,
                         outreach |-> lead[l].outreach, clear |-> ~optedOut[l]]
                   ELSE @]
  /\ wire' = NoSms
  /\ UNCHANGED <<created, lead, optedOut, booking, task, nurtured>>

-----------------------------------------------------------------------------
(* One item: _execute_followup_task, _send_single_reminder,                 *)
(* _send_single_same_day_reminder.                                          *)

Seen == disp.seen[disp.cur[2]]

(* What the guards and full_compliance_check let through.  Follow-ups of    *)
(* every type count against the limit of cold outreach; a same-day reminder *)
(* is checked for the lead's state only.                                    *)
MaySend ==
  CASE disp.cur[1] \in TaskTypes ->
         /\ Seen.state \notin {"opted_out", "dead"}
         /\ disp.cur[1] = "cold_nurture" => Seen.state \in {"cold", "intake_sent"}
         /\ Seen.clear
         /\ Seen.outreach < MaxOutreach
    [] disp.cur[1] = "reminder" -> Seen.state # "opted_out" /\ Seen.clear
    [] OTHER -> Seen.state # "opted_out"

(* The result of send_sms is not looked at: a failed or throttled send is   *)
(* recorded as sent, and counts.                                            *)
RecordSent ==
  disp' = [disp EXCEPT !.pc = "next", !.cur = <<>>,
    !.sent = @ \cup {disp.cur}, !.dirty = @ \cup {disp.cur[2]},
    !.seen[disp.cur[2]].outreach = IF disp.cur[1] = "cold_nurture" THEN @ + 1 ELSE @]

Send ==
  LET l == disp.cur[2] IN
  /\ disp.pc = "item"
  /\ MaySend
  /\ RecordSent
  /\ wire' = Sms(l, disp.cur[1])
  /\ nurtured' = IF disp.cur[1] = "cold_nurture" /\ nurtured[l] <= MaxOutreach
                 THEN [nurtured EXCEPT ![l] = @ + 1] ELSE nurtured
  /\ UNCHANGED <<created, lead, optedOut, booking, task, lockedBy>>

SendFails ==
  /\ disp.pc = "item"
  /\ MaySend
  /\ RecordSent
  /\ StoreRests
  /\ UNCHANGED nurtured

(* A guard, quiet hours, the content check, the plan or the kill switch.    *)
(* A task is skipped for good; a reminder is tried again, except that the   *)
(* lead's opt-out marks it as sent.                                         *)
Skip ==
  /\ disp.pc = "item"
  /\ disp' = [disp EXCEPT !.pc = "next", !.cur = <<>>,
       !.skipped = IF disp.cur[1] \in TaskTypes \/ Seen.state = "opted_out"
                   THEN @ \cup {disp.cur} ELSE @]
  /\ StoreRests
  /\ UNCHANGED nurtured

(* Wrong: the item is tried again at once, for as long as it raises.        *)
RaiseAgain ==
  /\ disp.pc = "item"
  /\ disp' = [disp EXCEPT !.pc = "next", !.cur = <<>>, !.todo = @ \cup {disp.cur}]
  /\ StoreRests
  /\ UNCHANGED nurtured

(* An exception in one item is caught; a task counts the attempt.           *)
Raise ==
  /\ disp.pc = "item"
  /\ disp' = [disp EXCEPT !.pc = "next", !.cur = <<>>, !.raised = @ \cup {disp.cur}]
  /\ StoreRests
  /\ UNCHANGED nurtured

-----------------------------------------------------------------------------
(* The commit at the end of a round.                                        *)

(* Wrong: max_attempts is not looked at.                                    *)
TaskAfterUnlimited(t, i) ==
  CASE i \in disp.sent    -> [t EXCEPT !.status = "sent", !.sent = @ + 1]
    [] i \in disp.skipped -> [t EXCEPT !.status = "skipped"]
    [] i \in disp.raised  -> [t EXCEPT !.attempts = @ + 1]
    [] OTHER -> t

TaskAfter(t, i) ==
  CASE i \in disp.sent    -> [t EXCEPT !.status = "sent", !.sent = @ + 1]
    [] i \in disp.skipped -> [t EXCEPT !.status = "skipped"]
    [] i \in disp.raised  -> [t EXCEPT !.attempts = @ + 1,
                                !.status = IF t.attempts + 1 >= MaxAttempts THEN "failed" ELSE @]
    [] OTHER -> t

BookingAfter(b, l) ==
  LET done == disp.sent \cup disp.skipped IN
  [b EXCEPT !.reminded = @ \/ <<"reminder", l>> \in done,
            !.sameDay = @ \/ <<"same_day_reminder", l>> \in done]

(* Wrong: flushed, but the transaction stays open.                          *)
CommitRoundKeepsRows ==
  /\ disp.pc = "next"
  /\ disp.todo = {}
  /\ \A l \in disp.dirty : CanLock(Dispatcher, LeadRow(l))
  /\ disp' = Waiting(RoundAfter[disp.round])
  /\ wire' = NoSms
  /\ lockedBy' = Locked(Dispatcher, {LeadRow(l) : l \in disp.dirty})
  /\ UNCHANGED <<created, lead, optedOut, booking, task, nurtured>>

CommitRound ==
  /\ disp.pc = "next"
  /\ disp.todo = {}
  /\ \A l \in disp.dirty : CanLock(Dispatcher, LeadRow(l))
  /\ task' = [l \in Leads |-> [k \in TaskTypes |-> TaskAfter(task[l][k], <<k, l>>)]]
  /\ booking' = [l \in Leads |-> BookingAfter(booking[l], l)]
  /\ lead' = [l \in Leads |->
       IF l \in disp.dirty
       THEN [lead[l] EXCEPT !.outreach = disp.seen[l].outreach, !.age = Fresh]
       ELSE lead[l]]
  /\ lockedBy' = Unlocked(Dispatcher)
  /\ disp' = Waiting(RoundAfter[disp.round])
  /\ wire' = NoSms
  /\ UNCHANGED <<created, optedOut, nurtured>>

(* An error that ends the transaction: everything since Pick is undone but  *)
(* the SMS; the rows are picked again in the next cycle.                    *)
RollBackRound ==
  /\ lockedBy' = Unlocked(Dispatcher)
  /\ disp' = Waiting("followups")
  /\ wire' = NoSms
  /\ UNCHANGED <<created, lead, optedOut, booking, task, nurtured>>

DispatcherNext ==
  \/ Pick \/ SkipRound \/ (\E i \in Items : TakeItem(i))
  \/ Send \/ SendFails \/ Skip \/ Raise \/ CommitRound
=============================================================================
