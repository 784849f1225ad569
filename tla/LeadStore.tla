------------------------------ MODULE LeadStore ------------------------------
(***************************************************************************)
(* The PostgreSQL tables the lead pipeline shares (leads, consent_records, *)
(* bookings, followup_tasks), their row locks, and the SMS handed to the   *)
(* carrier.  The actors of the pipeline (the web requests of Conductor,    *)
(* LeadStateManager and SmsDispatch) extend this module; each of their     *)
(* actions is one stretch of code between two points where another session *)
(* can get in: an await on Redis, on the AI, on the carrier, or a COMMIT.  *)
(*                                                                         *)
(* Isolation is READ COMMITTED.  A session sees committed rows when it     *)
(* SELECTs, keeps what it loaded in its identity map until it closes       *)
(* (expire_on_commit is off), takes the row lock when SQLAlchemy flushes   *)
(* the UPDATE, and writes only the columns whose value differs from the    *)
(* one it loaded (Written).  A row lock is held to the end of the          *)
(* transaction.  Rows become visible in the committing action.             *)
(*                                                                         *)
(* All leads of the model belong to one client and one phone number: they  *)
(* are the leads between which a STOP, a prior opt-out or "the most recent *)
(* lead" can be confused.  Lead n is the n-th to be created, with consent  *)
(* record n (handle_new_lead creates the two together).                    *)
(***************************************************************************)
EXTENDS Naturals, FiniteSets

CONSTANTS
  MaxLeads,     \* bound: leads ever created for the phone
  Web,          \* the web requests that can be in progress at once
  Manager,      \* the session of the lead state manager
  Dispatcher,   \* the session of the SMS dispatch worker
  NoProc,       \* "nobody"
  MaxOutreach,  \* MAX_COLD_OUTREACH (lead_state_manager.py:43)
  MaxEscalations, \* MAX_BOOKING_ESCALATIONS_PER_LEAD
  MaxAttempts,  \* FollowupTask.max_attempts
  TurnCap       \* bound: replies handled for one lead

Leads == 1..MaxLeads
Sessions == Web \cup {Manager, Dispatcher}

ASSUME StoreConstants ==
  /\ MaxLeads \in Nat \ {0}
  /\ MaxOutreach \in Nat \ {0}
  /\ MaxEscalations \in Nat \ {0}
  /\ MaxAttempts \in Nat \ {0}
  /\ TurnCap \in Nat
  /\ NoProc \notin Sessions
  /\ Manager \notin Web
  /\ Dispatcher \notin Web
  /\ Manager # Dispatcher

States == {"new", "intake_sent", "qualifying", "qualified", "booking",
           "booked", "completed", "cold", "dead", "opted_out"}

(* How long ago leads.updated_at was set, against the thresholds of         *)
(* lead_state_manager.py:32-42.  Every UPDATE of the row sets it back to    *)
(* Fresh (onupdate, models/lead.py:112-114).                                *)
Fresh   == 0   \* less than the timeout of any state
Stuck   == 1   \* past STATE_TIMEOUTS of its state
Recycle == 2   \* in the hour that starts COLD_RECYCLE_DAYS after it
Stale   == 3   \* past that hour
Month   == 4   \* more than COLD_TO_DEAD_DAYS
Quarter == 5   \* more than ARCHIVE_AFTER_DAYS
Ages == Fresh..Quarter

(* Where the appointment of a booking lies from now.                        *)
Later    == 0
Tomorrow == 1
Today    == 2
Soon     == 3  \* today, at most two hours before the window starts
Missed   == 4  \* today, NO_SHOW_WINDOW_HOURS after the window's end
PastDay  == 5  \* COMPLETE_AFTER_DAYS after the day
Moments == Later..PastDay

TaskTypes == {"cold_nurture", "booking_escalation", "review_request",
              "no_show_recovery"}
TaskStatus == {"none", "pending", "sent", "skipped", "failed", "cancelled"}

SmsKinds == {"intake", "reply", "duplicate_ack", "manual", "reminder",
             "same_day_reminder"} \cup TaskTypes
NoSms == [to |-> 0, kind |-> "none"]
Sms(l, k) == [to |-> l, kind |-> k]

LeadRow(l) == <<"lead", l>>
BookingRow(l) == <<"booking", l>>
TaskRow(l, k) == <<k, l>>
Rows == {LeadRow(l) : l \in Leads} \cup {BookingRow(l) : l \in Leads}
          \cup {TaskRow(l, k) : l \in Leads, k \in TaskTypes}

-----------------------------------------------------------------------------
VARIABLES
  created,   \* how many leads exist
  lead,      \* leads: state, turn, outreach, archived, age
  optedOut,  \* consent_records.opted_out, per lead
  booking,   \* bookings: at most one row per lead (unique lead_id)
  task,      \* followup_tasks: the latest task of each type, per lead
  lockedBy,  \* the session that holds each row
  wire       \* the SMS the last step handed to the carrier, or NoSms

storeVars == <<created, lead, optedOut, booking, task, lockedBy, wire>>

LeadRecords == [state : States, turn : Nat, outreach : 0..(MaxOutreach + 1),
                archived : BOOLEAN, age : Ages]
BookingRecords ==
  [status : {"none", "confirmed", "completed", "no_show"}, when : Moments,
   windowed : BOOLEAN, reminded : BOOLEAN, sameDay : BOOLEAN]
TaskRecords == [status : TaskStatus, sent : Nat, attempts : 0..MaxAttempts]

NewLead == [state |-> "new", turn |-> 0, outreach |-> 0,
            archived |-> FALSE, age |-> Fresh]
NoBooking == [status |-> "none", when |-> Later, windowed |-> FALSE,
              reminded |-> FALSE, sameDay |-> FALSE]
NoTask == [status |-> "none", sent |-> 0, attempts |-> 0]

StoreTypeOK ==
  /\ created \in 0..MaxLeads
  /\ lead \in [Leads -> LeadRecords]
  /\ optedOut \in [Leads -> BOOLEAN]
  /\ booking \in [Leads -> BookingRecords]
  /\ task \in [Leads -> [TaskTypes -> TaskRecords]]
  /\ lockedBy \in [Rows -> Sessions \cup {NoProc}]
  /\ wire \in {NoSms} \cup [to : Leads, kind : SmsKinds]

StoreInit ==
  /\ created = 0
  /\ lead = [l \in Leads |-> NewLead]
  /\ optedOut = [l \in Leads |-> FALSE]
  /\ booking = [l \in Leads |-> NoBooking]
  /\ task = [l \in Leads |-> [k \in TaskTypes |-> NoTask]]
  /\ lockedBy = [r \in Rows |-> NoProc]
  /\ wire = NoSms

-----------------------------------------------------------------------------
Exists(l) == l <= created

(* The value a column has after an UPDATE by a session that loaded `loaded` *)
(* and assigned `assigned`, when the row now holds `current`.               *)
Written(loaded, assigned, current) ==
  IF assigned = loaded THEN current ELSE assigned

(* Session s can lock row r at once, or would wait for its holder.          *)
CanLock(s, r) == lockedBy[r] \in {NoProc, s}
Locked(s, rs) == [r \in Rows |-> IF r \in rs THEN s ELSE lockedBy[r]]
Unlocked(s) == [r \in Rows |-> IF lockedBy[r] = s THEN NoProc ELSE lockedBy[r]]

PendingTasks(l) == {k \in TaskTypes : task[l][k].status = "pending"}
Cancelled(l, ks) ==
  [task EXCEPT ![l] = [k \in TaskTypes |->
     IF k \in ks /\ @[k].status = "pending"
     THEN [@[k] EXCEPT !.status = "cancelled"] ELSE @[k]]]

(* Nothing but the actor's own variables changes.                           *)
StoreRests ==
  /\ wire' = NoSms
  /\ UNCHANGED <<created, lead, optedOut, booking, task, lockedBy>>
=============================================================================
