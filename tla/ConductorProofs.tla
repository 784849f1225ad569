---------------------------- MODULE ConductorProofs ----------------------------
(***************************************************************************)
(* Proofs about Conductor, for any number of requests, leads and sources   *)
(* and any set of faults: types, opt-outs, that its locks implement        *)
(* LeadLock and what they exclude, and how turns are counted.              *)
(***************************************************************************)
EXTENDS Conductor, TLAPS

LEMMA LeadsAreNaturals == Leads \subseteq Nat /\ 1 \in Leads /\ 0 \notin Leads
BY StoreConstants DEF Leads

(* What StoreRests leaves alone stays in its type.                          *)
LEMMA RestingStoreTyped == StoreTypeOK /\ StoreRests => StoreTypeOK'
BY DEF StoreTypeOK, StoreRests, NoSms

LEMMA PlacesNamed ==
  /\ {"idle", "create", "check", "greet", "greeted", "stop"} \subseteq Places
  /\ {"stopping", "cancelling", "lock", "route", "send", "commit"} \subseteq Places
  /\ {"release", "manual"} \subseteq Places
BY DEF Places

LEMMA StatesNamed ==
  /\ {"new", "intake_sent", "qualifying", "qualified", "booking"} \subseteq States
  /\ {"booked", "cold", "opted_out"} \subseteq States
BY DEF States

(* A text to a lead, and nothing else, keeps the store in its type.         *)
LEMMA TextTyped ==
  ASSUME StoreTypeOK, NEW l \in Leads, NEW k \in SmsKinds, wire' = Sms(l, k),
         UNCHANGED <<created, lead, optedOut, booking, task, lockedBy>>
  PROVE  StoreTypeOK'
BY DEF StoreTypeOK, Sms

LEMMA SmsKindsNamed == {"intake", "reply", "duplicate_ack", "manual"} \subseteq SmsKinds
BY DEF SmsKinds

(* Each way to move a request keeps the requests in their type.             *)
LEMMA FinishTyped ==
  ASSUME web \in [Web -> Requests], NEW p \in Web, Finish(p)
  PROVE  web' \in [Web -> Requests]
BY LeadsAreNaturals, PlacesNamed, StatesNamed DEF Finish, Resting, Requests

LEMMA ForgetTyped ==
  ASSUME web \in [Web -> Requests], NEW p \in Web, Forget(p, "release")
  PROVE  web' \in [Web -> Requests]
BY LeadsAreNaturals, PlacesNamed, StatesNamed DEF Forget, Resting, Requests

LEMMA LoadTyped ==
  ASSUME web \in [Web -> Requests], lead \in [Leads -> LeadRecords],
         NEW p \in Web, NEW l \in Leads, NEW pc \in {"stop", "lock"}, Load(p, l, pc)
  PROVE  web' \in [Web -> Requests]
BY PlacesNamed DEF Load, Resting, Requests, LeadRecords

LEMMA GoTyped ==
  ASSUME web \in [Web -> Requests], NEW p \in Web,
         NEW pc \in Places, Go(p, pc)
  PROVE  web' \in [Web -> Requests]
BY DEF Go, Requests

(* The lock variables keep their types in each step of the lock.            *)
LEMMA LockTyped ==
  ASSUME Lock!LockTypeOK, NEW p \in Web, NEW l \in Leads,
         \/ Lock!Request(p, l) \/ Lock!Acquire(p) \/ Lock!Poll(p) \/ Lock!TimeOut(p)
         \/ Lock!ProceedUnlocked(p) \/ Lock!Release(p) \/ Lock!ReleaseFails(p)
         \/ Lock!Expire(l) \/ Lock!LockCrash(p)
  PROVE  Lock!LockTypeOK'
<1> USE ConductorConstants DEF Lock!LockTypeOK
<1>1. CASE Lock!Request(p, l)
  BY <1>1 DEF Lock!Request
<1>2. CASE Lock!Acquire(p)
  BY <1>2 DEF Lock!Acquire
<1>3. CASE Lock!Poll(p)
  BY <1>3 DEF Lock!Poll
<1>4. CASE Lock!TimeOut(p)
  BY <1>4 DEF Lock!TimeOut
<1>5. CASE Lock!ProceedUnlocked(p)
  BY <1>5 DEF Lock!ProceedUnlocked
<1>6. CASE Lock!Release(p)
  BY <1>6 DEF Lock!Release
<1>7. CASE Lock!ReleaseFails(p)
  BY <1>7 DEF Lock!ReleaseFails, Lock!Abandoned
<1>8. CASE Lock!Expire(l)
  BY <1>8 DEF Lock!Expire
<1>9. CASE Lock!LockCrash(p)
  BY <1>9 DEF Lock!LockCrash, Lock!Abandoned
<1> QED
  BY <1>1, <1>2, <1>3, <1>4, <1>5, <1>6, <1>7, <1>8, <1>9

LEMMA LockRests == Lock!LockTypeOK /\ UNCHANGED lockVars => Lock!LockTypeOK'
BY DEF Lock!LockTypeOK, lockVars

(* Reading a row's holder, taking rows and giving them back is well typed.  *)
LEMMA RowsTyped ==
  ASSUME lockedBy \in [Rows -> Sessions \cup {NoProc}], NEW s \in Sessions, NEW rs
  PROVE  /\ Locked(s, rs) \in [Rows -> Sessions \cup {NoProc}]
         /\ Unlocked(s) \in [Rows -> Sessions \cup {NoProc}]
BY DEF Locked, Unlocked

LEMMA SessionsOfWeb == Web \subseteq Sessions
BY DEF Sessions

LEMMA RequestTyped ==
  ASSUME web \in [Web -> Requests], NEW p \in Web
  PROVE  /\ web[p].lead \in Leads /\ web[p].state \in States /\ web[p].new \in States
         /\ web[p].turn \in Nat /\ web[p].books \in BOOLEAN /\ web[p].clear \in BOOLEAN
BY DEF Requests

(* The writes to a lead: its state, and for a reply its turn count too.     *)
LEMMA LeadWritten ==
  ASSUME lead \in [Leads -> LeadRecords], NEW l \in Leads, NEW s \in States
  PROVE  /\ WithState(l, s) \in [Leads -> LeadRecords]
         /\ WithState(l, s)[l].state = s
         /\ \A m \in Leads : m # l => WithState(l, s)[m] = lead[m]
<1> DEFINE r == [lead[l] EXCEPT !.state = s, !.age = Fresh]
<1>1. Fresh \in Ages
  BY DEF Ages, Fresh, Quarter
<1>2. r \in LeadRecords /\ r.state = s
  BY <1>1 DEF LeadRecords
<1>3. WithState(l, s) = [lead EXCEPT ![l] = r]
  BY DEF WithState
<1> HIDE DEF r
<1> QED
  BY <1>2, <1>3

LEMMA TurnWritten ==
  ASSUME lead \in [Leads -> LeadRecords], NEW l \in Leads, NEW s \in States, NEW t \in Nat
  PROVE  LET new == [WithState(l, s) EXCEPT ![l].turn = t] IN
         /\ new \in [Leads -> LeadRecords]
         /\ new[l].state = s
         /\ \A m \in Leads : m # l => new[m] = lead[m]
<1> DEFINE old == WithState(l, s)
           r == [old[l] EXCEPT !.turn = t]
<1>1. /\ old \in [Leads -> LeadRecords]
      /\ old[l].state = s
      /\ \A m \in Leads : m # l => old[m] = lead[m]
  BY LeadWritten
<1> HIDE DEF old
<1>2. r \in LeadRecords /\ r.state = s
  BY <1>1 DEF LeadRecords
<1>3. [old EXCEPT ![l].turn = t] = [old EXCEPT ![l] = r]
  OBVIOUS
<1> HIDE DEF r
<1>4. /\ [old EXCEPT ![l] = r] \in [Leads -> LeadRecords]
      /\ [old EXCEPT ![l] = r][l].state = s
      /\ \A m \in Leads : m # l => [old EXCEPT ![l] = r][m] = lead[m]
  BY <1>1, <1>2
<1> QED
  BY <1>3, <1>4 DEF old

(* The state a request writes is a state.                                   *)
LEMMA StateOfTyped ==
  ASSUME lead \in [Leads -> LeadRecords], web \in [Web -> Requests], NEW p \in Web
  PROVE  StateOf(p) \in States
<1>1. web[p].lead \in Leads /\ web[p].state \in States /\ web[p].new \in States
  BY RequestTyped
<1>2. lead[web[p].lead].state \in States
  BY <1>1 DEF LeadRecords
<1> QED
  BY <1>1, <1>2 DEF StateOf, Written

LEMMA ArchivedSet ==
  ASSUME NEW r \in LeadRecords, NEW b \in BOOLEAN, NEW a \in Ages
  PROVE  [r EXCEPT !.archived = b, !.age = a] \in LeadRecords
BY DEF LeadRecords

LEMMA HeardCounted ==
  ASSUME heard \in [Leads -> Nat], NEW l \in Leads
  PROVE  [heard EXCEPT ![l] = @ + 1] \in [Leads -> Nat]
OBVIOUS

LEMMA TasksCancelled ==
  ASSUME task \in [Leads -> [TaskTypes -> TaskRecords]], NEW l \in Leads, NEW ks
  PROVE  Cancelled(l, ks) \in [Leads -> [TaskTypes -> TaskRecords]]
<1>1. "cancelled" \in TaskStatus
  BY DEF TaskStatus
<1>2. ASSUME NEW t \in TaskRecords
      PROVE  [t EXCEPT !.status = "cancelled"] \in TaskRecords
  BY <1>1 DEF TaskRecords
<1> QED
  BY <1>2 DEF Cancelled

LEMMA BookingMade ==
  ASSUME booking \in [Leads -> BookingRecords], NEW l \in Leads, NEW a \in Appointments
  PROVE  [booking EXCEPT ![l] = [NoBooking EXCEPT
            !.status = "confirmed", !.when = a.when, !.windowed = a.windowed]]
           \in [Leads -> BookingRecords]
<1>1. a.when \in Moments /\ a.windowed \in BOOLEAN
  BY ConductorConstants DEF Moments, Later, Tomorrow, Today, PastDay
<1> QED
  BY <1>1 DEF BookingRecords, NoBooking

-----------------------------------------------------------------------------
(* Type correctness, one lemma for each kind of step.                       *)

LEMMA NewLeadTyped ==
  ASSUME TypeOK, NEW p \in Web, NewLeadStep(p)
  PROVE  TypeOK'
<1> USE RestingStoreTyped, LockRests, FinishTyped, GoTyped, PlacesNamed DEF TypeOK, ConductorTypeOK, edgeVars
<1>1. CASE RejectLead(p)
  BY <1>1 DEF RejectLead
<1>2. CASE CreateLead(p)
  <2>1. created + 1 \in Leads
    BY <1>2, StoreConstants DEF CreateLead, StoreTypeOK, Leads
  <2>2. StoreTypeOK'
    <3>1. NewLead \in LeadRecords
      BY StatesNamed, StoreConstants DEF NewLead, LeadRecords, Ages, Fresh, Quarter
    <3>2. created' \in 0..MaxLeads
      BY <1>2, StoreConstants DEF CreateLead, StoreTypeOK
    <3> QED
      BY <1>2, <2>1, <3>1, <3>2 DEF CreateLead, StoreTypeOK, NoSms
  <2>3. web' \in [Web -> Requests]
    BY <1>2, <2>1, StatesNamed DEF CreateLead, Requests, Resting
  <2> QED
    BY <1>2, <2>2, <2>3 DEF CreateLead
<1>3. CASE PassCompliance(p)
  BY <1>3 DEF PassCompliance
<1>4. CASE BlockLead(p)
  BY <1>4 DEF BlockLead
<1>5. CASE Greet(p)
  <2>1. StoreTypeOK'
    BY <1>5, RequestTyped, TextTyped, SmsKindsNamed DEF Greet
  <2> QED
    BY <1>5, <2>1 DEF Greet
<1>6. CASE GreetFails(p)
  BY <1>6, RequestTyped DEF GreetFails
<1>7. CASE FinishGreeting(p)
  <2> DEFINE l == web[p].lead
             s == Written("new", "intake_sent", lead[l].state)
  <2>1. l \in Leads /\ s \in States
    BY RequestTyped, StatesNamed DEF StoreTypeOK, LeadRecords, Written
  <2>2. lead' = WithState(l, s)
    BY <1>7 DEF FinishGreeting
  <2>3. lead' \in [Leads -> LeadRecords]
    BY <2>1, <2>2, LeadWritten DEF StoreTypeOK
  <2>4. StoreTypeOK'
    BY <1>7, <2>3 DEF FinishGreeting, StoreTypeOK, NoSms
  <2> QED
    BY <1>7, <2>4 DEF FinishGreeting
<1> QED
  BY <1>1, <1>2, <1>3, <1>4, <1>5, <1>6, <1>7 DEF NewLeadStep

LEMMA StopTyped ==
  ASSUME TypeOK, NEW p \in Web, StopStep(p)
  PROVE  TypeOK'
<1> USE LockRests, SessionsOfWeb, RowsTyped, FinishTyped
    DEF TypeOK, ConductorTypeOK, edgeVars
<1>1. CASE FlushStop(p)
  <2>1. StoreTypeOK'
    BY <1>1 DEF FlushStop, StoreTypeOK, NoSms
  <2>2. web' \in [Web -> Requests]
    BY <1>1, StatesNamed, PlacesNamed DEF FlushStop, Requests
  <2> QED
    BY <1>1, <2>1, <2>2 DEF FlushStop
<1>2. CASE BeginCancel(p)
  <2> DEFINE r == [web[p] EXCEPT !.pc = "cancelling", !.doomed = PendingTasks(web[p].lead)]
  <2>1. r \in Requests
    BY PlacesNamed DEF PendingTasks, Requests
  <2>2. web' = [web EXCEPT ![p] = r]
    BY <1>2 DEF BeginCancel
  <2> HIDE DEF r
  <2> QED
    BY <1>2, <2>1, <2>2, RestingStoreTyped DEF BeginCancel
<1>3. ASSUME NEW k \in TaskTypes, CancelTask(p, k)
      PROVE  TypeOK'
  <2> DEFINE r == [web[p] EXCEPT !.doomed = @ \ {k}]
  <2>1. r \in Requests
    BY DEF Requests
  <2>2. web' = [web EXCEPT ![p] = r]
    BY <1>3 DEF CancelTask
  <2> HIDE DEF r
  <2>3. web' \in [Web -> Requests]
    BY <2>1, <2>2
  <2>4. StoreTypeOK'
    BY <1>3 DEF CancelTask, StoreTypeOK, NoSms
  <2> QED
    BY <1>3, <2>3, <2>4 DEF CancelTask
<1>4. CASE CommitStop(p)
  <2>a. web[p].lead \in Leads /\ StateOf(p) \in States
    BY RequestTyped, StateOfTyped DEF StoreTypeOK
  <2>b. lead' = WithState(web[p].lead, StateOf(p))
    BY <1>4 DEF CommitStop
  <2>1. lead' \in [Leads -> LeadRecords]
    BY <2>a, <2>b, LeadWritten DEF StoreTypeOK
  <2>2. task' \in [Leads -> [TaskTypes -> TaskRecords]]
    BY <1>4, <2>a, TasksCancelled DEF CommitStop, StoreTypeOK
  <2>3. StoreTypeOK'
    BY <1>4, <2>1, <2>2 DEF CommitStop, StoreTypeOK, NoSms
  <2> QED
    BY <1>4, <2>3 DEF CommitStop
<1> QED
  BY <1>1, <1>2, <1>3, <1>4 DEF StopStep, UpdateTasks

(* A flush, whatever state the agent answered with.                         *)
LEMMA FlushTyped ==
  ASSUME TypeOK, NEW p \in Web, NEW s \in States, NEW books \in BOOLEAN,
         Flush(p, s, books)
  PROVE  TypeOK'
<1>1. StoreTypeOK'
  BY SessionsOfWeb, RowsTyped DEF TypeOK, Flush, StoreTypeOK, NoSms
<1>2. web' \in [Web -> Requests]
  <2> DEFINE r == [web[p] EXCEPT !.pc = "send", !.new = s, !.books = books,
                                 !.clear = ~optedOut[web[p].lead]]
  <2>1. r \in Requests
    BY PlacesNamed DEF TypeOK, ConductorTypeOK, Requests
  <2>2. web' = [web EXCEPT ![p] = r]
    BY DEF Flush
  <2> HIDE DEF r
  <2> QED
    BY <2>1, <2>2 DEF TypeOK, ConductorTypeOK
<1> QED
  BY <1>1, <1>2, LockRests DEF TypeOK, ConductorTypeOK, Flush, edgeVars

LEMMA EntryTyped ==
  ASSUME web \in [Web -> Requests], NEW p \in Web
  PROVE  Entry(p) \in States
BY RequestTyped DEF Entry, Reengaged, States

LEMMA ReplyTyped ==
  ASSUME TypeOK, NEW p \in Web, ReplyStep(p)
  PROVE  TypeOK'
<1> USE RestingStoreTyped, LockRests, LockTyped, LeadsAreNaturals, SessionsOfWeb, RowsTyped,
        FinishTyped, GoTyped, ForgetTyped, PlacesNamed
    DEF TypeOK, ConductorTypeOK, edgeVars
<1>1. CASE EnterLock(p)
  BY <1>1 DEF EnterLock
<1>2. CASE WaitForLock(p)
  BY <1>2 DEF WaitForLock
<1>3. CASE GiveUpReply(p)
  BY <1>3 DEF GiveUpReply
<1>4. CASE RouteTurnLimit(p)
  BY <1>4, FlushTyped, StatesNamed DEF RouteTurnLimit
<1>5. CASE RouteToQualify(p)
  <2>1. {"qualified", "cold", Entry(p), "qualifying"} \subseteq States
    BY EntryTyped, StatesNamed
  <2> QED
    BY <1>5, <2>1, FlushTyped DEF RouteToQualify
<1>6. CASE RouteToBook(p)
  BY <1>6, FlushTyped, StatesNamed DEF RouteToBook
<1>7. CASE RouteRaises(p)
  BY <1>7 DEF RouteRaises
<1>8. CASE SendReply(p)
  <2>1. StoreTypeOK'
    BY <1>8, RequestTyped, TextTyped, SmsKindsNamed DEF SendReply
  <2> QED
    BY <1>8, <2>1 DEF SendReply
<1>9. CASE WithholdReply(p)
  BY <1>9 DEF WithholdReply
<1>10. CASE CommitReply(p)
  <2> DEFINE l == web[p].lead
             t == web[p].turn + 1
  <2>a. l \in Leads /\ StateOf(p) \in States /\ t \in Nat
    BY RequestTyped, StateOfTyped DEF StoreTypeOK
  <2>b. lead' = [WithState(l, StateOf(p)) EXCEPT ![l].turn = t]
    BY <1>10 DEF CommitReply
  <2>1. lead' \in [Leads -> LeadRecords]
    BY <2>a, <2>b, TurnWritten DEF StoreTypeOK
  <2>2. booking' \in [Leads -> BookingRecords]
    <3>1. ASSUME NEW a \in Appointments,
                 booking' = [booking EXCEPT ![l] = [NoBooking EXCEPT
                   !.status = "confirmed", !.when = a.when, !.windowed = a.windowed]]
          PROVE  booking' \in [Leads -> BookingRecords]
      BY <2>a, <3>1, BookingMade DEF StoreTypeOK
    <3>2. CASE UNCHANGED booking
      BY <3>2 DEF StoreTypeOK
    <3> QED
      BY <1>10, <3>1, <3>2 DEF CommitReply
  <2>3. StoreTypeOK'
    BY <1>10, <2>1, <2>2 DEF CommitReply, StoreTypeOK, NoSms
  <2>4. heard' \in [Leads -> Nat]
    <3>1. heard' = [heard EXCEPT ![l] = @ + 1]
      BY <1>10 DEF CommitReply
    <3> QED
      BY <2>a, <3>1, HeardCounted
  <2> QED
    BY <1>10, <2>3, <2>4 DEF CommitReply
<1>11. CASE ReleaseLock(p)
  BY <1>11 DEF ReleaseLock
<1> QED
  BY <1>1, <1>2, <1>3, <1>4, <1>5, <1>6, <1>7, <1>8, <1>9, <1>10, <1>11 DEF ReplyStep

LEMMA ArriveTyped ==
  ASSUME TypeOK, NEW p \in Web, Arrive(p)
  PROVE  TypeOK'
<1> USE RestingStoreTyped, LockRests DEF TypeOK, ConductorTypeOK, edgeVars
<1>1. ASSUME NEW src \in Sources, SubmitLead(p, src)
      PROVE  TypeOK'
  BY <1>1, GoTyped, PlacesNamed DEF SubmitLead
<1>2. ASSUME NEW src \in Sources, AcknowledgeDuplicate(p, src)
      PROVE  TypeOK'
  <2>1. created \in Leads
    BY <1>2 DEF AcknowledgeDuplicate, StoreTypeOK, Leads
  <2>2. StoreTypeOK'
    BY <1>2, <2>1, TextTyped, SmsKindsNamed DEF AcknowledgeDuplicate
  <2> QED
    BY <1>2, <2>2 DEF AcknowledgeDuplicate, conductorVars
<1>3. CASE ReceiveStop(p)
  <2>1. created \in Leads
    BY <1>3 DEF ReceiveStop, StoreTypeOK, Leads
  <2>2. web' \in [Web -> Requests]
    BY <1>3, <2>1, LoadTyped DEF ReceiveStop, StoreTypeOK
  <2> QED
    BY <1>3, <2>2 DEF ReceiveStop
<1>4. CASE ReceiveReply(p)
  <2>1. created \in Leads
    BY <1>4 DEF ReceiveReply, StoreTypeOK, Leads
  <2>2. web' \in [Web -> Requests]
    BY <1>4, <2>1, LoadTyped DEF ReceiveReply, StoreTypeOK
  <2>3. Lock!LockTypeOK'
    BY <1>4, <2>1, LockTyped DEF ReceiveReply
  <2> QED
    BY <1>4, <2>2, <2>3 DEF ReceiveReply
<1>5. ASSUME NEW l \in Leads, OpenManualReply(p, l)
      PROVE  TypeOK'
  <2>1. web' \in [Web -> Requests]
    BY <1>5, PlacesNamed, StatesNamed DEF OpenManualReply, Requests, Resting
  <2> QED
    BY <1>5, <2>1 DEF OpenManualReply
<1> QED
  BY <1>1, <1>2, <1>3, <1>4, <1>5 DEF Arrive

LEMMA EnvironmentTyped ==
  ASSUME TypeOK, Environment
  PROVE  TypeOK'
<1> USE RestingStoreTyped, LockRests DEF TypeOK, ConductorTypeOK, edgeVars, conductorVars
<1>1. ASSUME NEW src \in Sources, DedupExpires(src)
      PROVE  TypeOK'
  BY <1>1 DEF DedupExpires
<1>2. ASSUME NEW l \in Leads, NEW s \in DashboardStates, SetStatus(l, s)
      PROVE  TypeOK'
  <2>1. StoreTypeOK'
    BY <1>2, LeadWritten DEF SetStatus, StoreTypeOK, DashboardStates, NoSms
  <2> QED
    BY <1>2, <2>1 DEF SetStatus
<1>3. ASSUME NEW l \in Leads, NEW b \in BOOLEAN, SetArchived(l, b)
      PROVE  TypeOK'
  <2>1. Fresh \in Ages
    BY DEF Ages, Fresh, Quarter
  <2> DEFINE r == [lead[l] EXCEPT !.archived = b, !.age = Fresh]
  <2>a. r \in LeadRecords
    BY <2>1, ArchivedSet DEF StoreTypeOK
  <2>b. lead' = [lead EXCEPT ![l] = r]
    BY <1>3 DEF SetArchived
  <2> HIDE DEF r
  <2>2. lead' \in [Leads -> LeadRecords]
    BY <2>a, <2>b DEF StoreTypeOK
  <2>3. StoreTypeOK'
    BY <1>3, <2>2 DEF SetArchived, StoreTypeOK, NoSms
  <2> QED
    BY <1>3, <2>3 DEF SetArchived
<1>4. ASSUME NEW l \in Leads, LockExpires(l)
      PROVE  TypeOK'
  <2>1. Lock!LockTypeOK'
    <3>1. CASE Web = {}
      BY <1>4, <3>1 DEF LockExpires, Lock!Expire, Lock!LockTypeOK
    <3>2. CASE Web # {}
      BY <1>4, <3>2, LockTyped DEF LockExpires
    <3> QED
      BY <3>1, <3>2
  <2> QED
    BY <1>4, <2>1 DEF LockExpires
<1> QED
  BY <1>1, <1>2, <1>3, <1>4 DEF Environment

LEMMA CrashTyped ==
  ASSUME TypeOK, NEW p \in Web, Crash(p)
  PROVE  TypeOK'
<1>1. StoreTypeOK'
  BY RowsTyped, SessionsOfWeb DEF TypeOK, Crash, StoreTypeOK, NoSms
<1>2. Lock!LockTypeOK'
  BY LockTyped, LockRests, LeadsAreNaturals DEF TypeOK, ConductorTypeOK, Crash
<1> QED
  BY <1>1, <1>2, FinishTyped DEF TypeOK, ConductorTypeOK, Crash, edgeVars

LEMMA ManualTyped ==
  ASSUME TypeOK, NEW p \in Web, SendManualReply(p)
  PROVE  TypeOK'
<1>1. StoreTypeOK'
  BY RequestTyped, TextTyped, SmsKindsNamed DEF SendManualReply, TypeOK, ConductorTypeOK
<1> QED
  BY <1>1, FinishTyped, LockRests DEF TypeOK, ConductorTypeOK, SendManualReply, edgeVars

LEMMA TypeStep ==
  ASSUME TypeOK, ConductorNext
  PROVE  TypeOK'
BY NewLeadTyped, StopTyped, ReplyTyped, ArriveTyped, EnvironmentTyped, CrashTyped, ManualTyped
   DEF ConductorNext, Proceed

LEMMA TypeRests == TypeOK /\ UNCHANGED vars => TypeOK'
BY LockRests DEF TypeOK, StoreTypeOK, ConductorTypeOK, vars, storeVars, conductorVars, edgeVars

LEMMA TypeInit == Init => TypeOK
<1> SUFFICES ASSUME Init PROVE TypeOK
  OBVIOUS
<1>1. StoreTypeOK
  <2>1. NewLead \in LeadRecords
    BY StatesNamed, StoreConstants DEF NewLead, LeadRecords, Ages, Fresh, Quarter
  <2>2. NoBooking \in BookingRecords
    BY DEF NoBooking, BookingRecords, Moments, Later, PastDay
  <2>3. NoTask \in TaskRecords
    BY StoreConstants DEF NoTask, TaskRecords, TaskStatus
  <2>4. 0 \in 0..MaxLeads
    BY StoreConstants
  <2> QED
    BY <2>1, <2>2, <2>3, <2>4 DEF Init, StoreInit, StoreTypeOK
<1>2. web \in [Web -> Requests]
  BY LeadsAreNaturals, PlacesNamed, StatesNamed DEF Init, ConductorInit, Requests, Resting
<1>3. Lock!LockTypeOK
  BY LeadsAreNaturals, ConductorConstants DEF Init, ConductorInit, Lock!LockTypeOK
<1> QED
  BY <1>1, <1>2, <1>3 DEF Init, ConductorInit, TypeOK, ConductorTypeOK

(* Tables, requests, lead locks and Redis keys keep their types: no wait    *)
(* for the lead lock exceeds its bound, whatever happens to the request.    *)
THEOREM ConductorTypeCorrect == ConductorSpec => []TypeOK
<1>1. TypeOK /\ [ConductorNext]_vars => TypeOK'
  BY TypeStep, TypeRests
<1> QED
  BY TypeInit, <1>1, PTL DEF ConductorSpec

-----------------------------------------------------------------------------
(* Safety.  The places of a request whose transaction holds its lead's row. *)
Holding == {"stopping", "cancelling", "send", "commit"}

(* A request between its flush and its commit holds the row of its lead.    *)
RowsHeld == \A p \in Web : web[p].pc \in Holding => lockedBy[LeadRow(web[p].lead)] = p

(* What a request read of the consent still holds when it is about to send. *)
ClearIsCurrent ==
  \A p \in Web : web[p].pc = "send" /\ web[p].clear => ~optedOut[web[p].lead]

(* A request that may write "opted_out" back has read it from an opted-out  *)
(* lead, or is the STOP itself.                                             *)
NoStaleOptOut ==
  \A p \in Web : web[p].state = "opted_out" \/ web[p].new = "opted_out" =>
    optedOut[web[p].lead] \/ web[p].pc \in {"stopping", "cancelling"}

(* The two parts of RowLocksInTransaction.                                  *)
LeadRowsTaken ==
  \A l \in Leads, p \in Web : lockedBy[LeadRow(l)] = p =>
    web[p].lead = l /\ web[p].pc \in Holding

TaskRowsTaken ==
  \A l \in Leads, k \in TaskTypes, p \in Web : lockedBy[TaskRow(l, k)] = p =>
    web[p].lead = l /\ web[p].pc = "cancelling"

ConductorSafe ==
  /\ RowsHeld
  /\ LeadRowsTaken
  /\ TaskRowsTaken
  /\ ClearIsCurrent
  /\ NoStaleOptOut
  /\ OptedOutHasConsentRecord
  /\ ReplyHonoursStop

LEMMA LeadRows ==
  ASSUME NEW l \in Leads, NEW m \in Leads
  PROVE  LeadRow(l) \in Rows /\ (LeadRow(l) = LeadRow(m) => l = m)
BY DEF LeadRow, Rows

LEMMA RowsAfter ==
  ASSUME NEW s, NEW l \in Leads, NEW m \in Leads
  PROVE  /\ Locked(s, {LeadRow(l)})[LeadRow(m)] = IF m = l THEN s ELSE lockedBy[LeadRow(m)]
         /\ Unlocked(s)[LeadRow(m)] =
              IF lockedBy[LeadRow(m)] = s THEN NoProc ELSE lockedBy[LeadRow(m)]
BY LeadRows DEF Locked, Unlocked

(* The row of a task is its own.                                            *)
LEMMA TaskRows ==
  ASSUME NEW l \in Leads, NEW k \in TaskTypes
  PROVE  /\ TaskRow(l, k) \in Rows
         /\ \A m \in Leads, j \in TaskTypes : TaskRow(m, j) = TaskRow(l, k) => m = l /\ j = k
         /\ \A m \in Leads : TaskRow(l, k) # LeadRow(m)
BY DEF TaskRow, LeadRow, Rows, TaskTypes

LEMMA TaskRowsAfter ==
  ASSUME NEW s, NEW l \in Leads, NEW m \in Leads, NEW k \in TaskTypes
  PROVE  Locked(s, {LeadRow(l)})[TaskRow(m, k)] = lockedBy[TaskRow(m, k)]
BY TaskRows DEF Locked

LEMMA TaskRowsGivenBack ==
  ASSUME NEW s, NEW m \in Leads, NEW k \in TaskTypes
  PROVE  Unlocked(s)[TaskRow(m, k)] =
           IF lockedBy[TaskRow(m, k)] = s THEN NoProc ELSE lockedBy[TaskRow(m, k)]
BY TaskRows DEF Unlocked

LEMMA NoProcIsNobody == NoProc \notin Web
BY StoreConstants DEF Sessions

(* Whoever holds a task row afterwards held it before and is no other       *)
(* request than it was.                                                     *)
LEMMA TaskRowsStayTaken ==
  ASSUME TaskRowsTaken,
         \A l \in Leads, k \in TaskTypes, q \in Web : lockedBy'[TaskRow(l, k)] = q =>
           lockedBy[TaskRow(l, k)] = q /\ (web[q].pc = "cancelling" => web'[q] = web[q])
  PROVE  TaskRowsTaken'
BY DEF TaskRowsTaken

(* Steps that leave all requests alone and write no opt-out: those of the   *)
(* environment here, and those of the workers in LeadPipeline.              *)
LEMMA RequestsRest ==
  ASSUME TypeOK, ConductorSafe, UNCHANGED <<web, optedOut>>,
         \A l \in Leads : lead'[l].state = "opted_out" => lead[l].state = "opted_out",
         \A l \in Leads, p \in Web :
           lockedBy'[LeadRow(l)] = p <=> lockedBy[LeadRow(l)] = p,
         \A l \in Leads, k \in TaskTypes, p \in Web :
           lockedBy'[TaskRow(l, k)] = p => lockedBy[TaskRow(l, k)] = p,
         wire'.kind # "reply"
  PROVE  ConductorSafe'
<1> USE RequestTyped DEF TypeOK, ConductorTypeOK
<1>0. TaskRowsTaken'
  BY TaskRowsStayTaken DEF ConductorSafe
<1>1. RowsHeld' /\ LeadRowsTaken'
  BY DEF ConductorSafe, RowsHeld, LeadRowsTaken
<1>2. ClearIsCurrent' /\ NoStaleOptOut'
  BY DEF ConductorSafe, ClearIsCurrent, NoStaleOptOut
<1>3. OptedOutHasConsentRecord' /\ ReplyHonoursStop'
  BY DEF ConductorSafe, OptedOutHasConsentRecord, ReplyHonoursStop
<1> QED
  BY <1>0, <1>1, <1>2, <1>3 DEF ConductorSafe

(* Steps of a request that neither starts nor ends a transaction.           *)
LEMMA QuietStep ==
  ASSUME TypeOK, ConductorSafe, NEW p \in Web, NEW r \in Requests,
         web' = [web EXCEPT ![p] = r],
         web[p].pc \notin Holding, r.pc \notin Holding,
         r.state = "opted_out" \/ r.new = "opted_out" => optedOut[r.lead],
         UNCHANGED <<optedOut, lockedBy>>,
         \A l \in Leads : lead'[l].state = "opted_out" => lead[l].state = "opted_out",
         wire'.kind # "reply"
  PROVE  ConductorSafe'
<1> USE DEF TypeOK, ConductorTypeOK
<1>0. TaskRowsTaken'
  BY TaskRowsStayTaken DEF ConductorSafe, Holding
<1>1. RowsHeld' /\ LeadRowsTaken'
  BY DEF ConductorSafe, RowsHeld, LeadRowsTaken
<1>2. ClearIsCurrent'
  BY DEF ConductorSafe, ClearIsCurrent, Holding
<1>3. NoStaleOptOut'
  BY DEF ConductorSafe, NoStaleOptOut, Holding
<1>4. OptedOutHasConsentRecord' /\ ReplyHonoursStop'
  BY DEF ConductorSafe, OptedOutHasConsentRecord, ReplyHonoursStop
<1> QED
  BY <1>0, <1>1, <1>2, <1>3, <1>4 DEF ConductorSafe

(* Steps that end the transaction of request p, if it has one, and write    *)
(* neither an opt-out nor, unless it is right, the state "opted_out".       *)
LEMMA EndStep ==
  ASSUME TypeOK, ConductorSafe, NEW p \in Web, NEW r \in Requests,
         web' = [web EXCEPT ![p] = r],
         r.pc \notin Holding, r.state # "opted_out", r.new # "opted_out",
         lockedBy' = Unlocked(p), UNCHANGED optedOut,
         \A l \in Leads : lead'[l].state = "opted_out" => optedOut[l],
         wire'.kind # "reply"
  PROVE  ConductorSafe'
<1> USE RequestTyped DEF TypeOK, ConductorTypeOK
<1>a. \A m \in Leads : lockedBy'[LeadRow(m)] =
        IF lockedBy[LeadRow(m)] = p THEN NoProc ELSE lockedBy[LeadRow(m)]
  BY RowsAfter
<1>b. \A q \in Web : q # p => web'[q] = web[q]
  OBVIOUS
<1>c. web'[p] = r
  OBVIOUS
<1>0. TaskRowsTaken'
  <2>1. \A m \in Leads, k \in TaskTypes : lockedBy'[TaskRow(m, k)] =
          IF lockedBy[TaskRow(m, k)] = p THEN NoProc ELSE lockedBy[TaskRow(m, k)]
    BY TaskRowsGivenBack
  <2> QED
    BY <1>b, <2>1, TaskRowsStayTaken, NoProcIsNobody DEF ConductorSafe
<1>1. RowsHeld'
  BY <1>a, <1>b, <1>c DEF ConductorSafe, RowsHeld
<1>2. LeadRowsTaken'
  BY <1>a, <1>b, NoProcIsNobody DEF ConductorSafe, LeadRowsTaken
<1>3. ClearIsCurrent'
  BY DEF ConductorSafe, ClearIsCurrent, Holding
<1>4. NoStaleOptOut'
  BY DEF ConductorSafe, NoStaleOptOut
<1>5. OptedOutHasConsentRecord' /\ ReplyHonoursStop'
  BY DEF OptedOutHasConsentRecord, ReplyHonoursStop
<1> QED
  BY <1>0, <1>1, <1>2, <1>3, <1>4, <1>5 DEF ConductorSafe

(* Steps inside the transaction of request p.                               *)
LEMMA SendStep ==
  ASSUME TypeOK, ConductorSafe, NEW p \in Web,
         web[p].pc = "send", web' = [web EXCEPT ![p].pc = "commit"],
         UNCHANGED <<lead, optedOut, lockedBy>>,
         wire'.kind = "reply" => wire'.to = web[p].lead /\ web[p].clear
  PROVE  ConductorSafe'
<1> USE RequestTyped DEF TypeOK, ConductorTypeOK, Requests
<1>0. TaskRowsTaken'
  BY TaskRowsStayTaken DEF ConductorSafe
<1>1. RowsHeld' /\ LeadRowsTaken'
  BY DEF ConductorSafe, RowsHeld, LeadRowsTaken, Holding
<1>2. ClearIsCurrent' /\ NoStaleOptOut'
  BY DEF ConductorSafe, ClearIsCurrent, NoStaleOptOut
<1>3. OptedOutHasConsentRecord' /\ ReplyHonoursStop'
  BY DEF ConductorSafe, OptedOutHasConsentRecord, ReplyHonoursStop, ClearIsCurrent
<1> QED
  BY <1>0, <1>1, <1>2, <1>3 DEF ConductorSafe

(* Steps that take the row of request p's lead and start its transaction.   *)
LEMMA FlushStep ==
  ASSUME TypeOK, ConductorSafe, NEW p \in Web, NEW r \in Requests,
         web' = [web EXCEPT ![p] = r],
         web[p].pc \notin Holding, r.pc \in {"stopping", "send"}, r.lead = web[p].lead,
         r.pc = "send" /\ r.clear => ~optedOut[r.lead],
         r.state = "opted_out" \/ r.new = "opted_out" =>
           optedOut[r.lead] \/ r.pc = "stopping",
         CanLock(p, LeadRow(r.lead)), lockedBy' = Locked(p, {LeadRow(r.lead)}),
         UNCHANGED <<lead, optedOut>>,
         wire'.kind # "reply"
  PROVE  ConductorSafe'
<1> USE RequestTyped DEF TypeOK, ConductorTypeOK
<1>a. \A m \in Leads : lockedBy'[LeadRow(m)] =
        IF m = r.lead THEN p ELSE lockedBy[LeadRow(m)]
  BY RowsAfter
<1>b. \A q \in Web : q # p => web'[q] = web[q]
  OBVIOUS
<1>c. web'[p] = r
  OBVIOUS
<1>d. \A q \in Web : q # p /\ web[q].pc \in Holding => web[q].lead # r.lead
  BY NoProcIsNobody DEF CanLock, ConductorSafe, RowsHeld
<1>e. r.lead \in Leads
  OBVIOUS
<1>0. TaskRowsTaken'
  BY <1>b, <1>e, TaskRowsAfter, TaskRowsStayTaken DEF ConductorSafe, Holding
<1>1. RowsHeld'
  BY <1>a, <1>b, <1>c, <1>d DEF ConductorSafe, RowsHeld
<1>2. LeadRowsTaken'
  <2> SUFFICES ASSUME NEW m \in Leads, NEW q \in Web, lockedBy'[LeadRow(m)] = q
               PROVE  web'[q].lead = m /\ web'[q].pc \in Holding
    BY DEF LeadRowsTaken
  <2>1. CASE m = r.lead
    BY <1>a, <1>c, <2>1 DEF Holding
  <2>2. CASE m # r.lead
    <3>1. lockedBy[LeadRow(m)] = q
      BY <1>a, <2>2
    <3>2. web[q].lead = m /\ web[q].pc \in Holding
      BY <3>1 DEF ConductorSafe, LeadRowsTaken
    <3> QED
      BY <1>b, <3>2
  <2> QED
    BY <2>1, <2>2
<1>3. ClearIsCurrent'
  BY <1>b, <1>c DEF ConductorSafe, ClearIsCurrent
<1>4. NoStaleOptOut'
  BY <1>b, <1>c DEF ConductorSafe, NoStaleOptOut
<1>5. OptedOutHasConsentRecord' /\ ReplyHonoursStop'
  BY DEF ConductorSafe, OptedOutHasConsentRecord, ReplyHonoursStop
<1> QED
  BY <1>0, <1>1, <1>2, <1>3, <1>4, <1>5 DEF ConductorSafe

(* The steps of a STOP's UPDATE: its lead and its new state stay, it may    *)
(* take rows of that lead's tasks.                                          *)
LEMMA CancelStep ==
  ASSUME TypeOK, ConductorSafe, NEW p \in Web, NEW r \in Requests, NEW ks \in SUBSET TaskTypes,
         web' = [web EXCEPT ![p] = r],
         web[p].pc \in {"stopping", "cancelling"}, r.pc = "cancelling",
         r.lead = web[p].lead,
         lockedBy' = Locked(p, {TaskRow(r.lead, k) : k \in ks}),
         UNCHANGED <<lead, optedOut>>,
         wire'.kind # "reply"
  PROVE  ConductorSafe'
<1> USE RequestTyped DEF TypeOK, ConductorTypeOK
<1>a. \A m \in Leads : lockedBy'[LeadRow(m)] = lockedBy[LeadRow(m)]
  BY LeadRows, TaskRows DEF Locked
<1>b. \A q \in Web : q # p => web'[q] = web[q]
  OBVIOUS
<1>c. web'[p] = r /\ r.lead \in Leads
  OBVIOUS
<1>1. RowsHeld'
  BY <1>a, <1>b, <1>c DEF ConductorSafe, RowsHeld, Holding
<1>2. LeadRowsTaken'
  BY <1>a, <1>b, <1>c DEF ConductorSafe, LeadRowsTaken, Holding
<1>3. TaskRowsTaken'
  <2> SUFFICES ASSUME NEW m \in Leads, NEW j \in TaskTypes, NEW q \in Web,
                      lockedBy'[TaskRow(m, j)] = q
               PROVE  web'[q].lead = m /\ web'[q].pc = "cancelling"
    BY DEF TaskRowsTaken
  <2>1. CASE lockedBy[TaskRow(m, j)] = q
    BY <1>b, <1>c, <2>1 DEF ConductorSafe, TaskRowsTaken
  <2>2. CASE lockedBy[TaskRow(m, j)] # q
    <3>1. TaskRow(m, j) \in {TaskRow(r.lead, k) : k \in ks} /\ q = p
      BY <2>2, TaskRows DEF Locked
    <3>2. m = r.lead
      BY <1>c, <3>1, TaskRows
    <3> QED
      BY <1>c, <3>1, <3>2
  <2> QED
    BY <2>1, <2>2
<1>4. ClearIsCurrent'
  BY <1>b, <1>c DEF ConductorSafe, ClearIsCurrent
<1>5. NoStaleOptOut'
  BY <1>b, <1>c DEF ConductorSafe, NoStaleOptOut
<1>6. OptedOutHasConsentRecord' /\ ReplyHonoursStop'
  BY DEF ConductorSafe, OptedOutHasConsentRecord, ReplyHonoursStop
<1> QED
  BY <1>1, <1>2, <1>3, <1>4, <1>5, <1>6 DEF ConductorSafe

LEMMA BeginCancelSafe ==
  ASSUME TypeOK, ConductorSafe, NEW p \in Web, BeginCancel(p)
  PROVE  ConductorSafe'
<1> DEFINE r == [web[p] EXCEPT !.pc = "cancelling", !.doomed = PendingTasks(web[p].lead)]
           ks == {}
<1>1. r \in Requests /\ r.pc = "cancelling" /\ r.lead = web[p].lead
  BY PlacesNamed DEF TypeOK, ConductorTypeOK, PendingTasks, Requests
<1>2. web' = [web EXCEPT ![p] = r] /\ web[p].pc = "stopping"
  BY DEF BeginCancel, At
<1>3. ks \in SUBSET TaskTypes /\ lockedBy' = Locked(p, {TaskRow(r.lead, k) : k \in ks})
  <2>1. lockedBy' = lockedBy /\ lockedBy = [s \in Rows |-> lockedBy[s]]
    BY DEF BeginCancel, StoreRests, TypeOK, StoreTypeOK
  <2>2. {TaskRow(r.lead, k) : k \in ks} = {}
    OBVIOUS
  <2> QED
    BY <2>1, <2>2 DEF Locked
<1>4. UNCHANGED <<lead, optedOut>> /\ wire'.kind # "reply"
  BY DEF BeginCancel, StoreRests, NoSms
<1> HIDE DEF r, ks
<1> QED
  BY <1>1, <1>2, <1>3, <1>4, CancelStep

LEMMA CancelTaskSafe ==
  ASSUME TypeOK, ConductorSafe, NEW p \in Web, NEW k \in TaskTypes, CancelTask(p, k)
  PROVE  ConductorSafe'
<1> DEFINE r == [web[p] EXCEPT !.doomed = @ \ {k}]
           ks == {k} \cap PendingTasks(web[p].lead)
<1>1. r \in Requests /\ r.pc = "cancelling" /\ r.lead = web[p].lead
  BY DEF TypeOK, ConductorTypeOK, Requests, CancelTask, At
<1>2. web' = [web EXCEPT ![p] = r] /\ web[p].pc = "cancelling"
  BY DEF CancelTask, At
<1>3. ks \in SUBSET TaskTypes
  OBVIOUS
<1>4. lockedBy' = Locked(p, {TaskRow(r.lead, j) : j \in ks})
  BY <1>1 DEF CancelTask
<1>5. UNCHANGED <<lead, optedOut>> /\ wire'.kind # "reply"
  BY DEF CancelTask, NoSms
<1> HIDE DEF r, ks
<1> QED
  BY <1>1, <1>2, <1>3, <1>4, <1>5, CancelStep

LEMMA CommitStopSafe ==
  ASSUME TypeOK, ConductorSafe, NEW p \in Web, CommitStop(p)
  PROVE  ConductorSafe'
<1> DEFINE l == web[p].lead
<1> USE RequestTyped DEF TypeOK, ConductorTypeOK
<1>a. /\ l \in Leads
      /\ web[p].pc = "cancelling"
      /\ web' = [web EXCEPT ![p] = Resting]
      /\ lockedBy' = Unlocked(p)
      /\ optedOut' = [optedOut EXCEPT ![l] = TRUE]
      /\ wire' = NoSms
  BY DEF CommitStop, Finish, At
<1>b. \A m \in Leads : lockedBy'[LeadRow(m)] =
        IF lockedBy[LeadRow(m)] = p THEN NoProc ELSE lockedBy[LeadRow(m)]
  BY <1>a, RowsAfter
<1>c. \A q \in Web : q # p => web'[q] = web[q]
  BY <1>a
<1>d. web'[p] = Resting /\ Resting.pc \notin Holding
  BY <1>a DEF Resting, Holding
<1>e. \A q \in Web : q # p /\ web[q].pc \in Holding => web[q].lead # l
  BY <1>a DEF ConductorSafe, RowsHeld, Holding
<1>f. \A m \in Leads : optedOut'[m] = (m = l \/ optedOut[m])
  BY <1>a DEF StoreTypeOK
<1>g. \A m \in Leads : m # l => lead'[m] = lead[m]
  <2>1. lead' = WithState(l, StateOf(p))
    BY DEF CommitStop
  <2>2. lead \in [Leads -> LeadRecords] /\ StateOf(p) \in States
    BY StateOfTyped DEF StoreTypeOK
  <2> QED
    BY <1>a, <2>1, <2>2, LeadWritten
<1>0. TaskRowsTaken'
  <2>1. \A m \in Leads, k \in TaskTypes : lockedBy'[TaskRow(m, k)] =
          IF lockedBy[TaskRow(m, k)] = p THEN NoProc ELSE lockedBy[TaskRow(m, k)]
    BY <1>a, TaskRowsGivenBack
  <2> QED
    BY <1>c, <2>1, TaskRowsStayTaken, NoProcIsNobody DEF ConductorSafe
<1>1. RowsHeld'
  BY <1>b, <1>c, <1>d DEF ConductorSafe, RowsHeld
<1>2. LeadRowsTaken'
  BY <1>b, <1>c, NoProcIsNobody DEF ConductorSafe, LeadRowsTaken
<1>3. ClearIsCurrent'
  BY <1>c, <1>d, <1>e, <1>f DEF ConductorSafe, ClearIsCurrent, Holding
<1>4. NoStaleOptOut'
  <2> SUFFICES ASSUME NEW q \in Web, q # p,
                      web[q].state = "opted_out" \/ web[q].new = "opted_out"
               PROVE  optedOut'[web[q].lead] \/ web[q].pc \in {"stopping", "cancelling"}
    BY <1>c, <1>d DEF NoStaleOptOut, Resting
  <2> QED
    BY <1>f DEF ConductorSafe, NoStaleOptOut
<1>5. OptedOutHasConsentRecord'
  BY <1>f, <1>g DEF ConductorSafe, OptedOutHasConsentRecord
<1>6. ReplyHonoursStop'
  BY <1>a DEF ReplyHonoursStop, NoSms
<1> QED
  BY <1>0, <1>1, <1>2, <1>3, <1>4, <1>5, <1>6 DEF ConductorSafe

LEMMA CommitReplySafe ==
  ASSUME TypeOK, ConductorSafe, NEW p \in Web, CommitReply(p)
  PROVE  ConductorSafe'
<1> DEFINE l == web[p].lead
           r == [Resting EXCEPT !.pc = "release", !.lead = l]
<1>1. l \in Leads
  BY RequestTyped DEF TypeOK, ConductorTypeOK
<1>2. r \in Requests /\ r.pc \notin Holding /\ r.state = "new" /\ r.new = "new"
  BY <1>1, PlacesNamed, StatesNamed DEF Requests, Resting, Holding
<1>3. /\ \A m \in Leads : m # l => lead'[m] = lead[m]
      /\ lead'[l].state = StateOf(p)
  <2>1. web[p].turn + 1 \in Nat
    BY RequestTyped DEF TypeOK, ConductorTypeOK
  <2>2. StateOf(p) \in States
    BY StateOfTyped DEF TypeOK, StoreTypeOK, ConductorTypeOK
  <2>3. lead' = [WithState(l, StateOf(p)) EXCEPT ![l].turn = web[p].turn + 1]
    BY DEF CommitReply
  <2> QED
    BY <1>1, <2>1, <2>2, <2>3, TurnWritten DEF TypeOK, StoreTypeOK
<1>5. \A m \in Leads : lead'[m].state = "opted_out" => optedOut[m]
  BY <1>3 DEF CommitReply, At, StateOf, Written, ConductorSafe, OptedOutHasConsentRecord, NoStaleOptOut
<1>6. web' = [web EXCEPT ![p] = r] /\ wire' = NoSms /\ lockedBy' = Unlocked(p) /\ UNCHANGED optedOut
  BY DEF CommitReply, Forget
<1>7. NoSms.kind # "reply"
  BY DEF NoSms
<1> HIDE DEF r
<1> QED
  BY <1>2, <1>5, <1>6, <1>7, EndStep

LEMMA RestingRequest ==
  ASSUME NEW l \in Leads, NEW pc \in Places
  PROVE  /\ Resting \in Requests
         /\ [Resting EXCEPT !.pc = pc, !.lead = l] \in Requests
BY LeadsAreNaturals, PlacesNamed, StatesNamed DEF Requests, Resting

(* What Finish, Forget and Load make of a request, and StoreRests of the    *)
(* store, in the terms of the lemmas above.                                 *)
LEMMA QuietMoves ==
  ASSUME TypeOK, ConductorSafe, NEW p \in Web, web[p].pc \notin Holding,
         UNCHANGED <<optedOut, lockedBy>>, wire'.kind # "reply",
         \A l \in Leads : lead'[l].state = "opted_out" => lead[l].state = "opted_out",
         \/ Finish(p) \/ Forget(p, "release")
         \/ \E l \in Leads, pc \in {"stop", "lock"} : Load(p, l, pc)
         \/ \E pc \in Places \ Holding : Go(p, pc)
  PROVE  ConductorSafe'
<1> USE RequestTyped, LeadsAreNaturals, PlacesNamed DEF TypeOK, ConductorTypeOK
<1>1. CASE Finish(p)
  <2>1. Resting \in Requests /\ Resting.pc \notin Holding /\ Resting.state = "new" /\ Resting.new = "new"
    BY RestingRequest DEF Resting, Holding
  <2> QED
    BY <1>1, <2>1, QuietStep DEF Finish
<1>2. CASE Forget(p, "release")
  <2> DEFINE r == [Resting EXCEPT !.pc = "release", !.lead = web[p].lead]
  <2>1. r \in Requests /\ r.pc \notin Holding /\ r.state = "new" /\ r.new = "new"
    BY RestingRequest DEF Resting, Holding
  <2>2. web' = [web EXCEPT ![p] = r]
    BY <1>2 DEF Forget
  <2> HIDE DEF r
  <2> QED
    BY <2>1, <2>2, QuietStep
<1>3. ASSUME NEW l \in Leads, NEW pc \in {"stop", "lock"}, Load(p, l, pc)
      PROVE  ConductorSafe'
  <2> DEFINE r == [Resting EXCEPT !.pc = pc, !.lead = l, !.state = lead[l].state,
                                  !.turn = lead[l].turn, !.new = lead[l].state]
  <2>1. /\ r \in Requests /\ r.pc \notin Holding /\ r.lead = l
        /\ r.state = lead[l].state /\ r.new = lead[l].state
    BY DEF Requests, Resting, StoreTypeOK, LeadRecords, Holding
  <2>2. web' = [web EXCEPT ![p] = r]
    BY <1>3 DEF Load
  <2>3. lead[l].state = "opted_out" => optedOut[l]
    BY DEF ConductorSafe, OptedOutHasConsentRecord
  <2> HIDE DEF r
  <2> QED
    BY <2>1, <2>2, <2>3, QuietStep
<1>4. ASSUME NEW pc \in Places \ Holding, Go(p, pc)
      PROVE  ConductorSafe'
  <2> DEFINE r == [web[p] EXCEPT !.pc = pc]
  <2>1. /\ r \in Requests /\ r.pc \notin Holding
        /\ r.state = web[p].state /\ r.new = web[p].new /\ r.lead = web[p].lead
    BY DEF Requests
  <2>2. web' = [web EXCEPT ![p] = r]
    BY <1>4 DEF Go
  <2>3. r.state = "opted_out" \/ r.new = "opted_out" => optedOut[r.lead]
    BY <2>1 DEF ConductorSafe, NoStaleOptOut, Holding
  <2> HIDE DEF r
  <2> QED
    BY <2>1, <2>2, <2>3, QuietStep
<1> QED
  BY <1>1, <1>2, <1>3, <1>4

LEMMA TextKinds ==
  /\ NoSms.kind # "reply"
  /\ \A l : /\ Sms(l, "reply").kind = "reply" /\ Sms(l, "reply").to = l
            /\ Sms(l, "intake").kind # "reply"
            /\ Sms(l, "duplicate_ack").kind # "reply"
            /\ Sms(l, "manual").kind # "reply"
BY DEF NoSms, Sms

LEMMA QuietPlaces ==
  {"idle", "create", "check", "greet", "greeted", "stop", "lock", "route", "release", "manual"}
    \subseteq Places \ Holding
BY DEF Places, Holding

LEMMA NewLeadSafe ==
  ASSUME TypeOK, ConductorSafe, NEW p \in Web, NewLeadStep(p)
  PROVE  ConductorSafe'
<1> USE QuietPlaces, TextKinds
<1>1. CASE RejectLead(p)
  BY <1>1, QuietMoves DEF RejectLead, At, StoreRests
<1>2. CASE CreateLead(p)
  <2> DEFINE r == [Resting EXCEPT !.pc = "check", !.lead = created + 1]
  <2>1. created + 1 \in Leads
    BY <1>2, StoreConstants DEF CreateLead, TypeOK, StoreTypeOK, Leads
  <2>2. r \in Requests /\ r.pc \notin Holding /\ r.state = "new" /\ r.new = "new"
    BY <2>1, RestingRequest DEF Resting, Holding, Places
  <2>3. web' = [web EXCEPT ![p] = r] /\ UNCHANGED optedOut
    BY <1>2 DEF CreateLead
  <2>4. \A l \in Leads : lead'[l].state = "opted_out" => lead[l].state = "opted_out"
    BY <1>2, <2>1 DEF CreateLead, TypeOK, StoreTypeOK, NewLead
  <2>5. web[p].pc \notin Holding
    BY <1>2 DEF CreateLead, At, Holding
  <2> HIDE DEF r
  <2> QED
    BY <1>2, <2>2, <2>3, <2>4, <2>5, QuietStep DEF CreateLead
<1>3. CASE PassCompliance(p)
  BY <1>3, QuietMoves DEF PassCompliance, At, StoreRests
<1>4. CASE BlockLead(p)
  BY <1>4, QuietMoves DEF BlockLead, At, StoreRests
<1>5. CASE Greet(p)
  BY <1>5, QuietMoves DEF Greet, At
<1>6. CASE GreetFails(p)
  BY <1>6, QuietMoves DEF GreetFails, At, StoreRests
<1>7. CASE FinishGreeting(p)
  <2> DEFINE l == web[p].lead
             s == Written("new", "intake_sent", lead[l].state)
  <2>1. l \in Leads
    BY RequestTyped DEF TypeOK, ConductorTypeOK
  <2>2. s \in States /\ s # "opted_out"
    BY StatesNamed DEF Written
  <2>3. lead' = WithState(l, s)
    BY <1>7 DEF FinishGreeting
  <2>4. \A m \in Leads : lead'[m].state = "opted_out" => lead[m].state = "opted_out"
    BY <2>1, <2>2, <2>3, LeadWritten DEF TypeOK, StoreTypeOK
  <2> QED
    BY <1>7, <2>4, QuietMoves DEF FinishGreeting, At
<1> QED
  BY <1>1, <1>2, <1>3, <1>4, <1>5, <1>6, <1>7 DEF NewLeadStep

LEMMA FlushSafe ==
  ASSUME TypeOK, ConductorSafe, NEW p \in Web, web[p].pc = "route",
         NEW s \in States, NEW books \in BOOLEAN, Flush(p, s, books),
         s = "opted_out" => web[p].state = "opted_out"
  PROVE  ConductorSafe'
<1> DEFINE l == web[p].lead
           r == [web[p] EXCEPT !.pc = "send", !.new = s, !.books = books, !.clear = ~optedOut[l]]
<1>1. /\ r \in Requests /\ r.pc = "send" /\ r.lead = l /\ r.state = web[p].state /\ r.new = s
      /\ r.clear = ~optedOut[l]
  BY PlacesNamed DEF TypeOK, ConductorTypeOK, Requests
<1>2. web' = [web EXCEPT ![p] = r]
  BY DEF Flush
<1>3. r.state = "opted_out" \/ r.new = "opted_out" => optedOut[r.lead]
  BY <1>1 DEF ConductorSafe, NoStaleOptOut
<1>4. /\ CanLock(p, LeadRow(r.lead))
      /\ lockedBy' = Locked(p, {LeadRow(r.lead)})
      /\ UNCHANGED <<lead, optedOut>>
      /\ wire'.kind # "reply"
  BY <1>1, TextKinds DEF Flush
<1>5. web[p].pc \notin Holding
  BY DEF Holding
<1> HIDE DEF r
<1> QED
  BY <1>1, <1>2, <1>3, <1>4, <1>5, FlushStep

LEMMA FlushStopSafe ==
  ASSUME TypeOK, ConductorSafe, NEW p \in Web, FlushStop(p)
  PROVE  ConductorSafe'
<1> DEFINE r == [web[p] EXCEPT !.pc = "stopping", !.new = "opted_out"]
<1>1. r \in Requests /\ r.pc = "stopping" /\ r.lead = web[p].lead
  BY PlacesNamed, StatesNamed DEF TypeOK, ConductorTypeOK, Requests
<1>2. web' = [web EXCEPT ![p] = r]
  BY DEF FlushStop
<1>3. /\ CanLock(p, LeadRow(r.lead))
      /\ lockedBy' = Locked(p, {LeadRow(r.lead)})
      /\ UNCHANGED <<lead, optedOut>>
      /\ wire'.kind # "reply"
      /\ web[p].pc \notin Holding
  BY <1>1, TextKinds DEF FlushStop, At, Holding
<1> HIDE DEF r
<1> QED
  BY <1>1, <1>2, <1>3, FlushStep

LEMMA ReplySafe ==
  ASSUME TypeOK, ConductorSafe, NEW p \in Web, ReplyStep(p)
  PROVE  ConductorSafe'
<1> USE QuietPlaces, TextKinds
<1>1. CASE EnterLock(p)
  BY <1>1, QuietMoves DEF EnterLock, At, StoreRests
<1>2. CASE WaitForLock(p)
  BY <1>2, RequestsRest DEF WaitForLock, StoreRests
<1>3. CASE GiveUpReply(p)
  BY <1>3, QuietMoves DEF GiveUpReply, At, StoreRests
<1>4. CASE RouteTurnLimit(p)
  BY <1>4, FlushSafe, StatesNamed DEF RouteTurnLimit, At
<1>5. CASE RouteToQualify(p)
  <2>1. PICK s \in {"qualified", "cold", Entry(p), "qualifying"} : Flush(p, s, FALSE)
    BY <1>5 DEF RouteToQualify
  <2>2. s \in States /\ (s = "opted_out" => web[p].state = "opted_out")
    BY EntryTyped, StatesNamed DEF Entry, Reengaged, TypeOK, ConductorTypeOK
  <2> QED
    BY <1>5, <2>1, <2>2, FlushSafe DEF RouteToQualify, At
<1>6. CASE RouteToBook(p)
  BY <1>6, FlushSafe, StatesNamed DEF RouteToBook, At
<1>7. CASE RouteRaises(p)
  BY <1>7, QuietMoves DEF RouteRaises, At, StoreRests
<1>8. CASE SendReply(p)
  BY <1>8, SendStep DEF SendReply, At, Go
<1>9. CASE WithholdReply(p)
  BY <1>9, SendStep DEF WithholdReply, At, Go, StoreRests
<1>10. CASE CommitReply(p)
  BY <1>10, CommitReplySafe
<1>11. CASE ReleaseLock(p)
  BY <1>11, QuietMoves DEF ReleaseLock, At, StoreRests
<1> QED
  BY <1>1, <1>2, <1>3, <1>4, <1>5, <1>6, <1>7, <1>8, <1>9, <1>10, <1>11 DEF ReplyStep

LEMMA ArriveSafe ==
  ASSUME TypeOK, ConductorSafe, NEW p \in Web, Arrive(p)
  PROVE  ConductorSafe'
<1> USE QuietPlaces, TextKinds
<1>1. ASSUME NEW src \in Sources, SubmitLead(p, src)
      PROVE  ConductorSafe'
  BY <1>1, QuietMoves DEF SubmitLead, Idle, StoreRests
<1>2. ASSUME NEW src \in Sources, AcknowledgeDuplicate(p, src)
      PROVE  ConductorSafe'
  BY <1>2, RequestsRest DEF AcknowledgeDuplicate, conductorVars
<1>3. CASE ReceiveStop(p)
  <2>1. created \in Leads
    BY <1>3 DEF ReceiveStop, TypeOK, StoreTypeOK, Leads
  <2> QED
    BY <1>3, <2>1, QuietMoves DEF ReceiveStop, Idle, StoreRests
<1>4. CASE ReceiveReply(p)
  <2>1. created \in Leads
    BY <1>4 DEF ReceiveReply, TypeOK, StoreTypeOK, Leads
  <2> QED
    BY <1>4, <2>1, QuietMoves DEF ReceiveReply, Idle, StoreRests
<1>5. ASSUME NEW l \in Leads, OpenManualReply(p, l)
      PROVE  ConductorSafe'
  <2> DEFINE r == [Resting EXCEPT !.pc = "manual", !.lead = l]
  <2>1. r \in Requests /\ r.pc \notin Holding /\ r.state = "new" /\ r.new = "new"
    BY RestingRequest DEF Resting
  <2>2. web' = [web EXCEPT ![p] = r]
    BY <1>5 DEF OpenManualReply
  <2>3. web[p].pc \notin Holding
    BY <1>5 DEF OpenManualReply, Idle
  <2> HIDE DEF r
  <2> QED
    BY <1>5, <2>1, <2>2, <2>3, QuietStep DEF OpenManualReply, StoreRests
<1> QED
  BY <1>1, <1>2, <1>3, <1>4, <1>5 DEF Arrive

LEMMA EnvironmentSafe ==
  ASSUME TypeOK, ConductorSafe, Environment
  PROVE  ConductorSafe'
<1> USE TextKinds, RequestsRest
<1>1. ASSUME NEW src \in Sources, DedupExpires(src)
      PROVE  ConductorSafe'
  BY <1>1 DEF DedupExpires, StoreRests
<1>2. ASSUME NEW l \in Leads, NEW s \in DashboardStates, SetStatus(l, s)
      PROVE  ConductorSafe'
  <2>1. s \in States /\ s # "opted_out"
    BY DEF DashboardStates
  <2>2. \A m \in Leads : lead'[m].state = "opted_out" => lead[m].state = "opted_out"
    BY <1>2, <2>1, LeadWritten DEF SetStatus, TypeOK, StoreTypeOK
  <2> QED
    BY <1>2, <2>2 DEF SetStatus, conductorVars
<1>3. ASSUME NEW l \in Leads, NEW b \in BOOLEAN, SetArchived(l, b)
      PROVE  ConductorSafe'
  <2>1. \A m \in Leads : lead'[m].state = lead[m].state
    BY <1>3 DEF SetArchived, TypeOK, StoreTypeOK, LeadRecords
  <2> QED
    BY <1>3, <2>1 DEF SetArchived, conductorVars
<1>4. ASSUME NEW l \in Leads, LockExpires(l)
      PROVE  ConductorSafe'
  BY <1>4 DEF LockExpires, StoreRests
<1> QED
  BY <1>1, <1>2, <1>3, <1>4 DEF Environment

LEMMA CrashSafe ==
  ASSUME TypeOK, ConductorSafe, NEW p \in Web, Crash(p)
  PROVE  ConductorSafe'
<1>1. /\ Resting \in Requests /\ Resting.pc \notin Holding
      /\ Resting.state # "opted_out" /\ Resting.new # "opted_out"
  BY RestingRequest, LeadsAreNaturals, PlacesNamed DEF Resting, Holding
<1>2. \A l \in Leads : lead'[l].state = "opted_out" => optedOut[l]
  BY DEF Crash, ConductorSafe, OptedOutHasConsentRecord
<1> QED
  BY <1>1, <1>2, EndStep, TextKinds DEF Crash, Finish

LEMMA ManualSafe ==
  ASSUME TypeOK, ConductorSafe, NEW p \in Web, SendManualReply(p)
  PROVE  ConductorSafe'
BY QuietMoves, QuietPlaces, TextKinds DEF SendManualReply, At

(* Every step of the web side keeps the invariant.                          *)
LEMMA SafeStep ==
  ASSUME TypeOK, ConductorSafe, ConductorNext
  PROVE  ConductorSafe'
BY NewLeadSafe, FlushStopSafe, BeginCancelSafe, CancelTaskSafe, CommitStopSafe, ReplySafe,
   ArriveSafe, EnvironmentSafe, CrashSafe, ManualSafe
   DEF ConductorNext, Proceed, StopStep, UpdateTasks

LEMMA SafeInit == Init => ConductorSafe
<1> SUFFICES ASSUME Init PROVE ConductorSafe
  OBVIOUS
<1>1. web = [p \in Web |-> Resting]
  BY DEF Init, ConductorInit
<1>2. RowsHeld /\ ClearIsCurrent /\ NoStaleOptOut
  BY <1>1 DEF RowsHeld, ClearIsCurrent, NoStaleOptOut, Resting, Holding
<1>3. LeadRowsTaken /\ TaskRowsTaken
  BY LeadRows, TaskRows, NoProcIsNobody DEF Init, StoreInit, LeadRowsTaken, TaskRowsTaken
<1>4. OptedOutHasConsentRecord /\ ReplyHonoursStop
  BY DEF Init, StoreInit, OptedOutHasConsentRecord, ReplyHonoursStop, NewLead, NoSms
<1> QED
  BY <1>2, <1>3, <1>4 DEF ConductorSafe

LEMMA SafeRests ==
  ASSUME TypeOK, ConductorSafe, UNCHANGED <<storeVars, web>>
  PROVE  ConductorSafe'
<1> USE DEF storeVars
<1>1. RowsHeld' /\ LeadRowsTaken' /\ TaskRowsTaken'
  BY DEF ConductorSafe, RowsHeld, LeadRowsTaken, TaskRowsTaken
<1>2. ClearIsCurrent' /\ NoStaleOptOut'
  BY DEF ConductorSafe, ClearIsCurrent, NoStaleOptOut
<1>3. OptedOutHasConsentRecord' /\ ReplyHonoursStop'
  BY DEF ConductorSafe, OptedOutHasConsentRecord, ReplyHonoursStop
<1> QED
  BY <1>1, <1>2, <1>3 DEF ConductorSafe

LEMMA SafeRowLocks == ConductorSafe => RowLocksInTransaction
BY DEF ConductorSafe, LeadRowsTaken, TaskRowsTaken, RowLocksInTransaction, Holding

-----------------------------------------------------------------------------
LEMMA ConductorInvariant == ConductorSpec => [](TypeOK /\ ConductorSafe)
<1>1. TypeOK /\ ConductorSafe /\ [ConductorNext]_vars => (TypeOK /\ ConductorSafe)'
  BY TypeStep, TypeRests, SafeStep, SafeRests DEF vars, conductorVars
<1> QED
  BY TypeInit, SafeInit, <1>1, PTL DEF ConductorSpec

(* conductor.py:471-491: no reply leaves after the commit of the lead's     *)
(* STOP, however many requests run at once and whichever faults happen to   *)
(* the Redis lock: the row lock alone carries the argument.                 *)
THEOREM RepliesHonourStop == ConductorSpec => []ReplyHonoursStop
<1>1. ConductorSafe => ReplyHonoursStop
  BY DEF ConductorSafe
<1> QED
  BY <1>1, ConductorInvariant, PTL

(* conductor.py:747-758: state "opted_out" and the consent record agree.    *)
THEOREM OptOutsAreRecorded == ConductorSpec => []OptedOutHasConsentRecord
<1>1. ConductorSafe => OptedOutHasConsentRecord
  BY DEF ConductorSafe
<1> QED
  BY <1>1, ConductorInvariant, PTL

(* A lead's row is held by a request in its transaction on that lead only,  *)
(* and a task's row by a STOP of its lead.                                  *)
THEOREM RowLocksAreInTransactions == ConductorSpec => []RowLocksInTransaction
BY SafeRowLocks, ConductorInvariant, PTL

-----------------------------------------------------------------------------
(* The lead lock inside the conductor.                                      *)

(* Where a request goes, and what it keeps, in each way it moves.           *)
Stays(q) == web'[q] = web[q]
OthersStay(p) == \A q \in Web \ {p} : Stays(q)

LEMMA PlacesAfter ==
  ASSUME web \in [Web -> Requests], NEW p \in Web
  PROVE  /\ Finish(p) => OthersStay(p) /\ web'[p].pc = "idle"
         /\ \A pc : Go(p, pc) => /\ OthersStay(p) /\ web'[p].pc = pc
                                 /\ web'[p].lead = web[p].lead /\ web'[p].turn = web[p].turn
         /\ \A pc : Forget(p, pc) => /\ OthersStay(p) /\ web'[p].pc = pc
                                     /\ web'[p].lead = web[p].lead
         /\ \A l, pc : Load(p, l, pc) => /\ OthersStay(p) /\ web'[p].pc = pc
                                         /\ web'[p].lead = l /\ web'[p].turn = lead[l].turn
         /\ \A s, books : Flush(p, s, books) =>
              /\ OthersStay(p) /\ web'[p].pc = "send"
              /\ web'[p].lead = web[p].lead /\ web'[p].turn = web[p].turn
<1> USE DEF Requests, OthersStay, Stays
<1>1. Finish(p) => OthersStay(p) /\ web'[p].pc = "idle"
  BY DEF Finish, Resting
<1>2. ASSUME NEW pc, Go(p, pc)
      PROVE  /\ OthersStay(p) /\ web'[p].pc = pc
             /\ web'[p].lead = web[p].lead /\ web'[p].turn = web[p].turn
  BY <1>2 DEF Go
<1>3. ASSUME NEW pc, Forget(p, pc)
      PROVE  OthersStay(p) /\ web'[p].pc = pc /\ web'[p].lead = web[p].lead
  BY <1>3 DEF Forget, Resting
<1>4. ASSUME NEW l, NEW pc, Load(p, l, pc)
      PROVE  /\ OthersStay(p) /\ web'[p].pc = pc
             /\ web'[p].lead = l /\ web'[p].turn = lead[l].turn
  BY <1>4 DEF Load, Resting
<1>5. ASSUME NEW s, NEW books, Flush(p, s, books)
      PROVE  /\ OthersStay(p) /\ web'[p].pc = "send"
             /\ web'[p].lead = web[p].lead /\ web'[p].turn = web[p].turn
  BY <1>5 DEF Flush
<1> QED
  BY <1>1, <1>2, <1>3, <1>4, <1>5

(* A request is in the body of lead_lock while it processes a reply, waits  *)
(* for the lock before that, and has nothing to do with it otherwise.       *)
InsideLock == {"route", "send", "commit", "release"}
LockMatches(p) ==
  /\ at[p] = "polling" <=> web[p].pc = "lock"
  /\ at[p] = "in" <=> web[p].pc \in InsideLock
  /\ at[p] # "out" => want[p] = web[p].lead

LocksMatch == \A p \in Web : LockMatches(p)

LEMMA MatchOne ==
  ASSUME LocksMatch, NEW p \in Web, OthersStay(p), LockMatches(p)',
         \A q \in Web \ {p} : at'[q] = at[q] /\ want'[q] = want[q]
  PROVE  LocksMatch'
BY DEF LocksMatch, LockMatches, OthersStay, Stays

(* A step that has nothing to do with the lock.                             *)
LEMMA MatchAway ==
  ASSUME LocksMatch, NEW p \in Web, OthersStay(p), UNCHANGED <<at, want>>,
         web[p].pc \notin InsideLock \cup {"lock"}, web'[p].pc \notin InsideLock \cup {"lock"},
         Lock!LockTypeOK
  PROVE  LocksMatch'
BY MatchOne DEF LocksMatch, LockMatches, InsideLock, Lock!LockTypeOK

(* A step within the body.                                                  *)
LEMMA MatchInside ==
  ASSUME LocksMatch, NEW p \in Web, OthersStay(p), UNCHANGED <<at, want>>,
         web[p].pc \in InsideLock, web'[p].pc \in InsideLock, web'[p].lead = web[p].lead
  PROVE  LocksMatch'
BY MatchOne DEF LocksMatch, LockMatches, InsideLock

LEMMA MatchRests == LocksMatch /\ UNCHANGED <<web, at, want>> => LocksMatch'
BY DEF LocksMatch, LockMatches

(* What each of the lock's operations does to the other requests.           *)
LEMMA LockPlaces ==
  ASSUME Lock!LockTypeOK, NEW p \in Web,
         \/ \E l \in Leads : Lock!Request(p, l)
         \/ Lock!Acquire(p) \/ Lock!Poll(p) \/ Lock!TimeOut(p) \/ Lock!ProceedUnlocked(p)
         \/ Lock!Release(p) \/ Lock!ReleaseFails(p) \/ Lock!LockCrash(p)
  PROVE  \A q \in Web \ {p} : at'[q] = at[q] /\ want'[q] = want[q]
BY DEF Lock!LockTypeOK, Lock!Request, Lock!Acquire, Lock!Poll, Lock!TimeOut,
       Lock!ProceedUnlocked, Lock!Release, Lock!ReleaseFails, Lock!LockCrash

LEMMA NewLeadMatches ==
  ASSUME TypeOK, LocksMatch, NEW p \in Web, NewLeadStep(p) \/ SendManualReply(p)
  PROVE  LocksMatch'
<1> USE PlacesAfter DEF TypeOK, ConductorTypeOK, InsideLock, lockVars, At, StoreRests
<1>1. CASE CreateLead(p)
  BY <1>1, MatchAway DEF CreateLead, OthersStay, Stays, Resting
<1>2. CASE RejectLead(p) \/ BlockLead(p) \/ FinishGreeting(p) \/ SendManualReply(p)
  BY <1>2, MatchAway DEF RejectLead, BlockLead, FinishGreeting, SendManualReply
<1>3. CASE PassCompliance(p) \/ Greet(p) \/ GreetFails(p)
  BY <1>3, MatchAway DEF PassCompliance, Greet, GreetFails
<1> QED
  BY <1>1, <1>2, <1>3 DEF NewLeadStep

LEMMA StopMatches ==
  ASSUME TypeOK, LocksMatch, NEW p \in Web, StopStep(p)
  PROVE  LocksMatch'
<1> USE DEF TypeOK, ConductorTypeOK, InsideLock, lockVars, At
<1>1. CASE FlushStop(p)
  BY <1>1, MatchAway DEF FlushStop, OthersStay, Stays, Requests
<1>2. CASE CommitStop(p)
  BY <1>2, MatchAway, PlacesAfter DEF CommitStop
<1>3. CASE BeginCancel(p)
  BY <1>3, MatchAway DEF BeginCancel, OthersStay, Stays, Requests
<1>4. ASSUME NEW k \in TaskTypes, CancelTask(p, k)
      PROVE  LocksMatch'
  BY <1>4, MatchAway DEF CancelTask, OthersStay, Stays, Requests
<1> QED
  BY <1>1, <1>2, <1>3, <1>4 DEF StopStep, UpdateTasks

LEMMA ReplyMatches ==
  ASSUME TypeOK, LocksMatch, NEW p \in Web, ReplyStep(p)
  PROVE  LocksMatch'
<1> USE PlacesAfter DEF TypeOK, ConductorTypeOK, InsideLock, lockVars, At, StoreRests
<1>1. CASE EnterLock(p)
  BY <1>1, LockPlaces, MatchOne DEF EnterLock, Lock!Acquire, Lock!ProceedUnlocked, LocksMatch,
    LockMatches, Lock!LockTypeOK
<1>2. CASE WaitForLock(p)
  BY <1>2, MatchRests DEF WaitForLock, Lock!Poll
<1>3. CASE GiveUpReply(p)
  BY <1>3, LockPlaces, MatchOne DEF GiveUpReply, Lock!TimeOut, LockMatches, Lock!LockTypeOK
<1>4. ASSUME NEW s, NEW books, Flush(p, s, books), At(p, "route")
      PROVE  LocksMatch'
  <2>1. UNCHANGED <<at, want>>
    BY <1>4 DEF Flush
  <2> QED
    BY <1>4, <2>1, MatchInside
<1>5. CASE RouteRaises(p) \/ CommitReply(p)
  BY <1>5, MatchInside DEF RouteRaises, CommitReply
<1>6. CASE SendReply(p) \/ WithholdReply(p)
  BY <1>6, MatchInside DEF SendReply, WithholdReply
<1>7. CASE ReleaseLock(p)
  BY <1>7, LockPlaces, MatchOne DEF ReleaseLock, Lock!Release, Lock!ReleaseFails, LockMatches,
    Lock!LockTypeOK
<1> QED
  BY <1>1, <1>2, <1>3, <1>4, <1>5, <1>6, <1>7
     DEF ReplyStep, RouteTurnLimit, RouteToQualify, RouteToBook

LEMMA ArriveMatches ==
  ASSUME TypeOK, LocksMatch, NEW p \in Web, Arrive(p)
  PROVE  LocksMatch'
<1> USE PlacesAfter DEF TypeOK, ConductorTypeOK, InsideLock, lockVars, Idle, StoreRests
<1>1. CASE \E src \in Sources : SubmitLead(p, src)
  BY <1>1, MatchAway DEF SubmitLead
<1>2. CASE \E src \in Sources : AcknowledgeDuplicate(p, src)
  BY <1>2, MatchRests DEF AcknowledgeDuplicate, conductorVars
<1>3. CASE ReceiveStop(p)
  BY <1>3, MatchAway DEF ReceiveStop
<1>4. CASE ReceiveReply(p)
  <2>1. created \in Leads
    BY <1>4 DEF ReceiveReply, StoreTypeOK, Leads
  <2>2. /\ Load(p, created, "lock") /\ Lock!Request(p, created)
        /\ \A q \in Web \ {p} : at'[q] = at[q] /\ want'[q] = want[q]
    BY <1>4, <2>1, LockPlaces DEF ReceiveReply
  <2>3. OthersStay(p) /\ web'[p].pc = "lock" /\ web'[p].lead = created
    BY <2>2
  <2>4. at'[p] = "polling" /\ want'[p] = created
    BY <2>1, <2>2 DEF Lock!Request, Lock!LockTypeOK
  <2> QED
    BY <2>2, <2>3, <2>4, MatchOne DEF LockMatches
<1>5. CASE \E l \in Leads : OpenManualReply(p, l)
  BY <1>5, MatchAway DEF OpenManualReply, OthersStay, Stays, Resting
<1> QED
  BY <1>1, <1>2, <1>3, <1>4, <1>5 DEF Arrive

LEMMA EnvironmentMatches ==
  ASSUME LocksMatch, Environment
  PROVE  LocksMatch'
BY MatchRests DEF Environment, DedupExpires, SetStatus, SetArchived, LockExpires, Lock!Expire,
  conductorVars, lockVars

LEMMA CrashMatches ==
  ASSUME TypeOK, LocksMatch, NEW p \in Web, Crash(p)
  PROVE  LocksMatch'
<1>1. at'[p] = "out" /\ \A q \in Web \ {p} : at'[q] = at[q] /\ want'[q] = want[q]
  BY LockPlaces DEF Crash, Lock!LockCrash, Lock!LockTypeOK, TypeOK, ConductorTypeOK, lockVars
<1> QED
  BY <1>1, PlacesAfter, MatchOne DEF Crash, LockMatches, InsideLock, TypeOK, ConductorTypeOK

LEMMA MatchStep ==
  ASSUME TypeOK, LocksMatch, ConductorNext
  PROVE  LocksMatch'
BY NewLeadMatches, StopMatches, ReplyMatches, ArriveMatches, EnvironmentMatches, CrashMatches
   DEF ConductorNext, Proceed

LEMMA MatchInit == Init => LocksMatch
BY DEF Init, ConductorInit, LocksMatch, LockMatches, InsideLock, Resting

(* The refinement: each step of the conductor is a step of the lock or      *)
(* leaves it alone.                                                         *)
LEMMA LockStepOfWeb ==
  ASSUME TypeOK, ConductorNext
  PROVE  [Lock!LockNext]_lockVars
<1> USE DEF Lock!LockNext
<1>1. ASSUME NEW p \in Web, NewLeadStep(p) \/ StopStep(p) \/ SendManualReply(p)
      PROVE  UNCHANGED lockVars
  BY <1>1 DEF NewLeadStep, StopStep, UpdateTasks, RejectLead, CreateLead, PassCompliance, BlockLead, Greet,
    GreetFails, FinishGreeting, FlushStop, BeginCancel, CancelTask, CommitStop, SendManualReply
<1>2. ASSUME NEW p \in Web, ReplyStep(p)
      PROVE  [Lock!LockNext]_lockVars
  <2>1. CASE EnterLock(p) \/ WaitForLock(p) \/ GiveUpReply(p) \/ ReleaseLock(p)
    BY <2>1 DEF EnterLock, WaitForLock, GiveUpReply, ReleaseLock
  <2>2. ASSUME NEW s, NEW books, Flush(p, s, books)
        PROVE  UNCHANGED lockVars
    BY <2>2 DEF Flush
  <2>3. CASE RouteRaises(p) \/ SendReply(p) \/ WithholdReply(p) \/ CommitReply(p)
    BY <2>3 DEF RouteRaises, SendReply, WithholdReply, CommitReply
  <2> QED
    BY <1>2, <2>1, <2>2, <2>3 DEF ReplyStep, RouteTurnLimit, RouteToQualify, RouteToBook
<1>3. ASSUME NEW p \in Web, Arrive(p)
      PROVE  [Lock!LockNext]_lockVars
  <2>1. CASE ReceiveReply(p)
    <3>1. created \in Leads
      BY <2>1 DEF ReceiveReply, TypeOK, StoreTypeOK, Leads
    <3> QED
      BY <2>1, <3>1 DEF ReceiveReply
  <2>2. CASE ~ReceiveReply(p)
    BY <1>3, <2>2 DEF Arrive, SubmitLead, AcknowledgeDuplicate, ReceiveStop, OpenManualReply,
      conductorVars
  <2> QED
    BY <2>1, <2>2
<1>4. ASSUME Environment
      PROVE  [Lock!LockNext]_lockVars
  BY <1>4 DEF Environment, DedupExpires, SetStatus, SetArchived, LockExpires, conductorVars
<1>5. ASSUME NEW p \in Web, Crash(p)
      PROVE  [Lock!LockNext]_lockVars
  BY <1>5 DEF Crash
<1> QED
  BY <1>1, <1>2, <1>3, <1>4, <1>5 DEF ConductorNext, Proceed

LEMMA LockInitOfWeb == Init => Lock!LockInit
BY LeadsAreNaturals DEF Init, ConductorInit, Lock!LockInit

(* conductor.py:368-370, locks.py: whatever the requests do, the lead locks *)
(* they use are those of LeadLock: the conductor implements it.             *)
THEOREM ConductorImplementsLock == ConductorSpec => Lock!LockInit /\ [][Lock!LockNext]_lockVars
<1>1. TypeOK /\ [ConductorNext]_vars => [Lock!LockNext]_lockVars
  BY LockStepOfWeb DEF vars, conductorVars, lockVars
<1> QED
  BY <1>1, LockInitOfWeb, ConductorTypeCorrect, PTL DEF ConductorSpec

(* What the lock promises to whoever implements it, whatever its users do.  *)
LockSafety == Lock!LockInit /\ [][Lock!LockNext]_lockVars

LEMMA LockTypesStep ==
  ASSUME Lock!LockTypeOK, [Lock!LockNext]_lockVars
  PROVE  Lock!LockTypeOK'
<1>1. ASSUME NEW l \in Leads, Web = {}, Lock!Expire(l)
      PROVE  Lock!LockTypeOK'
  BY <1>1 DEF Lock!Expire, Lock!LockTypeOK
<1> QED
  BY <1>1, LockTyped, LockRests, LeadsAreNaturals DEF Lock!LockNext

LEMMA OwnersStep ==
  ASSUME Lock!LockTypeOK, Lock!KeyHasItsOwner, [Lock!LockNext]_lockVars
  PROVE  Lock!KeyHasItsOwner'
<1> USE ConductorConstants DEF Lock!LockTypeOK, Lock!KeyHasItsOwner, Lock!Owns, Sessions
<1>1. ASSUME NEW p \in Web, NEW l \in Leads, Lock!Request(p, l)
      PROVE  Lock!KeyHasItsOwner'
  BY <1>1 DEF Lock!Request
<1>2. ASSUME NEW p \in Web, Lock!Acquire(p) \/ Lock!ProceedUnlocked(p)
      PROVE  Lock!KeyHasItsOwner'
  BY <1>2 DEF Lock!Acquire, Lock!ProceedUnlocked
<1>3. ASSUME NEW p \in Web, Lock!Poll(p) \/ Lock!TimeOut(p)
      PROVE  Lock!KeyHasItsOwner'
  BY <1>3 DEF Lock!Poll, Lock!TimeOut
<1>4. ASSUME NEW p \in Web, Lock!Release(p)
      PROVE  Lock!KeyHasItsOwner'
  BY <1>4, NoProcIsNobody DEF Lock!Release
<1>5. ASSUME NEW p \in Web, Lock!ReleaseFails(p) \/ Lock!LockCrash(p)
      PROVE  Lock!KeyHasItsOwner'
  BY <1>5 DEF Lock!ReleaseFails, Lock!LockCrash, Lock!Abandoned
<1>6. ASSUME NEW l \in Leads, Lock!Expire(l)
      PROVE  Lock!KeyHasItsOwner'
  BY <1>6, NoProcIsNobody DEF Lock!Expire
<1>7. CASE UNCHANGED lockVars
  BY <1>7 DEF lockVars
<1> QED
  BY <1>1, <1>2, <1>3, <1>4, <1>5, <1>6, <1>7 DEF Lock!LockNext

LEMMA LockIsSafe == LockSafety => [](Lock!LockTypeOK /\ Lock!KeyHasItsOwner)
<1>1. Lock!LockInit => Lock!LockTypeOK /\ Lock!KeyHasItsOwner
  BY ConductorConstants, NoProcIsNobody DEF Lock!LockInit, Lock!LockTypeOK, Lock!KeyHasItsOwner
<1>2. /\ Lock!LockTypeOK /\ Lock!KeyHasItsOwner /\ [Lock!LockNext]_lockVars
      => (Lock!LockTypeOK /\ Lock!KeyHasItsOwner)'
  BY LockTypesStep, OwnersStep
<1> QED
  BY <1>1, <1>2, PTL DEF LockSafety

(* A key that goes is deleted by its owner, or by the TTL.                  *)
LEMMA OwnersReleaseStep ==
  ASSUME Lock!LockTypeOK, [Lock!LockNext]_lockVars,
         NEW l \in Leads, key[l] # NoProc, key'[l] = NoProc
  PROVE  Lock!Expire(l) \/ \E p \in Web : Lock!Owns(p, l) /\ at'[p] = "out"
<1> USE DEF Lock!LockTypeOK
<1>1. ASSUME NEW p \in Web, \E m \in Leads : Lock!Request(p, m)
      PROVE  FALSE
  BY <1>1 DEF Lock!Request
<1>2. ASSUME NEW p \in Web, Lock!Acquire(p)
      PROVE  FALSE
  BY <1>2, NoProcIsNobody DEF Lock!Acquire
<1>3. ASSUME NEW p \in Web, Lock!Poll(p) \/ Lock!TimeOut(p) \/ Lock!ProceedUnlocked(p)
      PROVE  FALSE
  BY <1>3 DEF Lock!Poll, Lock!TimeOut, Lock!ProceedUnlocked
<1>4. ASSUME NEW p \in Web, Lock!Release(p)
      PROVE  \E q \in Web : Lock!Owns(q, l) /\ at'[q] = "out"
  BY <1>4 DEF Lock!Release, Lock!Owns
<1>5. ASSUME NEW p \in Web, Lock!ReleaseFails(p) \/ Lock!LockCrash(p)
      PROVE  FALSE
  BY <1>5, ConductorConstants DEF Lock!ReleaseFails, Lock!LockCrash, Lock!Abandoned
<1>6. ASSUME NEW m \in Leads, Lock!Expire(m)
      PROVE  Lock!Expire(l)
  <2>1. m = l
    BY <1>6 DEF Lock!Expire
  <2> QED
    BY <1>6, <2>1
<1>7. CASE UNCHANGED lockVars
  BY <1>7 DEF lockVars
<1> QED
  BY <1>1, <1>2, <1>3, <1>4, <1>5, <1>6, <1>7 DEF Lock!LockNext

LEMMA LockReleases == LockSafety => Lock!OnlyOwnerReleases
<1> DEFINE Kept == \A l \in Leads : key[l] # NoProc /\ key'[l] = NoProc =>
                     \/ Lock!Expire(l)
                     \/ \E p \in Web : Lock!Owns(p, l) /\ at'[p] = "out"
<1>1. Lock!LockTypeOK /\ [Lock!LockNext]_lockVars => [Kept]_(Lock!lockVars)
  <2>1. Lock!LockTypeOK /\ [Lock!LockNext]_lockVars => Kept
    BY OwnersReleaseStep
  <2> HIDE DEF Kept
  <2> QED
    BY <2>1
<1> QED
  BY <1>1, LockIsSafe, PTL DEF LockSafety, Lock!OnlyOwnerReleases

(* While nobody outlives the TTL and Redis answers, being in the body means *)
(* holding the key.                                                         *)
InsideHolds == \A p \in Web : at[p] = "in" => key[want[p]] = p

LEMMA InsideHoldsStep ==
  ASSUME "ttl" \notin Faults, "redis" \notin Faults,
         Lock!LockTypeOK, InsideHolds, [Lock!LockNext]_lockVars
  PROVE  InsideHolds'
<1> USE ConductorConstants DEF Lock!LockTypeOK, InsideHolds
<1>1. ASSUME NEW p \in Web, NEW l \in Leads, Lock!Request(p, l)
      PROVE  InsideHolds'
  BY <1>1 DEF Lock!Request
<1>2. ASSUME NEW p \in Web, Lock!Acquire(p)
      PROVE  InsideHolds'
  BY <1>2, NoProcIsNobody DEF Lock!Acquire
<1>3. ASSUME NEW p \in Web, Lock!Poll(p) \/ Lock!TimeOut(p)
      PROVE  InsideHolds'
  BY <1>3 DEF Lock!Poll, Lock!TimeOut
<1>4. ASSUME NEW p \in Web, Lock!Release(p)
      PROVE  InsideHolds'
  BY <1>4 DEF Lock!Release
<1>5. ASSUME NEW p \in Web, Lock!LockCrash(p)
      PROVE  InsideHolds'
  BY <1>5 DEF Lock!LockCrash, Lock!Abandoned
<1>6. ASSUME NEW l \in Leads, Lock!Expire(l)
      PROVE  InsideHolds'
  BY <1>6 DEF Lock!Expire, Sessions
<1>7. CASE UNCHANGED lockVars
  BY <1>7 DEF lockVars
<1> QED
  BY <1>1, <1>2, <1>3, <1>4, <1>5, <1>6, <1>7
     DEF Lock!LockNext, Lock!ProceedUnlocked, Lock!ReleaseFails

LEMMA LockExcludes ==
  ASSUME "ttl" \notin Faults, "redis" \notin Faults
  PROVE  LockSafety => []Lock!Exclusive
<1>1. Lock!LockInit => InsideHolds
  BY DEF Lock!LockInit, InsideHolds
<1>2. Lock!LockTypeOK /\ InsideHolds /\ [Lock!LockNext]_lockVars => InsideHolds'
  BY InsideHoldsStep
<1>3. InsideHolds => Lock!Exclusive
  BY DEF InsideHolds, Lock!Exclusive, Lock!InBody
<1> QED
  BY <1>1, <1>2, <1>3, LockIsSafe, PTL DEF LockSafety

-----------------------------------------------------------------------------
LEMMA LocksAlwaysMatch == ConductorSpec => []LocksMatch
<1>1. TypeOK /\ LocksMatch /\ [ConductorNext]_vars => LocksMatch'
  BY MatchStep, MatchRests DEF vars, conductorVars, lockVars
<1> QED
  BY MatchInit, <1>1, ConductorTypeCorrect, PTL DEF ConductorSpec

(* Two requests are never both between the entry of a lead's lock and its   *)
(* release: routing, texting and committing replies of the lead.            *)
OneReplyPerLead ==
  \A p, q \in Web : /\ web[p].pc \in InsideLock /\ web[q].pc \in InsideLock
                    /\ web[p].lead = web[q].lead
                    => p = q

LEMMA ExclusiveReplies ==
  ASSUME Lock!LockTypeOK, LocksMatch, Lock!Exclusive
  PROVE  OneReplyPerLead
BY DEF Lock!LockTypeOK, LocksMatch, LockMatches, Lock!Exclusive, Lock!InBody, OneReplyPerLead

(* conductor.py:366-370, "Lead-level lock prevents race conditions": if no  *)
(* reply outlives LOCK_TTL_SECONDS and Redis always answers, replies of one *)
(* lead are processed one at a time, also when workers crash.  (They are    *)
(* loaded before that, so their turns can still be lost.)                   *)
THEOREM RepliesAreExclusive ==
  ASSUME "ttl" \notin Faults, "redis" \notin Faults
  PROVE  ConductorSpec => []OneReplyPerLead
<1>1. Lock!LockTypeOK /\ LocksMatch /\ Lock!Exclusive => OneReplyPerLead
  BY ExclusiveReplies
<1> QED
  BY <1>1, LockExcludes, LockIsSafe, LocksAlwaysMatch, ConductorImplementsLock, PTL DEF LockSafety

(* locks.py:19-43, of the lock as the conductor uses it: a key that carries *)
(* the value of a request belongs to one that is processing a reply of that *)
(* lead: no exception, lost reply or crash leaves it behind.                *)
KeysOfReplies ==
  \A l \in Leads : key[l] \in Web => web[key[l]].pc \in InsideLock /\ web[key[l]].lead = l

LEMMA OwnedKeys ==
  ASSUME LocksMatch, Lock!KeyHasItsOwner
  PROVE  KeysOfReplies
BY DEF LocksMatch, LockMatches, Lock!KeyHasItsOwner, Lock!Owns, KeysOfReplies

(* locks.py:19-43: every key in Redis that a request has set belongs to a   *)
(* reply it is still processing.                                            *)
THEOREM KeysBelongToReplies == ConductorSpec => []KeysOfReplies
<1>1. LocksMatch /\ Lock!KeyHasItsOwner => KeysOfReplies
  BY OwnedKeys
<1> QED
  BY <1>1, LockIsSafe, LocksAlwaysMatch, ConductorImplementsLock, PTL DEF LockSafety

(* locks.py:79-93, of the lock as the conductor uses it: a reply that has   *)
(* overstayed never deletes the key of the one that came after it.          *)
THEOREM LeadKeysAreReleased == ConductorSpec => Lock!OnlyOwnerReleases
BY LockReleases, ConductorImplementsLock, PTL DEF LockSafety

-----------------------------------------------------------------------------
(* The turns of a lead.                                                     *)

(* The requests that carry the turn count they have loaded.                 *)
InTurn == {"lock", "route", "send", "commit"}

(* No lead, and no reply on its way, counts more turns than replies.        *)
TurnsAreHeard ==
  /\ \A l \in Leads : lead[l].turn <= heard[l]
  /\ \A p \in Web : web[p].pc \in InTurn => web[p].turn <= heard[web[p].lead]

(* What a step does to the turns: it leaves them alone but for those of a   *)
(* lead that is created or that a reply is committed for.                   *)
TurnsStay == UNCHANGED heard /\ \A l \in Leads : lead'[l].turn = lead[l].turn

(* Request p loads the turns of a lead, keeps what it has, or forgets it.   *)
LoadsTurn(p) ==
  /\ OthersStay(p)
  /\ web'[p].pc \in InTurn =>
       \/ /\ web[p].pc \in InTurn
          /\ web'[p].lead = web[p].lead /\ web'[p].turn = web[p].turn
       \/ web'[p].lead \in 1..created /\ web'[p].turn = lead[web'[p].lead].turn

TurnWrittenBy(p) ==
  /\ web[p].pc = "commit" /\ web'[p].pc \notin InTurn /\ OthersStay(p)
  /\ heard' = [heard EXCEPT ![web[p].lead] = @ + 1]
  /\ lead'[web[p].lead].turn = web[p].turn + 1
  /\ \A m \in Leads : m # web[p].lead => lead'[m].turn = lead[m].turn

(* A lead is created, in place of one that was not there.                   *)
TurnsBegin(p) ==
  /\ OthersStay(p) /\ web'[p].pc \notin InTurn
  /\ UNCHANGED heard
  /\ created + 1 \in Leads /\ created' = created + 1
  /\ lead'[created + 1].turn = 0
  /\ \A m \in Leads : m # created + 1 => lead'[m].turn = lead[m].turn

TurnStep ==
  \/ TurnsStay /\ created' = created /\ web' = web
  \/ \E p \in Web : \/ TurnsStay /\ created' = created /\ LoadsTurn(p)
                    \/ TurnWrittenBy(p) /\ created' = created
                    \/ TurnsBegin(p)

LEMMA StateKeepsTurn ==
  ASSUME lead \in [Leads -> LeadRecords], NEW l \in Leads, NEW s
  PROVE  \A m \in Leads : WithState(l, s)[m].turn = lead[m].turn
BY DEF WithState, LeadRecords

LEMMA NewLeadTurns ==
  ASSUME TypeOK, NEW p \in Web, NewLeadStep(p) \/ SendManualReply(p)
  PROVE  TurnStep
<1> USE PlacesAfter, RequestTyped
        DEF TypeOK, ConductorTypeOK, StoreTypeOK, InTurn, TurnStep, edgeVars, StoreRests
<1>1. CASE RejectLead(p) \/ BlockLead(p) \/ SendManualReply(p)
  <2>1. TurnsStay /\ created' = created
    BY <1>1 DEF RejectLead, BlockLead, SendManualReply, TurnsStay
  <2>2. LoadsTurn(p)
    BY <1>1 DEF RejectLead, BlockLead, SendManualReply, LoadsTurn
  <2> QED
    BY <2>1, <2>2
<1>2. CASE PassCompliance(p) \/ Greet(p) \/ GreetFails(p)
  <2>1. TurnsStay /\ created' = created
    BY <1>2 DEF PassCompliance, Greet, GreetFails, TurnsStay
  <2>2. LoadsTurn(p)
    BY <1>2 DEF PassCompliance, Greet, GreetFails, LoadsTurn
  <2> QED
    BY <2>1, <2>2
<1>3. CASE FinishGreeting(p)
  <2>1. TurnsStay /\ created' = created
    BY <1>3, StateKeepsTurn DEF FinishGreeting, TurnsStay
  <2>2. LoadsTurn(p)
    BY <1>3 DEF FinishGreeting, LoadsTurn
  <2> QED
    BY <2>1, <2>2
<1>4. CASE CreateLead(p)
  <2>1. created + 1 \in Leads
    BY <1>4, StoreConstants DEF CreateLead, Leads
  <2>2. web'[p].pc = "check" /\ OthersStay(p)
    BY <1>4 DEF CreateLead, Resting, OthersStay, Stays
  <2>3. /\ lead'[created + 1] = NewLead
        /\ \A m \in Leads : m # created + 1 => lead'[m] = lead[m]
    BY <1>4, <2>1 DEF CreateLead
  <2> QED
    BY <1>4, <2>1, <2>2, <2>3 DEF CreateLead, TurnsBegin, NewLead
<1> QED
  BY <1>1, <1>2, <1>3, <1>4 DEF NewLeadStep

LEMMA StopTurns ==
  ASSUME TypeOK, NEW p \in Web, StopStep(p) \/ Crash(p)
  PROVE  TurnStep
<1> USE RequestTyped DEF TypeOK, ConductorTypeOK, StoreTypeOK, InTurn, TurnStep, edgeVars
<1>1. CASE FlushStop(p)
  BY <1>1 DEF FlushStop, TurnsStay, LoadsTurn, OthersStay, Stays, At, Requests
<1>2. CASE CommitStop(p)
  <2>1. TurnsStay /\ created' = created
    BY <1>2, StateKeepsTurn DEF CommitStop, TurnsStay
  <2> QED
    BY <1>2, <2>1, PlacesAfter DEF CommitStop, LoadsTurn
<1>3. CASE Crash(p)
  BY <1>3, PlacesAfter DEF Crash, TurnsStay, LoadsTurn
<1>4. CASE BeginCancel(p)
  BY <1>4 DEF BeginCancel, StoreRests, TurnsStay, LoadsTurn, OthersStay, Stays, At, Requests
<1>5. ASSUME NEW k \in TaskTypes, CancelTask(p, k)
      PROVE  TurnStep
  BY <1>5 DEF CancelTask, TurnsStay, LoadsTurn, OthersStay, Stays, At, Requests
<1> QED
  BY <1>1, <1>2, <1>3, <1>4, <1>5 DEF StopStep, UpdateTasks

LEMMA ReplyTurns ==
  ASSUME TypeOK, NEW p \in Web, ReplyStep(p)
  PROVE  TurnStep
<1> USE PlacesAfter, RequestTyped
        DEF TypeOK, ConductorTypeOK, StoreTypeOK, InTurn, TurnStep, edgeVars, StoreRests
<1>1. CASE WaitForLock(p)
  BY <1>1 DEF WaitForLock, TurnsStay
<1>2. CASE EnterLock(p) \/ GiveUpReply(p) \/ ReleaseLock(p) \/ RouteRaises(p)
  <2>1. TurnsStay /\ created' = created
    BY <1>2 DEF EnterLock, GiveUpReply, ReleaseLock, RouteRaises, TurnsStay
  <2>2. LoadsTurn(p)
    BY <1>2 DEF EnterLock, GiveUpReply, ReleaseLock, RouteRaises, LoadsTurn, At
  <2> QED
    BY <2>1, <2>2
<1>3. ASSUME NEW s, NEW books, At(p, "route"), Flush(p, s, books)
      PROVE  TurnStep
  <2>1. TurnsStay /\ created' = created
    BY <1>3 DEF Flush, TurnsStay
  <2>2. LoadsTurn(p)
    BY <1>3 DEF LoadsTurn, At
  <2> QED
    BY <2>1, <2>2
<1>4. CASE SendReply(p) \/ WithholdReply(p)
  <2>1. TurnsStay /\ created' = created
    BY <1>4 DEF SendReply, WithholdReply, TurnsStay
  <2>2. LoadsTurn(p)
    BY <1>4 DEF SendReply, WithholdReply, LoadsTurn, At
  <2> QED
    BY <2>1, <2>2
<1>5. CASE CommitReply(p)
  <2> DEFINE l == web[p].lead
             old == WithState(l, StateOf(p))
  <2>1. l \in Leads /\ web[p].turn \in Nat /\ old \in [Leads -> LeadRecords]
    BY LeadWritten, StateOfTyped
  <2>2. \A m \in Leads : old[m].turn = lead[m].turn
    BY <2>1, StateKeepsTurn
  <2>3. lead' = [old EXCEPT ![l].turn = web[p].turn + 1]
    BY <1>5 DEF CommitReply
  <2> HIDE DEF old
  <2>4. /\ lead'[l].turn = web[p].turn + 1
        /\ \A m \in Leads : m # l => lead'[m].turn = lead[m].turn
    BY <2>1, <2>2, <2>3 DEF LeadRecords
  <2>5. /\ Forget(p, "release") /\ heard' = [heard EXCEPT ![l] = @ + 1]
        /\ created' = created /\ web[p].pc = "commit"
    BY <1>5 DEF CommitReply, At
  <2>6. TurnWrittenBy(p)
    BY <2>4, <2>5 DEF TurnWrittenBy
  <2> QED
    BY <2>5, <2>6
<1> QED
  BY <1>1, <1>2, <1>3, <1>4, <1>5 DEF ReplyStep, RouteTurnLimit, RouteToQualify, RouteToBook

LEMMA ArriveTurns ==
  ASSUME TypeOK, NEW p \in Web, Arrive(p)
  PROVE  TurnStep
<1> USE PlacesAfter
    DEF TypeOK, ConductorTypeOK, StoreTypeOK, InTurn, TurnStep, edgeVars, StoreRests
<1>1. CASE \E src \in Sources : SubmitLead(p, src)
  BY <1>1 DEF SubmitLead, TurnsStay, LoadsTurn
<1>2. CASE \E src \in Sources : AcknowledgeDuplicate(p, src)
  BY <1>2 DEF AcknowledgeDuplicate, conductorVars, TurnsStay
<1>3. CASE ReceiveStop(p) \/ ReceiveReply(p)
  <2>1. TurnsStay /\ created' = created
    BY <1>3 DEF ReceiveStop, ReceiveReply, TurnsStay
  <2>2. created \in Leads
    BY <1>3 DEF ReceiveStop, ReceiveReply, Leads
  <2>3. LoadsTurn(p)
    BY <1>3, <2>2 DEF ReceiveStop, ReceiveReply, LoadsTurn
  <2> QED
    BY <2>1, <2>3
<1>4. CASE \E l \in Leads : OpenManualReply(p, l)
  BY <1>4 DEF OpenManualReply, Resting, TurnsStay, LoadsTurn, OthersStay, Stays
<1> QED
  BY <1>1, <1>2, <1>3, <1>4 DEF Arrive

LEMMA EnvironmentTurns ==
  ASSUME TypeOK, Environment
  PROVE  TurnStep
<1> USE DEF TypeOK, ConductorTypeOK, StoreTypeOK, TurnStep, TurnsStay, edgeVars, StoreRests,
        conductorVars
<1>1. ASSUME NEW l \in Leads, NEW s, SetStatus(l, s)
      PROVE  TurnStep
  BY <1>1, StateKeepsTurn DEF SetStatus
<1>2. ASSUME NEW l \in Leads, NEW b, SetArchived(l, b)
      PROVE  TurnStep
  BY <1>2 DEF SetArchived, LeadRecords
<1>3. CASE \E src \in Sources : DedupExpires(src)
  BY <1>3 DEF DedupExpires
<1>4. CASE \E l \in Leads : LockExpires(l)
  BY <1>4 DEF LockExpires
<1> QED
  BY <1>1, <1>2, <1>3, <1>4 DEF Environment

LEMMA WebTurns ==
  ASSUME TypeOK, ConductorNext
  PROVE  TurnStep
BY NewLeadTurns, StopTurns, ReplyTurns, ArriveTurns, EnvironmentTurns DEF ConductorNext, Proceed

LEMMA HeardStep ==
  ASSUME TypeOK, TurnsAreHeard, TurnStep
  PROVE  TurnsAreHeard'
<1> USE RequestTyped DEF TypeOK, ConductorTypeOK, StoreTypeOK, TurnsAreHeard, Leads
<1>a. /\ \A l \in Leads : heard[l] \in Nat /\ lead[l].turn \in Nat
      /\ \A p \in Web : web[p].lead \in Leads /\ web[p].turn \in Nat
  BY DEF LeadRecords
<1>b. created \in Nat /\ MaxLeads \in Nat /\ created <= MaxLeads
  BY StoreConstants
<1>1. CASE TurnsStay /\ web' = web
  BY <1>1 DEF TurnsStay
<1>2. ASSUME NEW p \in Web, TurnsStay, LoadsTurn(p)
      PROVE  TurnsAreHeard'
  <2>1. \A l \in Leads : lead'[l].turn <= heard'[l]
    BY <1>2 DEF TurnsStay
  <2>2. \A m \in 1..created : m \in Leads /\ lead[m].turn <= heard[m]
    BY <1>b
  <2>3. web'[p].pc \in InTurn => web'[p].turn <= heard[web'[p].lead]
    BY <1>2, <2>2 DEF LoadsTurn
  <2>4. \A q \in Web : web'[q].pc \in InTurn => web'[q].turn <= heard[web'[q].lead]
    BY <1>2, <2>3 DEF LoadsTurn, OthersStay, Stays
  <2> QED
    BY <1>2, <2>1, <2>4 DEF TurnsStay
<1>3. ASSUME NEW p \in Web, TurnWrittenBy(p)
      PROVE  TurnsAreHeard'
  <2> DEFINE m == web[p].lead
  <2>1. m \in Leads /\ web[p].turn <= heard[m] /\ lead'[m].turn = web[p].turn + 1
    BY <1>a, <1>3 DEF TurnWrittenBy, InTurn
  <2>2. heard'[m] = heard[m] + 1 /\ \A l \in Leads : heard[l] <= heard'[l]
    BY <1>a, <1>3, <2>1 DEF TurnWrittenBy
  <2>3. \A l \in Leads : lead'[l].turn <= heard'[l]
    BY <1>a, <1>3, <2>1, <2>2 DEF TurnWrittenBy
  <2>4. \A q \in Web : web'[q].pc \in InTurn =>
          web'[q] = web[q] /\ web[q].turn <= heard[web[q].lead]
    BY <1>3 DEF TurnWrittenBy, OthersStay, Stays
  <2>5. \A q \in Web : web'[q].pc \in InTurn => web'[q].turn <= heard'[web'[q].lead]
    BY <1>a, <1>3, <2>2, <2>4 DEF TurnWrittenBy
  <2> QED
    BY <2>3, <2>5
<1>4. ASSUME NEW p \in Web, TurnsBegin(p)
      PROVE  TurnsAreHeard'
  BY <1>a, <1>4 DEF TurnsBegin, OthersStay, Stays
<1> QED
  BY <1>1, <1>2, <1>3, <1>4 DEF TurnStep

LEMMA HeardInit == Init => TurnsAreHeard
BY DEF Init, StoreInit, ConductorInit, NewLead, Resting, InTurn, TurnsAreHeard

LEMMA HeardRests ==
  ASSUME TurnsAreHeard, UNCHANGED <<lead, web, heard>>
  PROVE  TurnsAreHeard'
BY DEF TurnsAreHeard

(* No two replies of one lead are under way at once, from the moment that   *)
(* the webhook loads the lead.                                              *)
RepliesDontOverlap ==
  \A p, q \in Web : web[p].pc \in InTurn /\ web[q].pc \in InTurn /\ web[p].lead = web[q].lead
                    => p = q

(* Then what a reply has loaded is what the lead still has.                 *)
TurnsAreCounted ==
  /\ TurnsCountReplies
  /\ \A l \in Leads : l > created => heard[l] = 0
  /\ \A p \in Web : web[p].pc \in InTurn =>
       web[p].lead <= created /\ web[p].turn = lead[web[p].lead].turn

LEMMA CountedStep ==
  ASSUME TypeOK, TurnsAreCounted, RepliesDontOverlap, TurnStep
  PROVE  TurnsAreCounted'
<1> USE DEF TypeOK, ConductorTypeOK, StoreTypeOK, TurnsAreCounted, TurnsCountReplies, Leads
<1>a. /\ \A l \in Leads : heard[l] \in Nat /\ lead[l].turn \in Nat
      /\ \A p \in Web : web[p].lead \in Leads /\ web[p].turn \in Nat
  BY RequestTyped DEF LeadRecords
<1>b. created \in Nat /\ MaxLeads \in Nat /\ created <= MaxLeads
  BY StoreConstants
<1>1. CASE TurnsStay /\ created' = created /\ web' = web
  BY <1>a, <1>1 DEF TurnsStay
<1>2. ASSUME NEW p \in Web, TurnsStay, created' = created, LoadsTurn(p)
      PROVE  TurnsAreCounted'
  <2>1. /\ \A l \in Leads : lead'[l].turn = heard'[l]
        /\ \A l \in Leads : l > created' => heard'[l] = 0
    BY <1>2 DEF TurnsStay
  <2>2. \A m \in 1..created : m \in Leads /\ m <= created
    BY <1>b
  <2>3. web'[p].pc \in InTurn =>
          web'[p].lead <= created /\ web'[p].turn = lead[web'[p].lead].turn
    BY <1>2, <2>2 DEF LoadsTurn
  <2>4. \A q \in Web : web'[q].pc \in InTurn =>
          web'[q].lead <= created /\ web'[q].turn = lead[web'[q].lead].turn
    BY <1>2, <2>3 DEF LoadsTurn, OthersStay, Stays
  <2>5. \A q \in Web : web'[q].lead \in Leads \/ web'[q].pc \notin InTurn
    BY <1>a, <1>2, <2>2 DEF LoadsTurn, OthersStay, Stays
  <2> QED
    BY <1>2, <2>1, <2>4, <2>5 DEF TurnsStay
<1>3. ASSUME NEW p \in Web, TurnWrittenBy(p), created' = created
      PROVE  TurnsAreCounted'
  <2> DEFINE m == web[p].lead
  <2>1. /\ m \in Leads /\ m <= created /\ web[p].turn = lead[m].turn
        /\ lead'[m].turn = lead[m].turn + 1
    BY <1>a, <1>3 DEF TurnWrittenBy, InTurn
  <2>2. heard'[m] = heard[m] + 1 /\ \A l \in Leads : l # m => heard'[l] = heard[l]
    BY <1>3, <2>1 DEF TurnWrittenBy
  <2>3. \A l \in Leads : lead'[l].turn = heard'[l]
    BY <1>a, <1>3, <2>1, <2>2 DEF TurnWrittenBy
  <2>4. \A l \in Leads : l > created => heard'[l] = 0
    BY <1>b, <2>1, <2>2
  <2>5. \A q \in Web : web'[q].pc \in InTurn =>
          /\ web'[q] = web[q] /\ web[q].lead # m
          /\ web[q].lead <= created /\ web[q].turn = lead[web[q].lead].turn
    BY <1>3 DEF TurnWrittenBy, OthersStay, Stays, RepliesDontOverlap, InTurn
  <2>6. \A q \in Web : web'[q].pc \in InTurn =>
          web'[q].lead <= created /\ web'[q].turn = lead'[web'[q].lead].turn
    BY <1>a, <1>3, <2>5 DEF TurnWrittenBy
  <2> QED
    BY <1>3, <2>3, <2>4, <2>6
<1>4. ASSUME NEW p \in Web, TurnsBegin(p)
      PROVE  TurnsAreCounted'
  <2>1. heard[created + 1] = 0
    BY <1>b, <1>4 DEF TurnsBegin
  <2>2. \A l \in Leads : lead'[l].turn = heard'[l]
    BY <1>4, <2>1 DEF TurnsBegin
  <2>3. \A l \in Leads : l > created' => heard'[l] = 0
    BY <1>b, <1>4 DEF TurnsBegin
  <2>4. \A q \in Web : web'[q].pc \in InTurn =>
          /\ web'[q] = web[q] /\ web[q].lead \in Leads /\ web[q].lead # created + 1
          /\ web[q].lead <= created' /\ web[q].turn = lead[web[q].lead].turn
    BY <1>a, <1>b, <1>4 DEF TurnsBegin, OthersStay, Stays
  <2>5. \A q \in Web : web'[q].pc \in InTurn =>
          web'[q].lead <= created' /\ web'[q].turn = lead'[web'[q].lead].turn
    BY <1>4, <2>4 DEF TurnsBegin
  <2> QED
    BY <2>2, <2>3, <2>5
<1> QED
  BY <1>1, <1>2, <1>3, <1>4 DEF TurnStep

LEMMA CountedInit == Init => TurnsAreCounted
BY DEF Init, StoreInit, ConductorInit, NewLead, Resting, InTurn, TurnsAreCounted,
       TurnsCountReplies

LEMMA CountedRests ==
  ASSUME TurnsAreCounted, UNCHANGED <<created, lead, web, heard>>
  PROVE  TurnsAreCounted'
BY DEF TurnsAreCounted, TurnsCountReplies

(* conductor.py:418, 439-442: however replies overlap, no lead counts more  *)
(* turns than it has replied, so the limit on turns never ends a            *)
(* conversation early.                                                      *)
THEOREM TurnsNeverRunAhead == ConductorSpec => [](\A l \in Leads : lead[l].turn <= heard[l])
<1>1. TypeOK /\ TurnsAreHeard /\ [ConductorNext]_vars => TurnsAreHeard'
  BY WebTurns, HeardStep, HeardRests DEF vars, storeVars, conductorVars, edgeVars
<1>2. TurnsAreHeard => \A l \in Leads : lead[l].turn <= heard[l]
  BY DEF TurnsAreHeard
<1> QED
  BY HeardInit, <1>1, <1>2, ConductorTypeCorrect, PTL DEF ConductorSpec

(* conductor.py:366: what the lock would have to exclude, and does not: as  *)
(* long as no two replies of a lead overlap from the moment the lead is     *)
(* loaded, every reply is counted.                                          *)
THEOREM TurnsCountUnlessRepliesOverlap ==
  ConductorSpec /\ []RepliesDontOverlap => []TurnsCountReplies
<1>1. TypeOK /\ TurnsAreCounted /\ RepliesDontOverlap /\ [ConductorNext]_vars => TurnsAreCounted'
  BY WebTurns, CountedStep, CountedRests DEF vars, storeVars, conductorVars, edgeVars
<1>2. TurnsAreCounted => TurnsCountReplies
  BY DEF TurnsAreCounted
<1> QED
  BY CountedInit, <1>1, <1>2, ConductorTypeCorrect, PTL DEF ConductorSpec

-----------------------------------------------------------------------------
(* The way of a STOP.                                                       *)
InStop(r) == r.pc \in {"stop", "stopping", "cancelling"}

(* Request p is no longer in a STOP, or in one for another lead.            *)
LeavesStop(p) == InStop(web[p]) /\ ~(InStop(web'[p]) /\ web'[p].lead = web[p].lead)

LEMMA StopLeft ==
  ASSUME TypeOK, ConductorNext, NEW p \in Web, LeavesStop(p)
  PROVE  CommitStop(p) \/ Crash(p)
<1> USE DEF TypeOK, ConductorTypeOK, LeavesStop, InStop
<1>1. ASSUME NEW q \in Web, OthersStay(q)
      PROVE  q = p
  BY <1>1 DEF OthersStay, Stays
<1>2. ASSUME NEW q \in Web, NewLeadStep(q) \/ SendManualReply(q)
      PROVE  FALSE
  <2>1. q = p
    <3>1. CASE CreateLead(q)
      BY <3>1 DEF CreateLead
    <3>2. CASE ~CreateLead(q)
      BY <1>1, <1>2, <3>2, PlacesAfter DEF NewLeadStep, RejectLead, PassCompliance, BlockLead,
        Greet, GreetFails, FinishGreeting, SendManualReply
    <3> QED
      BY <3>1, <3>2
  <2> QED
    BY <1>2, <2>1 DEF NewLeadStep, RejectLead, CreateLead, PassCompliance, BlockLead, Greet,
      GreetFails, FinishGreeting, SendManualReply, At
<1>3. ASSUME NEW q \in Web,
             FlushStop(q) \/ BeginCancel(q) \/ \E k \in TaskTypes : CancelTask(q, k)
      PROVE  FALSE
  <2>1. CASE FlushStop(q)
    BY <2>1 DEF FlushStop, At, Requests
  <2>2. CASE BeginCancel(q)
    BY <2>2 DEF BeginCancel, At, Requests
  <2>3. ASSUME NEW k \in TaskTypes, CancelTask(q, k)
        PROVE  FALSE
    BY <2>3 DEF CancelTask, At, Requests
  <2> QED
    BY <1>3, <2>1, <2>2, <2>3
<1>4. ASSUME NEW q \in Web, CommitStop(q) \/ Crash(q)
      PROVE  q = p
  BY <1>1, <1>4, PlacesAfter DEF CommitStop, Crash
<1>5. ASSUME NEW q \in Web, ReplyStep(q)
      PROVE  FALSE
  <2>1. web[q].pc \notin {"stop", "stopping", "cancelling"}
    BY <1>5 DEF ReplyStep, EnterLock, WaitForLock, GiveUpReply, RouteTurnLimit, RouteToQualify,
      RouteToBook, RouteRaises, SendReply, WithholdReply, CommitReply, ReleaseLock, At
  <2>2. CASE WaitForLock(q)
    BY <2>2 DEF WaitForLock
  <2>3. ASSUME NEW s, NEW books, Flush(q, s, books)
        PROVE  FALSE
    BY <1>1, <2>1, <2>3, PlacesAfter
  <2>4. CASE \/ EnterLock(q) \/ GiveUpReply(q) \/ RouteRaises(q) \/ SendReply(q)
             \/ WithholdReply(q) \/ CommitReply(q) \/ ReleaseLock(q)
    BY <1>1, <2>1, <2>4, PlacesAfter DEF EnterLock, GiveUpReply, RouteRaises, SendReply,
      WithholdReply, CommitReply, ReleaseLock
  <2> QED
    BY <1>5, <2>2, <2>3, <2>4 DEF ReplyStep, RouteTurnLimit, RouteToQualify, RouteToBook
<1>6. ASSUME NEW q \in Web, Arrive(q)
      PROVE  FALSE
  BY <1>6 DEF Arrive, SubmitLead, AcknowledgeDuplicate, ReceiveStop, ReceiveReply,
    OpenManualReply, Idle, Go, Load, conductorVars
<1>7. ASSUME Environment
      PROVE  FALSE
  BY <1>7 DEF Environment, DedupExpires, SetStatus, SetArchived, LockExpires, conductorVars
<1> QED
  BY <1>2, <1>3, <1>4, <1>5, <1>6, <1>7 DEF ConductorNext, Proceed, StopStep, UpdateTasks

LEMMA StopCommitted ==
  ASSUME TypeOK, NEW p \in Web, CommitStop(p)
  PROVE  optedOut'[web[p].lead]
BY RequestTyped DEF CommitStop, TypeOK, StoreTypeOK, ConductorTypeOK

(* conductor.py:371-376,743-787: a STOP that has reached its lead is given  *)
(* up only when its worker dies: every other way on ends in the opt-out.    *)
THEOREM StopsAreKept ==
  ConductorSpec => [][\A p \in Web : LeavesStop(p) => optedOut'[web[p].lead] \/ Crash(p)]_vars
<1>1. TypeOK /\ [ConductorNext]_vars
        => [\A p \in Web : LeavesStop(p) => optedOut'[web[p].lead] \/ Crash(p)]_vars
  BY StopLeft, StopCommitted
<1> QED
  BY <1>1, ConductorTypeCorrect, PTL DEF ConductorSpec
=============================================================================
