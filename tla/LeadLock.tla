------------------------------- MODULE LeadLock -------------------------------
(***************************************************************************)
(* The per-lead lock of src/utils/locks.py: a Redis key set with NX and a  *)
(* TTL, polled for a bounded time, deleted by a compare-and-delete script. *)
(* A request that meets a Redis error goes on without the lock.            *)
(*                                                                         *)
(* lock_value is a fresh uuid for each use of lead_lock(); a process is in *)
(* at most one use at a time, so the process itself stands for the value.  *)
(* When the process dies, or cannot reach Redis to release, the value it   *)
(* left behind matches nobody any more: Orphan.                            *)
(***************************************************************************)
EXTENDS Naturals

CONSTANTS
  Procs,     \* the requests that may ask for a lock
  Leads,     \* the leads that can be locked
  NoProc,    \* "the key does not exist"
  Orphan,    \* the value of a key whose writer has gone
  MaxPolls,  \* LOCK_WAIT_SECONDS / LOCK_POLL_INTERVAL, scaled down
  Faults     \* the faults that may happen: a subset of {"ttl","redis","crash"}

ASSUME LockConstants ==
  /\ MaxPolls \in Nat
  /\ NoProc \notin Procs
  /\ Orphan \notin Procs
  /\ NoProc # Orphan

VARIABLES
  key,    \* Redis: key[l] is the value stored for lead l, NoProc if none
  at,     \* at[p]: "out" of lead_lock, "polling" for it, or "in" its body
  want,   \* want[p]: the lead whose lock p asked for last
  polls   \* polls[p]: failed attempts of the current wait

lockVars == <<key, at, want, polls>>

LockTypeOK ==
  /\ key \in [Leads -> Procs \cup {NoProc, Orphan}]
  /\ at \in [Procs -> {"out", "polling", "in"}]
  /\ want \in [Procs -> Leads]
  /\ polls \in [Procs -> 0..MaxPolls]

LockInit ==
  /\ key = [l \in Leads |-> NoProc]
  /\ at = [p \in Procs |-> "out"]
  /\ want \in [Procs -> Leads]
  /\ polls = [p \in Procs |-> 0]

-----------------------------------------------------------------------------
(* lead_lock(l) is entered. *)
Request(p, l) ==
  /\ at[p] = "out"
  /\ at' = [at EXCEPT ![p] = "polling"]
  /\ want' = [want EXCEPT ![p] = l]
  /\ UNCHANGED <<key, polls>>

(* SET NX succeeds. *)
Acquire(p) ==
  /\ at[p] = "polling"
  /\ key[want[p]] = NoProc
  /\ key' = [key EXCEPT ![want[p]] = p]
  /\ at' = [at EXCEPT ![p] = "in"]
  /\ polls' = [polls EXCEPT ![p] = 0]
  /\ UNCHANGED want

(* Wrong forms of the steps below: DEL without the comparison, a wait that  *)
(* never adds up its sleeps or never compares the sum with its bound, a key *)
(* set without an expiry, a value taken for the owner's after it has gone.  *)
ReleaseAny(p) ==
  /\ at[p] = "in"
  /\ key' = [key EXCEPT ![want[p]] = NoProc]
  /\ at' = [at EXCEPT ![p] = "out"]
  /\ UNCHANGED <<want, polls>>

PollForever(p) ==
  /\ at[p] = "polling"
  /\ key[want[p]] # NoProc
  /\ UNCHANGED lockVars

ExpireNever(l) ==
  /\ key[l] \in Procs
  /\ "ttl" \in Faults
  /\ key' = [key EXCEPT ![l] = NoProc]
  /\ UNCHANGED <<at, want, polls>>

PollUncounted(p) ==
  /\ at[p] = "polling"
  /\ key[want[p]] # NoProc
  /\ polls' = [polls EXCEPT ![p] = @ + 1]
  /\ UNCHANGED <<key, at, want>>

AbandonNothing(p) == key

(* SET NX finds the key, and there is time left to sleep and try again. *)
Poll(p) ==
  /\ at[p] = "polling"
  /\ key[want[p]] # NoProc
  /\ polls[p] < MaxPolls
  /\ polls' = [polls EXCEPT ![p] = @ + 1]
  /\ UNCHANGED <<key, at, want>>

(* The wait is over: LockTimeoutError, nothing to release. *)
TimeOut(p) ==
  /\ at[p] = "polling"
  /\ key[want[p]] # NoProc
  /\ polls[p] = MaxPolls
  /\ at' = [at EXCEPT ![p] = "out"]
  /\ polls' = [polls EXCEPT ![p] = 0]
  /\ UNCHANGED <<key, want>>

(* Redis raises while acquiring: the body runs without the lock. *)
ProceedUnlocked(p) ==
  /\ "redis" \in Faults
  /\ at[p] = "polling"
  /\ at' = [at EXCEPT ![p] = "in"]
  /\ polls' = [polls EXCEPT ![p] = 0]
  /\ UNCHANGED <<key, want>>

(* The compare-and-delete script: only a key that still holds our value goes. *)
Release(p) ==
  /\ at[p] = "in"
  /\ key' = IF key[want[p]] = p THEN [key EXCEPT ![want[p]] = NoProc] ELSE key
  /\ at' = [at EXCEPT ![p] = "out"]
  /\ UNCHANGED <<want, polls>>

(* What p leaves in Redis when it goes without releasing. *)
Abandoned(p) ==
  IF key[want[p]] = p THEN [key EXCEPT ![want[p]] = Orphan] ELSE key

(* Redis raises while releasing: the error is logged, the key stays. *)
ReleaseFails(p) ==
  /\ "redis" \in Faults
  /\ at[p] = "in"
  /\ key' = Abandoned(p)
  /\ at' = [at EXCEPT ![p] = "out"]
  /\ UNCHANGED <<want, polls>>

(* LOCK_TTL_SECONDS pass: an abandoned key always goes; a key whose holder  *)
(* still runs goes only when the holder outlives the TTL (fault "ttl").     *)
Expire(l) ==
  /\ key[l] # NoProc
  /\ key[l] # Orphan => "ttl" \in Faults
  /\ key' = [key EXCEPT ![l] = NoProc]
  /\ UNCHANGED <<at, want, polls>>

(* The worker process running p dies. *)
LockCrash(p) ==
  /\ "crash" \in Faults
  /\ at[p] # "out"
  /\ key' = Abandoned(p)
  /\ at' = [at EXCEPT ![p] = "out"]
  /\ polls' = [polls EXCEPT ![p] = 0]
  /\ UNCHANGED want

-----------------------------------------------------------------------------
LockStep(p) == Acquire(p) \/ Poll(p) \/ TimeOut(p) \/ Release(p)

LockNext ==
  \/ \E p \in Procs :
       \/ \E l \in Leads : Request(p, l)
       \/ Acquire(p) \/ Poll(p) \/ TimeOut(p) \/ ProceedUnlocked(p)
       \/ Release(p) \/ ReleaseFails(p) \/ LockCrash(p)
  \/ \E l \in Leads : Expire(l)

(* A request that is running takes its next step; Redis expires keys.  A    *)
(* running process is never asked to start another request.                 *)
LockFairness ==
  /\ \A p \in Procs : WF_lockVars(LockStep(p))
  /\ \A l \in Leads : WF_lockVars(Expire(l))

LockSpec == LockInit /\ [][LockNext]_lockVars /\ LockFairness

-----------------------------------------------------------------------------
Owns(p, l) == at[p] = "in" /\ want[p] = l /\ key[l] = p

(* A key that carries a live request's value belongs to a request that is   *)
(* inside the lock for exactly that lead: no return path of lead_lock (time *)
(* out, failed release, crash) leaves the value of a request that has left. *)
KeyHasItsOwner == \A l \in Leads : key[l] \in Procs => Owns(key[l], l)

(* locks.py:79-93: a key is deleted only by the request that set it, while  *)
(* it leaves its body, or by the TTL; one that overstayed its TTL never     *)
(* deletes the key of the request that came after it.                       *)
OnlyOwnerReleases ==
  [][\A l \in Leads : key[l] # NoProc /\ key'[l] = NoProc =>
       \/ Expire(l)
       \/ \E p \in Procs : Owns(p, l) /\ at'[p] = "out"]_lockVars

InBody(l) == {p \in Procs : at[p] = "in" /\ want[p] = l}

(* locks.py:25: two requests never process the same lead at once.           *)
Exclusive == \A l \in Leads : \A p, q \in InBody(l) : p = q

(* LOCK_WAIT_SECONDS: a request that asks for the lock gets in or gives up. *)
WaitsEnd == \A p \in Procs : at[p] = "polling" ~> at[p] # "polling"

(* A key somebody holds or left behind does not stay for good.              *)
KeysFree == \A l \in Leads : \A p \in Procs \cup {Orphan} :
              key[l] = p ~> key[l] # p
=============================================================================
