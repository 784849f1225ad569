---------------------------- MODULE LeadLockProofs ----------------------------
(***************************************************************************)
(* Proofs about LeadLock, for any number of requests and leads, any bound  *)
(* on the polls and any set of faults.                                     *)
(***************************************************************************)
EXTENDS LeadLock, TLAPS

(* Every step of the lock keeps its variables in their types.               *)
LEMMA LockTypeStep ==
  ASSUME LockTypeOK, [LockNext]_lockVars
  PROVE  LockTypeOK'
<1> USE LockConstants DEF LockTypeOK
<1>1. ASSUME NEW p \in Procs, NEW l \in Leads, Request(p, l)
      PROVE  LockTypeOK'
  BY <1>1 DEF Request
<1>2. ASSUME NEW p \in Procs, Acquire(p)
      PROVE  LockTypeOK'
  BY <1>2 DEF Acquire
<1>3. ASSUME NEW p \in Procs, Poll(p)
      PROVE  LockTypeOK'
  BY <1>3 DEF Poll
<1>4. ASSUME NEW p \in Procs, TimeOut(p)
      PROVE  LockTypeOK'
  BY <1>4 DEF TimeOut
<1>5. ASSUME NEW p \in Procs, ProceedUnlocked(p)
      PROVE  LockTypeOK'
  BY <1>5 DEF ProceedUnlocked
<1>6. ASSUME NEW p \in Procs, Release(p)
      PROVE  LockTypeOK'
  BY <1>6 DEF Release
<1>7. ASSUME NEW p \in Procs, ReleaseFails(p)
      PROVE  LockTypeOK'
  BY <1>7 DEF ReleaseFails, Abandoned
<1>8. ASSUME NEW p \in Procs, LockCrash(p)
      PROVE  LockTypeOK'
  BY <1>8 DEF LockCrash, Abandoned
<1>9. ASSUME NEW l \in Leads, Expire(l)
      PROVE  LockTypeOK'
  BY <1>9 DEF Expire
<1>10. CASE UNCHANGED lockVars
  BY <1>10 DEF lockVars
<1> QED
  BY <1>1, <1>2, <1>3, <1>4, <1>5, <1>6, <1>7, <1>8, <1>9, <1>10 DEF LockNext

LEMMA LockTypeInit == LockInit => LockTypeOK
BY LockConstants DEF LockInit, LockTypeOK

(* locks.py: key, place, wanted lead and number of polls stay in range: no  *)
(* wait exceeds MaxPolls.                                                   *)
THEOREM LockTypeCorrect == LockSpec => []LockTypeOK
<1>1. LockTypeOK /\ [LockNext]_lockVars => LockTypeOK'
  BY LockTypeStep
<1> QED
  BY LockTypeInit, <1>1, PTL DEF LockSpec

-----------------------------------------------------------------------------
(* A step keeps a key that carries a request's value with that request.     *)
LEMMA OwnerStep ==
  ASSUME LockTypeOK, KeyHasItsOwner, [LockNext]_lockVars
  PROVE  KeyHasItsOwner'
<1> USE LockConstants DEF LockTypeOK, KeyHasItsOwner, Owns
<1>1. ASSUME NEW p \in Procs, NEW l \in Leads, Request(p, l)
      PROVE  KeyHasItsOwner'
  BY <1>1 DEF Request
<1>2. ASSUME NEW p \in Procs, Acquire(p)
      PROVE  KeyHasItsOwner'
  BY <1>2 DEF Acquire
<1>3. ASSUME NEW p \in Procs, Poll(p)
      PROVE  KeyHasItsOwner'
  BY <1>3 DEF Poll
<1>4. ASSUME NEW p \in Procs, TimeOut(p)
      PROVE  KeyHasItsOwner'
  BY <1>4 DEF TimeOut
<1>5. ASSUME NEW p \in Procs, ProceedUnlocked(p)
      PROVE  KeyHasItsOwner'
  BY <1>5 DEF ProceedUnlocked
<1>6. ASSUME NEW p \in Procs, Release(p)
      PROVE  KeyHasItsOwner'
  BY <1>6 DEF Release
<1>7. ASSUME NEW p \in Procs, ReleaseFails(p)
      PROVE  KeyHasItsOwner'
  BY <1>7 DEF ReleaseFails, Abandoned
<1>8. ASSUME NEW p \in Procs, LockCrash(p)
      PROVE  KeyHasItsOwner'
  BY <1>8 DEF LockCrash, Abandoned
<1>9. ASSUME NEW l \in Leads, Expire(l)
      PROVE  KeyHasItsOwner'
  BY <1>9 DEF Expire
<1>10. CASE UNCHANGED lockVars
  BY <1>10 DEF lockVars
<1> QED
  BY <1>1, <1>2, <1>3, <1>4, <1>5, <1>6, <1>7, <1>8, <1>9, <1>10 DEF LockNext

(* locks.py:19-43, on every return path: a key that carries the value of a  *)
(* live request belongs to a request inside the lock for that lead.         *)
THEOREM KeysAreOwned == LockSpec => []KeyHasItsOwner
<1>1. LockInit => KeyHasItsOwner
  BY LockConstants DEF LockInit, KeyHasItsOwner
<1>2. LockTypeOK /\ KeyHasItsOwner /\ [LockNext]_lockVars => KeyHasItsOwner'
  BY OwnerStep
<1> QED
  BY <1>1, <1>2, LockTypeCorrect, PTL DEF LockSpec

-----------------------------------------------------------------------------
(* locks.py:79-93: a key is deleted by its owner as it leaves, or by the    *)
(* TTL, and by nobody else.                                                 *)
THEOREM OwnersRelease == LockSpec => OnlyOwnerReleases
<1> DEFINE Freed(l) == key[l] # NoProc /\ key'[l] = NoProc
           Allowed(l) == \/ Expire(l)
                         \/ \E p \in Procs : Owns(p, l) /\ at'[p] = "out"
<1>1. ASSUME LockTypeOK, KeyHasItsOwner, [LockNext]_lockVars,
             NEW l \in Leads, Freed(l)
      PROVE  Allowed(l)
  <2> USE LockConstants, <1>1 DEF LockTypeOK, KeyHasItsOwner, Owns
  <2>1. ASSUME NEW p \in Procs, \E m \in Leads : Request(p, m)
        PROVE  FALSE
    BY <2>1 DEF Request
  <2>2. ASSUME NEW p \in Procs, Acquire(p) \/ Poll(p) \/ TimeOut(p) \/ ProceedUnlocked(p)
        PROVE  FALSE
    BY <2>2 DEF Acquire, Poll, TimeOut, ProceedUnlocked
  <2>3. ASSUME NEW p \in Procs, Release(p)
        PROVE  Allowed(l)
    BY <2>3 DEF Release
  <2>4. ASSUME NEW p \in Procs, ReleaseFails(p) \/ LockCrash(p)
        PROVE  FALSE
    BY <2>4 DEF ReleaseFails, LockCrash, Abandoned
  <2>5. ASSUME NEW m \in Leads, Expire(m)
        PROVE  Allowed(l)
    <3>1. m = l
      BY <2>5 DEF Expire
    <3> QED
      BY <2>5, <3>1
  <2>6. CASE UNCHANGED lockVars
    BY <2>6 DEF lockVars
  <2> HIDE DEF Freed, Allowed
  <2> QED
    BY <2>1, <2>2, <2>3, <2>4, <2>5, <2>6 DEF LockNext
<1>2. LockTypeOK /\ KeyHasItsOwner /\ [LockNext]_lockVars =>
        [\A l \in Leads : Freed(l) => Allowed(l)]_lockVars
  <2> HIDE DEF Freed, Allowed
  <2> QED
    BY <1>1
<1> QED
  BY <1>2, LockTypeCorrect, KeysAreOwned, PTL DEF LockSpec, OnlyOwnerReleases

-----------------------------------------------------------------------------
(* While nobody outlives the TTL and Redis answers, being in the body means *)
(* holding the key.                                                         *)
Holding == \A p \in Procs : at[p] = "in" => key[want[p]] = p

LEMMA HoldingStep ==
  ASSUME "ttl" \notin Faults, "redis" \notin Faults,
         LockTypeOK, Holding, [LockNext]_lockVars
  PROVE  Holding'
<1> USE LockConstants DEF LockTypeOK, Holding
<1>1. ASSUME NEW p \in Procs, NEW l \in Leads, Request(p, l)
      PROVE  Holding'
  BY <1>1 DEF Request
<1>2. ASSUME NEW p \in Procs, Acquire(p)
      PROVE  Holding'
  BY <1>2 DEF Acquire
<1>3. ASSUME NEW p \in Procs, Poll(p) \/ TimeOut(p)
      PROVE  Holding'
  BY <1>3 DEF Poll, TimeOut
<1>4. ASSUME NEW p \in Procs, ProceedUnlocked(p) \/ ReleaseFails(p)
      PROVE  FALSE
  BY <1>4 DEF ProceedUnlocked, ReleaseFails
<1>5. ASSUME NEW p \in Procs, Release(p)
      PROVE  Holding'
  BY <1>5 DEF Release
<1>6. ASSUME NEW p \in Procs, LockCrash(p)
      PROVE  Holding'
  BY <1>6 DEF LockCrash, Abandoned
<1>7. ASSUME NEW l \in Leads, Expire(l)
      PROVE  Holding'
  BY <1>7 DEF Expire
<1>8. CASE UNCHANGED lockVars
  BY <1>8 DEF lockVars
<1> QED
  BY <1>1, <1>2, <1>3, <1>4, <1>5, <1>6, <1>7, <1>8 DEF LockNext

(* locks.py:25, under the conditions the code needs: if no body outlives    *)
(* LOCK_TTL_SECONDS and Redis always answers, two requests are never inside *)
(* the lock of one lead, even when workers crash.                           *)
THEOREM MutualExclusion ==
  ASSUME "ttl" \notin Faults, "redis" \notin Faults
  PROVE  LockSpec => []Exclusive
<1>1. LockInit => Holding
  BY DEF LockInit, Holding
<1>2. LockTypeOK /\ Holding /\ [LockNext]_lockVars => Holding'
  BY HoldingStep
<1>3. Holding => Exclusive
  BY DEF Holding, Exclusive, InBody
<1> QED
  BY <1>1, <1>2, <1>3, LockTypeCorrect, PTL DEF LockSpec
=============================================================================
