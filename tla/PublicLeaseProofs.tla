-------------------------- MODULE PublicLeaseProofs --------------------------
(* The safety properties of PublicLease for any number of instances, any     *)
(* lease duration and any clock differences.                                 *)
EXTENDS PublicLease, TLAPS

(* The inductive invariant.  NoStaleWrite is not inductive by itself: that   *)
(* another instance cannot take the row while a fenced transaction is open   *)
(* rests on that transaction being the one that has the row locked, and that *)
(* the row's holder is the latest acquirer on what acquisition writes.       *)
LockedByFenced == \A i \in Instance : pc[i] = "fenced" => rowLock = i
FencedHolds    == \A i \in Instance : pc[i] = "fenced" => holder = i
HolderIsLatest == holder \in Instance => latest = holder

LeaseInv == TypeOK /\ LockedByFenced /\ FencedHolds /\ HolderIsLatest

(* The initial state: no row, every instance idle.                           *)
LEMMA InitInv == Init => LeaseInv
  BY HolderAssumption, ClockAssumption
     DEF Init, LeaseInv, TypeOK, Steps, LockedByFenced, FencedHolds,
         HolderIsLatest

(* One step of an instance or of the clock keeps the invariant.              *)
LEMMA NextInv == LeaseInv /\ [Next]_vars => LeaseInv'
  <1> SUFFICES ASSUME LeaseInv, [Next]_vars PROVE LeaseInv'
    OBVIOUS
  <1> USE HolderAssumption, ClockAssumption
          DEF LeaseInv, TypeOK, Steps, LockedByFenced, FencedHolds,
              HolderIsLatest, Goto
  <1>1. CASE Tick
    BY <1>1 DEF Tick
  <1>2. ASSUME NEW i \in Instance, NEW age \in Ages, Acquire(i, age)
        PROVE LeaseInv'
    BY <1>2 DEF Acquire, Writable
  <1>3. ASSUME NEW i \in Instance, NEW age \in Ages, Renew(i, age)
        PROVE LeaseInv'
    BY <1>3 DEF Renew
  <1>4. ASSUME NEW i \in Instance, RenewFails(i) PROVE LeaseInv'
    BY <1>4 DEF RenewFails
  <1>5. ASSUME NEW i \in Instance, NEW age \in Ages, Guard(i, age)
        PROVE LeaseInv'
    BY <1>5 DEF Guard
  <1>6. ASSUME NEW i \in Instance, NEW age \in Ages, Fence(i, age)
        PROVE LeaseInv'
    BY <1>6 DEF Fence, Held, Writable
  <1>7. ASSUME NEW i \in Instance, Effect(i) \/ EffectDone(i) \/ Finish(i)
        PROVE LeaseInv'
    BY <1>7 DEF Effect, EffectDone, Finish
  <1>8. ASSUME NEW i \in Instance, Commit(i) PROVE LeaseInv'
    BY <1>8 DEF Commit
  <1>9. ASSUME NEW i \in Instance, Release(i) PROVE LeaseInv'
    BY <1>9 DEF Release
  <1>10. ASSUME NEW i \in Instance, Crash(i) PROVE LeaseInv'
    BY <1>10 DEF Crash
  <1>11. CASE UNCHANGED vars
    BY <1>11 DEF vars
  <1>12. QED
    BY <1>1, <1>2, <1>3, <1>4, <1>5, <1>6, <1>7, <1>8, <1>9, <1>10, <1>11
       DEF Next, Step

(* The invariant holds in every reachable state.                             *)
LEMMA Invariance == Spec => []LeaseInv
  BY InitInv, NextInv, PTL DEF Spec

(* Type correctness of the lease row, the operations and the threads.        *)
THEOREM TypeCorrect == Spec => []TypeOK
  <1>1. LeaseInv => TypeOK
    BY DEF LeaseInv
  <1>2. QED
    BY <1>1, Invariance, PTL

(* A transaction past its fence belongs to the latest acquirer, for every    *)
(* number of instances and every clock difference: this is the fence in      *)
(* TenantRecordStore's writes doing what the lease alone cannot.             *)
THEOREM StaleWritesBlocked == Spec => []NoStaleWrite
  <1>1. LeaseInv => NoStaleWrite
    BY DEF LeaseInv, FencedHolds, HolderIsLatest, NoStaleWrite
  <1>2. QED
    BY <1>1, Invariance, PTL

(* Two instances never have a fenced transaction open at the same time.      *)
THEOREM FencedWritesExclude == Spec => []WritesExclude
  <1>1. LeaseInv => WritesExclude
    BY DEF LeaseInv, FencedHolds, WritesExclude
  <1>2. QED
    BY <1>1, Invariance, PTL
=============================================================================
