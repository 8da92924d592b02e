------------------------ MODULE ProductionClaimProofs ------------------------
(* Proofs about ProductionClaim, for any tenants and accounts.               *)
EXTENDS ProductionClaim, TLAPS

Calls == [Instance -> [Tenant -> Request]]

(* Become replaces one request and leaves the others alone.                  *)
LEMMA BecomeReplaces ==
    ASSUME call \in Calls, NEW i \in Instance, NEW t \in Tenant,
           NEW request \in Request, Become(i, t, request)
    PROVE /\ call' \in Calls
          /\ \A j \in Instance, u \in Tenant :
                call'[j][u] = IF j = i /\ u = t THEN request ELSE call[j][u]
  BY DEF Calls, Become

LEMMA IdleRequest == Idle \in Request
  BY DEF Idle, Request, Steps

(* A request's next step is a request.                                       *)
LEMMA ToRequest ==
    ASSUME NEW request \in Request, NEW step \in Steps
    PROVE [request EXCEPT !.step = step] \in Request
  BY DEF Request

(* Claims, controls, credentials and requests keep their types.              *)
THEOREM TypeCorrect == Spec => []TypeOK
<1>1. Init => TypeOK
  BY DEF Init, TypeOK, Request, Idle, Steps
<1>2. TypeOK /\ [Next]_vars => TypeOK'
  <2> SUFFICES ASSUME TypeOK, [Next]_vars PROVE TypeOK'
    OBVIOUS
  <2>c. call \in Calls
    BY DEF TypeOK, Calls
  <2>1. ASSUME NEW i \in Instance, Crash(i) PROVE TypeOK'
    BY <2>1, IdleRequest DEF Crash, TypeOK
  <2>2. ASSUME NEW i \in Instance, NEW t \in Tenant, Restore(i, t) \/ Change(i, t)
        PROVE TypeOK'
    <3>1. call[i][t] \in Request
      BY DEF TypeOK
    <3>2. ASSUME NEW request \in Request, Become(i, t, request)
          PROVE call' \in Calls
      BY <2>c, <3>2, BecomeReplaces
    <3>3. ASSUME Return(i, t) PROVE call' \in Calls
      BY <3>2, <3>3, IdleRequest DEF Return
    <3>4. ASSUME NEW step \in Steps, To(i, t, step) PROVE call' \in Calls
      BY <3>1, <3>2, <3>4, ToRequest DEF To
    <3>5. CASE Identify(i, t)
      <4>1. [step |-> "claim", account |-> key[t], created |-> FALSE] \in Request
        BY DEF Request, Steps, TypeOK
      <4> QED
        BY <3>5, <3>2, <4>1 DEF Identify, TypeOK, Calls
    <3>6. CASE Claim(i, t)
      <4> DEFINE request == [step |-> "restore", account |-> call[i][t].account,
                             created |-> claims[call[i][t].account] = Nobody]
      <4>1. request \in Request
        BY <3>1 DEF Request, Steps
      <4>2. call' \in Calls
        BY <3>6, <3>2, <4>1 DEF Claim
      <4> QED
        BY <3>6, <4>2 DEF Claim, TypeOK, Calls
    <3>7. CASE ClaimBlocked(i, t)
      BY <3>7, <3>3 DEF ClaimBlocked, TypeOK, Calls
    <3>8. CASE Activate(i, t)
      BY <3>8, <3>3, <3>4 DEF Activate, TypeOK, Calls, Steps
    <3>9. CASE RefuseRestore(i, t)
      BY <3>9, <3>4 DEF RefuseRestore, TypeOK, Calls, Steps
    <3>10. CASE Unclaim(i, t)
      BY <3>10, <3>3 DEF Unclaim, Released, TypeOK, Calls
    <3>11. CASE Revoke(i, t)
      BY <3>11, <3>3, <3>4 DEF Revoke, TypeOK, Calls, Steps
    <3>12. CASE Release(i, t)
      BY <3>12, <3>3 DEF Release, Released, TypeOK, Calls
    <3>13. CASE Invalidate(i, t)
      BY <3>13, <3>3, <3>4 DEF Invalidate, TypeOK, Calls, Steps
    <3>14. CASE Store(i, t)
      BY <3>14, <3>4 DEF Store, TypeOK, Calls, Steps
    <3>15. CASE StoreRefused(i, t)
      BY <3>15, <3>3 DEF StoreRefused, TypeOK, Calls
    <3>16. CASE RestorePadded(i, t)
      BY <3>16 DEF RestorePadded, TypeOK
    <3> QED
      BY <2>2, <3>5, <3>6, <3>7, <3>8, <3>9, <3>10, <3>11, <3>12, <3>13, <3>14,
         <3>15, <3>16 DEF Restore, Change
  <2>3. CASE UNCHANGED vars
    BY <2>3 DEF vars, TypeOK
  <2> QED
    BY <2>1, <2>2, <2>3 DEF Next
<1> QED
  BY <1>1, <1>2, PTL DEF Spec

-----------------------------------------------------------------------------
(* An admitted control is backed by the claim on the account its tenant's    *)
(* credentials open.                                                         *)
AdmittedHoldsClaim ==
    \A t \in Tenant : admitted[t] => key[t] \in Account /\ claims[key[t]] = t

(* What a request knows while it holds its tenant's lock: the account it     *)
(* identified is still that of the credentials, no admitted control rests on *)
(* what it may give back, and none is active while credentials are stored.   *)
RequestInv ==
    \A i \in Instance, t \in Tenant :
        LET request == call[i][t] IN
        /\ request.step \in {"claim", "restore", "refuse"} =>
              request.account = key[t] /\ key[t] \in Account
        /\ request.step = "restore" => claims[key[t]] = t
        /\ request.step \in {"restore", "refuse"} /\ request.created => ~admitted[t]
        /\ request.step \in {"release", "store"} => ~active[t] /\ ~admitted[t]

IInv == TypeOK /\ AdmittedHoldsClaim /\ RequestInv

LEMMA Initially == Init => IInv
  BY DEF Init, IInv, TypeOK, AdmittedHoldsClaim, RequestInv, Request, Idle, Steps

(* One instance has one lock per tenant.                                     *)
OneInstance == \A i, j \in Instance : i = j

LEMMA Kept ==
    ASSUME OneInstance, IInv, [Next]_vars, TypeOK'
    PROVE AdmittedHoldsClaim' /\ RequestInv'
<1> USE NobodyAssumption
<1>1. ASSUME NEW i \in Instance, Crash(i) PROVE AdmittedHoldsClaim' /\ RequestInv'
  BY <1>1 DEF Crash, IInv, TypeOK, AdmittedHoldsClaim, RequestInv, Idle, OneInstance
<1>2. ASSUME NEW i \in Instance, NEW t \in Tenant, Identify(i, t)
      PROVE AdmittedHoldsClaim' /\ RequestInv'
  BY <1>2 DEF Identify, At, Become, IInv, TypeOK, AdmittedHoldsClaim, RequestInv, OneInstance
<1>3. ASSUME NEW i \in Instance, NEW t \in Tenant, Claim(i, t)
      PROVE AdmittedHoldsClaim' /\ RequestInv'
  <2> DEFINE a == call[i][t].account
             request == [step |-> "restore", account |-> a, created |-> claims[a] = Nobody]
  <2>1. /\ a = key[t] /\ a \in Account /\ claims[a] \in {t, Nobody}
        /\ claims' = [claims EXCEPT ![a] = t]
        /\ UNCHANGED <<active, key, admitted>>
    BY <1>3 DEF Claim, At, IInv, RequestInv
  <2>2. AdmittedHoldsClaim'
    BY <2>1 DEF IInv, TypeOK, AdmittedHoldsClaim
  <2>3. /\ request \in Request
        /\ request.step = "restore" /\ request.account = key[t]
        /\ request.created => ~admitted[t]
    BY <2>1 DEF Request, Steps, IInv, AdmittedHoldsClaim
  <2>4. \A u \in Tenant : call'[i][u] = IF u = t THEN request ELSE call[i][u]
    <3>1. call \in Calls
      BY DEF IInv, TypeOK, Calls
    <3> QED
      BY <1>3, <2>3, <3>1, BecomeReplaces DEF Claim
  <2>5. ASSUME NEW u \in Tenant, u # t
        PROVE call[i][u].step = "restore" => claims'[key[u]] = u
    BY <2>1, <2>5 DEF IInv, TypeOK, RequestInv
  <2>6. RequestInv'
    <3> HIDE DEF request, a
    <3> QED
      BY <2>1, <2>3, <2>4, <2>5 DEF IInv, TypeOK, RequestInv, OneInstance
  <2> QED
    BY <2>2, <2>6
<1>4. ASSUME NEW i \in Instance, NEW t \in Tenant, ClaimBlocked(i, t)
      PROVE AdmittedHoldsClaim' /\ RequestInv'
  BY <1>4 DEF ClaimBlocked, At, Return, Idle, Become, IInv, TypeOK, AdmittedHoldsClaim, RequestInv, OneInstance
<1>5. ASSUME NEW i \in Instance, NEW t \in Tenant, Activate(i, t)
      PROVE AdmittedHoldsClaim' /\ RequestInv'
  <2>1. /\ call[i][t].step = "restore" /\ active' = [active EXCEPT ![t] = TRUE]
        /\ UNCHANGED <<claims, key>>
    BY <1>5 DEF Activate, At
  <2>2. CASE Return(i, t) /\ admitted' = [admitted EXCEPT ![t] = TRUE]
    BY <2>1, <2>2 DEF Return, Idle, Become, IInv, TypeOK, AdmittedHoldsClaim, RequestInv, OneInstance
  <2>3. CASE To(i, t, "refuse") /\ UNCHANGED admitted
    BY <2>1, <2>3 DEF To, Become, IInv, TypeOK, AdmittedHoldsClaim, RequestInv, OneInstance
  <2> QED
    BY <1>5, <2>2, <2>3 DEF Activate
<1>6. ASSUME NEW i \in Instance, NEW t \in Tenant, RefuseRestore(i, t)
      PROVE AdmittedHoldsClaim' /\ RequestInv'
  BY <1>6 DEF RefuseRestore, At, To, Become, IInv, TypeOK, AdmittedHoldsClaim, RequestInv, OneInstance
<1>7. ASSUME NEW i \in Instance, NEW t \in Tenant, Unclaim(i, t)
      PROVE AdmittedHoldsClaim' /\ RequestInv'
  BY <1>7 DEF Unclaim, Released, At, Return, Idle, Become, IInv, TypeOK, AdmittedHoldsClaim, RequestInv, OneInstance
<1>8. ASSUME NEW i \in Instance, NEW t \in Tenant, Change(i, t)
      PROVE AdmittedHoldsClaim' /\ RequestInv'
  <2>1. CASE Revoke(i, t)
    <3>1. CASE To(i, t, "release")
      BY <2>1, <3>1 DEF Revoke, At, To, Become, IInv, TypeOK, AdmittedHoldsClaim, RequestInv, OneInstance
    <3>2. CASE Return(i, t)
      BY <2>1, <3>2 DEF Revoke, At, Return, Idle, Become, IInv, TypeOK, AdmittedHoldsClaim, RequestInv, OneInstance
    <3> QED
      BY <2>1, <3>1, <3>2 DEF Revoke
  <2>2. CASE Release(i, t)
    BY <2>2 DEF Release, Released, At, Return, Idle, Become, IInv, TypeOK, AdmittedHoldsClaim, RequestInv, OneInstance
  <2>3. CASE Invalidate(i, t)
    <3>1. CASE To(i, t, "store")
      BY <2>3, <3>1 DEF Invalidate, At, To, Become, IInv, TypeOK, AdmittedHoldsClaim, RequestInv, OneInstance
    <3>2. CASE Return(i, t)
      BY <2>3, <3>2 DEF Invalidate, At, Return, Idle, Become, IInv, TypeOK, AdmittedHoldsClaim, RequestInv, OneInstance
    <3> QED
      BY <2>3, <3>1, <3>2 DEF Invalidate
  <2>4. CASE Store(i, t)
    BY <2>4 DEF Store, At, To, Become, IInv, TypeOK, AdmittedHoldsClaim, RequestInv, OneInstance
  <2>5. CASE StoreRefused(i, t)
    BY <2>5 DEF StoreRefused, At, Return, Idle, Become, IInv, TypeOK, AdmittedHoldsClaim, RequestInv, OneInstance
  <2> QED
    BY <1>8, <2>1, <2>2, <2>3, <2>4, <2>5 DEF Change
<1>9. ASSUME NEW i \in Instance, NEW t \in Tenant, RestorePadded(i, t)
      PROVE AdmittedHoldsClaim' /\ RequestInv'
  BY <1>9 DEF RestorePadded, At, IInv, TypeOK, AdmittedHoldsClaim, RequestInv, OneInstance
<1>10. CASE UNCHANGED vars
  BY <1>10 DEF vars, IInv, AdmittedHoldsClaim, RequestInv
<1> QED
  BY <1>1, <1>2, <1>3, <1>4, <1>5, <1>6, <1>7, <1>8, <1>9, <1>10 DEF Next, Restore

LEMMA Invariant ==
    ASSUME OneInstance
    PROVE Spec => []IInv
<1>1. Init => IInv
  BY Initially
<1>2. IInv /\ [Next]_vars /\ TypeOK' => IInv'
  BY Kept DEF IInv
<1> QED
  BY <1>1, <1>2, TypeCorrect, PTL DEF Spec

(* Tenants whose restore took the claim and succeeded never control the same *)
(* account: each control is backed by a claim, and a claim has one owner.    *)
(* Padded actions and late failures of any tenant do not change that.        *)
THEOREM AdmittedController ==
    ASSUME OneInstance
    PROVE Spec => []AdmittedExclusive
<1>1. IInv => AdmittedExclusive
  BY DEF IInv, AdmittedHoldsClaim, AdmittedExclusive
<1> QED
  BY <1>1, Invariant, PTL

(* With neither of the two, no control is active that was not admitted.      *)
LEMMA ActiveAreAdmitted ==
    ASSUME ~LateFailures, ~PaddedActions
    PROVE Spec => [](\A t \in Tenant : active[t] => admitted[t])
<1> DEFINE Inv == \A t \in Tenant : active[t] => admitted[t]
<1>1. Init => Inv
  BY DEF Init
<1>2. TypeOK /\ Inv /\ [Next]_vars => Inv'
  <2> SUFFICES ASSUME TypeOK, Inv, [Next]_vars PROVE Inv'
    OBVIOUS
  <2> USE DEF TypeOK
  <2>1. ASSUME NEW i \in Instance, NEW t \in Tenant, Restore(i, t) PROVE Inv'
    BY <2>1 DEF Restore, Identify, Claim, ClaimBlocked, Activate, RefuseRestore,
                Unclaim, RestorePadded
  <2>2. ASSUME NEW i \in Instance, NEW t \in Tenant, Change(i, t) PROVE Inv'
    BY <2>2 DEF Change, Revoke, Release, Invalidate, Store, StoreRefused
  <2>3. ASSUME NEW i \in Instance, Crash(i) PROVE Inv'
    BY <2>3 DEF Crash
  <2> QED
    BY <2>1, <2>2, <2>3 DEF Next, vars
<1> QED
  BY <1>1, <1>2, TypeCorrect, PTL DEF Spec

(* On one instance the late failure and the padded action are the only ways  *)
(* in which two tenants come to control one account: without them, none do.  *)
THEOREM OneController ==
    ASSUME OneInstance, ~LateFailures, ~PaddedActions
    PROVE Spec => []AccountExclusive
<1>1. AdmittedExclusive /\ (\A t \in Tenant : active[t] => admitted[t])
         => AccountExclusive
  BY DEF AdmittedExclusive, AccountExclusive
<1> QED
  BY <1>1, AdmittedController, ActiveAreAdmitted, PTL

(* Credentials never change under an active control, however it is restored: *)
(* the request that stores them has revoked it and keeps the tenant's lock.  *)
THEOREM CredentialsUnderRevokedControl ==
    ASSUME OneInstance
    PROVE Spec => ControlKeepsAccount
<1>1. IInv /\ [Next]_vars =>
         [\A t \in Tenant : active[t] /\ active'[t] => key'[t] = key[t]]_vars
  <2> SUFFICES ASSUME IInv, Next, NEW t \in Tenant, active[t]
               PROVE key'[t] = key[t] \/ ~active'[t]
    BY DEF vars
  <2>1. ASSUME NEW i \in Instance, NEW u \in Tenant, Store(i, u)
        PROVE key'[t] = key[t]
    BY <2>1 DEF Store, At, IInv, RequestInv, TypeOK
  <2>2. ASSUME NEW i \in Instance, NEW u \in Tenant, Restore(i, u)
        PROVE key' = key
    BY <2>2 DEF Restore, Identify, Claim, ClaimBlocked, Activate, RefuseRestore,
                RestorePadded, Unclaim
  <2>3. ASSUME NEW i \in Instance, NEW u \in Tenant, Change(i, u), ~Store(i, u)
        PROVE key' = key
    BY <2>3 DEF Change, Revoke, Release, Invalidate, StoreRefused
  <2>4. ASSUME NEW i \in Instance, Crash(i) PROVE key' = key
    BY <2>4 DEF Crash
  <2> QED
    BY <2>1, <2>2, <2>3, <2>4 DEF Next
<1> QED
  BY <1>1, Invariant, PTL DEF Spec, ControlKeepsAccount
=============================================================================
