--------------------------- MODULE ProductionClaim ---------------------------
(***************************************************************************)
(* How the public deployment keeps two tenants from controlling the same   *)
(* production account: the claim on the account's fingerprint              *)
(* (ProductionAccountClaimStore of tenant_storage.py), taken and given     *)
(* back around the requests that restore or revoke a tenant's Stage 10     *)
(* control or change its production credentials (_dispatch_request of      *)
(* public_tenant_api.py).                                                  *)
(*                                                                         *)
(* A request holds its tenant's lock, which belongs to one API instance:   *)
(* call[i][t] is the request instance i serves for tenant t.  Claims,      *)
(* controls and credentials are in the database; an instance may die       *)
(* between any two steps of a request.                                     *)
(*                                                                         *)
(* Whether a request takes or gives back a claim is decided on its action  *)
(* as it was sent, the route stores a control for the action without the   *)
(* blanks around it.  So there is a restore that takes no claim            *)
(* (RestorePadded) and a revoke that gives none back (Revoke).             *)
(***************************************************************************)
CONSTANTS
    Tenant,
    Account,        \* the exchange accounts, known by their fingerprint
    Nobody,         \* no owner, and no account
    Instance,       \* the API processes
    LateFailures,   \* TRUE: a restore can fail after it stored the control
    PaddedActions   \* TRUE: a restore's action may have blanks around it

ASSUME NobodyAssumption == Nobody \notin Tenant /\ Nobody \notin Account
ASSUME SwitchAssumption == {LateFailures, PaddedActions} \subseteq BOOLEAN

VARIABLES
    claims,     \* owner of the claim on an account
    active,     \* whether the tenant's latest control is active
    key,        \* the account the tenant's credentials open
    call,       \* the request an instance serves for a tenant
    admitted    \* history: the control has been active since a restore that
                \* held the claim and was answered with success

vars == <<claims, active, key, call, admitted>>

\* claim: the fingerprint is read; restore: the claim is held, the control is
\* not stored; refuse: the answer is an error; release: what is to be given
\* back once a revoke or a change of credentials has succeeded; store: access
\* is invalidated, the credentials are not stored yet.
Steps == {"idle", "claim", "restore", "refuse", "release", "store"}

Request == [step : Steps, account : Account \cup {Nobody}, created : BOOLEAN]
Idle == [step |-> "idle", account |-> Nobody, created |-> FALSE]

TypeOK ==
    /\ claims \in [Account -> Tenant \cup {Nobody}]
    /\ active \in [Tenant -> BOOLEAN]
    /\ key \in [Tenant -> Account \cup {Nobody}]
    /\ call \in [Instance -> [Tenant -> Request]]
    /\ admitted \in [Tenant -> BOOLEAN]

Init ==
    /\ claims = [a \in Account |-> Nobody]
    /\ active = [t \in Tenant |-> FALSE]
    /\ key = [t \in Tenant |-> Nobody]
    /\ call = [i \in Instance |-> [t \in Tenant |-> Idle]]
    /\ admitted = [t \in Tenant |-> FALSE]

At(i, t, step) == call[i][t].step = step
Become(i, t, request) == call' = [call EXCEPT ![i][t] = request]
To(i, t, step) == Become(i, t, [call[i][t] EXCEPT !.step = step])
Return(i, t) == Become(i, t, Idle)

\* Mutant: the row is given to a wrong owner instead of deleted.
ReleasedWrongly(t, accounts) ==
    claims' = [a \in Account |->
                  IF a \in accounts /\ claims[a] = t THEN a ELSE claims[a]]

\* The rows of production_account_claims a tenant owns are deleted.
Released(t, accounts) ==
    claims' = [a \in Account |->
                  IF a \in accounts /\ claims[a] = t THEN Nobody ELSE claims[a]]

-----------------------------------------------------------------------------
(* POST production-execution-controls, action restore.                       *)

\* The action is "restore" as it was sent: account_identity_fingerprint asks
\* the exchange whose account it is.
Identify(i, t) ==
    /\ At(i, t, "idle")
    /\ key[t] # Nobody
    /\ Become(i, t, [step |-> "claim", account |-> key[t], created |-> FALSE])
    /\ UNCHANGED <<claims, active, key, admitted>>

\* claim inserts the row, unless the account or the owner has one already; a
\* row of the tenant's own for this account is as good.
Claim(i, t) ==
    LET a == call[i][t].account
    IN /\ At(i, t, "claim")
       /\ \/ claims[a] = t
          \/ claims[a] = Nobody /\ \A b \in Account : claims[b] # t
       /\ claims' = [claims EXCEPT ![a] = t]
       /\ Become(i, t, [step |-> "restore", account |-> a,
                        created |-> claims[a] = Nobody])
       /\ UNCHANGED <<active, key, admitted>>

\* Somebody else's claim, or another claim of the tenant's, refuses the
\* request.
ClaimBlocked(i, t) ==
    LET a == call[i][t].account
    IN /\ At(i, t, "claim")
       /\ claims[a] # t
       /\ claims[a] = Nobody => \E b \in Account : claims[b] = t
       /\ Return(i, t)
       /\ UNCHANGED <<claims, active, key, admitted>>

\* The route stores an active control and answers 201.  What it does after
\* storing it, reading the event back, can fail: then it answers with an error.
Activate(i, t) ==
    /\ At(i, t, "restore")
    /\ active' = [active EXCEPT ![t] = TRUE]
    /\ \/ /\ Return(i, t)
          /\ admitted' = [admitted EXCEPT ![t] = TRUE]
       \/ LateFailures /\ To(i, t, "refuse") /\ UNCHANGED admitted
    /\ UNCHANGED <<claims, key>>

\* The evidence is missing or stale: nothing is stored.
RefuseRestore(i, t) ==
    /\ At(i, t, "restore")
    /\ To(i, t, "refuse")
    /\ UNCHANGED <<claims, active, key, admitted>>

\* The action has blanks around it.  To _production_control_action it is none
\* of the claim's, so nothing is identified or claimed; the route strips it
\* and stores an active control.  The evidence it checks may be older than the
\* keys, which it does not look at.  An error after that gives nothing back.
RestorePadded(i, t) ==
    /\ PaddedActions
    /\ At(i, t, "idle")
    /\ active' = [active EXCEPT ![t] = TRUE]
    /\ UNCHANGED <<claims, key, call, admitted>>

\* Mutant: a refused restore gives up the claim, whoever took it.
UnclaimAlways(i, t) ==
    /\ At(i, t, "refuse")
    /\ Released(t, {call[i][t].account})
    /\ Return(i, t)
    /\ UNCHANGED <<active, key, admitted>>

\* An error gives back the claim this request created, and only that.
Unclaim(i, t) ==
    /\ At(i, t, "refuse")
    /\ IF call[i][t].created
       THEN Released(t, {call[i][t].account})
       ELSE UNCHANGED claims
    /\ Return(i, t)
    /\ UNCHANGED <<active, key, admitted>>

-----------------------------------------------------------------------------
(* Action revoke, and PUT settings/configuration with production keys.       *)

\* The revoked control is stored.  The claims of the tenant are to be released,
\* unless the answer is an error after that or the action was padded.
Revoke(i, t) ==
    /\ At(i, t, "idle")
    /\ active' = [active EXCEPT ![t] = FALSE]
    /\ admitted' = [admitted EXCEPT ![t] = FALSE]
    /\ To(i, t, "release") \/ Return(i, t)
    /\ UNCHANGED <<claims, key>>

\* Mutant: only the strategy is paused, the control stays.
InvalidateSession(i, t) ==
    /\ At(i, t, "idle")
    /\ To(i, t, "store")
    /\ UNCHANGED <<claims, active, key, admitted>>

\* _invalidate_production_access: an active control is revoked before the
\* credentials change.  Pausing the strategy after it may fail, and then the
\* request is refused.
Invalidate(i, t) ==
    /\ At(i, t, "idle")
    /\ active' = [active EXCEPT ![t] = FALSE]
    /\ admitted' = [admitted EXCEPT ![t] = FALSE]
    /\ To(i, t, "store") \/ Return(i, t)
    /\ UNCHANGED <<claims, key>>

Store(i, t) ==
    /\ At(i, t, "store")
    /\ \E a \in Account \cup {Nobody} : key' = [key EXCEPT ![t] = a]
    /\ To(i, t, "release")
    /\ UNCHANGED <<claims, active, admitted>>

StoreRefused(i, t) ==
    /\ At(i, t, "store")
    /\ Return(i, t)
    /\ UNCHANGED <<claims, active, key, admitted>>

\* release_owner.
Release(i, t) ==
    /\ At(i, t, "release")
    /\ Released(t, Account)
    /\ Return(i, t)
    /\ UNCHANGED <<active, key, admitted>>

\* The instance dies with every request it serves.
Crash(i) ==
    /\ \E t \in Tenant : ~At(i, t, "idle")
    /\ call' = [call EXCEPT ![i] = [t \in Tenant |-> Idle]]
    /\ UNCHANGED <<claims, active, key, admitted>>

-----------------------------------------------------------------------------
Restore(i, t) ==
    \/ Identify(i, t) \/ Claim(i, t) \/ ClaimBlocked(i, t)
    \/ Activate(i, t) \/ RefuseRestore(i, t) \/ Unclaim(i, t)
    \/ RestorePadded(i, t)

Change(i, t) ==
    \/ Revoke(i, t) \/ Release(i, t)
    \/ Invalidate(i, t) \/ Store(i, t) \/ StoreRefused(i, t)

Next ==
    \E i \in Instance :
        \/ Crash(i)
        \/ \E t \in Tenant : Restore(i, t) \/ Change(i, t)

Spec == Init /\ [][Next]_vars


-----------------------------------------------------------------------------
(* Restores that took the claim and were answered with success keep each     *)
(* other out of an account, whatever overlaps them: refused and failing      *)
(* restores, controls restored without a claim, changes of credentials and   *)
(* instances that die in the middle.  It is what the claim store is for.     *)
AdmittedExclusive ==
    \A t, u \in Tenant :
        admitted[t] /\ admitted[u] /\ key[t] = key[u] => t = u

(* CONTEXT.md:135: an account is controlled by one tenant only.  A restore   *)
(* that fails late and a restore with a padded action each break it.         *)
AccountExclusive ==
    \A t, u \in Tenant :
        active[t] /\ active[u] /\ key[t] = key[u] /\ key[t] # Nobody => t = u

(* The credentials never change under an active control: it is revoked, and  *)
(* stays revoked, until the request that stores them is over.                *)
ControlKeepsAccount ==
    [][\A t \in Tenant : active[t] /\ active'[t] => key'[t] = key[t]]_vars
=============================================================================
