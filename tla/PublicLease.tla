----------------------------- MODULE PublicLease -----------------------------
(***************************************************************************)
(* The lease that keeps several API instances of the public deployment     *)
(* from advancing the same tenant's background task                        *)
(* (public_coordination.py, public_background.py and the write fence of    *)
(* tenant_storage.py).  One (owner_id, task_key) row is modelled.          *)
(*                                                                         *)
(* A row is written with a timestamp its writer read from its own clock    *)
(* before the statement ran.  The distance between that reading and the    *)
(* database's time is the age of the statement: positive when the          *)
(* statement was delayed or the writer's clock is slow, negative when the  *)
(* clock is fast.  Ages is the set of distances that can occur.            *)
(***************************************************************************)
EXTENDS Integers

CONSTANTS
    Instance,   \* the API processes, each with its own holder_id
    NoHolder,   \* no row, or no transaction holding it
    DeadHolder, \* the holder_id of a process that died
    Ttl,        \* PublicLeaseStore.ttl, in clock ticks
    Ages,       \* how far a statement's timestamp lies behind the database
    Floor,      \* time left at which a row is expired whatever the age
    Timely      \* TRUE: a live renewal thread is never late

ASSUME HolderAssumption ==
    /\ NoHolder \notin Instance
    /\ DeadHolder \notin Instance \cup {NoHolder}
ASSUME ClockAssumption ==
    /\ Ttl \in Nat \ {0}
    /\ Floor \in Int /\ Floor <= 0
    /\ Ages \subseteq Int
    /\ \A age \in Ages : Floor + age <= 0 /\ Floor <= Ttl - age
    /\ Timely \in BOOLEAN

VARIABLES
    holder,     \* holder_id of the row, NoHolder when there is no row
    left,       \* lease_expires_at minus the database's time
    rowLock,    \* the transaction that selected the row FOR UPDATE
    pc,         \* where the tenant's operation is, per instance
    lost,       \* the lease_lost event of the instance's operation
    renewing,   \* whether the renewal thread of the operation is alive
    latest      \* history: the instance that acquired the lease last

vars == <<holder, left, rowLock, pc, lost, renewing, latest>>

\* idle: between cycles; running: between two steps of the operation;
\* guarded: a guard just passed; effect: inside a call it protects;
\* fenced: inside a write transaction; ending: in the finally block.
Steps == {"idle", "running", "guarded", "effect", "fenced", "ending"}

\* lease_expires_at > timestamp, for a timestamp that lies age behind.
Unexpired(age) == left + age > 0

\* What both the guard and the fence ask.
Held(i, age) == ~lost[i] /\ holder = i /\ Unexpired(age)

\* A statement that changes the row waits for the transaction that has it
\* locked FOR UPDATE (PostgreSQL; the database of the public deployment).
Writable(i) == rowLock \in {NoHolder, i}

TypeOK ==
    /\ holder \in Instance \cup {NoHolder, DeadHolder}
    /\ left \in Int /\ left >= Floor
    /\ rowLock \in Instance \cup {NoHolder}
    /\ pc \in [Instance -> Steps]
    /\ lost \in [Instance -> BOOLEAN]
    /\ renewing \in [Instance -> BOOLEAN]
    /\ latest \in Instance \cup {NoHolder}

Init ==
    /\ holder = NoHolder
    /\ left = 0
    /\ rowLock = NoHolder
    /\ pc = [i \in Instance |-> "idle"]
    /\ lost = [i \in Instance |-> FALSE]
    /\ renewing = [i \in Instance |-> FALSE]
    /\ latest = NoHolder

Goto(i, step) == pc' = [pc EXCEPT ![i] = step]

-----------------------------------------------------------------------------
\* Mutant: the upsert has no branch for an expired row.
AcquireFreeOnly(i, age) ==
    /\ pc[i] = "idle"
    /\ Writable(i)
    /\ holder \in {NoHolder, i}
    /\ holder' = i
    /\ left' = Ttl - age
    /\ latest' = i
    /\ lost' = [lost EXCEPT ![i] = FALSE]
    /\ renewing' = [renewing EXCEPT ![i] = TRUE]
    /\ Goto(i, "running")
    /\ UNCHANGED rowLock

\* PublicLeaseStore.acquire succeeds: the upsert inserts a missing row and
\* takes over an expired one, or one its own holder_id still names.  The
\* operation starts with a renewal thread and a fresh lease_lost event.
Acquire(i, age) ==
    /\ pc[i] = "idle"
    /\ Writable(i)
    /\ holder \in {NoHolder, i} \/ ~Unexpired(age)
    /\ holder' = i
    /\ left' = Ttl - age
    /\ latest' = i
    /\ lost' = [lost EXCEPT ![i] = FALSE]
    /\ renewing' = [renewing EXCEPT ![i] = TRUE]
    /\ Goto(i, "running")
    /\ UNCHANGED rowLock

\* Mutant: the expiry is set one lease into the past.
RenewBackwards(i, age) ==
    /\ renewing[i]
    /\ Writable(i)
    /\ holder = i /\ Unexpired(age)
    /\ left' = -Ttl - age
    /\ UNCHANGED <<holder, rowLock, pc, lost, renewing, latest>>

\* The renewal thread extends a row that is still held and unexpired ...
Renew(i, age) ==
    /\ renewing[i]
    /\ Writable(i)
    /\ holder = i /\ Unexpired(age)
    /\ left' = Ttl - age
    /\ UNCHANGED <<holder, rowLock, pc, lost, renewing, latest>>

\* ... and when the row is gone, or the statement raised because the database
\* was out of reach, it sets lease_lost and ends.  The operation itself goes
\* on until its next check.
RenewFails(i) ==
    /\ renewing[i]
    /\ lost' = [lost EXCEPT ![i] = TRUE]
    /\ renewing' = [renewing EXCEPT ![i] = FALSE]
    /\ UNCHANGED <<holder, left, rowLock, pc, latest>>

\* lease_guard: a plain read outside any transaction.  When it fails the
\* operation raises public_lease_lost.
Guard(i, age) ==
    /\ pc[i] = "running"
    /\ Goto(i, IF Held(i, age) THEN "guarded" ELSE "ending")
    /\ UNCHANGED <<holder, left, rowLock, lost, renewing, latest>>

\* What a guard protects that is no database write, an exchange call say.
Effect(i) ==
    /\ pc[i] = "guarded"
    /\ Goto(i, "effect")
    /\ UNCHANGED <<holder, left, rowLock, lost, renewing, latest>>

EffectDone(i) ==
    /\ pc[i] = "effect"
    /\ Goto(i, "running")
    /\ UNCHANGED <<holder, left, rowLock, lost, renewing, latest>>

\* Mutant: the fence reads the row without FOR UPDATE.
FenceUnlocked(i, age) ==
    /\ pc[i] = "running"
    /\ Goto(i, IF Held(i, age) THEN "fenced" ELSE "ending")
    /\ UNCHANGED <<holder, left, rowLock, lost, renewing, latest>>

\* lease_fence: every tenant write transaction first selects the row FOR
\* UPDATE, which keeps it locked until the transaction ends.
Fence(i, age) ==
    /\ pc[i] = "running"
    /\ Writable(i)
    /\ Goto(i, IF Held(i, age) THEN "fenced" ELSE "ending")
    /\ rowLock' = IF Held(i, age) THEN i ELSE rowLock
    /\ UNCHANGED <<holder, left, lost, renewing, latest>>

\* The transaction commits its write and unlocks the row.
Commit(i) ==
    /\ pc[i] = "fenced"
    /\ rowLock' = NoHolder
    /\ Goto(i, "running")
    /\ UNCHANGED <<holder, left, lost, renewing, latest>>

\* The operation returns, or raises.
Finish(i) ==
    /\ pc[i] = "running"
    /\ Goto(i, "ending")
    /\ UNCHANGED <<holder, left, rowLock, lost, renewing, latest>>

\* The finally block stops the renewal thread and deletes the row if it is
\* still this instance's; the delete may fail, and then the row stays.
Release(i) ==
    /\ pc[i] = "ending"
    /\ renewing' = [renewing EXCEPT ![i] = FALSE]
    /\ Goto(i, "idle")
    /\ \/ /\ Writable(i)
          /\ holder' = IF holder = i THEN NoHolder ELSE holder
       \/ UNCHANGED holder
    /\ UNCHANGED <<left, rowLock, lost, latest>>

\* The process dies and is started again under a new holder_id: its
\* transaction is rolled back, and its row belongs to nobody alive.
Crash(i) ==
    /\ holder = i \/ pc[i] # "idle"
    /\ holder' = IF holder = i THEN DeadHolder ELSE holder
    /\ rowLock' = IF rowLock = i THEN NoHolder ELSE rowLock
    /\ renewing' = [renewing EXCEPT ![i] = FALSE]
    /\ Goto(i, "idle")
    /\ UNCHANGED <<left, lost, latest>>

\* Time passes; at Floor the row is expired for everyone.  The renewal
\* thread wakes every third of the lease; when Timely it gets its turn
\* before the lease runs out, otherwise it may be delayed for any time.
Tick ==
    /\ left > Floor
    /\ Timely /\ holder \in Instance => ~renewing[holder] \/ left > 1
    /\ left' = left - 1
    /\ UNCHANGED <<holder, rowLock, pc, lost, renewing, latest>>

Step(i) ==
    \/ \E age \in Ages : Guard(i, age) \/ Fence(i, age)
    \/ Effect(i) \/ EffectDone(i) \/ Commit(i) \/ Release(i)

Next ==
    \/ Tick
    \/ \E i \in Instance :
          \/ \E age \in Ages : Acquire(i, age) \/ Renew(i, age)
          \/ RenewFails(i) \/ Step(i) \/ Finish(i) \/ Crash(i)

Spec == Init /\ [][Next]_vars

\* Clocks advance, every instance's scheduler keeps trying to acquire and
\* keeps executing an operation it has begun, and an operation, a bounded
\* sequence of steps with time limits on its calls, ends.
Fairness ==
    /\ WF_vars(Tick)
    /\ \A i \in Instance :
          /\ WF_vars(\E age \in Ages : Acquire(i, age))
          /\ WF_vars(Step(i))
          /\ SF_vars(Finish(i))

LiveSpec == Spec /\ Fairness

-----------------------------------------------------------------------------
(* A write transaction that has passed its fence belongs to the operation    *)
(* that acquired the lease last, however the clocks of the instances differ  *)
(* and however late its statements run: once another instance has taken the  *)
(* task over, nothing the former holder still does reaches the tenant's      *)
(* records.                                                                  *)
NoStaleWrite ==
    \A i \in Instance :
        pc[i] = "fenced" => holder = i /\ latest = i

(* At most one write transaction of the task is open at a time.              *)
WritesExclude ==
    \A i, j \in Instance :
        pc[i] = "fenced" /\ pc[j] = "fenced" => i = j

(* A row left behind by a process that died is taken over by a live one.     *)
AbandonedLeaseTakenOver ==
    holder = DeadHolder ~> holder \in Instance
=============================================================================
