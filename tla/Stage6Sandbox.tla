---------------------------- MODULE Stage6Sandbox ----------------------------
(***************************************************************************)
(* Stage6SandboxExecutionService (stage6_sandbox.py): batches of limit     *)
(* orders on the exchange's test network, submitted one order after the    *)
(* other, reconciled, canceled, and stopped by a persistent kill switch.   *)
(*                                                                         *)
(* One lock serializes the calls, so one call is under way at a time: its  *)
(* job, the orders it still has to treat, and the step it is at with one   *)
(* of them.  Every write of the audit store and every call of the exchange *)
(* is a step, the exchange moves between them, and the process may die     *)
(* after each; rows and kill switch survive in the audit store.            *)
(*                                                                         *)
(* The exchange's queries are authoritative: an order they do not know has *)
(* not been accepted and will not be by a request sent before.             *)
(***************************************************************************)
EXTENDS Integers, FiniteSets

CONSTANTS
    Batch,          \* the authorized batches
    Size,           \* how many orders a batch has
    RecoversAtStart,\* TRUE: the local API; the public one does not recover
    MaxCrashes      \* bound: how often the process dies

ASSUME BatchAssumption == Batch # {}
ASSUME SizeAssumption == Size \in Nat \ {0}
ASSUME CrashAssumption == RecoversAtStart \in BOOLEAN /\ MaxCrashes \in Nat

\* An order is its batch and its place in it.
Order == Batch \X (1..Size)

\* open covers partially_filled; ended covers canceled and expired.
Nonterminal == {"submission_pending", "open", "reconciliation_required"}
State == {"authorized", "filled", "ended", "rejected"} \cup Nonterminal
Status == {"absent", "open", "filled", "ended"}

Jobs == {"none", "submit", "reconcile", "cancel"}
Steps == {"next", "query", "create", "ask", "confirm", "cancel", "record"}

VARIABLES
    row,        \* the latest transition of every order: state and attempt
    killed,     \* the kill switch is triggered
    exch,       \* status at the exchange
    accepted,   \* how many orders it accepted under one client order id
    sent,       \* history: create requests per order
    job,        \* what the running call does
    todo,       \* the orders it has still to treat
    at,         \* the order it treats now
    step,
    evidence,   \* the state the exchange's answer stands for
    last,       \* the evidence is the order's last one in this job
    crashes

audit == <<row, killed>>
exchange == <<exch, accepted, sent>>
call == <<job, todo, at, step, evidence, last>>
vars == <<audit, exchange, call, crashes>>

TypeOK ==
    /\ row \in [Order -> [state : State, attempt : Nat]]
    /\ killed \in BOOLEAN
    /\ exch \in [Order -> Status]
    /\ accepted \in [Order -> Nat]
    /\ sent \in [Order -> Nat]
    /\ job \in Jobs
    /\ todo \subseteq Order
    /\ at \in Order
    /\ step \in Steps
    /\ evidence \in State
    /\ last \in BOOLEAN
    /\ crashes \in 0..MaxCrashes

Nowhere == CHOOSE o \in Order : TRUE

Init ==
    /\ row = [o \in Order |-> [state |-> "authorized", attempt |-> 0]]
    /\ killed = FALSE
    /\ exch = [o \in Order |-> "absent"]
    /\ accepted = [o \in Order |-> 0]
    /\ sent = [o \in Order |-> 0]
    /\ job = "none" /\ todo = {} /\ at = Nowhere
    /\ step = "next" /\ evidence = "authorized" /\ last = FALSE
    /\ crashes = 0

-----------------------------------------------------------------------------
\* is_active_batch.
Active(b) == \E o \in Order : o[1] = b /\ row[o].state \in Nonterminal

Open(o) == row[o].state = "open"

Start(kind, orders) ==
    /\ job' = kind
    /\ todo' = orders
    /\ at' = Nowhere
    /\ step' = "next"
    /\ evidence' = "authorized"
    /\ last' = FALSE

Return == Start("none", {})

\* The call goes on to another step with the same order.
To(next) ==
    /\ step' = next
    /\ UNCHANGED <<job, todo, at, evidence>>

\* The exchange has answered, or failed to; the answer is recorded next.
Answer(state) ==
    /\ step' = "record"
    /\ evidence' = state
    /\ UNCHANGED <<job, todo, at>>

\* The transition submission_pending comes before every create.
Pend(o) ==
    row' = [row EXCEPT ![o] = [state |-> "submission_pending",
                               attempt |-> row[o].attempt + 1]]

-----------------------------------------------------------------------------
(* The calls, each under the lock.                                           *)

\* Mutant: an order of unknown state in another batch does not block this one.
SubmitPastUnknown(b) ==
    /\ job = "none"
    /\ ~killed
    /\ \A o \in Order : o[1] # b => row[o].state \notin {"submission_pending", "open"}
    /\ \A o \in Order : o[1] = b => row[o].state # "rejected"
    /\ Start("submit", {o \in Order : o[1] = b})
    /\ UNCHANGED <<audit, exchange, crashes>>

Submit(b) ==
    /\ job = "none"
    /\ ~killed
    /\ \A other \in Batch \ {b} : ~Active(other)
    /\ \A o \in Order : o[1] = b => row[o].state # "rejected"
    /\ Start("submit", {o \in Order : o[1] = b})
    /\ UNCHANGED <<audit, exchange, crashes>>

Reconcile(b) ==
    /\ job = "none"
    /\ Active(b)
    /\ Start("reconcile", {o \in Order : o[1] = b /\ row[o].state \in Nonterminal})
    /\ UNCHANGED <<audit, exchange, crashes>>

Cancel(o) ==
    /\ job = "none"
    /\ row[o].state \in Nonterminal
    /\ Start("cancel", {o})
    /\ UNCHANGED <<audit, exchange, crashes>>

\* Mutant: the kill switch does not wait for the lock.
TriggerUnlocked ==
    /\ killed' = TRUE
    /\ IF job = "none" THEN Start("cancel", {o \in Order : Open(o)})
       ELSE UNCHANGED call
    /\ UNCHANGED <<row, exchange, crashes>>

\* set_kill_switch: the switch is recorded, then every open order is canceled.
Trigger ==
    /\ job = "none"
    /\ killed' = TRUE
    /\ Start("cancel", {o \in Order : Open(o)})
    /\ UNCHANGED <<row, exchange, crashes>>

\* Resetting it asks for every batch to be reconciled.
Reset ==
    /\ job = "none"
    /\ killed
    /\ \A b \in Batch : ~Active(b)
    /\ killed' = FALSE
    /\ UNCHANGED <<row, exchange, call, crashes>>

-----------------------------------------------------------------------------
(* The loop over the orders of a call, in the order of the batch.            *)

Turn(o) ==
    /\ step = "next"
    /\ o \in todo
    /\ \A p \in todo : p[1] = o[1] => o[2] <= p[2]

\* submit leaves an order alone that is final, or open.
Skip(o) ==
    /\ job = "submit" /\ Turn(o)
    /\ row[o].state \in {"filled", "ended", "rejected", "open"}
    /\ todo' = todo \ {o}
    /\ UNCHANGED <<audit, exchange, job, at, step, evidence, last, crashes>>

\* Mutant: an order that needs reconciliation is passed over.
StopSkips(o) ==
    /\ job = "submit" /\ Turn(o)
    /\ row[o].state = "reconciliation_required"
    /\ todo' = todo \ {o}
    /\ UNCHANGED <<audit, exchange, job, at, step, evidence, last, crashes>>

\* An order that needs reconciliation ends the submission.
Stop(o) ==
    /\ job = "submit" /\ Turn(o)
    /\ row[o].state = "reconciliation_required"
    /\ Return
    /\ UNCHANGED <<audit, exchange, crashes>>

\* Mutant: a later attempt does not query first.
SendBlind(o) ==
    /\ job = "submit" /\ Turn(o)
    /\ row[o].state \in {"authorized", "submission_pending"}
    /\ Pend(o)
    /\ at' = o
    /\ step' = "create"
    /\ UNCHANGED <<killed, exchange, job, todo, evidence, last, crashes>>

\* Only an attempt after the first queries before it creates.
Send(o) ==
    /\ job = "submit" /\ Turn(o)
    /\ row[o].state \in {"authorized", "submission_pending"}
    /\ Pend(o)
    /\ at' = o
    /\ step' = IF row[o].attempt = 0 THEN "create" ELSE "query"
    /\ UNCHANGED <<killed, exchange, job, todo, evidence, last, crashes>>

\* Reconciliation and cancellation.
Treat(o) ==
    /\ job \in {"reconcile", "cancel"} /\ Turn(o)
    /\ at' = o
    /\ step' = IF job = "cancel" THEN "cancel" ELSE "confirm"
    /\ UNCHANGED <<audit, exchange, job, todo, evidence, last, crashes>>

Finish ==
    /\ job # "none" /\ step = "next" /\ todo = {}
    /\ Return
    /\ UNCHANGED <<audit, exchange, crashes>>

-----------------------------------------------------------------------------
(* _submit_with_query_first.                                                 *)

Known == exch[at] # "absent"

\* Mutant: an empty answer is taken for the order.
QueryUnchecked ==
    /\ step = "query"
    /\ Answer(exch[at]) \/ Answer("reconciliation_required")
    /\ UNCHANGED <<audit, exchange, last, crashes>>

Query ==
    /\ step = "query"
    /\ \/ Known /\ Answer(exch[at])
       \/ Answer("reconciliation_required")
       \/ ~Known /\ To("create")
    /\ UNCHANGED <<audit, exchange, last, crashes>>

\* The exchange accepts the request; the reply may be lost.
Create ==
    /\ step = "create"
    /\ exch' = [exch EXCEPT ![at] = "open"]
    /\ accepted' = [accepted EXCEPT ![at] = @ + 1]
    /\ sent' = [sent EXCEPT ![at] = @ + 1]
    /\ Answer("open") \/ To("ask")
    /\ UNCHANGED <<audit, last, crashes>>

\* The request is refused for a definitive reason, or gets lost.
CreateFails ==
    /\ step = "create"
    /\ sent' = [sent EXCEPT ![at] = @ + 1]
    /\ Answer("rejected") \/ To("ask")
    /\ UNCHANGED <<audit, exch, accepted, last, crashes>>

\* Mutant: an order that the query does not show counts as rejected.
AskRejects ==
    /\ step = "ask"
    /\ (Known /\ Answer(exch[at])) \/ Answer("rejected")
    /\ UNCHANGED <<audit, exchange, last, crashes>>

\* The create call failed for another reason, so the exchange is queried.
Ask ==
    /\ step = "ask"
    /\ (Known /\ Answer(exch[at])) \/ Answer("reconciliation_required")
    /\ UNCHANGED <<audit, exchange, last, crashes>>

-----------------------------------------------------------------------------
(* _reconcile_order.                                                         *)

ConfirmKnown ==
    /\ step = "confirm"
    /\ Known
    /\ Answer(exch[at])
    /\ last' = TRUE
    /\ UNCHANGED <<audit, exchange, crashes>>

\* The query failed, or it found nothing and another attempt is not allowed.
Retryable ==
    /\ job # "cancel"
    /\ row[at].state \in {"submission_pending", "reconciliation_required"}
    /\ row[at].attempt < 2

ConfirmUnknown ==
    /\ step = "confirm"
    /\ Answer("reconciliation_required")
    /\ last' = TRUE
    /\ UNCHANGED <<audit, exchange, crashes>>

\* Mutant: the retry is not limited.
ResendAlways ==
    /\ step = "confirm"
    /\ ~Known /\ job # "cancel"
    /\ row[at].state \in {"submission_pending", "reconciliation_required"}
    /\ row[at].attempt <= MaxCrashes + 2
    /\ Pend(at)
    /\ To("query")
    /\ last' = TRUE
    /\ UNCHANGED <<killed, exchange, crashes>>

\* The query found nothing: one retry with the same id, after another query.
Resend ==
    /\ step = "confirm"
    /\ ~Known /\ Retryable
    /\ Pend(at)
    /\ To("query")
    /\ last' = TRUE
    /\ UNCHANGED <<killed, exchange, crashes>>

\* _cancel_and_reconcile: an open order is canceled, unless the request fails;
\* the reply may be lost.
CancelCall ==
    /\ step = "cancel"
    /\ \/ /\ exch[at] = "open"
          /\ exch' = [exch EXCEPT ![at] = "ended"]
          /\ Answer("ended") \/ Answer("reconciliation_required")
       \/ Answer("reconciliation_required") /\ UNCHANGED exch
    /\ UNCHANGED <<audit, accepted, sent, last, crashes>>

-----------------------------------------------------------------------------
\* Once an order's last evidence is recorded, a submission that failed turns
\* into the cancellation of what the batch has open.
Compensation ==
    {o \in Order : o[1] = at[1] /\ row'[o].state = "open"}

Settle ==
    IF job = "submit" /\ evidence \in {"rejected", "reconciliation_required"}
    THEN Start("cancel", Compensation)
    ELSE Start(job, todo \ {at})

\* _record_exchange_evidence; a rejected submission is not confirmed again.
Record ==
    /\ step = "record"
    /\ row' = [row EXCEPT ![at] = [state |-> evidence, attempt |-> row[at].attempt]]
    /\ IF last \/ (job = "submit" /\ evidence = "rejected")
       THEN Settle
       ELSE To("confirm") /\ UNCHANGED last
    /\ UNCHANGED <<killed, exchange, crashes>>

\* The process dies; recover_active_batches runs before calls are served.
Crash ==
    /\ job # "none"
    /\ crashes < MaxCrashes
    /\ crashes' = crashes + 1
    /\ IF RecoversAtStart /\ \E o \in Order : row[o].state \in Nonterminal
       THEN Start("reconcile", {o \in Order : row[o].state \in Nonterminal})
       ELSE Return
    /\ UNCHANGED <<audit, exchange>>

\* The exchange fills an order, or ends it.
Move(o) ==
    /\ exch[o] = "open"
    /\ \E status \in {"filled", "ended"} : exch' = [exch EXCEPT ![o] = status]
    /\ UNCHANGED <<audit, accepted, sent, call, crashes>>

Calls ==
    \/ \E b \in Batch : Submit(b) \/ Reconcile(b)
    \/ \E o \in Order : Cancel(o)
    \/ Trigger \/ Reset

Loop == \E o \in Order : Skip(o) \/ Stop(o) \/ Send(o) \/ Treat(o)

Route == Query \/ Create \/ CreateFails \/ Ask \/ CancelCall

Confirm == ConfirmKnown \/ ConfirmUnknown \/ Resend

Next ==
    \/ Calls \/ Loop \/ Finish
    \/ Route \/ Confirm \/ Record
    \/ Crash
    \/ \E o \in Order : Move(o)

Spec == Init /\ [][Next]_vars

-----------------------------------------------------------------------------
(* A state the audit store has as final is what the exchange says: an order  *)
(* recorded as rejected or never submitted does not exist, one recorded as   *)
(* filled is filled, and so on.  In particular every order open at the       *)
(* exchange is one the audit store has as not final.                         *)
FinalStatesTrue ==
    \A o \in Order :
        LET state == row[o].state IN
        /\ state \in {"authorized", "rejected"} => exch[o] = "absent"
        /\ state \in {"filled", "ended"} => exch[o] = state

(* One client order id never leads to two orders, whatever reply is lost and *)
(* whenever the process dies.                                                *)
NoDuplicate == \A o \in Order : accepted[o] <= 1

(* ADR 0014: at most one batch has an order that is not final.               *)
OneActiveBatch ==
    \A b, c \in Batch : Active(b) /\ Active(c) => b = c

(* ADR 0006: an order is first submitted only when every earlier order of    *)
(* its batch is known to be open or final and none was rejected.             *)
FailFast ==
    [][\A o \in Order :
          row[o].state = "authorized" /\ row'[o].state # "authorized" =>
              \A p \in Order : p[1] = o[1] /\ p[2] < o[2] =>
                  row[p].state \in {"open", "filled", "ended"}]_vars

(* ADR 0007: while the kill switch is triggered, no order leaves the state   *)
(* authorized.                                                               *)
KilledStartsNothing ==
    [][killed => \A o \in Order :
          row[o].state = "authorized" => row'[o].state = "authorized"]_vars

(* ADR 0005: an order is sent at most twice.                                 *)
RetriedOnce == \A o \in Order : sent[o] <= 2
==============================================================================
