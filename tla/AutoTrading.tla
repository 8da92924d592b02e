----------------------------- MODULE AutoTrading -----------------------------
(***************************************************************************)
(* The real-money path of automatic trading: the cycle of                  *)
(* AutoPaperTradingService in live mode (auto_paper_trading.py), the order *)
(* route it calls (submit_auto_market_order and reconcile_auto_market_order*)
(* of stage10_production_execution.py), and the exchange, which answers    *)
(* late, loses replies, refuses orders and may leave one partly filled.    *)
(*                                                                         *)
(* The process may die between any two steps.  What survives is the audit  *)
(* store: the order intents, the trades, and the one state event every     *)
(* cycle loads and saves.  Orders are numbered in the order of their       *)
(* intents; an order's id never changes and is never used again.  A        *)
(* RuntimeError of a lost lease fences every later write, so it acts as a  *)
(* crash.  Quantities count the smallest amount the exchange can fill.     *)
(***************************************************************************)
EXTENDS Integers, FiniteSets

CONSTANTS
    MaxOrders,      \* bound: how many orders the strategy places
    Lot,            \* what a buy asks for
    PartialFills,   \* TRUE: an order can end with part of its size filled
    OtherInstance,  \* TRUE: configure also runs on another API instance
    MaxControls,    \* bound: how many production controls are activated
    MaxCrashes      \* bound: how often the process dies

ASSUME OrderAssumption == MaxOrders \in Nat /\ Lot \in Nat \ {0}
ASSUME SwitchAssumption == PartialFills \in BOOLEAN /\ OtherInstance \in BOOLEAN
ASSUME BoundAssumption == MaxControls \in Nat /\ MaxCrashes \in Nat

Order == 1..MaxOrders

\* Order states of the saved state; partially_filled is an open order, and
\* ended stands for canceled, expired and rejected.
Unresolved == {"submission_pending", "open", "reconciliation_required"}
Terminal == {"none", "filled", "ended"}

Runtime ==
    [order : 0..MaxOrders,  \* lastLiveOrder, 0 before the first
     state : Unresolved \cup Terminal,
     fill : Nat,        \* its filledQuantity
     mark : 0..MaxOrders,   \* lastLiveOrderIntentId, 0 for none
     position : Nat,    \* base quantity the strategy manages
     unmanaged : Nat,   \* base quantity released as dust
     count : Nat,       \* tradeCount
     live : BOOLEAN,    \* executionMode is live, not paper
     enabled : BOOLEAN,
     session : Nat]     \* liveControlId of an authorized session, 0 for none

VARIABLES
    \* the exchange
    exch,       \* status of every order
    filled,     \* quantity filled, per order
    account,    \* total base holding of the account
    \* the audit store
    intents,    \* how many order intents are recorded
    ticket,     \* side and size of every recorded order
    recorded,   \* orders with a submission_pending transition
    traded,     \* quantity of the trade event of an order, 0 for none
    saved,      \* the state event
    control,    \* the production control: its id and its status
    \* the process
    pc,         \* the step of the running cycle
    cur,        \* the state the cycle has loaded
    conf,       \* the state a configure call has loaded
    configuring,
    paused,     \* history: whether the last configure call paused trading
    crashes

audit == <<intents, ticket, recorded, traded>>
market == <<exch, filled, account>>
configure == <<conf, configuring>>
vars == <<market, audit, saved, control, pc, cur, configure, paused, crashes>>

Fresh ==
    [order |-> 0, state |-> "none", fill |-> 0, mark |-> 0, position |-> 0,
     unmanaged |-> 0, count |-> 0, live |-> FALSE, enabled |-> FALSE,
     session |-> 0]

\* absent: never sent; flying: sent, not yet seen; lost: refused or never
\* arrived; ended: canceled, expired or rejected.
Status == {"absent", "flying", "lost", "open", "filled", "ended"}
Visible == {"open", "filled", "ended"}

Steps == {"idle", "reconcile", "account", "decide", "submit", "query",
          "create", "reply", "trade", "save"}

\* A stop takes hold at once for the cycles that begin after it; stopping
\* says that the cycle that is running began before it.
Stops == {"running", "stopping", "stopped"}
Stop == IF pc = "idle" THEN "stopped" ELSE "stopping"

TypeOK ==
    /\ exch \in [Order -> Status]
    /\ filled \in [Order -> Nat]
    /\ account \in Int
    /\ intents \in 0..MaxOrders
    /\ ticket \in [Order -> [side : {"buy", "sell"}, size : Nat]]
    /\ recorded \subseteq Order
    /\ traded \in [Order -> Nat]
    /\ saved \in Runtime
    /\ control \in [id : 0..MaxControls, status : Stops]
    /\ pc \in Steps
    /\ cur \in Runtime
    /\ conf \in Runtime
    /\ configuring \in BOOLEAN
    /\ paused \in Stops
    /\ crashes \in 0..MaxCrashes

Init ==
    /\ exch = [o \in Order |-> "absent"]
    /\ filled = [o \in Order |-> 0]
    /\ account = 0
    /\ intents = 0
    /\ ticket = [o \in Order |-> [side |-> "buy", size |-> Lot]]
    /\ recorded = {}
    /\ traded = [o \in Order |-> 0]
    /\ saved = Fresh
    /\ control = [id |-> 0, status |-> "stopped"]
    /\ pc = "idle" /\ cur = Fresh
    /\ conf = Fresh /\ configuring = FALSE
    /\ paused = "stopped"
    /\ crashes = 0

-----------------------------------------------------------------------------
\* Mutant: the recovery does not advance the watermark.
LoadNoMark ==
    IF saved.live /\ intents # 0 /\ saved.mark # intents
    THEN [saved EXCEPT !.order = intents, !.state = "submission_pending",
                       !.fill = 0]
    ELSE saved

\* Mutant: the saved state is taken as it is.
LoadBlind == saved

\* _load: an intent the saved state does not know of is an order whose
\* submission was interrupted.  Only the latest intent is looked at.
Load ==
    IF saved.live /\ intents # 0 /\ saved.mark # intents
    THEN [saved EXCEPT !.order = intents, !.state = "submission_pending",
                       !.fill = 0, !.mark = intents]
    ELSE saved

\* Mutant: the control's id is compared, its status is not asked.
SessionBound(state) ==
    state.session = control.id

SessionActive(state) ==
    control.status = "running" /\ state.session = control.id

\* The cycle is over: what it held in memory is gone.
Over ==
    /\ pc' = "idle"
    /\ cur' = Fresh
    /\ control' = IF control.status = "stopping"
                  THEN [control EXCEPT !.status = "stopped"] ELSE control
    /\ paused' = IF paused = "stopping" THEN "stopped" ELSE paused

Continue(step, state) ==
    /\ pc' = step
    /\ cur' = state
    /\ UNCHANGED <<control, paused>>

\* The evidence normalize_exchange_order makes of an order it can see.
Evidence(o) == IF exch[o] \in {"filled", "ended"} THEN exch[o] ELSE "open"

\* _remember_routed_order.
Remember(state, o, status, fill) ==
    [state EXCEPT !.order = o, !.state = status, !.fill = fill]

\* Mutant: the sides are swapped.
SettledSwapped(state, o, quantity) ==
    [state EXCEPT !.position = IF ticket[o].side = "sell"
                               THEN state.position + quantity
                               ELSE state.position - quantity]

\* _settle_routed_trade, and the same accounting inline in evaluate: a buy
\* adds to the position, a sale takes from it.
Settled(state, o, quantity) ==
    [state EXCEPT !.position = IF ticket[o].side = "buy"
                               THEN state.position + quantity
                               ELSE state.position - quantity]

\* _settle_sell_fill refuses a sale larger than the position.
Settleable(state, o, quantity) ==
    ticket[o].side = "sell" => quantity <= state.position

-----------------------------------------------------------------------------
(* The background cycle: process_auto_trading_once.                          *)

\* Without another instance, one lock serializes cycles and configure calls.
Free == OtherInstance \/ ~configuring

\* Mutant: a paused strategy does not reconcile either.
BeginEnabled ==
    /\ pc = "idle"
    /\ Free
    /\ Load.live /\ Load.enabled
    /\ Continue(IF Load.state \in Unresolved THEN "reconcile" ELSE "account", Load)
    /\ UNCHANGED <<market, audit, saved, configure, crashes>>

\* An unresolved order is reconciled first, also when trading is paused.
Begin ==
    /\ pc = "idle"
    /\ Free
    /\ Load.live
    /\ IF Load.state \in Unresolved
       THEN Continue("reconcile", Load)
       ELSE Load.enabled /\ Continue("account", Load)
    /\ UNCHANGED <<market, audit, saved, configure, crashes>>

\* _reconcile_pending_order when the route gave no answer, or found no order:
\* the account lease is busy, the query failed, or the exchange knows nothing.
ReconcileUnknown ==
    /\ pc = "reconcile"
    /\ Continue("save", Remember(cur, cur.order, "reconciliation_required", 0))
    /\ UNCHANGED <<market, audit, saved, configure, crashes>>

\* _reconcile_pending_order when the exchange shows the order.
ReconcileFound ==
    LET o == cur.order
        known == Remember(cur, o, Evidence(o), filled[o])
    IN /\ pc = "reconcile"
       /\ exch[o] \in Visible
       /\ IF known.state \in Unresolved \/ filled[o] = 0
          THEN Continue("save", known)
          ELSE IF Settleable(known, o, filled[o])
               THEN Continue("trade", Settled(known, o, filled[o]))
               ELSE Continue("save", [known EXCEPT !.state = "reconciliation_required"])
       /\ UNCHANGED <<market, audit, saved, configure, crashes>>

\* The session, the control or the account coverage is missing: evaluate
\* finishes without a decision.  Any order open on the account blocks it.
Blocked ==
    /\ pc = "account"
    /\ Continue("save", cur)
    /\ UNCHANGED <<market, audit, saved, configure, crashes>>

Managed == IF account > cur.unmanaged THEN account - cur.unmanaged ELSE 0

\* _synchronize_account_snapshot: the exchange's balance is authoritative for
\* the position, and the cycle ends when it differs.
Synchronize ==
    /\ pc = "account"
    /\ SessionActive(cur)
    /\ account >= 0 /\ account # cur.position + cur.unmanaged
    /\ Continue("save", [cur EXCEPT !.position = Managed,
                                    !.unmanaged = account - Managed])
    /\ UNCHANGED <<market, audit, saved, configure, crashes>>

Covered ==
    /\ pc = "account"
    /\ SessionActive(cur)
    /\ account = cur.position + cur.unmanaged
    /\ \A o \in Order : exch[o] # "open"
    /\ Continue("decide", cur)
    /\ UNCHANGED <<market, audit, saved, configure, crashes>>

\* No signal, a risk limit, or a preparation the exchange's rules refuse.
Hold ==
    /\ pc = "decide"
    /\ Continue("save", cur)
    /\ UNCHANGED <<market, audit, saved, configure, crashes>>

\* _release_untradeable_dust: a remnant too small to sell leaves the ledger.
ReleaseDust ==
    /\ pc = "decide"
    /\ cur.position \in 1..(Lot - 1)
    /\ Continue("save", [cur EXCEPT !.position = 0,
                                    !.unmanaged = cur.unmanaged + cur.position])
    /\ UNCHANGED <<market, audit, saved, configure, crashes>>

\* A decision: standardize_signal_action lets it buy only when flat, and a
\* sale closes the whole position.
Decision(state) ==
    IF state.position = 0
    THEN [side |-> "buy", size |-> Lot]
    ELSE [side |-> "sell", size |-> state.position]

\* Mutant: the intent is recorded after the order has been sent.
UnrecordedIntent ==
    /\ pc = "decide"
    /\ intents < MaxOrders
    /\ ticket' = [ticket EXCEPT ![intents + 1] = Decision(cur)]
    /\ Continue("submit", [cur EXCEPT !.mark = intents + 1])
    /\ UNCHANGED <<market, intents, recorded, traded, saved, configure, crashes>>

\* The first half of _route_order: the intent becomes durable before the
\* exchange hears of the order.
RecordIntent ==
    /\ pc = "decide"
    /\ intents < MaxOrders
    /\ intents' = intents + 1
    /\ ticket' = [ticket EXCEPT ![intents'] = Decision(cur)]
    /\ Continue("submit", [cur EXCEPT !.mark = intents'])
    /\ UNCHANGED <<market, recorded, traded, saved, configure, crashes>>

-----------------------------------------------------------------------------
(* submit_auto_market_order of the production route.                         *)

\* The session, the account lease or the permissions do not allow the order:
\* the route raises before anything was created and the order is rejected.
Refused ==
    /\ pc \in {"submit", "query"}
    /\ Continue("save", Remember(cur, cur.mark, "ended", 0))
    /\ UNCHANGED <<market, audit, saved, configure, crashes>>

\* require_auto_session, then the account lease.
Submit ==
    /\ pc = "submit"
    /\ SessionActive(cur)
    /\ Continue("query", cur)
    /\ UNCHANGED <<market, audit, saved, configure, crashes>>

\* The query failed for another reason than a missing order.
QueryUnknown ==
    /\ pc = "query"
    /\ Continue("save", Remember(cur, cur.mark, "reconciliation_required", 0))
    /\ UNCHANGED <<market, audit, saved, configure, crashes>>

\* The exchange says that it does not know the order, and the permissions are
\* in order: submission_pending is recorded.
QueryAbsent ==
    /\ pc = "query"
    /\ exch[cur.mark] = "absent"
    /\ recorded' = recorded \cup {cur.mark}
    /\ Continue("create", cur)
    /\ UNCHANGED <<market, intents, ticket, traded, saved, configure, crashes>>

Create ==
    /\ pc = "create"
    /\ exch' = [exch EXCEPT ![cur.mark] = "flying"]
    /\ Continue("reply", cur)
    /\ UNCHANGED <<filled, account, audit, saved, configure, crashes>>

\* Mutant: a create call that raised counts as a rejected order.
ReplyRejects ==
    /\ pc = "reply"
    /\ Continue("save", Remember(cur, cur.mark, "ended", 0))
    /\ UNCHANGED <<market, audit, saved, configure, crashes>>

\* The create call raised and the query that follows does not find the order,
\* or fails as well.
ReplyUnknown ==
    /\ pc = "reply"
    /\ Continue("save", Remember(cur, cur.mark, "reconciliation_required", 0))
    /\ UNCHANGED <<market, audit, saved, configure, crashes>>

\* Mutant: evaluate settles what has been filled of an order still open.
ReplySettlesOpen ==
    LET o == cur.mark
        known == Remember(cur, o, Evidence(o), filled[o])
    IN /\ pc = "reply"
       /\ exch[o] \in Visible
       /\ IF filled[o] > 0 /\ Settleable(known, o, filled[o])
          THEN Continue("trade", Settled(known, o, filled[o]))
          ELSE Continue("save", known)
       /\ UNCHANGED <<market, audit, saved, configure, crashes>>

\* The create call, or a query after it, shows the order.  evaluate settles an
\* order that is filled and remembers every other one as it is.
ReplyFound ==
    LET o == cur.mark
        known == Remember(cur, o, Evidence(o), filled[o])
    IN /\ pc = "reply"
       /\ exch[o] \in Visible
       /\ IF known.state # "filled"
          THEN Continue("save", known)
          ELSE IF Settleable(known, o, filled[o])
               THEN Continue("trade", Settled(known, o, filled[o]))
               ELSE Continue("save", [known EXCEPT !.state = "reconciliation_required"])
       /\ UNCHANGED <<market, audit, saved, configure, crashes>>

-----------------------------------------------------------------------------
(* The end of a cycle.                                                       *)

\* _record_trade: the trade's id derives from the order's, so a trade event
\* that is already there is left alone; the ledger counts it.
RecordTrade ==
    /\ pc = "trade"
    /\ traded' = [traded EXCEPT ![cur.order] = IF @ = 0 THEN cur.fill ELSE @]
    /\ Continue("save", [cur EXCEPT !.count = cur.count + 1])
    /\ UNCHANGED <<market, intents, ticket, recorded, saved, configure, crashes>>

\* _finish and _save.
Save ==
    /\ pc = "save"
    /\ saved' = cur
    /\ Over
    /\ UNCHANGED <<market, audit, configure, crashes>>

\* An exception evaluate does not catch, of the network say, ends the cycle
\* without a save.
Abort ==
    /\ pc \in {"query", "trade", "save"}
    /\ Over
    /\ UNCHANGED <<market, audit, saved, configure, crashes>>

Crash ==
    /\ pc # "idle"
    /\ crashes < MaxCrashes
    /\ crashes' = crashes + 1
    /\ Over
    /\ UNCHANGED <<market, audit, saved, configure>>

-----------------------------------------------------------------------------
(* configure, called by the user.                                            *)

ConfigureLoad ==
    /\ ~configuring
    /\ OtherInstance \/ pc = "idle"
    /\ conf' = Load
    /\ configuring' = TRUE
    /\ UNCHANGED <<market, audit, saved, control, pc, cur, paused, crashes>>

Configured(state) ==
    /\ configuring
    /\ saved' = state
    /\ conf' = Fresh
    /\ configuring' = FALSE
    /\ UNCHANGED <<market, audit, control, pc, cur, crashes>>

\* Mutant: the reset clears the watermark of the intents as well.
ResetForgets(state) ==
    [state EXCEPT !.position = 0, !.unmanaged = 0, !.count = 0, !.mark = 0]

\* _reset_strategy_ledger.
Reset(state) == [state EXCEPT !.position = 0, !.unmanaged = 0, !.count = 0]

Pause ==
    /\ Configured([conf EXCEPT !.enabled = FALSE, !.session = 0])
    /\ paused' = Stop

\* authorize_auto_session: a new session is bound to the active control.
Resume ==
    /\ conf.live
    /\ control.status = "running"
    /\ Configured([conf EXCEPT !.enabled = TRUE, !.session = control.id])
    /\ paused' = "running"

EnterLive ==
    /\ ~conf.live
    /\ control.status = "running"
    /\ Configured([Reset(conf) EXCEPT !.live = TRUE, !.enabled = TRUE,
                                      !.session = control.id])
    /\ paused' = "running"

\* Mutant: the mode switch asks for a flat position only.
LeaveLiveFlat ==
    /\ conf.live
    /\ conf.position = 0
    /\ Configured([Reset(conf) EXCEPT !.live = FALSE, !.enabled = FALSE,
                                      !.session = 0])
    /\ paused' = Stop

LeaveLive ==
    /\ conf.live
    /\ conf.position = 0 /\ conf.state \notin Unresolved
    /\ Configured([Reset(conf) EXCEPT !.live = FALSE, !.enabled = FALSE,
                                      !.session = 0])
    /\ paused' = Stop

\* Any other setting: the loaded state is saved with it.
Adjust ==
    /\ Configured(conf)
    /\ UNCHANGED paused

ConfigureSave == Pause \/ Resume \/ EnterLive \/ LeaveLive \/ Adjust

\* set_control: restoring activates a new control, triggering stops it.
RestoreControl ==
    /\ control.status # "running"
    /\ control.id < MaxControls
    /\ control' = [id |-> control.id + 1, status |-> "running"]
    /\ UNCHANGED <<market, audit, saved, pc, cur, configure, paused, crashes>>

TriggerControl ==
    /\ control.status = "running"
    /\ control' = [control EXCEPT !.status = Stop]
    /\ UNCHANGED <<market, audit, saved, pc, cur, configure, paused, crashes>>

-----------------------------------------------------------------------------
(* The exchange.                                                             *)

Arrive(o) ==
    /\ exch[o] = "flying"
    /\ \E status \in {"open", "lost"} : exch' = [exch EXCEPT ![o] = status]
    /\ UNCHANGED <<filled, account, audit, saved, control, pc, cur, configure,
                   paused, crashes>>

\* A fill moves base into the account, or out of it.
Fill(o) ==
    /\ exch[o] = "open"
    /\ \E quantity \in 1..(ticket[o].size - filled[o]) :
          LET total == filled[o] + quantity
          IN /\ PartialFills \/ total = ticket[o].size
             /\ filled' = [filled EXCEPT ![o] = total]
             /\ exch' = [exch EXCEPT ![o] = IF total = ticket[o].size
                                            THEN "filled" ELSE "open"]
             /\ account' = IF ticket[o].side = "buy"
                           THEN account + quantity ELSE account - quantity
    /\ UNCHANGED <<audit, saved, control, pc, cur, configure, paused, crashes>>

\* Canceled, expired or rejected, with what has been filled so far.
End(o) ==
    /\ exch[o] = "open"
    /\ exch' = [exch EXCEPT ![o] = "ended"]
    /\ UNCHANGED <<filled, account, audit, saved, control, pc, cur, configure,
                   paused, crashes>>

Exchange(o) == Arrive(o) \/ Fill(o) \/ End(o)

-----------------------------------------------------------------------------
Reconcile == ReconcileUnknown \/ ReconcileFound
Evaluate == Blocked \/ Synchronize \/ Covered \/ Hold \/ ReleaseDust \/ RecordIntent
Route == Refused \/ Submit \/ QueryUnknown \/ QueryAbsent \/ Create
            \/ ReplyUnknown \/ ReplyFound
Cycle == Reconcile \/ Evaluate \/ Route \/ RecordTrade \/ Save

Next ==
    \/ Begin \/ Cycle \/ Abort \/ Crash
    \/ ConfigureLoad \/ ConfigureSave
    \/ RestoreControl \/ TriggerControl
    \/ \E o \in Order : Exchange(o)

Spec == Init /\ [][Next]_vars

\* The background task is scheduled again and again and gets the lock that
\* every configure call releases; a cycle takes its steps, and a write or a
\* query that is repeated for ever succeeds; the exchange decides every order
\* it has received.
Fairness ==
    /\ SF_vars(Begin) /\ WF_vars(Cycle) /\ WF_vars(ConfigureSave)
    /\ SF_vars(ReconcileFound) /\ SF_vars(RecordTrade) /\ SF_vars(Save)
    /\ \A o \in Order : WF_vars(Exchange(o))

LiveSpec == Spec /\ Fairness

-----------------------------------------------------------------------------
\* The order the durable state has as unresolved, once it is loaded.
Pending(o) == saved.live /\ Load.order = o /\ Load.state \in Unresolved

(* The exchange never hears of an order whose intent and whose               *)
(* submission_pending transition are not durable: whenever the process dies, *)
(* the next one can find every order that may exist.                         *)
IntentFirst ==
    \A o \in Order : exch[o] # "absent" => o <= intents /\ o \in recorded

(* An order that may still execute is the one the durable state holds as     *)
(* unresolved, in live mode: no new order is placed and the mode is not      *)
(* switched while an earlier order is open or under way, not even when its   *)
(* reply was lost, the query does not find it or the process died.           *)
LiveOrderIsPending ==
    \A o \in Order : exch[o] \in {"flying", "open"} => o = intents /\ Pending(o)

(* A trade is recorded only of an order the exchange has finished, and for   *)
(* exactly the quantity it filled, however often the settlement is repeated  *)
(* after a crash between the trade event and the saved state.                *)
TradesBacked ==
    \A o \in Order :
        traded[o] > 0 => exch[o] \in {"filled", "ended"} /\ traded[o] = filled[o]

(* The ledger counts a trade at most once: the trade counter never exceeds   *)
(* the number of trade events.                                               *)
CountedOnce ==
    saved.count <= Cardinality({o \in Order : traded[o] > 0})

(* Between two cycles with no order unresolved, the ledger agrees with the   *)
(* account.  (Without partial fills: see FillKept.)                          *)
LedgerMatchesAccount ==
    pc = "idle" /\ (\A o \in Order : ~Pending(o))
        => saved.position + saved.unmanaged = account

(* CONTEXT.md:142: no fact of a fill may be discarded.  What the exchange    *)
(* filled of an order it has finished is a trade or will be reconciled.      *)
FillKept ==
    \A o \in Order :
        exch[o] \in {"filled", "ended"} /\ filled[o] > 0
            => traded[o] > 0 \/ (o = intents /\ Pending(o))

(* After the emergency stop, or a pause, no order is sent to the exchange,   *)
(* except by the cycle that had passed its check when the stop came.         *)
StoppedSendsNothing ==
    [][\A o \in Order :
          exch[o] = "absent" /\ exch'[o] # "absent"
              => control.status # "stopped" /\ paused # "stopped"]_vars

(* An order the durable state has as finished is never reopened: neither a   *)
(* recovery nor a late reply brings back the submission of a closed order.   *)
ClosedStaysClosed ==
    [][\A o \in Order :
          o <= intents /\ ~Pending(o) => ~Pending(o)']_vars

(* What the exchange filled is in the ledger eventually, though cycles are   *)
(* paused, the control is triggered, replies are lost and the process dies.  *)
FillReachesLedger ==
    \A o \in Order : exch[o] = "filled" ~> traded[o] > 0

\* What the orders look like from outside.
Phase(o) ==
    IF o > intents THEN "new"
    ELSE IF traded[o] > 0 THEN "booked"
    ELSE IF Pending(o) THEN "announced" ELSE "closed"

Settlement == INSTANCE OrderSettlement WITH
    phase <- [o \in Order |-> Phase(o)],
    executed <- {o \in Order : filled[o] > 0}

(* Every behaviour of the cycle, the configure calls, the crashes and the    *)
(* exchange keeps the promises of OrderSettlement.                           *)
Settles == Settlement!Spec
==============================================================================
