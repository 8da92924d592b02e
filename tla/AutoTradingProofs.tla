-------------------------- MODULE AutoTradingProofs --------------------------
(***************************************************************************)
(* Theorems about AutoTrading, for every number of orders, lot, control and *)
(* crash.                                                                   *)
(***************************************************************************)
EXTENDS AutoTrading, TLAPS

(* Loading keeps the type of the state event.                                *)
LEMMA LoadType == ASSUME TypeOK PROVE Load \in Runtime
  <1>1. saved \in Runtime /\ intents \in 0..MaxOrders
    BY OrderAssumption DEF TypeOK
  <1>2. "submission_pending" \in Unresolved \cup Terminal
    BY DEF Unresolved
  <1> QED
    BY <1>1, <1>2 DEF Load, Runtime

(* What a cycle does with the state it has loaded keeps its type.            *)
LEMMA RememberType ==
    ASSUME NEW state \in Runtime, NEW o \in 0..MaxOrders,
           NEW status \in Unresolved \cup Terminal, NEW quantity \in Nat
    PROVE  Remember(state, o, status, quantity) \in Runtime
  BY DEF Remember, Runtime

LEMMA SettledType ==
    ASSUME TypeOK, NEW state \in Runtime, NEW o \in Order, NEW quantity \in Nat,
           Settleable(state, o, quantity)
    PROVE  Settled(state, o, quantity) \in Runtime
  <1>1. ticket[o].side \in {"buy", "sell"} /\ state.position \in Nat
    BY DEF TypeOK, Runtime
  <1>2. /\ ticket[o].side = "buy" => state.position + quantity \in Nat
        /\ ticket[o].side # "buy" => state.position - quantity \in Nat
    BY <1>1 DEF Settleable
  <1> QED
    BY <1>2 DEF Settled, Runtime

LEMMA FreshType == Fresh \in Runtime
  BY OrderAssumption DEF Fresh, Runtime, Terminal

LEMMA StopType == ASSUME TypeOK PROVE Stop \in Stops
  BY DEF Stop, Stops

(* A cycle that goes on to another step, or ends, keeps the types of its own *)
(* variables.                                                                *)
LEMMA ContinueType ==
    ASSUME TypeOK, NEW state \in Runtime, NEW step \in Steps, Continue(step, state),
           UNCHANGED <<market, audit, saved, configure, crashes>>
    PROVE  TypeOK'
  BY DEF TypeOK, Continue, market, audit, configure

LEMMA OverType ==
    ASSUME TypeOK, Over
    PROVE  /\ pc' \in Steps /\ cur' \in Runtime /\ paused' \in Stops
           /\ control' \in [id : 0..MaxControls, status : Stops]
  BY FreshType DEF TypeOK, Over, Steps, Stops

LEMMA TypeInit == Init => TypeOK
  <1> SUFFICES ASSUME Init PROVE TypeOK
    OBVIOUS
  <1> USE DEF Init
  <1>1. exch \in [Order -> Status] /\ filled \in [Order -> Nat] /\ traded \in [Order -> Nat]
    BY DEF Status
  <1>2. ticket \in [Order -> [side : {"buy", "sell"}, size : Nat]]
    <2>1. [side |-> "buy", size |-> Lot] \in [side : {"buy", "sell"}, size : Nat]
      BY OrderAssumption
    <2> QED
      BY <2>1
  <1>3. intents \in 0..MaxOrders /\ crashes \in 0..MaxCrashes
    BY OrderAssumption, BoundAssumption
  <1>4. control \in [id : 0..MaxControls, status : Stops]
    BY BoundAssumption DEF Stops
  <1>5. account \in Int /\ recorded \subseteq Order /\ pc \in Steps /\ paused \in Stops
    BY DEF Steps, Stops
  <1>6. saved \in Runtime /\ cur \in Runtime /\ conf \in Runtime /\ configuring \in BOOLEAN
    BY FreshType
  <1> HIDE DEF Init
  <1> QED
    BY <1>1, <1>2, <1>3, <1>4, <1>5, <1>6 DEF TypeOK

\* The order a cycle is about is a real one: an unresolved order has a number,
\* and so has the order a cycle routes.
Named(state) == state.state \in Unresolved => state.order # 0
Targets ==
    /\ Named(saved) /\ Named(conf) /\ Named(cur)
    /\ pc = "reconcile" => cur.order # 0
    /\ pc \in {"submit", "query", "create", "reply"} => cur.mark # 0

(* Every action of the model keeps the types.                                *)
LEMMA TypeNext == TypeOK /\ Targets /\ [Next]_vars => TypeOK'
  <1> SUFFICES ASSUME TypeOK, Targets, [Next]_vars PROVE TypeOK'
    OBVIOUS
  <1> USE OrderAssumption, BoundAssumption
  <1>states. cur \in Runtime /\ conf \in Runtime /\ saved \in Runtime /\ Load \in Runtime
    BY LoadType DEF TypeOK
  <1>numbers. intents \in Nat /\ filled \in [Order -> Nat] /\ account \in Int /\ Order \subseteq Nat
    BY DEF TypeOK, Order
  <1>status. Unresolved \cup Terminal = {"submission_pending", "open",
                "reconciliation_required", "none", "filled", "ended"}
    BY DEF Unresolved, Terminal
  <1>fields. \A state \in Runtime :
                /\ state.order \in 0..MaxOrders /\ state.mark \in 0..MaxOrders
                /\ state.position \in Nat /\ state.unmanaged \in Nat
    BY DEF Runtime
  <1>remember. \A status \in Unresolved \cup Terminal :
                  /\ Remember(cur, cur.order, status, 0) \in Runtime
                  /\ Remember(cur, cur.mark, status, 0) \in Runtime
    BY <1>states, <1>fields, RememberType
  <1>1. CASE Begin
    <2>1. PICK step \in {"reconcile", "account"} : Continue(step, Load)
      BY <1>1 DEF Begin
    <2> QED
      BY <1>1, <2>1, <1>states, ContinueType DEF Begin, Steps
  <1>2. CASE ReconcileUnknown
    BY <1>2, <1>remember, <1>status, ContinueType DEF ReconcileUnknown, Steps
  <1>3. CASE Blocked \/ Covered \/ Hold \/ Submit
    <2>1. PICK step \in {"save", "decide", "query"} : Continue(step, cur)
      BY <1>3 DEF Blocked, Covered, Hold, Submit
    <2> QED
      BY <1>3, <2>1, <1>states, ContinueType
      DEF Blocked, Covered, Hold, Submit, Steps
  <1>4. CASE Refused \/ QueryUnknown \/ ReplyUnknown
    BY <1>4, <1>remember, <1>status, ContinueType
    DEF Refused, QueryUnknown, ReplyUnknown, Steps
  <1>5. CASE ReconcileFound \/ ReplyFound
    <2>1. PICK o \in {cur.order, cur.mark} :
             /\ o # 0
             /\ LET known == Remember(cur, o, Evidence(o), filled[o])
                IN \/ Continue("save", known)
                   \/ /\ Settleable(known, o, filled[o])
                      /\ Continue("trade", Settled(known, o, filled[o]))
                   \/ Continue("save", [known EXCEPT !.state = "reconciliation_required"])
             /\ UNCHANGED <<market, audit, saved, configure, crashes>>
      <3>1. CASE ReconcileFound
        <4> WITNESS cur.order \in {cur.order, cur.mark}
        <4> QED
          BY <3>1 DEF ReconcileFound, Targets
      <3>2. CASE ReplyFound
        <4> WITNESS cur.mark \in {cur.order, cur.mark}
        <4> QED
          BY <3>2 DEF ReplyFound, Targets
      <3> QED
        BY <1>5, <3>1, <3>2
    <2>2. o \in Order /\ o \in 0..MaxOrders
      BY <2>1, <1>states, <1>fields DEF Order
    <2> DEFINE known == Remember(cur, o, Evidence(o), filled[o])
    <2>3. known \in Runtime
      BY <2>2, <1>states, <1>numbers, <1>status, RememberType DEF Evidence
    <2>4. [known EXCEPT !.state = "reconciliation_required"] \in Runtime
      BY <2>3, <1>status DEF Runtime
    <2>5. Settleable(known, o, filled[o]) => Settled(known, o, filled[o]) \in Runtime
      BY <2>2, <2>3, <1>numbers, SettledType
    <2> HIDE DEF known
    <2> QED
      BY <2>1, <2>3, <2>4, <2>5, ContinueType DEF known, Steps
  <1>6. CASE Synchronize
    <2>1. Managed \in Nat /\ account - Managed \in Nat
      BY <1>6, <1>states, <1>fields, <1>numbers DEF Synchronize, Managed
    <2>2. [cur EXCEPT !.position = Managed, !.unmanaged = account - Managed] \in Runtime
      BY <2>1, <1>states DEF Runtime
    <2> QED
      BY <1>6, <2>2, ContinueType DEF Synchronize, Steps
  <1>7. CASE ReleaseDust
    <2>1. cur.unmanaged + cur.position \in Nat
      BY <1>states, <1>fields
    <2>2. [cur EXCEPT !.position = 0, !.unmanaged = cur.unmanaged + cur.position] \in Runtime
      BY <2>1, <1>states DEF Runtime
    <2> QED
      BY <1>7, <2>2, ContinueType DEF ReleaseDust, Steps
  <1>8. CASE RecordIntent
    <2>1. intents' \in 0..MaxOrders /\ intents' \in Order
      BY <1>8, <1>numbers DEF RecordIntent, Order
    <2>2. Decision(cur) \in [side : {"buy", "sell"}, size : Nat]
      BY <1>states, <1>fields DEF Decision
    <2>3. ticket' \in [Order -> [side : {"buy", "sell"}, size : Nat]]
      BY <1>8, <2>2 DEF RecordIntent, TypeOK
    <2>4. [cur EXCEPT !.mark = intents'] \in Runtime
      BY <2>1, <1>states DEF Runtime
    <2> QED
      BY <1>8, <2>1, <2>3, <2>4 DEF RecordIntent, Continue, TypeOK, Steps, market, configure
  <1>9. CASE QueryAbsent \/ Create
    <2>1. cur.mark \in Order
      BY <1>9, <1>states, <1>fields DEF QueryAbsent, Create, Targets, Order
    <2> QED
      BY <1>9, <2>1 DEF QueryAbsent, Create, Continue, TypeOK, Steps, Status, market, audit, configure
  <1>10. CASE RecordTrade
    <2>1. [cur EXCEPT !.count = cur.count + 1] \in Runtime
      BY <1>states DEF Runtime
    <2>2. traded' \in [Order -> Nat]
      BY <1>10, <1>states DEF RecordTrade, TypeOK, Runtime
    <2> QED
      BY <1>10, <2>1, <2>2 DEF RecordTrade, Continue, TypeOK, Steps, market, configure
  <1>11. CASE Save \/ Abort
    BY <1>11, OverType DEF Save, Abort, TypeOK, market, audit, configure
  <1>12. CASE Crash
    <2>1. crashes' \in 0..MaxCrashes
      BY <1>12 DEF Crash, TypeOK
    <2> QED
      BY <1>12, <2>1, OverType DEF Crash, TypeOK, market, audit, configure
  <1>13. CASE ConfigureLoad
    BY <1>13, <1>states DEF ConfigureLoad, TypeOK, market, audit
  <1>14. CASE ConfigureSave
    <2>1. PICK state \in Runtime : Configured(state)
      <3>1. control.id \in Nat
        BY DEF TypeOK
      <3>2. CASE Pause
        BY <3>2, <1>states DEF Pause, Runtime
      <3>3. CASE Resume
        BY <3>1, <3>3, <1>states DEF Resume, Runtime
      <3>4. CASE EnterLive
        BY <3>1, <3>4, <1>states, ZenonT(30) DEF EnterLive, Reset, Runtime
      <3>5. CASE LeaveLive
        BY <3>5, <1>states, ZenonT(30) DEF LeaveLive, Reset, Runtime
      <3>6. CASE Adjust
        BY <3>6, <1>states DEF Adjust
      <3> QED
        BY <1>14, <3>2, <3>3, <3>4, <3>5, <3>6 DEF ConfigureSave
    <2>2. paused' \in Stops
      BY <1>14, StopType DEF ConfigureSave, Pause, Resume, EnterLive, LeaveLive, Adjust, Stops, TypeOK
    <2> QED
      BY <2>1, <2>2, FreshType DEF Configured, TypeOK, market, audit
  <1>15. CASE RestoreControl
    <2>1. control' \in [id : 0..MaxControls, status : Stops]
      BY <1>15 DEF RestoreControl, TypeOK, Stops
    <2> QED
      BY <1>15, <2>1 DEF RestoreControl, TypeOK, market, audit, configure
  <1>16. CASE TriggerControl
    <2>1. control' \in [id : 0..MaxControls, status : Stops]
      BY <1>16, StopType DEF TriggerControl, TypeOK
    <2> QED
      BY <1>16, <2>1 DEF TriggerControl, TypeOK, market, audit, configure
  <1>17. ASSUME NEW o \in Order, Arrive(o) \/ End(o) PROVE TypeOK'
    BY <1>17 DEF Arrive, End, TypeOK, Status, audit, configure
  <1>18. ASSUME NEW o \in Order, Fill(o) PROVE TypeOK'
    <2>1. PICK quantity \in 1..(ticket[o].size - filled[o]) :
             /\ filled' = [filled EXCEPT ![o] = filled[o] + quantity]
             /\ exch' = [exch EXCEPT ![o] = IF filled[o] + quantity = ticket[o].size
                                            THEN "filled" ELSE "open"]
             /\ account' = IF ticket[o].side = "buy"
                           THEN account + quantity ELSE account - quantity
      BY <1>18 DEF Fill
    <2>2. ticket[o].size \in Nat /\ filled[o] \in Nat
      BY DEF TypeOK
    <2>3. filled' \in [Order -> Nat] /\ account' \in Int
      BY <2>1, <2>2, <1>numbers
    <2>4. exch' \in [Order -> Status]
      BY <2>1 DEF TypeOK, Status
    <2> QED
      BY <1>18, <2>3, <2>4 DEF Fill, TypeOK, audit, configure
  <1>19. CASE UNCHANGED vars
    BY <1>19 DEF vars, TypeOK, market, audit, configure
  <1> QED
    BY <1>1, <1>2, <1>3, <1>4, <1>5, <1>6, <1>7, <1>8, <1>9, <1>10, <1>11, <1>12,
       <1>13, <1>14, <1>15, <1>16, <1>17, <1>18, <1>19
    DEF Next, Cycle, Reconcile, Evaluate, Route, Exchange

LEMMA TargetsInit == Init => Targets
  BY DEF Init, Targets, Named, Fresh, Unresolved

LEMMA TargetsNext == TypeOK /\ Targets /\ [Next]_vars => Targets'
  <1> SUFFICES ASSUME TypeOK, Targets, [Next]_vars PROVE Targets'
    OBVIOUS
  <1> USE DEF Targets
  <1>fresh. Named(Fresh)
    BY DEF Named, Fresh, Unresolved
  <1>states. cur \in Runtime /\ conf \in Runtime /\ saved \in Runtime
    BY DEF TypeOK
  <1>load. Named(Load)
    BY <1>states DEF Load, Named, Runtime
  <1>1. CASE Begin
    BY <1>1, <1>load DEF Begin, Continue, configure, Named
  <1>2. CASE ReconcileUnknown \/ ReconcileFound
    BY <1>2, <1>states DEF ReconcileUnknown, ReconcileFound, Continue, configure,
       Named, Remember, Settled, Runtime
  <1>3. CASE Refused \/ QueryUnknown \/ ReplyUnknown \/ ReplyFound
    BY <1>3, <1>states DEF Refused, QueryUnknown, ReplyUnknown, ReplyFound, Continue,
       configure, Named, Remember, Settled, Runtime
  <1>4. CASE Blocked \/ Synchronize \/ Covered \/ Hold \/ ReleaseDust \/ RecordTrade
    BY <1>4, <1>states DEF Blocked, Synchronize, Covered, Hold, ReleaseDust, RecordTrade,
       Continue, configure, Named, Runtime
  <1>5. CASE RecordIntent
    <2>1. intents' # 0
      BY <1>5 DEF RecordIntent, TypeOK
    <2> QED
      BY <1>5, <2>1, <1>states DEF RecordIntent, Continue, configure, Named, Runtime
  <1>6. CASE Submit \/ QueryAbsent \/ Create
    BY <1>6 DEF Submit, QueryAbsent, Create, Continue, configure
  <1>7. CASE Save \/ Abort \/ Crash
    BY <1>7, <1>fresh DEF Save, Abort, Crash, Over, configure
  <1>8. CASE ConfigureLoad
    BY <1>8, <1>load DEF ConfigureLoad
  <1>9. CASE ConfigureSave
    BY <1>9, <1>fresh, <1>states DEF ConfigureSave, Pause, Resume, EnterLive, LeaveLive,
       Adjust, Reset, Configured, Named, Runtime
  <1>10. CASE RestoreControl \/ TriggerControl \/ UNCHANGED vars
    BY <1>10 DEF RestoreControl, TriggerControl, vars, configure
  <1>11. ASSUME NEW o \in Order, Exchange(o) PROVE Targets'
    BY <1>11 DEF Exchange, Arrive, Fill, End, configure
  <1> QED
    BY <1>1, <1>2, <1>3, <1>4, <1>5, <1>6, <1>7, <1>8, <1>9, <1>10, <1>11
    DEF Next, Cycle, Reconcile, Evaluate, Route

(* Every variable keeps its type in every behaviour, with another instance   *)
(* or without, and for every number of orders, controls and crashes.         *)
THEOREM TypeCorrect == Spec => []TypeOK
  <1>1. Init => TypeOK /\ Targets
    BY TypeInit, TargetsInit
  <1>2. TypeOK /\ Targets /\ [Next]_vars => (TypeOK /\ Targets)'
    BY TypeNext, TargetsNext
  <1> QED
    BY <1>1, <1>2, PTL DEF Spec

-----------------------------------------------------------------------------
(* The inductive invariant behind LiveOrderIsPending, for one instance.      *)

\* The state event lags at most one intent behind, and only while it has no
\* unresolved order; an unresolved order is the one of the watermark.
Durable ==
    /\ saved.mark <= intents
    /\ saved.mark # intents => saved.live /\ saved.state \notin Unresolved
    /\ saved.state \in Unresolved => saved.live /\ saved.order = saved.mark

\* One lock: a configure call and a cycle do not overlap.
Serial == configuring => pc = "idle" /\ conf = Load

\* No order can execute.
Quiet == \A o \in Order : exch[o] \notin {"flying", "open"}

\* What each step of a cycle knows of the durable state and of the exchange.
Running ==
    /\ pc # "idle" => saved.live /\ cur.live /\ cur.mark = intents
    /\ pc \in {"reconcile", "trade"} => cur.order = intents
    /\ pc \in {"account", "decide"} =>
          /\ cur.state \notin Unresolved
          /\ saved.mark = intents /\ saved.state \notin Unresolved
    /\ pc \in {"submit", "query", "create", "reply"} => saved.mark # intents
    /\ pc \in {"submit", "query", "create"} => exch[intents] = "absent"
    /\ pc \in {"create", "reply"} => intents \in recorded
    /\ pc \in {"trade", "save"} =>
          IF cur.state \in Unresolved THEN cur.order = intents ELSE Quiet

Inv == TypeOK /\ Targets /\ Durable /\ Serial /\ Running
          /\ IntentFirst /\ LiveOrderIsPending

(* Loading always yields the latest intent, and what it yields as unresolved *)
(* is that intent.                                                           *)
LEMMA LoadLatest ==
    ASSUME TypeOK, Durable
    PROVE  /\ Load.mark = intents /\ Load.live = saved.live
           /\ Load.state \in Unresolved => Load.order = intents /\ saved.live
           /\ \A o \in Order : Pending(o) <=> o = intents /\ Load.state \in Unresolved
  <1>1. saved \in Runtime /\ intents \in Nat /\ saved.mark \in Nat
    BY OrderAssumption DEF TypeOK, Runtime
  <1>2. "submission_pending" \in Unresolved
    BY DEF Unresolved
  <1>3. CASE saved.mark = intents
    BY <1>1, <1>3 DEF Load, Pending, Durable
  <1>4. CASE saved.mark # intents
    <2>1. intents # 0 /\ saved.live
      BY <1>1, <1>4 DEF Durable
    <2>2. Load = [saved EXCEPT !.order = intents, !.state = "submission_pending",
                               !.fill = 0, !.mark = intents]
      BY <1>4, <2>1 DEF Load
    <2>3. /\ Load.mark = intents /\ Load.live = saved.live
          /\ Load.order = intents /\ Load.state = "submission_pending"
      BY <1>1, <2>2 DEF Runtime
    <2> QED
      BY <1>2, <2>1, <2>3 DEF Pending
  <1> QED
    BY <1>3, <1>4

(* Whether an order is pending depends on the durable state alone.           *)
LEMMA LoadStable ==
    ASSUME UNCHANGED <<saved, intents>>
    PROVE  /\ Load' = Load
           /\ \A o \in Order : Pending(o)' <=> Pending(o)
           /\ Durable => Durable'
  BY DEF Load, Pending, Durable

LEMMA InvInit == Init => Inv
  <1>1. Init => Durable /\ Serial /\ Running /\ IntentFirst /\ LiveOrderIsPending
    BY DEF Init, Durable, Serial, Running, IntentFirst, LiveOrderIsPending, Fresh, Unresolved
  <1> QED
    BY <1>1, TypeInit, TargetsInit DEF Inv

LEMMA InvNext == ~OtherInstance /\ Inv /\ [Next]_vars => Inv'
  <1> SUFFICES ASSUME ~OtherInstance, Inv, [Next]_vars PROVE Inv'
    OBVIOUS
  <1>type. TypeOK' /\ Targets'
    BY TypeNext, TargetsNext DEF Inv
  <1>now. TypeOK /\ Targets /\ Durable /\ Serial /\ Running /\ IntentFirst /\ LiveOrderIsPending
    BY DEF Inv
  <1>states. cur \in Runtime /\ saved \in Runtime /\ conf \in Runtime /\ intents \in Nat
    BY <1>now, OrderAssumption DEF TypeOK
  <1>latest. /\ Load.mark = intents /\ Load.live = saved.live
             /\ Load.state \in Unresolved => Load.order = intents /\ saved.live
             /\ \A o \in Order : Pending(o) <=> o = intents /\ Load.state \in Unresolved
    BY <1>now, LoadLatest
  <1>unresolved. "reconciliation_required" \in Unresolved /\ "ended" \notin Unresolved
                 /\ "filled" \notin Unresolved /\ "open" \in Unresolved
    BY DEF Unresolved
  <1>quiet. Load.state \notin Unresolved => Quiet
    BY <1>now, <1>latest DEF LiveOrderIsPending, Quiet
  \* Steps of the cycle that write nothing durable and do not reach the exchange.
  <1>local. ASSUME UNCHANGED <<exch, recorded, saved, intents, configuring>>,
                   pc # "idle", Running', TypeOK', Targets'
            PROVE  Inv'
    <2>1. Durable' /\ \A o \in Order : Pending(o)' <=> Pending(o)
      BY <1>local, <1>now, LoadStable
    <2>2. Serial'
      BY <1>local, <1>now DEF Serial
    <2>3. IntentFirst' /\ LiveOrderIsPending'
      BY <1>local, <1>now, <2>1 DEF IntentFirst, LiveOrderIsPending
    <2> QED
      BY <1>local, <2>1, <2>2, <2>3 DEF Inv
  <1>1. CASE Begin
    <2>1. ~configuring
      BY <1>1 DEF Begin, Free
    <2>2. /\ pc = "idle" /\ Load.live /\ cur' = Load
          /\ pc' = IF Load.state \in Unresolved THEN "reconcile" ELSE "account"
      BY <1>1 DEF Begin, Continue
    <2>3. UNCHANGED <<exch, recorded, saved, intents, configuring>>
      BY <1>1 DEF Begin, market, audit, configure
    <2>4. Load.state \notin Unresolved => saved.mark = intents /\ saved.state \notin Unresolved
      BY <1>now, <1>states DEF Load, Durable, Runtime, Unresolved
    <2>5. Running'
      BY <2>2, <2>3, <2>4, <1>now, <1>latest DEF Running
    <2>6. Durable' /\ \A o \in Order : Pending(o)' <=> Pending(o)
      BY <2>3, <1>now, LoadStable
    <2>7. Serial' /\ IntentFirst' /\ LiveOrderIsPending'
      BY <2>1, <2>3, <2>6, <1>now DEF Serial, IntentFirst, LiveOrderIsPending
    <2> QED
      BY <2>5, <2>6, <2>7, <1>type DEF Inv
  <1>2. CASE ReconcileUnknown
    <2>1. Running'
      BY <1>2, <1>now, <1>states, <1>unresolved
      DEF ReconcileUnknown, Continue, Remember, Running, Runtime, market, audit
    <2> QED
      BY <1>2, <2>1, <1>local, <1>type DEF ReconcileUnknown, market, audit, configure
  <1>3. CASE ReconcileFound \/ ReplyFound
    <2> DEFINE known(o) == Remember(cur, o, Evidence(o), filled[o])
    <2>1. PICK state \in {known(intents), Settled(known(intents), intents, filled[intents]),
                          [known(intents) EXCEPT !.state = "reconciliation_required"]} :
             /\ exch[intents] \in Visible
             /\ pc' \in {"trade", "save"} /\ cur' = state
             /\ UNCHANGED <<market, audit, saved, configure>>
      BY <1>3, <1>now DEF ReconcileFound, ReplyFound, Running, Continue
    <2>2. /\ state.live = cur.live /\ state.mark = cur.mark /\ state.order = intents
          /\ state.state \in {Evidence(intents), "reconciliation_required"}
      BY <2>1, <1>states DEF Remember, Settled, Runtime
    <2>3. saved.live /\ cur.live /\ cur.mark = intents /\ pc # "idle"
      BY <1>3, <1>now DEF ReconcileFound, ReplyFound, Running
    <2>4. state.state \notin Unresolved => Quiet
      BY <2>1, <2>2, <1>now, <1>unresolved DEF Evidence, Quiet, LiveOrderIsPending
    <2>5. Running'
      BY <2>1, <2>2, <2>3, <2>4, <1>now DEF Running, Quiet, market, audit
    <2> QED
      BY <2>1, <2>3, <2>5, <1>local, <1>type DEF market, audit, configure
  <1>4. CASE Blocked \/ Synchronize \/ Covered \/ Hold \/ ReleaseDust
    <2>1. pc \in {"account", "decide"} /\ Load = saved
      BY <1>4, <1>now DEF Blocked, Synchronize, Covered, Hold, ReleaseDust, Running, Load
    <2>2. Quiet
      BY <2>1, <1>now, <1>quiet DEF Running
    <2>3. /\ cur'.live = cur.live /\ cur'.mark = cur.mark /\ cur'.state = cur.state
          /\ pc' \in {"save", "decide"} /\ UNCHANGED <<market, audit, saved, configure>>
      BY <1>4, <1>states
      DEF Blocked, Synchronize, Covered, Hold, ReleaseDust, Continue, Runtime
    <2>4. Running'
      BY <2>1, <2>2, <2>3, <1>now DEF Running, Quiet, market, audit
    <2> QED
      BY <2>1, <2>3, <2>4, <1>local, <1>type DEF market, audit, configure
  <1>5. CASE RecordIntent
    <2>1. /\ pc = "decide" /\ intents' = intents + 1 /\ pc' = "submit"
          /\ cur'.mark = intents' /\ cur'.live = cur.live
          /\ UNCHANGED <<market, recorded, saved, configure>>
      BY <1>5, <1>states DEF RecordIntent, Continue, Runtime
    <2>2. saved.mark = intents /\ saved.live /\ cur.live /\ saved.state \notin Unresolved
      BY <2>1, <1>now DEF Running
    <2>3. Quiet
      BY <2>2, <1>quiet DEF Load
    <2>4. intents' \in Order
      BY <1>5, <2>1, <1>states, OrderAssumption DEF RecordIntent, Order
    <2>5. exch[intents'] = "absent"
      BY <2>1, <2>4, <1>now, <1>states DEF IntentFirst
    <2>6. Running'
      BY <2>1, <2>2, <2>5, <1>states DEF Running, market
    <2>7. Durable' /\ Serial'
      BY <2>1, <2>2, <1>now, <1>states DEF Durable, Serial, configure
    <2>8. IntentFirst' /\ LiveOrderIsPending'
      BY <2>1, <2>3, <1>now, <1>states DEF IntentFirst, LiveOrderIsPending, Quiet, market, Order
    <2> QED
      BY <2>6, <2>7, <2>8, <1>type DEF Inv
  <1>6. CASE Refused \/ QueryUnknown \/ ReplyUnknown
    <2>1. /\ pc \in {"submit", "query", "reply"} /\ pc' = "save"
          /\ cur'.mark = cur.mark /\ cur'.live = cur.live /\ cur'.order = cur.mark
          /\ UNCHANGED <<market, audit, saved, configure>>
          /\ cur'.state = "reconciliation_required" \/ pc # "reply"
      BY <1>6, <1>states DEF Refused, QueryUnknown, ReplyUnknown, Continue, Remember, Runtime
    <2>2. pc # "reply" => Quiet
      BY <2>1, <1>now, <1>latest DEF Running, LiveOrderIsPending, Quiet
    <2>3. Running'
      BY <2>1, <2>2, <1>now, <1>unresolved DEF Running, Quiet, market, audit
    <2> QED
      BY <2>1, <2>3, <1>local, <1>type DEF market, audit, configure
  <1>7. CASE Submit
    <2>1. Running'
      BY <1>7, <1>now DEF Submit, Continue, Running, market, audit
    <2> QED
      BY <1>7, <2>1, <1>local, <1>type DEF Submit, market, audit, configure
  <1>8. CASE QueryAbsent
    <2>1. Running'
      BY <1>8, <1>now DEF QueryAbsent, Continue, Running, market
    <2>2. Durable' /\ \A o \in Order : Pending(o)' <=> Pending(o)
      BY <1>8, <1>now, LoadStable DEF QueryAbsent
    <2>3. Serial' /\ IntentFirst' /\ LiveOrderIsPending'
      BY <1>8, <2>2, <1>now DEF QueryAbsent, Serial, IntentFirst, LiveOrderIsPending, market, configure
    <2> QED
      BY <2>1, <2>2, <2>3, <1>type DEF Inv
  <1>9. CASE Create
    <2>1. /\ pc = "create" /\ cur.mark = intents /\ saved.mark # intents /\ intents \in recorded
          /\ saved.live /\ intents \in Order
      BY <1>9, <1>now, <1>states DEF Create, Running, Targets, TypeOK, Order
    <2>2. Load.state \in Unresolved
      BY <2>1, <1>states DEF Load, Runtime, Unresolved, Order
    <2>3. Running'
      BY <1>9, <2>1, <1>now DEF Create, Continue, Running, audit
    <2>4. Durable' /\ \A o \in Order : Pending(o)' <=> Pending(o)
      BY <1>9, <1>now, LoadStable DEF Create, audit
    <2>5. Serial' /\ IntentFirst'
      BY <1>9, <2>1, <1>now, <1>states DEF Create, Serial, IntentFirst, TypeOK, audit, configure, Order
    <2>6. LiveOrderIsPending'
      BY <1>9, <2>1, <2>2, <2>4, <1>now, <1>latest DEF Create, LiveOrderIsPending, TypeOK, audit
    <2> QED
      BY <2>3, <2>4, <2>5, <2>6, <1>type DEF Inv
  <1>10. CASE RecordTrade
    <2>1. Running'
      BY <1>10, <1>now, <1>states DEF RecordTrade, Continue, Running, Runtime, Quiet, market
    <2> QED
      BY <1>10, <2>1, <1>local, <1>type DEF RecordTrade, market, configure
  <1>11. CASE Save
    <2>1. /\ pc = "save" /\ saved' = cur /\ pc' = "idle"
          /\ UNCHANGED <<market, audit, configure>>
      BY <1>11 DEF Save, Over
    <2>2. /\ cur.live /\ cur.mark = intents
          /\ IF cur.state \in Unresolved THEN cur.order = intents ELSE Quiet
      BY <2>1, <1>now DEF Running
    <2>3. Durable' /\ Running' /\ Serial'
      BY <2>1, <2>2, <1>now, <1>states DEF Durable, Running, Serial, audit, configure
    <2>4. \A o \in Order : Pending(o)' <=> o = intents /\ cur.state \in Unresolved
      BY <2>1, <2>2 DEF Pending, Load, audit
    <2>5. IntentFirst' /\ LiveOrderIsPending'
      BY <2>1, <2>2, <2>4, <1>now DEF IntentFirst, LiveOrderIsPending, Quiet, market, audit
    <2> QED
      BY <2>3, <2>5, <1>type DEF Inv
  <1>12. CASE Abort \/ Crash
    <2>1. pc # "idle" /\ pc' = "idle" /\ UNCHANGED <<market, audit, saved, configure>>
      BY <1>12 DEF Abort, Crash, Over
    <2>2. Running'
      BY <2>1 DEF Running
    <2> QED
      BY <2>1, <2>2, <1>local, <1>type DEF market, audit, configure
  <1>13. CASE ConfigureLoad
    <2>1. pc = "idle" /\ conf' = Load /\ UNCHANGED <<market, audit, saved, pc>>
      BY <1>13 DEF ConfigureLoad
    <2>2. Load' = Load /\ Durable' /\ \A o \in Order : Pending(o)' <=> Pending(o)
      BY <2>1, <1>now, LoadStable DEF audit
    <2>3. Running' /\ Serial' /\ IntentFirst' /\ LiveOrderIsPending'
      BY <2>1, <2>2, <1>now DEF Running, Serial, IntentFirst, LiveOrderIsPending, market, audit
    <2> QED
      BY <2>2, <2>3, <1>type DEF Inv
  <1>14. CASE ConfigureSave
    <2>1. /\ configuring /\ configuring' = FALSE
          /\ UNCHANGED <<market, audit, pc>>
      BY <1>14 DEF ConfigureSave, Pause, Resume, EnterLive, LeaveLive, Adjust, Configured
    <2>2. pc = "idle" /\ conf = Load
      BY <2>1, <1>now DEF Serial
    <2>3. /\ saved'.order = Load.order /\ saved'.state = Load.state /\ saved'.mark = Load.mark
          /\ saved'.live = Load.live \/ Load.state \notin Unresolved
      <3>1. CASE Pause \/ Resume \/ Adjust
        BY <3>1, <2>2, <1>states DEF Pause, Resume, Adjust, Configured, Runtime
      <3>2. CASE EnterLive
        <4>1. Load.state \notin Unresolved
          BY <3>2, <2>2, <1>latest DEF EnterLive
        <4> QED
          BY <3>2, <4>1, <2>2, <1>states DEF EnterLive, Reset, Configured, Runtime
      <3>3. CASE LeaveLive
        BY <3>3, <2>2, <1>states DEF LeaveLive, Reset, Configured, Runtime
      <3> QED
        BY <1>14, <3>1, <3>2, <3>3 DEF ConfigureSave
    <2>4. saved'.mark = intents /\ Load' = saved'
      BY <2>1, <2>3, <1>latest DEF Load, audit
    <2>5. \A o \in Order : Pending(o)' <=> Pending(o)
      BY <2>1, <2>3, <2>4, <1>latest DEF Pending, audit
    <2>6. Durable' /\ Running' /\ Serial'
      BY <2>1, <2>2, <2>3, <2>4, <1>latest, <1>states DEF Durable, Running, Serial, audit
    <2>7. IntentFirst' /\ LiveOrderIsPending'
      BY <2>1, <2>5, <1>now DEF IntentFirst, LiveOrderIsPending, market, audit
    <2> QED
      BY <2>6, <2>7, <1>type DEF Inv
  <1>15. CASE RestoreControl \/ TriggerControl \/ UNCHANGED vars
    <2>1. UNCHANGED <<market, audit, saved, pc, cur, configure>>
      BY <1>15 DEF RestoreControl, TriggerControl, vars
    <2>2. Load' = Load /\ Durable' /\ \A o \in Order : Pending(o)' <=> Pending(o)
      BY <2>1, <1>now, LoadStable DEF audit
    <2>3. Running' /\ Serial' /\ IntentFirst' /\ LiveOrderIsPending'
      BY <2>1, <2>2, <1>now
      DEF Running, Serial, IntentFirst, LiveOrderIsPending, Quiet, market, audit, configure
    <2> QED
      BY <2>2, <2>3, <1>type DEF Inv
  <1>16. ASSUME NEW o \in Order, Exchange(o) PROVE Inv'
    <2>1. /\ exch[o] \in {"flying", "open"}
          /\ \E status \in Status \ {"absent", "flying"} : exch' = [exch EXCEPT ![o] = status]
          /\ UNCHANGED <<audit, saved, pc, cur, configure>>
      BY <1>16 DEF Exchange, Arrive, Fill, End, Status
    <2>2. Load' = Load /\ Durable' /\ \A p \in Order : Pending(p)' <=> Pending(p)
      BY <2>1, <1>now, LoadStable DEF audit
    <2>3. \A p \in Order : /\ exch'[p] \in {"flying", "open"} => exch[p] \in {"flying", "open"}
                           /\ exch'[p] # "absent" => exch[p] # "absent"
      BY <2>1, <1>now DEF TypeOK
    <2>4. intents # o => exch'[intents] = exch[intents]
      BY <2>1
    <2>5. Running'
      BY <2>1, <2>3, <2>4, <1>now DEF Running, Quiet, audit
    <2>6. Serial' /\ IntentFirst' /\ LiveOrderIsPending'
      BY <2>1, <2>2, <2>3, <1>now DEF Serial, IntentFirst, LiveOrderIsPending, audit, configure
    <2> QED
      BY <2>2, <2>5, <2>6, <1>type DEF Inv
  <1> QED
    BY <1>1, <1>2, <1>3, <1>4, <1>5, <1>6, <1>7, <1>8, <1>9, <1>10, <1>11, <1>12,
       <1>13, <1>14, <1>15, <1>16
    DEF Next, Cycle, Reconcile, Evaluate, Route

(* Without a second instance, an order that may still execute is always the  *)
(* latest one and pending in the durable state, for every number of orders,  *)
(* crashes and controls, with partial fills or without.                      *)
THEOREM LiveOrdersPending == ~OtherInstance => (Spec => []LiveOrderIsPending)
  <1> SUFFICES ASSUME ~OtherInstance PROVE Spec => []LiveOrderIsPending
    OBVIOUS
  <1>1. Init => Inv
    BY InvInit
  <1>2. Inv /\ [Next]_vars => Inv'
    BY InvNext
  <1>3. Inv => LiveOrderIsPending
    BY DEF Inv
  <1> QED
    BY <1>1, <1>2, <1>3, PTL DEF Spec

(* Likewise, the exchange never hears of an order without a durable intent.  *)
THEOREM IntentsFirst == ~OtherInstance => (Spec => []IntentFirst)
  <1> SUFFICES ASSUME ~OtherInstance PROVE Spec => []IntentFirst
    OBVIOUS
  <1>1. Init => Inv
    BY InvInit
  <1>2. Inv /\ [Next]_vars => Inv'
    BY InvNext
  <1>3. Inv => IntentFirst
    BY DEF Inv
  <1> QED
    BY <1>1, <1>2, <1>3, PTL DEF Spec
-----------------------------------------------------------------------------
(* What is booked.                                                           *)

Finished(o) == exch[o] \in {"filled", "ended"}

\* An order that is about to be created does not exist, and a trade that is
\* about to be recorded is the whole fill of a finished order.
Bookable ==
    /\ pc = "create" => exch[cur.mark] = "absent"
    /\ pc = "trade" =>
          cur.order \in Order /\ Finished(cur.order) /\ cur.fill = filled[cur.order]

TradeInv == TypeOK /\ Targets /\ Bookable /\ TradesBacked

(* A step that leaves the exchange and the trades alone keeps TradeInv, when *)
(* it does not lead to one of the two steps Bookable is about.               *)
LEMMA Unbooked ==
    ASSUME TradeInv, TypeOK', Targets', UNCHANGED <<exch, filled, traded>>,
           pc' \notin {"create", "trade"}
    PROVE  TradeInv'
  BY DEF TradeInv, Bookable, TradesBacked

LEMMA TradeNext == TradeInv /\ [Next]_vars => TradeInv'
  <1> SUFFICES ASSUME TradeInv, [Next]_vars PROVE TradeInv'
    OBVIOUS
  <1>type. TypeOK' /\ Targets'
    BY TypeNext, TargetsNext DEF TradeInv
  <1>now. TypeOK /\ Targets /\ Bookable /\ TradesBacked
    BY DEF TradeInv
  <1>states. cur \in Runtime /\ MaxOrders \in Nat
    BY <1>now, OrderAssumption DEF TypeOK
  <1>1. CASE Begin \/ ReconcileUnknown \/ Evaluate
    BY <1>1, <1>type, Unbooked
    DEF Begin, ReconcileUnknown, Evaluate, Blocked, Synchronize, Covered, Hold,
        ReleaseDust, RecordIntent, Continue, market, audit
  <1>2. CASE Refused \/ Submit \/ QueryUnknown \/ ReplyUnknown
    BY <1>2, <1>type, Unbooked
    DEF Refused, Submit, QueryUnknown, ReplyUnknown, Continue, market, audit
  <1>3. CASE QueryAbsent
    <2>1. Bookable'
      BY <1>3 DEF QueryAbsent, Continue, Bookable, market
    <2>2. TradesBacked'
      BY <1>3, <1>now DEF QueryAbsent, TradesBacked, market
    <2> QED
      BY <2>1, <2>2, <1>type DEF TradeInv
  <1>4. CASE Create
    <2>1. cur.mark \in Order /\ exch[cur.mark] = "absent"
      BY <1>4, <1>now, <1>states DEF Create, Targets, Bookable, Runtime, Order
    <2>2. ~(traded[cur.mark] > 0)
      BY <2>1, <1>now DEF TradesBacked
    <2>3. TradesBacked'
      BY <1>4, <2>1, <2>2, <1>now DEF Create, TradesBacked, audit, TypeOK
    <2>4. Bookable'
      BY <1>4 DEF Create, Continue, Bookable
    <2> QED
      BY <2>3, <2>4, <1>type DEF TradeInv
  <1>5. CASE ReconcileFound \/ ReplyFound
    <2> DEFINE known(o) == Remember(cur, o, Evidence(o), filled[o])
    <2>1. PICK o \in {cur.order, cur.mark} :
             /\ o # 0
             /\ \/ Continue("save", known(o))
                \/ known(o).state \notin Unresolved
                      /\ Continue("trade", Settled(known(o), o, filled[o]))
                \/ Continue("save", [known(o) EXCEPT !.state = "reconciliation_required"])
             /\ UNCHANGED <<market, audit>>
      BY <1>5, <1>now DEF ReconcileFound, ReplyFound, Targets, Unresolved
    <2>2. o \in Order
      BY <2>1, <1>states DEF Runtime, Order
    <2>3. known(o).state = Evidence(o)
      BY <1>states DEF Remember, Runtime
    <2>4. Evidence(o) \notin Unresolved => Finished(o)
      BY DEF Evidence, Finished, Unresolved
    <2>5. Settled(known(o), o, filled[o]).order = o
          /\ Settled(known(o), o, filled[o]).fill = filled[o]
      BY <1>states DEF Remember, Settled, Runtime
    <2>6. Bookable'
      BY <2>1, <2>2, <2>3, <2>4, <2>5 DEF Bookable, Continue, Finished, market
    <2>7. TradesBacked'
      BY <2>1, <1>now DEF TradesBacked, market, audit
    <2> QED
      BY <2>6, <2>7, <1>type DEF TradeInv
  <1>6. CASE RecordTrade
    <2>1. /\ cur.order \in Order /\ Finished(cur.order) /\ cur.fill = filled[cur.order]
          /\ traded' = [traded EXCEPT ![cur.order] =
                           IF traded[cur.order] = 0 THEN cur.fill ELSE traded[cur.order]]
          /\ pc' = "save" /\ UNCHANGED market
      BY <1>6, <1>now DEF RecordTrade, Bookable, Continue
    <2>2. traded[cur.order] \in Nat
      BY <2>1, <1>now DEF TypeOK
    <2>3. TradesBacked'
      BY <2>1, <2>2, <1>now DEF TradesBacked, Finished, TypeOK, market
    <2>4. Bookable'
      BY <2>1 DEF Bookable
    <2> QED
      BY <2>3, <2>4, <1>type DEF TradeInv
  <1>7. CASE Save \/ Abort \/ Crash
    BY <1>7, <1>type, Unbooked DEF Save, Abort, Crash, Over, market, audit
  <1>8. CASE ConfigureLoad \/ ConfigureSave \/ RestoreControl \/ TriggerControl
             \/ UNCHANGED vars
    <2>1. UNCHANGED <<exch, filled, traded, pc, cur>>
      BY <1>8 DEF ConfigureLoad, ConfigureSave, Pause, Resume, EnterLive, LeaveLive,
         Adjust, Configured, RestoreControl, TriggerControl, vars, market, audit
    <2>2. Bookable' /\ TradesBacked'
      BY <2>1, <1>now DEF Bookable, TradesBacked, Finished
    <2> QED
      BY <2>2, <1>type DEF TradeInv
  <1>9. ASSUME NEW o \in Order, Exchange(o) PROVE TradeInv'
    <2>1. /\ exch[o] \in {"flying", "open"}
          /\ \E status \in Status \ {"absent", "flying"} : exch' = [exch EXCEPT ![o] = status]
          /\ \A p \in Order \ {o} : filled'[p] = filled[p]
          /\ UNCHANGED <<traded, pc, cur>>
      BY <1>9, <1>now DEF Exchange, Arrive, Fill, End, Status, TypeOK, audit
    <2>2. \A p \in Order \ {o} : exch'[p] = exch[p]
      BY <2>1, <1>now DEF TypeOK
    <2>3. ~(traded[o] > 0)
      BY <2>1, <1>now DEF TradesBacked
    <2>4. TradesBacked'
      BY <2>1, <2>2, <2>3, <1>now DEF TradesBacked
    <2>5. pc = "create" => cur.mark \in Order
      BY <1>now, <1>states DEF Targets, Runtime, Order
    <2>6. Bookable'
      BY <2>1, <2>2, <2>5, <1>now DEF Bookable, Finished
    <2> QED
      BY <2>4, <2>6, <1>type DEF TradeInv
  <1> QED
    BY <1>1, <1>2, <1>3, <1>4, <1>5, <1>6, <1>7, <1>8, <1>9
    DEF Next, Cycle, Reconcile, Route

(* A trade event is always the whole fill of an order the exchange has       *)
(* finished, with another instance or without, however often a settlement is *)
(* repeated.                                                                 *)
THEOREM TradesAreFills == Spec => []TradesBacked
  <1>1. Init => TradeInv
    <2>1. Init => Bookable /\ TradesBacked
      BY DEF Init, Bookable, TradesBacked
    <2> QED
      BY <2>1, TypeInit, TargetsInit DEF TradeInv
  <1>2. TradeInv => TradesBacked
    BY DEF TradeInv
  <1> QED
    BY <1>1, <1>2, TradeNext, PTL DEF Spec
-----------------------------------------------------------------------------
(* What is closed stays closed.                                              *)

\* While a cycle treats an order as unresolved, the durable state does too:
\* it never brings back what was closed.
Steady ==
    /\ pc = "reconcile" => Load.state \in Unresolved
    /\ pc \in {"trade", "save"} /\ cur.state \in Unresolved => Load.state \in Unresolved

SteadyInv == Inv /\ Steady

(* A step that leaves the durable state alone keeps what is pending, and it  *)
(* keeps Steady when the cycle is neither reconciling nor at its end, or was *)
(* about an unresolved order before.                                         *)
LEMMA SteadyKept ==
    ASSUME UNCHANGED <<saved, intents>>,
           pc' = "reconcile" => Load.state \in Unresolved,
           pc' \in {"trade", "save"} /\ cur'.state \in Unresolved
              => Load.state \in Unresolved
    PROVE  Steady' /\ \A o \in Order : Pending(o)' <=> Pending(o)
  BY LoadStable DEF Steady

\* Only the latest order is pending.
OnlyLatest == \A o \in Order : Pending(o) => o = intents

(* Every state of Inv has this, the state after a step too.                  *)
LEMMA PendingLatest == Inv => OnlyLatest
  BY LoadLatest DEF Inv, OnlyLatest

\* No order is reopened by this step.
Reopens == \E o \in Order : o <= intents /\ ~Pending(o) /\ Pending(o)'

LEMMA SteadyNext ==
    ~OtherInstance /\ SteadyInv /\ [Next]_vars => SteadyInv' /\ ~Reopens
  <1> SUFFICES ASSUME ~OtherInstance, SteadyInv, [Next]_vars PROVE SteadyInv' /\ ~Reopens
    OBVIOUS
  <1>inv. Inv'
    BY InvNext DEF SteadyInv
  <1>only. OnlyLatest'
    <2>1. Inv' => OnlyLatest'
      BY PendingLatest, PTL
    <2> QED
      BY <1>inv, <2>1
  <1>now. TypeOK /\ Targets /\ Durable /\ Serial /\ Running /\ Steady
    BY DEF SteadyInv, Inv
  <1>states. cur \in Runtime /\ saved \in Runtime /\ conf \in Runtime /\ intents \in Nat
    BY <1>now, OrderAssumption DEF TypeOK
  <1>latest. /\ Load.mark = intents /\ Load.live = saved.live
             /\ Load.state \in Unresolved => Load.order = intents /\ saved.live
             /\ \A o \in Order : Pending(o) <=> o = intents /\ Load.state \in Unresolved
    BY <1>now, LoadLatest
  \* An order the saved state does not know of is unresolved once it is loaded.
  <1>routed. saved.mark # intents => Load.state \in Unresolved
    BY <1>now, <1>states DEF Durable, Load, Runtime, Unresolved
  <1>local. ASSUME UNCHANGED <<saved, intents>>,
                   pc' = "reconcile" => Load.state \in Unresolved,
                   pc' \in {"trade", "save"} /\ cur'.state \in Unresolved
                      => Load.state \in Unresolved
            PROVE  SteadyInv' /\ ~Reopens
    BY <1>local, <1>inv, SteadyKept DEF SteadyInv, Reopens
  <1>1. CASE Begin
    BY <1>1, <1>local DEF Begin, Continue, audit
  <1>2. CASE ReconcileUnknown \/ ReconcileFound
    BY <1>2, <1>now, <1>local DEF ReconcileUnknown, ReconcileFound, Steady, Continue, audit
  <1>3. CASE Refused \/ QueryUnknown \/ ReplyUnknown \/ ReplyFound \/ Submit
                \/ QueryAbsent \/ Create
    BY <1>3, <1>now, <1>routed, <1>local
    DEF Refused, QueryUnknown, ReplyUnknown, ReplyFound, Submit, QueryAbsent, Create,
        Running, Continue, audit
  <1>4. CASE Blocked \/ Synchronize \/ Covered \/ Hold \/ ReleaseDust
    <2>1. cur.state \notin Unresolved /\ cur'.state = cur.state
          /\ pc' # "reconcile" /\ UNCHANGED <<saved, intents>>
      BY <1>4, <1>now, <1>states
      DEF Blocked, Synchronize, Covered, Hold, ReleaseDust, Running, Continue, Runtime, audit
    <2> QED
      BY <2>1, <1>local
  <1>5. CASE RecordIntent
    <2>1. intents' = intents + 1 /\ pc' = "submit"
      BY <1>5 DEF RecordIntent, Continue
    <2> QED
      BY <2>1, <1>only, <1>inv, <1>states DEF OnlyLatest, SteadyInv, Steady, Reopens, Order
  <1>6. CASE RecordTrade
    BY <1>6, <1>now, <1>states, <1>local DEF RecordTrade, Steady, Continue, Runtime
  <1>7. CASE Save
    <2>1. /\ pc = "save" /\ saved' = cur /\ pc' = "idle" /\ UNCHANGED <<intents, ticket>>
          /\ cur.mark = intents /\ cur.live
          /\ cur.state \in Unresolved => cur.order = intents
      BY <1>7, <1>now DEF Save, Over, Running, audit
    <2>2. \A o \in Order : Pending(o)' => o = intents /\ cur.state \in Unresolved
      BY <2>1 DEF Pending, Load
    <2> QED
      BY <2>1, <2>2, <1>inv, <1>now, <1>latest DEF SteadyInv, Steady, Reopens
  <1>8. CASE Abort \/ Crash
    BY <1>8, <1>local DEF Abort, Crash, Over, audit
  <1>9. CASE ConfigureLoad
    <2>1. pc = "idle" /\ UNCHANGED <<saved, intents, pc>>
      BY <1>9 DEF ConfigureLoad, audit
    <2> QED
      BY <2>1, <1>local
  <1>10. CASE ConfigureSave
    <2>1. configuring /\ UNCHANGED <<intents, pc>> /\ saved'.state = conf.state
          /\ saved'.mark = conf.mark
      BY <1>10, <1>states
      DEF ConfigureSave, Pause, Resume, EnterLive, LeaveLive, Adjust, Reset, Configured,
          Runtime, audit
    <2>2. pc = "idle" /\ conf = Load
      BY <2>1, <1>now DEF Serial
    <2>3. Load'.state = Load.state
      BY <2>1, <2>2, <1>latest DEF Load
    <2>4. \A o \in Order : Pending(o)' => o = intents /\ Load.state \in Unresolved
      BY <2>1, <2>3, <1>only DEF OnlyLatest, Pending
    <2> QED
      BY <2>1, <2>2, <2>4, <1>inv, <1>latest DEF SteadyInv, Steady, Reopens
  <1>11. CASE RestoreControl \/ TriggerControl \/ UNCHANGED vars
    <2>1. UNCHANGED <<saved, intents, pc, cur>>
      BY <1>11 DEF RestoreControl, TriggerControl, vars, audit
    <2> QED
      BY <2>1, <1>now, <1>local DEF Steady
  <1>12. ASSUME NEW o \in Order, Exchange(o) PROVE SteadyInv' /\ ~Reopens
    <2>1. UNCHANGED <<saved, intents, pc, cur>>
      BY <1>12 DEF Exchange, Arrive, Fill, End, audit
    <2> QED
      BY <2>1, <1>now, <1>local DEF Steady
  <1> QED
    BY <1>1, <1>2, <1>3, <1>4, <1>5, <1>6, <1>7, <1>8, <1>9, <1>10, <1>11, <1>12
    DEF Next, Cycle, Reconcile, Evaluate, Route

(* Without a second instance, an order the durable state has as finished is  *)
(* never reopened by a recovery, a late reply or a configure call.           *)
THEOREM ClosedOrdersStayClosed == ~OtherInstance => (Spec => ClosedStaysClosed)
  <1> SUFFICES ASSUME ~OtherInstance PROVE Spec => ClosedStaysClosed
    OBVIOUS
  <1>1. Init => SteadyInv
    <2>1. Init => Steady
      BY DEF Init, Steady
    <2> QED
      BY <2>1, InvInit DEF SteadyInv
  <1>2. SteadyInv /\ [Next]_vars => SteadyInv'
    BY SteadyNext
  <1>3. SteadyInv /\ [Next]_vars =>
          [\A o \in Order : o <= intents /\ ~Pending(o) => ~Pending(o)']_vars
    BY SteadyNext DEF Reopens
  <1> QED
    BY <1>1, <1>2, <1>3, PTL DEF Spec, ClosedStaysClosed
-----------------------------------------------------------------------------
(* A stop stops.                                                             *)

\* A cycle works with the session of the durable state, and it is past the
\* check of the session only if there was one and no stop before the cycle.
Authorized ==
    /\ control.status = "running" => control.id > 0
    /\ paused # "stopping" /\ (paused = "stopped" => saved.session = 0)
    /\ pc # "idle" => cur.session = saved.session
    /\ pc \in {"query", "create"} => control.status # "stopped" /\ cur.session # 0

StopInv == Inv /\ Authorized

\* The step of StoppedSendsNothing.
Obeys ==
    \A o \in Order :
        exch[o] = "absent" /\ exch'[o] # "absent"
            => control.status # "stopped" /\ paused # "stopped"

LEMMA StopNext ==
    ~OtherInstance /\ StopInv /\ [Next]_vars => StopInv' /\ Obeys
  <1> SUFFICES ASSUME ~OtherInstance, StopInv, [Next]_vars PROVE StopInv' /\ Obeys
    OBVIOUS
  <1>inv. Inv'
    BY InvNext DEF StopInv
  <1>now. TypeOK /\ Serial /\ Authorized
    BY DEF StopInv, Inv
  <1>states. cur \in Runtime /\ saved \in Runtime /\ conf \in Runtime
    BY <1>now DEF TypeOK
  <1>control. control \in [id : 0..MaxControls, status : Stops]
    BY <1>now DEF TypeOK
  <1>load. Load.session = saved.session
    BY <1>states DEF Load, Runtime
  \* Steps of a cycle that do not create an order nor pass the check.
  <1>local. ASSUME UNCHANGED <<exch, control, paused, saved>>,
                   pc # "idle", cur'.session = cur.session,
                   pc' \notin {"query", "create"} \/ pc \in {"query", "create"}
            PROVE  StopInv' /\ Obeys
    BY <1>local, <1>inv, <1>now DEF StopInv, Authorized, Obeys
  <1>1. CASE Begin
    <2>1. /\ cur' = Load /\ pc' \in {"reconcile", "account"}
          /\ UNCHANGED <<exch, control, paused, saved>>
      BY <1>1 DEF Begin, Continue, market
    <2> QED
      BY <2>1, <1>load, <1>inv, <1>now DEF StopInv, Authorized, Obeys
  <1>2. CASE ReconcileUnknown \/ ReconcileFound
    <2>1. /\ pc = "reconcile" /\ pc' \in {"save", "trade"} /\ cur'.session = cur.session
          /\ UNCHANGED <<exch, control, paused, saved>>
      BY <1>2, <1>states DEF ReconcileUnknown, ReconcileFound, Continue, Remember, Settled,
         Runtime, market
    <2> QED
      BY <2>1, <1>local
  <1>3. CASE Evaluate
    <2>1. /\ pc \in {"account", "decide"} /\ pc' \in {"save", "decide", "submit"}
          /\ cur'.session = cur.session /\ UNCHANGED <<exch, control, paused, saved>>
      BY <1>3, <1>states DEF Evaluate, Blocked, Synchronize, Covered, Hold, ReleaseDust,
         RecordIntent, Continue, Runtime, market
    <2> QED
      BY <2>1, <1>local
  <1>4. CASE Refused \/ QueryUnknown \/ ReplyUnknown \/ ReplyFound
    <2>1. /\ pc \in {"submit", "query", "reply"} /\ pc' \in {"save", "trade"}
          /\ cur'.session = cur.session /\ UNCHANGED <<exch, control, paused, saved>>
      BY <1>4, <1>states DEF Refused, QueryUnknown, ReplyUnknown, ReplyFound, Continue,
         Remember, Settled, Runtime, market
    <2> QED
      BY <2>1, <1>local
  <1>5. CASE Submit
    <2>1. /\ pc # "idle" /\ pc' = "query" /\ cur' = cur
          /\ control.status = "running" /\ cur.session = control.id
          /\ UNCHANGED <<exch, control, paused, saved>>
      BY <1>5 DEF Submit, SessionActive, Continue, market
    <2> QED
      BY <2>1, <1>inv, <1>now, <1>control DEF StopInv, Authorized, Obeys
  <1>6. CASE QueryAbsent
    BY <1>6, <1>local DEF QueryAbsent, Continue, market
  <1>7. CASE Create
    <2>1. /\ pc = "create" /\ pc' = "reply" /\ cur' = cur
          /\ UNCHANGED <<control, paused, saved>>
      BY <1>7 DEF Create, Continue
    <2>2. control.status # "stopped" /\ paused # "stopped"
      BY <2>1, <1>now DEF Authorized
    <2> QED
      BY <2>1, <2>2, <1>inv, <1>now DEF StopInv, Authorized, Obeys
  <1>8. CASE RecordTrade
    <2>1. cur'.session = cur.session
      BY <1>8, <1>states DEF RecordTrade, Continue, Runtime
    <2> QED
      BY <1>8, <2>1, <1>local DEF RecordTrade, Continue, market
  <1>9. CASE Save \/ Abort \/ Crash
    <2>1. /\ pc # "idle" /\ pc' = "idle" /\ exch' = exch
          /\ saved' \in {saved, cur}
          /\ control' \in {control, [control EXCEPT !.status = "stopped"]}
          /\ paused' = IF paused = "stopping" THEN "stopped" ELSE paused
      BY <1>9 DEF Save, Abort, Crash, Over, market
    <2>2. saved'.session = saved.session
      BY <2>1, <1>now DEF Authorized
    <2>3. control'.status = "running" => control'.id > 0
      BY <2>1, <1>now, <1>control DEF Authorized
    <2>4. paused # "stopping"
      BY <1>now DEF Authorized
    <2> QED
      BY <2>1, <2>2, <2>3, <2>4, <1>inv, <1>now DEF StopInv, Authorized, Obeys
  <1>10. CASE ConfigureLoad \/ UNCHANGED vars
    <2>1. UNCHANGED <<exch, control, paused, saved, pc, cur>>
      BY <1>10 DEF ConfigureLoad, vars, market
    <2> QED
      BY <2>1, <1>inv, <1>now DEF StopInv, Authorized, Obeys
  <1>11. CASE ConfigureSave
    <2>1. configuring /\ UNCHANGED <<exch, control, pc, cur>>
      BY <1>11 DEF ConfigureSave, Pause, Resume, EnterLive, LeaveLive, Adjust, Configured, market
    <2>2. pc = "idle" /\ conf = Load
      BY <2>1, <1>now DEF Serial
    <2>3. paused' # "stopping" /\ (paused' = "stopped" => saved'.session = 0)
      BY <1>11, <2>2, <1>load, <1>states, <1>now
      DEF Stop, ConfigureSave, Pause, Resume, EnterLive, LeaveLive, Adjust, Configured, Reset,
          Runtime, Authorized
    <2> QED
      BY <2>1, <2>2, <2>3, <1>inv, <1>now DEF StopInv, Authorized, Obeys
  <1>12. CASE RestoreControl \/ TriggerControl
    <2>1. /\ UNCHANGED <<exch, paused, saved, pc, cur>>
          /\ control'.status = "running" => control'.id > 0
          /\ pc # "idle" => control'.status # "stopped"
      BY <1>12, <1>control, BoundAssumption
      DEF RestoreControl, TriggerControl, Stop, market
    <2> QED
      BY <2>1, <1>inv, <1>now DEF StopInv, Authorized, Obeys
  <1>13. ASSUME NEW o \in Order, Exchange(o) PROVE StopInv' /\ Obeys
    <2>1. /\ exch[o] # "absent" /\ \E status \in Status : exch' = [exch EXCEPT ![o] = status]
          /\ UNCHANGED <<control, paused, saved, pc, cur>>
      BY <1>13 DEF Exchange, Arrive, Fill, End, Status
    <2> QED
      BY <2>1, <1>inv, <1>now DEF StopInv, Authorized, Obeys, TypeOK
  <1> QED
    BY <1>1, <1>2, <1>3, <1>4, <1>5, <1>6, <1>7, <1>8, <1>9, <1>10, <1>11, <1>12, <1>13
    DEF Next, Cycle, Reconcile, Route

(* Without a second instance, nothing is sent after a pause or the emergency *)
(* stop, except by the cycle that was past its check.                        *)
THEOREM StopsStop == ~OtherInstance => (Spec => StoppedSendsNothing)
  <1> SUFFICES ASSUME ~OtherInstance PROVE Spec => StoppedSendsNothing
    OBVIOUS
  <1>1. Init => StopInv
    <2>1. Init => Authorized
      BY DEF Init, Authorized, Fresh
    <2> QED
      BY <2>1, InvInit DEF StopInv
  <1>2. StopInv /\ [Next]_vars => StopInv'
    BY StopNext
  <1>3. StopInv /\ [Next]_vars => [Obeys]_vars
    BY StopNext
  <1>4. [][Obeys]_vars => StoppedSendsNothing
    BY PTL DEF Obeys, StoppedSendsNothing
  <1> QED
    BY <1>1, <1>2, <1>3, <1>4, PTL DEF Spec
==============================================================================
