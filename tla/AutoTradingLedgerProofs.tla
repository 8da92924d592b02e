----------------------- MODULE AutoTradingLedgerProofs -----------------------
(***************************************************************************)
(* The ledger of AutoTrading: what a fill does to the trades, to the       *)
(* trade counter and to the position, and the refinement of                *)
(* OrderSettlement, for every number of orders, lot, control and crash.    *)
(***************************************************************************)
EXTENDS AutoTradingProofs, FiniteSetTheorems

-----------------------------------------------------------------------------
(* Where a cycle stands, and what is unsettled then.                         *)

\* The durable state has the latest order as unresolved.
Unsettled == Load.state \in Unresolved

\* A filled order has filled something, and a trade is recorded only while
\* its order is unsettled.
Filling ==
    /\ \A o \in Order : exch[o] = "filled" => filled[o] > 0
    /\ pc = "trade" => cur.fill > 0 /\ cur.state \notin Unresolved /\ Unsettled

\* What the step of a cycle tells of the durable state.
Places ==
    /\ pc \in {"account", "decide"} => ~Unsettled /\ Load = saved
    /\ pc \in {"reconcile", "submit", "query", "create", "reply", "trade"} => Unsettled
    /\ \A o \in Order : Pending(o) <=> o = intents /\ Unsettled
    /\ Unsettled => intents \in Order /\ saved.live

Base == SteadyInv /\ TradeInv /\ Filling

LEMMA PlacesHold == SteadyInv /\ Filling => Places
  <1> SUFFICES ASSUME SteadyInv, Filling PROVE Places
    OBVIOUS
  <1>now. TypeOK /\ Targets /\ Durable /\ Running /\ Steady
    BY DEF SteadyInv, Inv
  <1>states. saved \in Runtime /\ intents \in 0..MaxOrders /\ MaxOrders \in Nat
    BY <1>now, OrderAssumption DEF TypeOK
  <1>latest. /\ Load.state \in Unresolved => Load.order = intents /\ saved.live
             /\ \A o \in Order : Pending(o) <=> o = intents /\ Load.state \in Unresolved
    BY <1>now, LoadLatest
  <1>1. pc \in {"account", "decide"} => ~Unsettled /\ Load = saved
    BY <1>now DEF Running, Load, Unsettled
  <1>2. pc \in {"submit", "query", "create", "reply"} => Unsettled
    <2> SUFFICES ASSUME saved.mark # intents PROVE Unsettled
      BY <1>now DEF Running
    <2>1. saved.live /\ intents # 0
      BY <1>now, <1>states DEF Durable, Runtime
    <2> QED
      BY <2>1, <1>states DEF Unsettled, Load, Runtime, Unresolved
  <1>3. pc \in {"reconcile", "trade"} => Unsettled
    BY <1>now DEF Steady, Filling, Unsettled
  <1>4. Unsettled => intents \in Order
    <2>1. Unsettled => intents # 0
      BY <1>now, <1>states, <1>latest DEF Unsettled, Load, Targets, Named, Runtime
    <2> QED
      BY <2>1, <1>states DEF Order
  <1> QED
    BY <1>1, <1>2, <1>3, <1>4, <1>latest DEF Places, Unsettled

(* What is unsettled depends on the durable state alone.                     *)
LEMMA UnsettledStable ==
    ASSUME UNCHANGED <<saved, intents>> PROVE Unsettled' <=> Unsettled
  BY LoadStable DEF Unsettled

(* A configure call writes back the position and the counter it has loaded,  *)
(* or the zeros of a reset, and settles nothing.                             *)
LEMMA ConfigureKeeps ==
    ASSUME SteadyInv, ConfigureSave
    PROVE  /\ pc = "idle" /\ UNCHANGED <<market, audit, pc, cur>>
           /\ Unsettled' <=> Unsettled
           /\ \/ /\ saved'.position = saved.position /\ saved'.unmanaged = saved.unmanaged
                 /\ saved'.count = saved.count /\ saved'.live = saved.live
              \/ /\ saved'.position = 0 /\ saved'.unmanaged = 0 /\ saved'.count = 0
                 /\ ~saved.live \/ saved.position = 0
                 /\ ~Unsettled
  <1>now. TypeOK /\ Durable /\ Serial
    BY DEF SteadyInv, Inv
  <1>states. saved \in Runtime /\ conf \in Runtime /\ intents \in Nat
    BY <1>now, OrderAssumption DEF TypeOK
  <1>latest. /\ Load.mark = intents /\ Load.live = saved.live
             /\ Load.state \in Unresolved => saved.live
    BY <1>now, LoadLatest
  <1>load. /\ Load.position = saved.position /\ Load.unmanaged = saved.unmanaged
           /\ Load.count = saved.count
    BY <1>states DEF Load, Runtime
  <1>1. /\ configuring /\ UNCHANGED <<market, audit, pc, cur>>
        /\ saved'.state = conf.state /\ saved'.mark = conf.mark
    BY <1>states
    DEF ConfigureSave, Pause, Resume, EnterLive, LeaveLive, Adjust, Reset, Configured, Runtime
  <1>2. pc = "idle" /\ conf = Load
    BY <1>1, <1>now DEF Serial
  <1>3. Unsettled' <=> Unsettled
    <2>1. Load' = saved'
      BY <1>1, <1>2, <1>latest DEF Load, audit
    <2> QED
      BY <2>1, <1>1, <1>2 DEF Unsettled
  <1>4. CASE Pause \/ Resume \/ Adjust
    BY <1>4, <1>1, <1>2, <1>3, <1>load, <1>latest, <1>states
    DEF Pause, Resume, Adjust, Configured, Runtime
  <1>5. CASE EnterLive \/ LeaveLive
    <2>1. ~Unsettled /\ (~saved.live \/ saved.position = 0)
      BY <1>5, <1>2, <1>load, <1>latest DEF EnterLive, LeaveLive, Unsettled
    <2>2. saved'.position = 0 /\ saved'.unmanaged = 0 /\ saved'.count = 0
      BY <1>5, <1>states DEF EnterLive, LeaveLive, Reset, Configured, Runtime
    <2> QED
      BY <2>1, <2>2, <1>1, <1>2, <1>3
  <1> QED
    BY <1>4, <1>5 DEF ConfigureSave

(* The end of a cycle settles its order exactly when the state it saves has  *)
(* none unresolved.                                                          *)
LEMMA SaveSettles ==
    ASSUME SteadyInv, Save
    PROVE  /\ Unsettled' <=> cur.state \in Unresolved
           /\ cur.state \in Unresolved => Unsettled
           /\ saved' = cur /\ pc = "save" /\ pc' = "idle" /\ cur' = Fresh
           /\ cur.live /\ UNCHANGED <<market, audit>>
  <1>1. /\ saved' = cur /\ pc = "save" /\ pc' = "idle" /\ cur' = Fresh
        /\ UNCHANGED <<market, audit>>
    BY DEF Save, Over
  <1>2. cur.live /\ cur.mark = intents
    BY <1>1 DEF SteadyInv, Inv, Running
  <1>3. Load' = cur
    BY <1>1, <1>2 DEF Load, audit
  <1> QED
    BY <1>1, <1>2, <1>3 DEF Unsettled, SteadyInv, Steady

(* A decision is taken only when nothing is unsettled, and its order is the  *)
(* new latest one, which the exchange does not know.                         *)
LEMMA IntentOpens ==
    ASSUME SteadyInv, Filling, RecordIntent
    PROVE  /\ ~Unsettled /\ Unsettled'
           /\ intents' = intents + 1 /\ intents' \in Order /\ exch[intents'] = "absent"
           /\ ticket' = [ticket EXCEPT ![intents'] = Decision(cur)]
           /\ pc = "decide" /\ pc' = "submit" /\ saved.live
           /\ cur' = [cur EXCEPT !.mark = intents']
           /\ UNCHANGED <<market, recorded, traded, saved>>
  <1>now. TypeOK /\ Running /\ IntentFirst /\ Durable
    BY DEF SteadyInv, Inv
  <1>1. /\ intents' = intents + 1 /\ pc = "decide" /\ pc' = "submit"
        /\ cur' = [cur EXCEPT !.mark = intents'] /\ intents < MaxOrders
        /\ ticket' = [ticket EXCEPT ![intents'] = Decision(cur)]
        /\ UNCHANGED <<market, recorded, traded, saved>>
    BY DEF RecordIntent, Continue
  <1>2. saved \in Runtime /\ intents \in Nat /\ MaxOrders \in Nat
    BY <1>now, OrderAssumption DEF TypeOK
  <1>3. saved.live /\ saved.mark = intents
    BY <1>1, <1>now DEF Running
  <1>4. intents' \in Order /\ exch[intents'] = "absent"
    BY <1>1, <1>2, <1>now DEF Order, IntentFirst
  <1>5. Unsettled'
    BY <1>1, <1>2, <1>3 DEF Unsettled, Load, Unresolved, Runtime
  <1> QED
    BY <1>1, <1>3, <1>4, <1>5, PlacesHold DEF Places

(* An order under way is the latest one, and it is unsettled.                *)
LEMMA FillsUnsettled ==
    ASSUME SteadyInv, Filling, NEW o \in Order, exch[o] \in {"flying", "open"}
    PROVE  o = intents /\ Unsettled
  BY PlacesHold DEF SteadyInv, Inv, LiveOrderIsPending, Places

LEMMA BaseInit == Init => Base
  <1> SUFFICES ASSUME Init PROVE Base
    OBVIOUS
  <1>1. SteadyInv
    BY InvInit DEF Init, Steady, SteadyInv
  <1>2. Bookable /\ TradesBacked /\ Filling
    BY DEF Init, Bookable, TradesBacked, Filling
  <1> QED
    BY <1>1, <1>2, TypeInit, TargetsInit DEF Base, TradeInv

LEMMA BaseNext == ~OtherInstance /\ Base /\ [Next]_vars => Base'
  <1> SUFFICES ASSUME ~OtherInstance, Base, [Next]_vars PROVE Filling'
    BY SteadyNext, TradeNext DEF Base
  <1>now. TypeOK /\ Filling /\ Places /\ Bookable /\ Running
    BY PlacesHold DEF Base, TradeInv, SteadyInv, Inv
  <1>states. cur \in Runtime /\ filled \in [Order -> Nat] /\ exch \in [Order -> Status]
    BY <1>now DEF TypeOK
  \* Steps that leave the exchange alone and do not lead to a trade.
  <1>quiet. ASSUME UNCHANGED <<exch, filled>>, pc' # "trade" PROVE Filling'
    BY <1>quiet, <1>now DEF Filling
  <1>1. CASE Begin \/ ReconcileUnknown \/ Evaluate
    BY <1>1, <1>quiet DEF Begin, ReconcileUnknown, Evaluate, Blocked, Synchronize, Covered,
       Hold, ReleaseDust, RecordIntent, Continue, market
  <1>2. CASE Refused \/ Submit \/ QueryUnknown \/ QueryAbsent \/ ReplyUnknown
                \/ RecordTrade \/ Save \/ Abort \/ Crash
    BY <1>2, <1>quiet DEF Refused, Submit, QueryUnknown, QueryAbsent, ReplyUnknown,
       RecordTrade, Save, Abort, Crash, Over, Continue, market
  <1>3. CASE Create
    BY <1>3, <1>now DEF Create, Continue, Filling, TypeOK
  <1>4. CASE ReconcileFound \/ ReplyFound
    <2> DEFINE known == Remember(cur, intents, Evidence(intents), filled[intents])
    <2>1. /\ pc \in {"reconcile", "reply"} /\ UNCHANGED <<market, audit, saved>>
          /\ \/ pc' = "save"
             \/ /\ pc' = "trade" /\ cur' = Settled(known, intents, filled[intents])
                /\ known.state \notin Unresolved
                /\ filled[intents] # 0 \/ known.state = "filled"
      BY <1>4, <1>now DEF ReconcileFound, ReplyFound, Running, Continue, Unresolved
    <2>2. CASE pc' = "save"
      BY <2>1, <2>2, <1>quiet DEF market
    <2>3. CASE pc' = "trade"
      <3>1. known.state = Evidence(intents) /\ intents \in Order /\ Unsettled
        BY <2>1, <1>now, <1>states DEF Places, Remember, Runtime
      <3>2. filled[intents] > 0
        BY <2>1, <2>3, <3>1, <1>now, <1>states DEF Evidence, Filling
      <3>3. cur'.fill = filled[intents] /\ cur'.state = known.state
        BY <2>1, <2>3, <1>states DEF Settled, Remember, Runtime
      <3>4. Unsettled'
        BY <2>1, <3>1, UnsettledStable DEF audit
      <3> QED
        BY <2>1, <2>3, <3>2, <3>3, <3>4, <1>now DEF Filling, market
    <2> QED
      BY <2>1, <2>2, <2>3
  <1>5. CASE ConfigureLoad \/ ConfigureSave
    <2>1. pc' = "idle" /\ UNCHANGED <<exch, filled>>
      BY <1>5, ConfigureKeeps DEF Base, ConfigureLoad, SteadyInv, Inv, Serial, market
    <2> QED
      BY <2>1, <1>quiet
  <1>6. CASE RestoreControl \/ TriggerControl \/ UNCHANGED vars
    BY <1>6, <1>now, UnsettledStable
    DEF RestoreControl, TriggerControl, vars, market, audit, Filling
  <1>7. ASSUME NEW o \in Order, Exchange(o) PROVE Filling'
    <2>1. UNCHANGED <<saved, intents, pc, cur>>
      BY <1>7 DEF Exchange, Arrive, Fill, End, audit
    <2>2. CASE Arrive(o) \/ End(o)
      BY <2>1, <2>2, <1>now, UnsettledStable DEF Arrive, End, Filling, TypeOK
    <2>3. CASE Fill(o)
      <3>1. PICK quantity \in 1..(ticket[o].size - filled[o]) :
               /\ filled' = [filled EXCEPT ![o] = filled[o] + quantity]
               /\ \E status \in {"filled", "open"} : exch' = [exch EXCEPT ![o] = status]
        BY <2>3 DEF Fill
      <3>2. quantity > 0 /\ filled[o] + quantity > 0
        BY <3>1, <1>states, <1>now DEF TypeOK
      <3> QED
        BY <2>1, <3>1, <3>2, <1>now, <1>states, UnsettledStable DEF Filling
    <2> QED
      BY <1>7, <2>2, <2>3 DEF Exchange
  <1> QED
    BY <1>1, <1>2, <1>3, <1>4, <1>5, <1>6, <1>7 DEF Next, Cycle, Reconcile, Route

-----------------------------------------------------------------------------
(* Every trade is counted once.                                              *)

Trades == {o \in Order : traded[o] > 0}

\* The trades the ledger must have counted: those of orders that are closed.
ClosedTrades == {o \in Trades : ~(o = intents /\ Unsettled)}

\* The counter is at most the closed trades; a cycle carries the counter it
\* has loaded until it has recorded a trade.
Counted ==
    /\ saved.count <= Cardinality(ClosedTrades)
    /\ pc # "idle" =>
          \/ cur.count = saved.count
          \/ /\ pc = "save" /\ cur.state \notin Unresolved
             /\ cur.count <= Cardinality(Trades)

CountInv == Base /\ Counted

LEMMA TradesFinite ==
    /\ IsFiniteSet(Trades) /\ Cardinality(Trades) \in Nat
    /\ IsFiniteSet(ClosedTrades) /\ Cardinality(ClosedTrades) \in Nat
    /\ Cardinality(ClosedTrades) <= Cardinality(Trades)
  <1>1. IsFiniteSet(Order)
    BY OrderAssumption, FS_Interval DEF Order
  <1>2. IsFiniteSet(Trades)
    BY <1>1, FS_Subset DEF Trades
  <1> QED
    BY <1>2, FS_Subset, FS_CardinalityType DEF ClosedTrades

(* A step that leaves the trades, the durable state and the counter in hand  *)
(* alone keeps Counted.                                                      *)
LEMMA CountKept ==
    ASSUME Counted, Unsettled' <=> Unsettled, UNCHANGED <<traded, intents>>,
           saved'.count = saved.count,
           pc' # "idle" => cur'.count = saved.count
    PROVE  Counted'
  <1>1. Trades' = Trades /\ ClosedTrades' = ClosedTrades
    BY DEF Trades, ClosedTrades
  <1> QED
    BY <1>1 DEF Counted

LEMMA CountNext == ~OtherInstance /\ CountInv /\ [Next]_vars => CountInv'
  <1> SUFFICES ASSUME ~OtherInstance, CountInv, [Next]_vars PROVE Counted'
    BY BaseNext DEF CountInv
  <1>now. TypeOK /\ Filling /\ Places /\ Bookable /\ Running /\ Counted /\ SteadyInv /\ TradesBacked
    BY PlacesHold DEF CountInv, Base, TradeInv, SteadyInv, Inv
  <1>states. cur \in Runtime /\ saved \in Runtime /\ traded \in [Order -> Nat]
    BY <1>now DEF TypeOK
  <1>finite. /\ Cardinality(Trades) \in Nat /\ Cardinality(ClosedTrades) \in Nat
             /\ Cardinality(ClosedTrades) <= Cardinality(Trades)
    BY TradesFinite
  <1>counts. cur.count \in Nat /\ saved.count \in Nat
    BY <1>states DEF Runtime
  \* Steps of a cycle that is not at its end.
  <1>local. ASSUME UNCHANGED <<audit, saved>>, pc \notin {"idle", "save"},
                   cur'.count = cur.count
            PROVE  Counted'
    <2>1. Unsettled' <=> Unsettled
      BY <1>local, UnsettledStable DEF audit
    <2>2. cur'.count = saved.count
      BY <1>local, <1>now DEF Counted
    <2> QED
      BY <1>local, <2>1, <2>2, <1>now, CountKept DEF audit
  <1>1. CASE Begin
    <2>1. cur' = Load /\ UNCHANGED <<audit, saved>>
      BY <1>1 DEF Begin, Continue
    <2>2. Load.count = saved.count
      BY <1>states DEF Load, Runtime
    <2> QED
      BY <2>1, <2>2, <1>now, CountKept, UnsettledStable DEF audit
  <1>2. CASE ReconcileUnknown \/ ReconcileFound \/ ReplyFound
    <2>1. /\ UNCHANGED <<audit, saved>> /\ pc \in {"reconcile", "reply"}
          /\ cur'.count = cur.count
      BY <1>2, <1>states
      DEF ReconcileUnknown, ReconcileFound, ReplyFound, Continue, Remember, Settled, Runtime
    <2> QED
      BY <2>1, <1>local
  <1>3. CASE Blocked \/ Synchronize \/ Covered \/ Hold \/ ReleaseDust
    <2>1. /\ UNCHANGED <<audit, saved>> /\ pc \in {"account", "decide"}
          /\ cur'.count = cur.count
      BY <1>3, <1>states DEF Blocked, Synchronize, Covered, Hold, ReleaseDust, Continue, Runtime
    <2> QED
      BY <2>1, <1>local
  <1>4. CASE RecordIntent
    <2>1. ~Unsettled /\ Unsettled' /\ intents' \in Order /\ exch[intents'] = "absent"
          /\ cur'.count = cur.count /\ pc = "decide" /\ UNCHANGED <<traded, saved>>
      BY <1>4, <1>now, <1>states, IntentOpens DEF Runtime
    <2>2. traded[intents'] = 0
      BY <2>1, <1>now, <1>states DEF TradesBacked
    <2>3. Trades' = Trades /\ ClosedTrades' = Trades /\ ClosedTrades = Trades
      BY <2>1, <2>2 DEF Trades, ClosedTrades
    <2> QED
      BY <2>1, <2>3, <1>now DEF Counted
  <1>5. CASE Refused \/ Submit \/ QueryUnknown \/ QueryAbsent \/ Create \/ ReplyUnknown
    <2>1. /\ UNCHANGED <<intents, traded, saved>> /\ pc \in {"submit", "query", "create", "reply"}
          /\ cur'.count = cur.count
      BY <1>5, <1>states DEF Refused, Submit, QueryUnknown, QueryAbsent, Create, ReplyUnknown,
         Continue, Remember, Runtime, audit
    <2>2. (Unsettled' <=> Unsettled) /\ cur'.count = saved.count
      BY <2>1, <1>now, UnsettledStable DEF Counted
    <2> QED
      BY <2>1, <2>2, <1>now, CountKept
  <1>6. CASE RecordTrade
    <2>1. /\ pc = "trade" /\ pc' = "save" /\ UNCHANGED <<intents, saved>>
          /\ cur'.count = cur.count + 1 /\ cur'.state = cur.state
          /\ traded' = [traded EXCEPT ![cur.order] =
                           IF traded[cur.order] = 0 THEN cur.fill ELSE traded[cur.order]]
      BY <1>6, <1>states DEF RecordTrade, Continue, Runtime
    <2>2. /\ cur.order = intents /\ intents \in Order /\ cur.fill > 0 /\ Unsettled
          /\ cur.state \notin Unresolved
      BY <2>1, <1>now DEF Running, Bookable, Filling
    <2>3. cur.count = saved.count
      BY <2>1, <1>now DEF Counted
    <2>4. Unsettled'
      BY <2>1, <2>2, UnsettledStable
    <2>5. intents \in Trades' /\ intents \notin ClosedTrades /\ ClosedTrades' = ClosedTrades
          /\ ClosedTrades \subseteq Trades'
      BY <2>1, <2>2, <2>4, <1>states DEF Trades, ClosedTrades
    <2>6. Cardinality(ClosedTrades) + 1 <= Cardinality(Trades')
      <3>1. IsFiniteSet(ClosedTrades) /\ IsFiniteSet(Trades')
        <4>1. IsFiniteSet(Trades)'
          BY TradesFinite, PTL
        <4> QED
          BY <4>1, TradesFinite
      <3>2. Cardinality(ClosedTrades \cup {intents}) = Cardinality(ClosedTrades) + 1
        BY <2>5, <3>1, FS_AddElement
      <3> QED
        BY <2>5, <3>1, <3>2, FS_Subset
    <2>7. (Cardinality(Trades) \in Nat)'
      BY TradesFinite, PTL
    <2>8. cur'.count <= Cardinality(Trades')
      BY <2>1, <2>3, <2>6, <2>7, <1>finite, <1>counts, <1>now DEF Counted
    <2> QED
      BY <2>1, <2>2, <2>5, <2>8, <1>now DEF Counted
  <1>7. CASE Save
    <2>1. /\ Unsettled' <=> cur.state \in Unresolved
          /\ cur.state \in Unresolved => Unsettled
          /\ saved' = cur /\ pc = "save" /\ pc' = "idle" /\ UNCHANGED <<intents, traded>>
      BY <1>7, <1>now, SaveSettles DEF audit
    <2>2. CASE cur.state \in Unresolved
      <3>1. cur.count = saved.count /\ (Unsettled' <=> Unsettled)
        BY <2>1, <2>2, <1>now DEF Counted
      <3> QED
        BY <2>1, <3>1, <1>now, CountKept
    <2>3. CASE cur.state \notin Unresolved
      <3>1. Trades' = Trades /\ ClosedTrades' = Trades
        BY <2>1, <2>3 DEF Trades, ClosedTrades
      <3>2. cur.count <= Cardinality(Trades)
        BY <2>1, <1>now, <1>finite, <1>counts DEF Counted
      <3> QED
        BY <2>1, <3>1, <3>2 DEF Counted
    <2> QED
      BY <2>2, <2>3
  <1>8. CASE Abort \/ Crash
    <2>1. UNCHANGED <<audit, saved>> /\ pc' = "idle"
      BY <1>8 DEF Abort, Crash, Over
    <2> QED
      BY <2>1, <1>now, CountKept, UnsettledStable DEF audit
  <1>9. CASE ConfigureSave
    <2>1. /\ pc = "idle" /\ UNCHANGED <<intents, traded, pc, cur>>
          /\ Unsettled' <=> Unsettled
          /\ saved'.count = saved.count \/ saved'.count = 0
      BY <1>9, <1>now, ConfigureKeeps DEF audit
    <2>2. Trades' = Trades /\ ClosedTrades' = ClosedTrades
      BY <2>1 DEF Trades, ClosedTrades
    <2> QED
      BY <2>1, <2>2, <1>now, <1>finite DEF Counted
  <1>10. CASE ConfigureLoad \/ RestoreControl \/ TriggerControl \/ UNCHANGED vars
    <2>1. UNCHANGED <<audit, saved, pc, cur>>
      BY <1>10 DEF ConfigureLoad, RestoreControl, TriggerControl, vars
    <2>2. Trades' = Trades /\ ClosedTrades' = ClosedTrades
      BY <2>1, UnsettledStable DEF Trades, ClosedTrades, audit
    <2> QED
      BY <2>1, <2>2, <1>now DEF Counted
  <1>11. ASSUME NEW o \in Order, Exchange(o) PROVE Counted'
    <2>1. UNCHANGED <<audit, saved, pc, cur>>
      BY <1>11 DEF Exchange, Arrive, Fill, End
    <2>2. Trades' = Trades /\ ClosedTrades' = ClosedTrades
      BY <2>1, UnsettledStable DEF Trades, ClosedTrades, audit
    <2> QED
      BY <2>1, <2>2, <1>now DEF Counted
  <1> QED
    BY <1>1, <1>2, <1>3, <1>4, <1>5, <1>6, <1>7, <1>8, <1>9, <1>10, <1>11
    DEF Next, Cycle, Reconcile, Evaluate, Route

(* Without a second instance the trade counter never exceeds the number of   *)
(* trade events, however often a settlement is repeated after a crash, with  *)
(* partial fills or without.                                                 *)
THEOREM TradesCountedOnce == ~OtherInstance => (Spec => []CountedOnce)
  <1> SUFFICES ASSUME ~OtherInstance PROVE Spec => []CountedOnce
    OBVIOUS
  <1>1. Init => CountInv
    <2>1. Init => Counted
      <3>1. Init => saved.count = 0 /\ pc = "idle"
        BY DEF Init, Fresh
      <3> QED
        BY <3>1, TradesFinite DEF Counted
    <2> QED
      BY <2>1, BaseInit DEF CountInv
  <1>2. CountInv => CountedOnce
    <2> SUFFICES ASSUME CountInv PROVE CountedOnce
      OBVIOUS
    <2>1. saved.count \in Nat /\ saved.count <= Cardinality(ClosedTrades)
      BY DEF CountInv, Counted, Base, TradeInv, TypeOK, Runtime
    <2> QED
      BY <2>1, TradesFinite DEF CountedOnce, Trades
  <1> QED
    BY <1>1, <1>2, CountNext, PTL DEF Spec

-----------------------------------------------------------------------------
(* Without partial fills, no fill is lost.                                   *)

\* An order has filled exactly when the exchange has finished it as filled.
WholeFills ==
    \A o \in Order : filled[o] = IF exch[o] = "filled" THEN ticket[o].size ELSE 0

\* Every fill is a trade, or is of the order that is unsettled; a cycle that
\* ends with nothing unresolved leaves none behind.
Booked ==
    /\ \A o \in Order : filled[o] > 0 => traded[o] > 0 \/ (o = intents /\ Unsettled)
    /\ pc = "save" /\ cur.state \notin Unresolved =>
          \A o \in Order : filled[o] > 0 => traded[o] > 0

BookInv == Base /\ WholeFills /\ Booked

(* A step that leaves the exchange, the trades and the durable state alone   *)
(* keeps what is booked, when the cycle does not end with it.                *)
LEMMA BookKept ==
    ASSUME WholeFills, Booked, Unsettled' <=> Unsettled,
           UNCHANGED <<exch, filled, ticket, traded, intents>>,
           pc' = "save" /\ cur'.state \notin Unresolved =>
              \A o \in Order : filled[o] > 0 => traded[o] > 0
    PROVE  WholeFills' /\ Booked'
  BY DEF WholeFills, Booked

LEMMA BookNext ==
    ~OtherInstance /\ ~PartialFills /\ BookInv /\ [Next]_vars => BookInv'
  <1> SUFFICES ASSUME ~OtherInstance, ~PartialFills, BookInv, [Next]_vars
               PROVE  WholeFills' /\ Booked'
    BY BaseNext DEF BookInv
  <1>now. /\ TypeOK /\ Filling /\ Places /\ Bookable /\ Running /\ SteadyInv
          /\ WholeFills /\ Booked
    BY PlacesHold DEF BookInv, Base, TradeInv, SteadyInv, Inv
  <1>states. /\ cur \in Runtime /\ saved \in Runtime /\ intents \in Nat
             /\ traded \in [Order -> Nat] /\ filled \in [Order -> Nat]
             /\ exch \in [Order -> Status]
    BY <1>now, OrderAssumption DEF TypeOK
  <1>booked. ~Unsettled => \A o \in Order : filled[o] > 0 => traded[o] > 0
    BY <1>now DEF Booked
  \* Steps that write nothing durable and leave the exchange alone.
  <1>local. ASSUME UNCHANGED <<market, audit, saved>>,
                   \/ pc' # "save" \/ cur'.state \in Unresolved \/ ~Unsettled
                   \/ ~(filled[intents] > 0)
            PROVE  WholeFills' /\ Booked'
    <2>1. Unsettled' <=> Unsettled
      BY <1>local, UnsettledStable DEF audit
    <2>2. ~(filled[intents] > 0) => \A o \in Order : filled[o] > 0 => traded[o] > 0
      BY <1>now DEF Booked
    <2> QED
      BY <1>local, <2>1, <2>2, <1>booked, <1>now, BookKept DEF market, audit
  <1>1. CASE Begin \/ Submit \/ ConfigureLoad \/ RestoreControl \/ TriggerControl
                \/ Abort \/ Crash
    <2>1. UNCHANGED <<market, audit, saved>> /\ (pc' # "save" \/ UNCHANGED <<pc, cur>>)
      BY <1>1 DEF Begin, Submit, ConfigureLoad, RestoreControl, TriggerControl, Abort,
         Crash, Over, Continue
    <2>2. CASE pc' # "save"
      BY <2>1, <2>2, <1>local
    <2>3. CASE UNCHANGED <<pc, cur>>
      BY <2>1, <2>3, <1>now, BookKept, UnsettledStable DEF Booked, market, audit
    <2> QED
      BY <2>1, <2>2, <2>3
  <1>2. CASE ReconcileUnknown \/ QueryUnknown \/ ReplyUnknown
    BY <1>2, <1>local, <1>states
    DEF ReconcileUnknown, QueryUnknown, ReplyUnknown, Continue, Remember, Runtime, Unresolved
  <1>3. CASE ReconcileFound \/ ReplyFound
    <2> DEFINE known == Remember(cur, intents, Evidence(intents), filled[intents])
    <2>1. /\ pc \in {"reconcile", "reply"} /\ UNCHANGED <<market, audit, saved>>
          /\ \/ pc' = "trade"
             \/ cur' = [known EXCEPT !.state = "reconciliation_required"]
             \/ /\ cur' = known
                /\ known.state \in Unresolved \/ filled[intents] = 0 \/ known.state # "filled"
      BY <1>3, <1>now DEF ReconcileFound, ReplyFound, Running, Continue
    <2>2. known.state = Evidence(intents) /\ intents \in Order
      BY <2>1, <1>now, <1>states DEF Places, Remember, Runtime
    <2>3. CASE pc' = "trade"
      BY <2>1, <2>3, <1>local
    <2>4. CASE cur' = [known EXCEPT !.state = "reconciliation_required"]
      <3>1. cur'.state = "reconciliation_required"
        BY <2>4, <1>states DEF Remember, Runtime
      <3> QED
        BY <2>1, <3>1, <1>local DEF Unresolved
    <2>5. CASE /\ cur' = known
               /\ known.state \in Unresolved \/ filled[intents] = 0 \/ known.state # "filled"
      <3>1. cur'.state \in Unresolved \/ ~(filled[intents] > 0)
        BY <2>2, <2>5, <1>now DEF WholeFills, Evidence, Unresolved
      <3> QED
        BY <2>1, <3>1, <1>local
    <2> QED
      BY <2>1, <2>3, <2>4, <2>5
  <1>4. CASE Blocked \/ Synchronize \/ Covered \/ Hold \/ ReleaseDust
    <2>1. UNCHANGED <<market, audit, saved>> /\ pc \in {"account", "decide"}
      BY <1>4 DEF Blocked, Synchronize, Covered, Hold, ReleaseDust, Continue
    <2> QED
      BY <2>1, <1>now, <1>local DEF Places
  <1>5. CASE RecordIntent
    <2>1. /\ ~Unsettled /\ intents' = intents + 1 /\ intents' \in Order
          /\ exch[intents'] = "absent" /\ pc' = "submit"
          /\ \A o \in Order \ {intents'} : ticket'[o] = ticket[o]
          /\ UNCHANGED <<market, traded>>
      BY <1>5, <1>now, IntentOpens DEF TypeOK
    <2>2. WholeFills'
      BY <2>1, <1>now DEF WholeFills, market
    <2>3. Booked'
      BY <2>1, <1>booked DEF Booked, market
    <2> QED
      BY <2>2, <2>3
  <1>6. CASE Refused
    <2>1. pc \in {"submit", "query"} /\ UNCHANGED <<market, audit, saved>>
      BY <1>6 DEF Refused
    <2>2. intents \in Order /\ exch[intents] = "absent"
      BY <2>1, <1>now DEF Running, SteadyInv, Inv, Places, Targets
    <2>3. ~(filled[intents] > 0)
      BY <2>2, <1>now DEF WholeFills
    <2> QED
      BY <2>1, <2>3, <1>local
  <1>7. CASE QueryAbsent \/ Create
    <2>1. /\ UNCHANGED <<filled, ticket, traded, saved, intents>> /\ pc' # "save"
          /\ \/ exch' = exch
             \/ pc = "create" /\ exch' = [exch EXCEPT ![cur.mark] = "flying"]
      BY <1>7 DEF QueryAbsent, Create, Continue, market, audit
    <2>2. pc = "create" => cur.mark = intents /\ intents \in Order /\ exch[intents] = "absent"
      BY <1>now DEF Running, Places
    <2>3. WholeFills'
      BY <2>1, <2>2, <1>now, <1>states DEF WholeFills
    <2>4. Booked'
      BY <2>1, <1>now, UnsettledStable DEF Booked
    <2> QED
      BY <2>3, <2>4
  <1>8. CASE RecordTrade
    <2>1. /\ pc = "trade" /\ UNCHANGED <<market, ticket, intents, saved>>
          /\ traded' = [traded EXCEPT ![cur.order] =
                           IF traded[cur.order] = 0 THEN cur.fill ELSE traded[cur.order]]
      BY <1>8 DEF RecordTrade
    <2>2. cur.order = intents /\ intents \in Order /\ cur.fill > 0
      BY <2>1, <1>now DEF Running, Bookable, Filling
    <2>3. traded'[intents] > 0 /\ \A o \in Order \ {intents} : traded'[o] = traded[o]
      BY <2>1, <2>2, <1>states
    <2>4. Booked'
      BY <2>1, <2>3, <1>now DEF Booked, market
    <2> QED
      BY <2>1, <2>4, <1>now DEF WholeFills, market
  <1>9. CASE Save
    <2>1. /\ Unsettled' <=> cur.state \in Unresolved
          /\ cur.state \in Unresolved => Unsettled
          /\ pc = "save" /\ pc' = "idle"
          /\ UNCHANGED <<market, audit>>
      BY <1>9, <1>now, SaveSettles
    <2> QED
      BY <2>1, <1>now DEF Booked, WholeFills, market, audit
  <1>10. CASE ConfigureSave
    <2>1. pc' # "save" /\ UNCHANGED <<market, audit>> /\ (Unsettled' <=> Unsettled)
      BY <1>10, <1>now, ConfigureKeeps
    <2> QED
      BY <2>1, <1>now, BookKept DEF market, audit
  <1>11. CASE UNCHANGED vars
    BY <1>11, <1>now, BookKept, UnsettledStable DEF vars, Booked, market, audit
  <1>12. ASSUME NEW o \in Order, Exchange(o) PROVE WholeFills' /\ Booked'
    <2>1. /\ o = intents /\ Unsettled /\ UNCHANGED <<audit, saved, pc, cur>>
          /\ exch[o] \in {"flying", "open"}
      BY <1>12, <1>now, FillsUnsettled DEF Exchange, Arrive, Fill, End
    <2>2. (Unsettled' <=> Unsettled) /\ \A p \in Order \ {o} : filled'[p] = filled[p]
      BY <2>1, <1>12, <1>states, UnsettledStable DEF Exchange, Arrive, Fill, End, audit
    <2>3. WholeFills'
      <3>1. CASE Arrive(o) \/ End(o)
        BY <3>1, <2>1, <1>now, <1>states DEF Arrive, End, WholeFills, audit
      <3>2. CASE Fill(o)
        <4>1. filled[o] = 0 /\ ticket[o].size \in Nat
          BY <2>1, <1>now DEF WholeFills, TypeOK
        <4>2. filled' = [filled EXCEPT ![o] = ticket[o].size]
              /\ exch' = [exch EXCEPT ![o] = "filled"]
          BY <3>2, <4>1 DEF Fill
        <4> QED
          BY <4>2, <2>1, <1>now, <1>states DEF WholeFills, audit
      <3> QED
        BY <1>12, <3>1, <3>2 DEF Exchange
    \* No cycle is about to end: it would have found nothing open.
    <2>4. pc = "save" => cur.state \in Unresolved
      BY <2>1, <1>now DEF Running, Quiet
    <2>5. Booked'
      BY <2>1, <2>2, <2>4, <1>now DEF Booked, audit
    <2> QED
      BY <2>3, <2>5
  <1> QED
    BY <1>1, <1>2, <1>3, <1>4, <1>5, <1>6, <1>7, <1>8, <1>9, <1>10, <1>11, <1>12
    DEF Next, Cycle, Reconcile, Evaluate, Route

LEMMA BookInit == Init => BookInv
  <1>1. Init => WholeFills /\ Booked
    BY DEF Init, WholeFills, Booked
  <1> QED
    BY <1>1, BaseInit DEF BookInv

(* When orders fill whole and one instance runs, what the exchange filled of *)
(* a finished order is a trade or will be reconciled.  (With partial fills   *)
(* the run auto_trading_fill shows the opposite.)                            *)
THEOREM FillsKept == ~OtherInstance /\ ~PartialFills => (Spec => []FillKept)
  <1> SUFFICES ASSUME ~OtherInstance, ~PartialFills PROVE Spec => []FillKept
    OBVIOUS
  <1>1. BookInv => FillKept
    BY PlacesHold DEF BookInv, Base, Booked, FillKept, Places
  <1> QED
    BY <1>1, BookInit, BookNext, PTL DEF Spec

-----------------------------------------------------------------------------
(* Without partial fills, the ledger is the account.                         *)

\* What an order has moved of the account.
Moved(o) == IF ticket[o].side = "buy" THEN filled[o] ELSE 0 - filled[o]

\* The position is the account without what the unsettled order has moved, and
\* that order is the one the position calls for.
Ledger ==
    /\ saved.unmanaged = 0 /\ saved.position \in {0, Lot}
    /\ ~saved.live => saved.position = 0
    /\ Unsettled => ticket[intents] = Decision(saved)
    /\ account = saved.position + (IF Unsettled THEN Moved(intents) ELSE 0)

\* The position a cycle has in hand: the one it has loaded, until it settles.
Carried ==
    /\ pc # "idle" => cur.unmanaged = 0
    /\ pc \in {"reconcile", "account", "decide", "submit", "query", "create", "reply"}
          => cur.position = saved.position
    /\ pc = "trade" => cur.position = account
    /\ pc = "save" =>
          cur.position = IF cur.state \in Unresolved THEN saved.position ELSE account

LedgerInv == BookInv /\ Ledger /\ Carried

(* A step that moves nothing and leaves the durable position alone keeps the *)
(* ledger.                                                                   *)
LEMMA LedgerKept ==
    ASSUME Ledger, Unsettled' <=> Unsettled,
           UNCHANGED <<filled, account, ticket, intents, saved>>
    PROVE  Ledger'
  BY DEF Ledger, Moved, Decision

(* Settling the fill of the unsettled order gives the account, and a sale    *)
(* never exceeds the position.                                               *)
LEMMA Holdings ==
    ASSUME LedgerInv
    PROVE  /\ account \in {0, Lot}
           /\ ~Unsettled => account = saved.position
           /\ Unsettled => filled[intents] \in Nat /\ saved.position \in Nat
           /\ Unsettled /\ filled[intents] = 0 => account = saved.position
           /\ Unsettled =>
                 account = IF ticket[intents].side = "buy"
                           THEN saved.position + filled[intents]
                           ELSE saved.position - filled[intents]
  <1>now. TypeOK /\ Places /\ WholeFills /\ Ledger
    BY PlacesHold DEF LedgerInv, BookInv, Base, TradeInv
  <1>lot. Lot \in Nat /\ Lot # 0
    BY OrderAssumption
  <1>1. CASE ~Unsettled
    BY <1>1, <1>now, <1>lot DEF Ledger
  <1>2. CASE Unsettled
    <2>1. /\ intents \in Order /\ ticket[intents] = Decision(saved)
          /\ filled[intents] \in {0, ticket[intents].size}
          /\ saved.position \in {0, Lot} /\ account = saved.position + Moved(intents)
      BY <1>2, <1>now DEF Places, WholeFills, Ledger
    <2>2. CASE saved.position = 0
      BY <1>2, <2>1, <2>2, <1>lot DEF Decision, Moved
    <2>3. CASE saved.position = Lot
      BY <1>2, <2>1, <2>3, <1>lot DEF Decision, Moved
    <2> QED
      BY <2>1, <2>2, <2>3
  <1> QED
    BY <1>1, <1>2

LEMMA LedgerInit == Init => LedgerInv
  <1> SUFFICES ASSUME Init PROVE Ledger /\ Carried
    BY BookInit DEF LedgerInv
  <1>1. Load = Fresh
    BY DEF Init, Load, Fresh
  <1> QED
    BY <1>1 DEF Init, Ledger, Carried, Unsettled, Fresh, Unresolved

LEMMA LedgerNext ==
    ~OtherInstance /\ ~PartialFills /\ LedgerInv /\ [Next]_vars => LedgerInv'
  <1> SUFFICES ASSUME ~OtherInstance, ~PartialFills, LedgerInv, [Next]_vars
               PROVE  Ledger' /\ Carried'
    BY BookNext DEF LedgerInv
  <1>now. /\ TypeOK /\ Filling /\ Places /\ Bookable /\ Running /\ SteadyInv
          /\ WholeFills /\ Ledger /\ Carried
    BY PlacesHold DEF LedgerInv, BookInv, Base, TradeInv, SteadyInv, Inv
  <1>states. /\ cur \in Runtime /\ saved \in Runtime /\ intents \in Nat
             /\ filled \in [Order -> Nat] /\ exch \in [Order -> Status]
             /\ account \in Int /\ Lot \in Nat
    BY <1>now, OrderAssumption DEF TypeOK
  <1>hold. /\ account \in {0, Lot}
           /\ ~Unsettled => account = saved.position
           /\ Unsettled /\ filled[intents] = 0 => account = saved.position
           /\ Unsettled =>
                 account = IF ticket[intents].side = "buy"
                           THEN saved.position + filled[intents]
                           ELSE saved.position - filled[intents]
    BY Holdings
  \* Steps that write nothing durable and move nothing.
  <1>local. ASSUME UNCHANGED <<filled, account, ticket, intents, saved>>, Carried'
            PROVE  Ledger' /\ Carried'
    BY <1>local, <1>now, LedgerKept, UnsettledStable
  <1>1. CASE Begin
    <2>1. /\ cur' = Load /\ pc' \in {"reconcile", "account"}
          /\ UNCHANGED <<market, audit, saved>>
      BY <1>1 DEF Begin, Continue
    <2>2. Load.position = saved.position /\ Load.unmanaged = saved.unmanaged
      BY <1>states DEF Load, Runtime
    <2>3. Carried'
      BY <2>1, <2>2, <1>now DEF Carried, Ledger
    <2> QED
      BY <2>1, <2>3, <1>local DEF market, audit
  <1>2. CASE ReconcileUnknown \/ QueryUnknown \/ ReplyUnknown
    <2>1. /\ pc \in {"reconcile", "query", "reply"} /\ pc' = "save"
          /\ cur'.position = cur.position /\ cur'.unmanaged = cur.unmanaged
          /\ cur'.state = "reconciliation_required"
          /\ UNCHANGED <<market, audit, saved>>
      BY <1>2, <1>states
      DEF ReconcileUnknown, QueryUnknown, ReplyUnknown, Continue, Remember, Runtime
    <2>2. Carried'
      BY <2>1, <1>now DEF Carried, Unresolved
    <2> QED
      BY <2>1, <2>2, <1>local DEF market, audit
  <1>3. CASE ReconcileFound \/ ReplyFound
    <2> DEFINE known == Remember(cur, intents, Evidence(intents), filled[intents])
    <2>1. /\ pc \in {"reconcile", "reply"} /\ UNCHANGED <<market, audit, saved>>
          /\ \/ pc' = "trade" /\ cur' = Settled(known, intents, filled[intents])
             \/ pc' = "save" /\ cur' = [known EXCEPT !.state = "reconciliation_required"]
             \/ /\ pc' = "save" /\ cur' = known
                /\ known.state \in Unresolved \/ filled[intents] = 0 \/ known.state # "filled"
      BY <1>3, <1>now DEF ReconcileFound, ReplyFound, Running, Continue
    <2>2. /\ known.state = Evidence(intents) /\ known.position = saved.position
          /\ known.unmanaged = 0 /\ intents \in Order /\ Unsettled
      BY <2>1, <1>now, <1>states DEF Places, Remember, Runtime, Carried
    <2>3. CASE pc' = "trade"
      <3>1. cur' = Settled(known, intents, filled[intents])
        BY <2>1, <2>3
      <3>2. cur'.unmanaged = 0 /\ cur'.position = account
        BY <3>1, <2>2, <1>hold, <1>states DEF Settled, Remember, Runtime
      <3>3. Carried'
        BY <2>1, <2>3, <3>2 DEF Carried, market
      <3> QED
        BY <2>1, <3>3, <1>local DEF market, audit
    <2>4. CASE pc' = "save" /\ cur' = [known EXCEPT !.state = "reconciliation_required"]
      <3>1. /\ cur'.state \in Unresolved /\ cur'.position = saved.position
            /\ cur'.unmanaged = 0
        BY <2>2, <2>4, <1>states DEF Remember, Runtime, Unresolved
      <3>2. Carried'
        BY <2>1, <2>4, <3>1 DEF Carried
      <3> QED
        BY <2>1, <3>2, <1>local DEF market, audit
    <2>5. CASE /\ pc' = "save" /\ cur' = known
               /\ known.state \in Unresolved \/ filled[intents] = 0 \/ known.state # "filled"
      <3>1. known.state \in Unresolved \/ filled[intents] = 0
        BY <2>2, <2>5, <1>now DEF WholeFills, Evidence, Unresolved
      <3>2. known.state \in Unresolved \/ account = saved.position
        BY <3>1, <2>2, <1>hold
      <3>3. Carried'
        BY <2>1, <2>2, <2>5, <3>2 DEF Carried, market
      <3> QED
        BY <2>1, <3>3, <1>local DEF market, audit
    <2> QED
      BY <2>1, <2>3, <2>4, <2>5
  <1>4. CASE Blocked \/ Covered \/ Hold
    <2>1. /\ pc \in {"account", "decide"} /\ pc' \in {"save", "decide"} /\ cur' = cur
          /\ UNCHANGED <<market, audit, saved>>
      BY <1>4 DEF Blocked, Covered, Hold, Continue
    <2>2. cur.state \notin Unresolved /\ account = saved.position
      BY <2>1, <1>now, <1>hold DEF Running, Places
    <2>3. Carried'
      BY <2>1, <2>2, <1>now DEF Carried, market
    <2> QED
      BY <2>1, <2>3, <1>local DEF market, audit
  \* The account is covered and a whole lot is no dust.
  <1>5. CASE Synchronize \/ ReleaseDust
    <2>1. /\ pc \in {"account", "decide"}
          /\ account # cur.position + cur.unmanaged \/ cur.position \in 1..(Lot - 1)
      BY <1>5 DEF Synchronize, ReleaseDust
    <2>2. cur.unmanaged = 0 /\ cur.position = saved.position /\ account = saved.position
      BY <2>1, <1>now, <1>hold DEF Carried, Places
    <2> QED
      BY <2>1, <2>2, <1>states, <1>hold
  <1>6. CASE RecordIntent
    <2>1. /\ ~Unsettled /\ Unsettled' /\ intents' \in Order /\ exch[intents'] = "absent"
          /\ ticket' = [ticket EXCEPT ![intents'] = Decision(cur)]
          /\ cur' = [cur EXCEPT !.mark = intents'] /\ pc = "decide" /\ pc' = "submit"
          /\ UNCHANGED <<market, saved>>
      BY <1>6, <1>now, IntentOpens
    <2>2. cur.position = saved.position /\ cur.unmanaged = 0
      BY <2>1, <1>now DEF Carried
    <2>3. cur'.position = cur.position /\ cur'.unmanaged = cur.unmanaged
      BY <2>1, <1>states DEF Runtime
    <2>4. Carried'
      BY <2>1, <2>2, <2>3 DEF Carried
    <2>5. filled'[intents'] = 0
      BY <2>1, <1>now DEF WholeFills, market
    <2>6. ticket'[intents'] = Decision(saved) /\ Decision(saved)' = Decision(saved)
      <3>1. Decision(cur) = Decision(saved) /\ Decision(saved)' = Decision(saved)
        BY <2>1, <2>2 DEF Decision
      <3>2. ticket'[intents'] = Decision(cur)
        BY <2>1, <1>now DEF TypeOK
      <3> QED
        BY <3>1, <3>2
    <2>7. Moved(intents)' = 0
      <3>1. Moved(intents)' \in {filled'[intents'], 0 - filled'[intents']}
        BY DEF Moved
      <3> QED
        BY <2>5, <3>1
    <2>8. account' = saved'.position + Moved(intents)'
      BY <2>1, <2>7, <1>hold, <1>states DEF market, Runtime
    <2>9. Ledger'
      BY <2>1, <2>6, <2>8, <1>now DEF Ledger
    <2> QED
      BY <2>4, <2>9
  <1>7. CASE Refused
    <2>1. /\ pc \in {"submit", "query"} /\ pc' = "save"
          /\ cur'.position = cur.position /\ cur'.unmanaged = cur.unmanaged
          /\ UNCHANGED <<market, audit, saved>>
      BY <1>7, <1>states DEF Refused, Continue, Remember, Runtime
    <2>2. Unsettled /\ intents \in Order /\ exch[intents] = "absent"
      BY <2>1, <1>now DEF Running, Places
    <2>3. account = saved.position
      BY <2>2, <1>now, <1>hold DEF WholeFills
    <2>4. Carried'
      BY <2>1, <2>3, <1>now DEF Carried, market
    <2> QED
      BY <2>1, <2>4, <1>local DEF market, audit
  <1>8. CASE Submit \/ QueryAbsent \/ Create
    <2>1. /\ pc \in {"submit", "query", "create"} /\ pc' \in {"query", "create", "reply"}
          /\ cur' = cur /\ UNCHANGED <<filled, account, ticket, intents, saved>>
      BY <1>8 DEF Submit, QueryAbsent, Create, Continue, market, audit
    <2>2. Carried'
      BY <2>1, <1>now DEF Carried
    <2> QED
      BY <2>1, <2>2, <1>local
  <1>9. CASE RecordTrade
    <2>1. /\ pc = "trade" /\ pc' = "save" /\ cur'.state = cur.state
          /\ cur'.position = cur.position /\ cur'.unmanaged = cur.unmanaged
          /\ UNCHANGED <<filled, account, ticket, intents, saved>>
      BY <1>9, <1>states DEF RecordTrade, Continue, Runtime, market
    <2>2. Carried'
      BY <2>1, <1>now DEF Carried, Filling
    <2> QED
      BY <2>1, <2>2, <1>local
  <1>10. CASE Save
    <2>1. /\ Unsettled' <=> cur.state \in Unresolved
          /\ cur.state \in Unresolved => Unsettled
          /\ saved' = cur /\ pc = "save" /\ pc' = "idle" /\ cur.live
          /\ UNCHANGED <<market, audit>>
      BY <1>10, <1>now, SaveSettles
    <2>2. Carried'
      BY <2>1 DEF Carried
    <2>3. CASE cur.state \in Unresolved
      <3>1. cur.position = saved.position /\ cur.unmanaged = 0
        BY <2>1, <2>3, <1>now DEF Carried
      <3>2. Decision(saved)' = Decision(saved) /\ Moved(intents)' = Moved(intents)
        BY <2>1, <3>1 DEF Decision, Moved, market, audit
      <3>3. Ledger'
        BY <2>1, <2>3, <3>1, <3>2, <1>now DEF Ledger, market, audit
      <3> QED
        BY <2>2, <3>3
    <2>4. CASE cur.state \notin Unresolved
      <3>1. cur.position = account /\ cur.unmanaged = 0
        BY <2>1, <2>4, <1>now DEF Carried
      <3>2. Ledger'
        BY <2>1, <2>4, <3>1, <1>hold, <1>states DEF Ledger, market
      <3> QED
        BY <2>2, <3>2
    <2> QED
      BY <2>3, <2>4
  <1>11. CASE Abort \/ Crash
    <2>1. pc' = "idle" /\ UNCHANGED <<market, audit, saved>>
      BY <1>11 DEF Abort, Crash, Over
    <2> QED
      BY <2>1, <1>local DEF Carried, market, audit
  <1>12. CASE ConfigureLoad \/ RestoreControl \/ TriggerControl \/ UNCHANGED vars
    <2>1. UNCHANGED <<market, audit, saved, pc, cur>>
      BY <1>12 DEF ConfigureLoad, RestoreControl, TriggerControl, vars
    <2> QED
      BY <2>1, <1>now, <1>local DEF Carried, market, audit
  <1>13. CASE ConfigureSave
    <2>1. /\ pc = "idle" /\ UNCHANGED <<market, audit, pc, cur>>
          /\ Unsettled' <=> Unsettled
          /\ \/ /\ saved'.position = saved.position /\ saved'.unmanaged = saved.unmanaged
                /\ saved'.live = saved.live
             \/ /\ saved'.position = 0 /\ saved'.unmanaged = 0
                /\ ~saved.live \/ saved.position = 0
                /\ ~Unsettled
      BY <1>13, <1>now, ConfigureKeeps
    <2>2. Carried'
      BY <2>1 DEF Carried
    <2>3. saved'.position = saved.position /\ saved'.unmanaged = 0
          /\ (~saved'.live => saved'.position = 0)
      BY <2>1, <1>now DEF Ledger
    <2>4. Decision(saved)' = Decision(saved) /\ Moved(intents)' = Moved(intents)
      BY <2>1, <2>3 DEF Decision, Moved, market, audit
    <2>5. Ledger'
      BY <2>1, <2>3, <2>4, <1>now DEF Ledger, market, audit
    <2> QED
      BY <2>2, <2>5
  <1>14. ASSUME NEW o \in Order, Exchange(o) PROVE Ledger' /\ Carried'
    <2>1. /\ o = intents /\ Unsettled /\ UNCHANGED <<audit, saved, pc, cur>>
          /\ exch[o] \in {"flying", "open"}
      BY <1>14, <1>now, FillsUnsettled DEF Exchange, Arrive, Fill, End
    <2>2. pc # "trade" /\ (pc = "save" => cur.state \in Unresolved)
      BY <2>1, <1>now DEF Running, Quiet, Filling
    <2>3. Carried'
      BY <2>1, <2>2, <1>now DEF Carried
    <2>4. CASE Arrive(o) \/ End(o)
      BY <2>1, <2>3, <2>4, <1>local DEF Arrive, End, audit
    <2>5. CASE Fill(o)
      <3>1. filled[o] = 0 /\ ticket[o].size \in Nat
        BY <2>1, <1>now DEF WholeFills, TypeOK
      <3>2. /\ filled' = [filled EXCEPT ![o] = ticket[o].size]
            /\ account' = IF ticket[o].side = "buy" THEN account + ticket[o].size
                                                    ELSE account - ticket[o].size
        <4>1. PICK quantity \in 1..(ticket[o].size - filled[o]) :
                 /\ filled[o] + quantity = ticket[o].size
                 /\ filled' = [filled EXCEPT ![o] = filled[o] + quantity]
                 /\ account' = IF ticket[o].side = "buy"
                               THEN account + quantity ELSE account - quantity
          BY <2>5 DEF Fill
        <4>2. quantity = ticket[o].size
          BY <4>1, <3>1
        <4> QED
          BY <4>1, <4>2
      <3>3. account = saved.position /\ saved.position \in Nat
        BY <2>1, <3>1, <1>hold, <1>states DEF Runtime
      <3>4. account' = saved.position + Moved(intents)'
        BY <2>1, <3>1, <3>2, <3>3, <1>states DEF Moved, audit
      <3>5. Unsettled' <=> Unsettled
        BY <2>1, UnsettledStable DEF audit
      <3>6. Decision(saved)' = Decision(saved) /\ UNCHANGED <<ticket, intents, saved>>
        BY <2>1 DEF Decision, audit
      <3>7. Ledger'
        BY <2>1, <3>4, <3>5, <3>6, <1>now DEF Ledger
      <3> QED
        BY <2>3, <3>7
    <2> QED
      BY <1>14, <2>4, <2>5 DEF Exchange
  <1> QED
    BY <1>1, <1>2, <1>3, <1>4, <1>5, <1>6, <1>7, <1>8, <1>9, <1>10, <1>11, <1>12,
       <1>13, <1>14
    DEF Next, Cycle, Reconcile, Evaluate, Route

(* When orders fill whole and one instance runs, the ledger agrees with the  *)
(* account whenever no cycle runs and no order is unresolved, whatever       *)
(* crashes, aborted cycles and configure calls came before.                  *)
THEOREM LedgerIsAccount ==
    ~OtherInstance /\ ~PartialFills => (Spec => []LedgerMatchesAccount)
  <1> SUFFICES ASSUME ~OtherInstance, ~PartialFills PROVE Spec => []LedgerMatchesAccount
    OBVIOUS
  <1>1. LedgerInv => LedgerMatchesAccount
    <2> SUFFICES ASSUME LedgerInv, \A o \in Order : ~Pending(o)
                 PROVE  saved.position + saved.unmanaged = account
      BY DEF LedgerMatchesAccount
    <2>1. Places /\ Ledger /\ TypeOK
      BY PlacesHold DEF LedgerInv, BookInv, Base, TradeInv
    <2>2. ~Unsettled
      BY <2>1 DEF Places
    <2> QED
      BY <2>1, <2>2 DEF Ledger, TypeOK, Runtime
  <1> QED
    BY <1>1, LedgerInit, LedgerNext, PTL DEF Spec

-----------------------------------------------------------------------------
(* The refinement of OrderSettlement.                                        *)

\* The phase of an order by what is unsettled.
SettlementPhase(o) ==
    IF o > intents THEN "new"
    ELSE IF traded[o] > 0 THEN "booked"
    ELSE IF o = intents /\ Unsettled THEN "announced" ELSE "closed"

Executed == {o \in Order : filled[o] > 0}

LEMMA PhaseHolds ==
    BookInv => Places /\ \A o \in Order : Phase(o) = SettlementPhase(o)
  <1> SUFFICES ASSUME BookInv
               PROVE  Places /\ \A o \in Order : Phase(o) = SettlementPhase(o)
    OBVIOUS
  <1>1. Places
    BY PlacesHold DEF BookInv, Base
  <1>2. \A o \in Order : Pending(o) <=> o = intents /\ Unsettled
    BY <1>1 DEF Places
  <1> QED
    BY <1>1, <1>2 DEF Phase, SettlementPhase

(* A step that leaves the fills, the trades and what is unsettled alone is   *)
(* not seen from outside.                                                    *)
LEMMA Unseen ==
    ASSUME BookInv, BookInv', UNCHANGED <<filled, traded, intents>>,
           Unsettled' <=> Unsettled
    PROVE  UNCHANGED Settlement!vars
  <1>1. \A o \in Order : Phase(o) = SettlementPhase(o)
    BY PhaseHolds
  <1>2. (\A o \in Order : Phase(o) = SettlementPhase(o))'
    <2>1. (BookInv => \A o \in Order : Phase(o) = SettlementPhase(o))'
      BY PhaseHolds, PTL
    <2> QED
      BY <2>1
  <1>3. \A o \in Order : Phase(o)' = Phase(o)
    BY <1>1, <1>2 DEF SettlementPhase
  <1> QED
    BY <1>3 DEF Settlement!vars

LEMMA SettlesInit == Init => Settlement!Init
  <1> SUFFICES ASSUME Init PROVE Settlement!Init
    OBVIOUS
  <1>1. \A o \in Order : Phase(o) = "new"
    BY DEF Init, Phase, Order
  <1>2. \A o \in Order : ~(filled[o] > 0)
    BY DEF Init
  <1> QED
    BY <1>1, <1>2 DEF Settlement!Init

(* An intent announces its order, a fill executes it, the first trade books  *)
(* it, and the state that is saved without it closes it; every other step is *)
(* not seen from outside.                                                    *)
LEMMA SettlesNext ==
    ~OtherInstance /\ ~PartialFills /\ BookInv /\ BookInv' /\ [Next]_vars
        => [Settlement!Next]_(Settlement!vars)
  <1> SUFFICES ASSUME ~OtherInstance, ~PartialFills, BookInv, BookInv', [Next]_vars
               PROVE  Settlement!Next \/ UNCHANGED Settlement!vars
    OBVIOUS
  <1>now. /\ TypeOK /\ Filling /\ Places /\ Bookable /\ Running /\ SteadyInv /\ TradesBacked
          /\ WholeFills /\ Booked
    BY PlacesHold DEF BookInv, Base, TradeInv, SteadyInv, Inv
  <1>states. /\ cur \in Runtime /\ intents \in Nat /\ Order \subseteq Nat
             /\ traded \in [Order -> Nat] /\ filled \in [Order -> Nat]
    BY <1>now, OrderAssumption DEF TypeOK, Order
  <1>phase. \A o \in Order : Phase(o) = SettlementPhase(o)
    BY PhaseHolds
  <1>later. \A o \in Order : Phase(o)' = SettlementPhase(o)'
    <2>1. (BookInv => \A o \in Order : Phase(o) = SettlementPhase(o))'
      BY PhaseHolds, PTL
    <2> QED
      BY <2>1
  \* Steps that leave the durable state alone, and what was filled and traded.
  <1>quiet. ASSUME UNCHANGED <<filled, traded, intents, saved>>
            PROVE  UNCHANGED Settlement!vars
    BY <1>quiet, Unseen, UnsettledStable
  <1>1. CASE Begin \/ Reconcile \/ Blocked \/ Synchronize \/ Covered \/ Hold \/ ReleaseDust
    BY <1>1, <1>quiet DEF Begin, Reconcile, ReconcileUnknown, ReconcileFound, Blocked,
       Synchronize, Covered, Hold, ReleaseDust, market, audit
  <1>2. CASE Route \/ Abort \/ Crash
    BY <1>2, <1>quiet DEF Route, Refused, Submit, QueryUnknown, QueryAbsent, Create,
       ReplyUnknown, ReplyFound, Abort, Crash, market, audit
  <1>3. CASE ConfigureLoad \/ RestoreControl \/ TriggerControl \/ UNCHANGED vars
    BY <1>3, <1>quiet DEF ConfigureLoad, RestoreControl, TriggerControl, vars, market, audit
  <1>4. CASE ConfigureSave
    BY <1>4, <1>now, ConfigureKeeps, Unseen DEF market, audit
  <1>5. CASE RecordIntent
    <2>1. PICK o \in Order :
             /\ ~Unsettled /\ Unsettled' /\ o = intents + 1 /\ intents' = o
             /\ exch[o] = "absent" /\ UNCHANGED <<market, traded>>
      BY <1>5, <1>now, IntentOpens
    <2>2. ~(traded[o] > 0)
      BY <2>1, <1>now DEF TradesBacked
    <2>3. /\ Phase(o) = "new" /\ Phase(o)' = "announced"
          /\ \A other \in Order : Phase(other) # "announced"
          /\ \A other \in Order \ {o} : Phase(other)' = Phase(other)
      BY <2>1, <2>2, <1>phase, <1>later, <1>states DEF SettlementPhase
    <2>4. Settlement!Announce(o)
      BY <2>1, <2>3 DEF Settlement!Announce, market
    <2> QED
      BY <2>4 DEF Settlement!Next
  <1>6. CASE RecordTrade
    <2>1. /\ cur.order = intents /\ intents \in Order /\ Unsettled
          /\ cur.fill > 0 /\ cur.fill = filled[intents]
          /\ UNCHANGED <<filled, intents, saved>>
          /\ traded' = [traded EXCEPT ![intents] =
                           IF traded[intents] = 0 THEN cur.fill ELSE traded[intents]]
      BY <1>6, <1>now DEF RecordTrade, Running, Bookable, Filling, market
    <2>2. Unsettled'
      BY <2>1, UnsettledStable
    <2>3. CASE traded[intents] = 0
      <3>1. traded'[intents] > 0 /\ \A o \in Order \ {intents} : traded'[o] = traded[o]
        BY <2>1, <2>3, <1>states
      <3>2. /\ Phase(intents) = "announced" /\ Phase(intents)' = "booked"
            /\ \A o \in Order \ {intents} : Phase(o)' = Phase(o)
        BY <2>1, <2>2, <2>3, <3>1, <1>phase, <1>later, <1>states DEF SettlementPhase
      <3>3. Settlement!Book(intents)
        BY <2>1, <3>2 DEF Settlement!Book
      <3> QED
        BY <2>1, <3>3 DEF Settlement!Next
    <2>4. CASE traded[intents] # 0
      <3>1. traded' = traded
        BY <2>1, <2>4, <1>states
      <3> QED
        BY <2>1, <3>1, <1>quiet
    <2> QED
      BY <2>3, <2>4
  <1>7. CASE Save
    <2>1. /\ Unsettled' <=> cur.state \in Unresolved
          /\ cur.state \in Unresolved => Unsettled
          /\ pc = "save" /\ UNCHANGED <<filled, traded, intents>>
      BY <1>7, <1>now, SaveSettles DEF market, audit
    <2>2. CASE Unsettled' <=> Unsettled
      BY <2>1, <2>2, Unseen
    <2>3. CASE Unsettled /\ ~Unsettled'
      <3>1. intents \in Order /\ \A o \in Order : filled[o] > 0 => traded[o] > 0
        BY <2>1, <2>3, <1>now DEF Places, Booked
      <3>2. \A o \in Order \ {intents} : Phase(o)' = Phase(o)
        BY <2>1, <1>phase, <1>later DEF SettlementPhase
      <3>3. CASE traded[intents] > 0
        <4>1. Phase(intents)' = Phase(intents)
          BY <2>1, <3>1, <3>3, <1>phase, <1>later DEF SettlementPhase
        <4> QED
          BY <2>1, <3>2, <4>1 DEF Settlement!vars
      <3>4. CASE ~(traded[intents] > 0)
        <4>1. Phase(intents) = "announced" /\ Phase(intents)' = "closed"
          BY <2>1, <2>3, <3>1, <3>4, <1>phase, <1>later, <1>states DEF SettlementPhase
        <4>2. Settlement!Close(intents)
          BY <2>1, <3>1, <3>2, <3>4, <4>1 DEF Settlement!Close
        <4> QED
          BY <3>1, <4>2 DEF Settlement!Next
      <3> QED
        BY <3>3, <3>4
    <2> QED
      BY <2>1, <2>2, <2>3
  <1>8. ASSUME NEW o \in Order, Arrive(o) \/ End(o) PROVE UNCHANGED Settlement!vars
    BY <1>8, <1>quiet DEF Arrive, End, audit
  <1>9. ASSUME NEW o \in Order, Fill(o) PROVE Settlement!Next
    <2>1. /\ o = intents /\ Unsettled /\ exch[o] = "open"
          /\ UNCHANGED <<traded, intents, saved>>
      BY <1>9, <1>now, FillsUnsettled DEF Fill, audit
    <2>2. Unsettled'
      BY <2>1, UnsettledStable
    <2>3. ~(traded[o] > 0) /\ \A p \in Order : Phase(p)' = Phase(p)
      BY <2>1, <2>2, <1>now, <1>phase, <1>later DEF SettlementPhase, TradesBacked
    <2>4. Phase(o) = "announced"
      BY <2>1, <2>3, <1>phase, <1>states DEF SettlementPhase
    <2>5. filled'[o] > 0 /\ \A p \in Order \ {o} : filled'[p] = filled[p]
      <3>1. PICK quantity \in 1..(ticket[o].size - filled[o]) :
               filled' = [filled EXCEPT ![o] = filled[o] + quantity]
        BY <1>9 DEF Fill
      <3>2. quantity > 0 /\ ticket[o].size \in Nat /\ filled[o] \in Nat
        BY <3>1, <1>now, <1>states DEF TypeOK
      <3> QED
        BY <3>1, <3>2, <1>states
    <2>6. Settlement!Execute(o)
      BY <2>3, <2>4, <2>5 DEF Settlement!Execute
    <2> QED
      BY <2>6 DEF Settlement!Next
  <1> QED
    BY <1>1, <1>2, <1>3, <1>4, <1>5, <1>6, <1>7, <1>8, <1>9
    DEF Next, Cycle, Evaluate, Exchange

(* When orders fill whole and one instance runs, automatic trading keeps the *)
(* promises of OrderSettlement: an order is announced before it executes, at *)
(* most one is announced at a time, and one that executed is booked once and *)
(* never closed unbooked.                                                    *)
THEOREM OrdersSettle == ~OtherInstance /\ ~PartialFills => (Spec => Settles)
  <1> SUFFICES ASSUME ~OtherInstance, ~PartialFills PROVE Spec => Settles
    OBVIOUS
  <1>1. BookInv /\ [Next]_vars => BookInv'
    BY BookNext
  <1>2. BookInv /\ BookInv' /\ [Next]_vars => [Settlement!Next]_(Settlement!vars)
    BY SettlesNext
  <1> QED
    BY <1>1, <1>2, BookInit, SettlesInit, PTL DEF Spec, Settles, Settlement!Spec
=============================================================================
