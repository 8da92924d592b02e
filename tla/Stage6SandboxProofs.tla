------------------------- MODULE Stage6SandboxProofs -------------------------
(***************************************************************************)
(* Theorems about Stage6Sandbox, for any set of batches, any batch size    *)
(* and any number of crashes, with and without recovery at the start.      *)
(***************************************************************************)
EXTENDS Stage6Sandbox, TLAPS

LEMMA NowhereType == Nowhere \in Order
<1>1. \E b \in Batch : <<b, 1>> \in Order
  BY BatchAssumption, SizeAssumption DEF Order
<1> QED BY <1>1 DEF Nowhere

LEMMA StartType ==
    ASSUME NEW kind \in Jobs, NEW orders \in SUBSET Order, Start(kind, orders)
    PROVE /\ job' \in Jobs /\ todo' \subseteq Order /\ at' \in Order
          /\ step' \in Steps /\ evidence' \in State /\ last' \in BOOLEAN
BY NowhereType DEF Start, Steps, State

LEMMA PendType ==
    ASSUME row \in [Order -> [state : State, attempt : Nat]],
           NEW o \in Order, Pend(o)
    PROVE row' \in [Order -> [state : State, attempt : Nat]]
BY DEF Pend, State, Nonterminal

LEMMA SettleType ==
    ASSUME TypeOK, Settle
    PROVE /\ job' \in Jobs /\ todo' \subseteq Order /\ at' \in Order
          /\ step' \in Steps /\ evidence' \in State /\ last' \in BOOLEAN
<1>1. CASE job = "submit" /\ evidence \in {"rejected", "reconciliation_required"}
  <2>1. Start("cancel", Compensation)
    BY <1>1 DEF Settle
  <2>2. Compensation \in SUBSET Order
    BY DEF Compensation
  <2>3. "cancel" \in Jobs
    BY DEF Jobs
  <2> QED BY <2>1, <2>2, <2>3, StartType
<1>2. CASE ~(job = "submit" /\ evidence \in {"rejected", "reconciliation_required"})
  <2>1. Start(job, todo \ {at})
    BY <1>2 DEF Settle
  <2>2. job \in Jobs /\ todo \ {at} \in SUBSET Order
    BY DEF TypeOK
  <2> QED BY <2>1, <2>2, StartType
<1> QED BY <1>1, <1>2

LEMMA TypeInit == Init => TypeOK
<1> SUFFICES ASSUME Init PROVE TypeOK
  OBVIOUS
<1>1. row \in [Order -> [state : State, attempt : Nat]]
  BY DEF Init, State
<1>2. /\ exch \in [Order -> Status]
      /\ accepted \in [Order -> Nat] /\ sent \in [Order -> Nat]
  BY DEF Init, Status
<1>3. job \in Jobs /\ step \in Steps /\ evidence \in State
  BY DEF Init, Jobs, Steps, State
<1>4. at \in Order /\ todo \subseteq Order
  BY NowhereType DEF Init
<1>5. killed \in BOOLEAN /\ last \in BOOLEAN
  BY DEF Init
<1>6. crashes \in 0..MaxCrashes
  BY CrashAssumption DEF Init
<1> QED BY <1>1, <1>2, <1>3, <1>4, <1>5, <1>6 DEF TypeOK

LEMMA TypeNext == TypeOK /\ [Next]_vars => TypeOK'
<1> SUFFICES ASSUME TypeOK, [Next]_vars PROVE TypeOK'
  OBVIOUS
<1> USE DEF audit, exchange
<1>1. CASE Calls
  <2>1. ASSUME NEW b \in Batch, Submit(b) PROVE TypeOK'
    <3>1. "submit" \in Jobs /\ {o \in Order : o[1] = b} \in SUBSET Order
      BY DEF Jobs
    <3>2. Start("submit", {o \in Order : o[1] = b})
      BY <2>1 DEF Submit
    <3>3. UNCHANGED <<row, killed, exch, accepted, sent, crashes>>
      BY <2>1 DEF Submit
    <3> QED BY <3>1, <3>2, <3>3, StartType DEF TypeOK
  <2>2. ASSUME NEW b \in Batch, Reconcile(b) PROVE TypeOK'
    <3> DEFINE orders == {o \in Order : o[1] = b /\ row[o].state \in Nonterminal}
    <3>1. "reconcile" \in Jobs /\ orders \in SUBSET Order
      BY DEF Jobs
    <3>2. Start("reconcile", orders)
      BY <2>2 DEF Reconcile
    <3>3. UNCHANGED <<row, killed, exch, accepted, sent, crashes>>
      BY <2>2 DEF Reconcile
    <3> HIDE DEF orders
    <3> QED BY <3>1, <3>2, <3>3, StartType DEF TypeOK
  <2>3. ASSUME NEW o \in Order, Cancel(o) PROVE TypeOK'
    <3>1. "cancel" \in Jobs /\ {o} \in SUBSET Order
      BY DEF Jobs
    <3>2. Start("cancel", {o})
      BY <2>3 DEF Cancel
    <3>3. UNCHANGED <<row, killed, exch, accepted, sent, crashes>>
      BY <2>3 DEF Cancel
    <3> QED BY <3>1, <3>2, <3>3, StartType DEF TypeOK
  <2>4. CASE Trigger
    <3> DEFINE orders == {o \in Order : Open(o)}
    <3>1. "cancel" \in Jobs /\ orders \in SUBSET Order
      BY DEF Jobs
    <3>2. Start("cancel", orders)
      BY <2>4 DEF Trigger
    <3>3. killed' = TRUE /\ UNCHANGED <<row, exch, accepted, sent, crashes>>
      BY <2>4 DEF Trigger
    <3> HIDE DEF orders
    <3> QED BY <3>1, <3>2, <3>3, StartType DEF TypeOK
  <2>5. CASE Reset
    BY <2>5 DEF Reset, call, TypeOK
  <2> QED BY <1>1, <2>1, <2>2, <2>3, <2>4, <2>5 DEF Calls
<1>2. CASE Loop
  <2>1. ASSUME NEW o \in Order, Skip(o) PROVE TypeOK'
    BY <2>1 DEF Skip, TypeOK
  <2>2. ASSUME NEW o \in Order, Stop(o) PROVE TypeOK'
    <3>1. "none" \in Jobs /\ {} \in SUBSET Order
      BY DEF Jobs
    <3>2. Start("none", {})
      BY <2>2 DEF Stop, Return
    <3>3. UNCHANGED <<row, killed, exch, accepted, sent, crashes>>
      BY <2>2 DEF Stop
    <3> QED BY <3>1, <3>2, <3>3, StartType DEF TypeOK
  <2>3. ASSUME NEW o \in Order, Send(o) PROVE TypeOK'
    <3>1. row' \in [Order -> [state : State, attempt : Nat]]
      BY <2>3, PendType DEF Send, TypeOK
    <3> QED BY <2>3, <3>1 DEF Send, TypeOK, Steps
  <2>4. ASSUME NEW o \in Order, Treat(o) PROVE TypeOK'
    BY <2>4 DEF Treat, TypeOK, Steps
  <2> QED BY <1>2, <2>1, <2>2, <2>3, <2>4 DEF Loop
<1>3. CASE Finish
  <2>1. "none" \in Jobs /\ {} \in SUBSET Order
    BY DEF Jobs
  <2>2. Start("none", {})
    BY <1>3 DEF Finish, Return
  <2>3. UNCHANGED <<row, killed, exch, accepted, sent, crashes>>
    BY <1>3 DEF Finish
  <2> QED BY <2>1, <2>2, <2>3, StartType DEF TypeOK
<1>4. CASE Route
  <2>1. CASE Query
    BY <2>1 DEF Query, Known, Answer, To, TypeOK, Steps, Status, State, Nonterminal
  <2>2. CASE Create
    BY <2>2 DEF Create, Answer, To, TypeOK, Steps, Status, State, Nonterminal
  <2>3. CASE CreateFails
    BY <2>3 DEF CreateFails, Answer, To, TypeOK, Steps, Status, State, Nonterminal
  <2>4. CASE Ask
    BY <2>4 DEF Ask, Known, Answer, To, TypeOK, Steps, Status, State, Nonterminal
  <2>5. CASE CancelCall
    BY <2>5 DEF CancelCall, Answer, To, TypeOK, Steps, Status, State, Nonterminal
  <2> QED BY <1>4, <2>1, <2>2, <2>3, <2>4, <2>5 DEF Route
<1>5. CASE Confirm
  <2>1. CASE ConfirmKnown
    BY <2>1 DEF ConfirmKnown, Known, Answer, TypeOK, Steps, Status, State, Nonterminal
  <2>2. CASE ConfirmUnknown
    BY <2>2 DEF ConfirmUnknown, Answer, TypeOK, Steps, State, Nonterminal
  <2>3. CASE Resend
    <3>1. row' \in [Order -> [state : State, attempt : Nat]]
      BY <2>3, PendType DEF Resend, TypeOK
    <3> QED BY <2>3, <3>1 DEF Resend, To, TypeOK, Steps
  <2> QED BY <1>5, <2>1, <2>2, <2>3 DEF Confirm
<1>6. CASE Record
  <2>1. row' \in [Order -> [state : State, attempt : Nat]]
    BY <1>6 DEF Record, TypeOK
  <2>2. /\ job' \in Jobs /\ todo' \subseteq Order /\ at' \in Order
        /\ step' \in Steps /\ evidence' \in State /\ last' \in BOOLEAN
    <3>1. CASE Settle
      BY <3>1, SettleType
    <3>2. CASE To("confirm") /\ UNCHANGED last
      BY <3>2 DEF To, TypeOK, Steps
    <3> QED BY <1>6, <3>1, <3>2 DEF Record
  <2> QED BY <1>6, <2>1, <2>2 DEF Record, TypeOK
<1>7. CASE Crash
  <2> DEFINE orders == {o \in Order : row[o].state \in Nonterminal}
  <2>1. "none" \in Jobs /\ "reconcile" \in Jobs /\ {} \in SUBSET Order /\ orders \in SUBSET Order
    BY DEF Jobs
  <2>2. Start("reconcile", orders) \/ Start("none", {})
    BY <1>7 DEF Crash, Return
  <2>3. crashes' \in 0..MaxCrashes /\ UNCHANGED <<row, killed, exch, accepted, sent>>
    BY <1>7, CrashAssumption DEF Crash, TypeOK
  <2> HIDE DEF orders
  <2>4. /\ job' \in Jobs /\ todo' \subseteq Order /\ at' \in Order
        /\ step' \in Steps /\ evidence' \in State /\ last' \in BOOLEAN
    BY <2>1, <2>2, StartType
  <2> QED BY <2>3, <2>4 DEF TypeOK
<1>8. ASSUME NEW o \in Order, Move(o) PROVE TypeOK'
  BY <1>8 DEF Move, call, TypeOK, Status
<1>9. CASE UNCHANGED vars
  BY <1>9 DEF vars, call, TypeOK
<1> QED BY <1>1, <1>2, <1>3, <1>4, <1>5, <1>6, <1>7, <1>8, <1>9 DEF Next

(* The rows, the exchange and the running call keep their types.            *)
THEOREM TypeCorrect == Spec => []TypeOK
BY TypeInit, TypeNext, PTL DEF Spec

-----------------------------------------------------------------------------
(* The inductive invariant: an order that was never attempted is authorized; *)
(* the exchange accepted one order where it knows one; the call treats       *)
(* orders that were attempted; it is about to create only what the exchange  *)
(* does not know, under a durable submission_pending; and what it is about   *)
(* to record is true.                                                        *)
Numbered == \A o \in Order : row[o].attempt = 0 => row[o].state = "authorized"

Counted == \A o \in Order : accepted[o] = IF exch[o] = "absent" THEN 0 ELSE 1

Begun ==
    /\ step # "next" => row[at].attempt # 0
    /\ job \in {"reconcile", "cancel"} => \A o \in todo : row[o].attempt # 0

Asking ==
    /\ step \in {"query", "create", "ask"} => row[at].state = "submission_pending"
    /\ step = "create" => exch[at] = "absent"

Truthful ==
    step = "record" =>
        /\ evidence \notin {"authorized", "submission_pending"}
        /\ evidence = "rejected" => exch[at] = "absent"
        /\ evidence \in {"filled", "ended"} => exch[at] = evidence

Inv == /\ TypeOK /\ FinalStatesTrue
       /\ Numbered /\ Counted /\ Begun /\ Asking /\ Truthful

LEMMA InvInit == Init => Inv
<1> SUFFICES ASSUME Init PROVE Inv
  OBVIOUS
<1>1. \A o \in Order : row[o].state = "authorized" /\ row[o].attempt = 0
  BY DEF Init
<1>2. \A o \in Order : exch[o] = "absent" /\ accepted[o] = 0
  BY DEF Init
<1>3. step = "next" /\ job = "none"
  BY DEF Init
<1>4. FinalStatesTrue /\ Numbered /\ Counted
  BY <1>1, <1>2 DEF FinalStatesTrue, Numbered, Counted
<1>5. Begun /\ Asking /\ Truthful
  BY <1>3 DEF Begun, Asking, Truthful
<1> QED BY <1>4, <1>5, TypeInit DEF Inv

\* A call that starts, goes on to another kind or returns.
LEMMA StartKeeps ==
    ASSUME Inv, TypeOK', NEW kind, NEW orders \in SUBSET Order,
           Start(kind, orders), UNCHANGED <<row, exch, accepted>>,
           kind \in {"reconcile", "cancel"} => \A o \in orders : row[o].attempt # 0
    PROVE Inv'
<1>1. FinalStatesTrue' /\ Numbered' /\ Counted'
  BY DEF Inv, FinalStatesTrue, Numbered, Counted
<1>2. Begun' /\ Asking' /\ Truthful'
  BY DEF Start, Begun, Asking, Truthful
<1> QED BY <1>1, <1>2 DEF Inv

\* An order that is not final has been attempted.
LEMMA Attempted ==
    ASSUME Inv, NEW o \in Order, row[o].state \in Nonterminal
    PROVE row[o].attempt # 0
BY DEF Inv, Numbered, Nonterminal

LEMMA CallsKeep ==
    ASSUME Inv, TypeOK', Calls PROVE Inv'
<1> USE DEF audit, exchange
<1>1. ASSUME NEW b \in Batch, Submit(b) PROVE Inv'
  <2> DEFINE orders == {o \in Order : o[1] = b}
  <2>1. Start("submit", orders) /\ UNCHANGED <<row, exch, accepted>>
    BY <1>1 DEF Submit
  <2>2. orders \in SUBSET Order
    OBVIOUS
  <2> HIDE DEF orders
  <2> QED BY <2>1, <2>2, StartKeeps
<1>2. ASSUME NEW b \in Batch, Reconcile(b) PROVE Inv'
  <2> DEFINE orders == {o \in Order : o[1] = b /\ row[o].state \in Nonterminal}
  <2>1. Start("reconcile", orders) /\ UNCHANGED <<row, exch, accepted>>
    BY <1>2 DEF Reconcile
  <2>2. orders \in SUBSET Order /\ \A o \in orders : row[o].attempt # 0
    BY Attempted
  <2> HIDE DEF orders
  <2> QED BY <2>1, <2>2, StartKeeps
<1>3. ASSUME NEW o \in Order, Cancel(o) PROVE Inv'
  <2>1. Start("cancel", {o}) /\ UNCHANGED <<row, exch, accepted>>
    BY <1>3 DEF Cancel
  <2>2. {o} \in SUBSET Order /\ \A p \in {o} : row[p].attempt # 0
    BY <1>3, Attempted DEF Cancel
  <2> QED BY <2>1, <2>2, StartKeeps
<1>4. CASE Trigger
  <2> DEFINE orders == {o \in Order : Open(o)}
  <2>1. Start("cancel", orders) /\ UNCHANGED <<row, exch, accepted>>
    BY <1>4 DEF Trigger
  <2>2. orders \in SUBSET Order /\ \A o \in orders : row[o].attempt # 0
    BY Attempted DEF Open, Nonterminal
  <2> HIDE DEF orders
  <2> QED BY <2>1, <2>2, StartKeeps
<1>5. CASE Reset
  BY <1>5 DEF Reset, call, Inv, FinalStatesTrue, Numbered, Counted, Begun, Asking, Truthful
<1> QED BY <1>1, <1>2, <1>3, <1>4, <1>5 DEF Calls

LEMMA LoopKeeps ==
    ASSUME Inv, TypeOK', Loop PROVE Inv'
<1> USE DEF audit, exchange
<1>1. ASSUME NEW o \in Order, Skip(o) PROVE Inv'
  BY <1>1 DEF Skip, Inv, FinalStatesTrue, Numbered, Counted, Begun, Asking, Truthful
<1>2. ASSUME NEW o \in Order, Stop(o) PROVE Inv'
  BY <1>2, StartKeeps DEF Stop, Return
<1>3. ASSUME NEW o \in Order, Send(o) PROVE Inv'
  <2>1. /\ row'[o] = [state |-> "submission_pending", attempt |-> row[o].attempt + 1]
        /\ \A p \in Order : p # o => row'[p] = row[p]
        /\ row[o].attempt \in Nat
    BY <1>3 DEF Send, Pend, Inv, TypeOK
  <2>2. FinalStatesTrue' /\ Numbered' /\ Counted'
    BY <1>3, <2>1 DEF Send, Inv, FinalStatesTrue, Numbered, Counted
  <2>3. at' = o /\ job' = "submit" /\ step' \in {"create", "query"}
    BY <1>3 DEF Send
  <2>4. Begun' /\ Truthful'
    BY <2>1, <2>3 DEF Begun, Truthful
  <2>5. step' = "create" => exch'[o] = "absent"
    BY <1>3 DEF Send, Inv, Numbered, FinalStatesTrue
  <2>6. Asking'
    BY <2>1, <2>3, <2>5 DEF Asking
  <2> QED BY <2>2, <2>4, <2>6 DEF Inv
<1>4. ASSUME NEW o \in Order, Treat(o) PROVE Inv'
  BY <1>4 DEF Treat, Turn, Inv, FinalStatesTrue, Numbered, Counted, Begun, Asking, Truthful
<1> QED BY <1>1, <1>2, <1>3, <1>4 DEF Loop

LEMMA RouteKeeps ==
    ASSUME Inv, TypeOK', Route PROVE Inv'
<1> USE DEF audit, exchange, Answer, To
<1>1. CASE Query
  BY <1>1 DEF Query, Known, Inv, TypeOK, Status, FinalStatesTrue, Numbered, Counted, Begun, Asking, Truthful
<1>2. CASE Create
  <2>1. at \in Order /\ exch[at] = "absent" /\ row[at].state = "submission_pending"
    BY <1>2 DEF Create, Inv, TypeOK, Asking
  <2>2. exch'[at] = "open" /\ \A o \in Order : o # at => exch'[o] = exch[o]
    BY <1>2, <2>1 DEF Create, Inv, TypeOK
  <2>3. accepted'[at] = 1 /\ \A o \in Order : o # at => accepted'[o] = accepted[o]
    BY <1>2, <2>1 DEF Create, Inv, TypeOK, Counted
  <2>4. FinalStatesTrue' /\ Numbered' /\ Counted'
    BY <1>2, <2>1, <2>2, <2>3 DEF Create, Inv, FinalStatesTrue, Numbered, Counted
  <2>5. Begun' /\ Asking' /\ Truthful'
    BY <1>2, <2>1 DEF Create, Inv, Begun, Asking, Truthful
  <2> QED BY <2>4, <2>5 DEF Inv
<1>3. CASE CreateFails
  BY <1>3 DEF CreateFails, Inv, FinalStatesTrue, Numbered, Counted, Begun, Asking, Truthful
<1>4. CASE Ask
  BY <1>4 DEF Ask, Known, Inv, TypeOK, Status, FinalStatesTrue, Numbered, Counted, Begun, Asking, Truthful
<1>5. CASE CancelCall
  <2>1. \A o \in Order : exch'[o] = exch[o] \/ (exch[o] = "open" /\ exch'[o] = "ended")
    BY <1>5 DEF CancelCall, Inv, TypeOK
  <2>2. FinalStatesTrue' /\ Numbered' /\ Counted'
    BY <1>5, <2>1 DEF CancelCall, Inv, FinalStatesTrue, Numbered, Counted
  <2>3. Begun' /\ Asking' /\ Truthful'
    BY <1>5 DEF CancelCall, Inv, TypeOK, Begun, Asking, Truthful
  <2> QED BY <2>2, <2>3 DEF Inv
<1> QED BY <1>1, <1>2, <1>3, <1>4, <1>5 DEF Route

LEMMA ConfirmKeeps ==
    ASSUME Inv, TypeOK', Confirm PROVE Inv'
<1> USE DEF audit, exchange, Answer, To
<1>1. CASE ConfirmKnown
  BY <1>1 DEF ConfirmKnown, Known, Inv, TypeOK, Status, FinalStatesTrue, Numbered, Counted, Begun, Asking, Truthful
<1>2. CASE ConfirmUnknown
  BY <1>2 DEF ConfirmUnknown, Inv, FinalStatesTrue, Numbered, Counted, Begun, Asking, Truthful
<1>3. CASE Resend
  <2>1. /\ row'[at] = [state |-> "submission_pending", attempt |-> row[at].attempt + 1]
        /\ \A p \in Order : p # at => row'[p] = row[p]
        /\ at \in Order /\ row[at].attempt \in Nat
    BY <1>3 DEF Resend, Pend, Inv, TypeOK
  <2>2. FinalStatesTrue' /\ Numbered' /\ Counted'
    BY <1>3, <2>1 DEF Resend, Inv, FinalStatesTrue, Numbered, Counted
  <2>3. \A o \in Order : row[o].attempt # 0 => row'[o].attempt # 0
    BY <2>1
  <2>4. Begun' /\ Asking' /\ Truthful'
    BY <1>3, <2>1, <2>3 DEF Resend, Inv, TypeOK, Begun, Asking, Truthful
  <2> QED BY <2>2, <2>4 DEF Inv
<1> QED BY <1>1, <1>2, <1>3 DEF Confirm

LEMMA RecordKeeps ==
    ASSUME Inv, TypeOK', Record PROVE Inv'
<1>1. /\ at \in Order
      /\ row'[at] = [state |-> evidence, attempt |-> row[at].attempt]
      /\ \A p \in Order : p # at => row'[p] = row[p]
      /\ UNCHANGED <<exch, accepted>>
  BY DEF Record, exchange, Inv, TypeOK
<1>2. row[at].attempt # 0
  BY DEF Record, Inv, Begun
<1>3. \A o \in Order : row'[o].attempt = row[o].attempt
  BY <1>1
<1>4. FinalStatesTrue'
  BY <1>1 DEF Record, Inv, FinalStatesTrue, Truthful
<1>5. Numbered' /\ Counted'
  BY <1>1, <1>2 DEF Inv, Numbered, Counted
<1>6. Begun' /\ Asking' /\ Truthful'
  <2>1. CASE Settle
    <3>1. step' = "next"
      BY <2>1 DEF Settle, Start
    <3>2. Asking' /\ Truthful'
      BY <3>1 DEF Asking, Truthful
    <3>3. CASE job = "submit" /\ evidence \in {"rejected", "reconciliation_required"}
      <4>1. \A o \in todo' : o \in Order /\ row'[o].state = "open"
        BY <2>1, <3>3 DEF Settle, Start, Compensation
      <4> QED BY <3>1, <3>2, <4>1, <1>5 DEF Numbered, Begun
    <3>4. CASE ~(job = "submit" /\ evidence \in {"rejected", "reconciliation_required"})
      <4>1. job' = job /\ todo' = todo \ {at}
        BY <2>1, <3>4 DEF Settle, Start
      <4> QED BY <3>1, <3>2, <4>1, <1>3 DEF Inv, TypeOK, Begun
    <3> QED BY <3>3, <3>4
  <2>2. CASE To("confirm")
    BY <2>2, <1>2, <1>3 DEF To, Inv, TypeOK, Begun, Asking, Truthful
  <2> QED BY <2>1, <2>2 DEF Record
<1> QED BY <1>4, <1>5, <1>6 DEF Inv

LEMMA InvNext == Inv /\ [Next]_vars => Inv'
<1> SUFFICES ASSUME Inv, [Next]_vars PROVE Inv'
  OBVIOUS
<1>1. TypeOK'
  BY TypeNext DEF Inv
<1>2. CASE Calls
  BY <1>1, <1>2, CallsKeep
<1>3. CASE Loop
  BY <1>1, <1>3, LoopKeeps
<1>4. CASE Finish
  BY <1>1, <1>4, StartKeeps DEF Finish, Return, audit, exchange
<1>5. CASE Route
  BY <1>1, <1>5, RouteKeeps
<1>6. CASE Confirm
  BY <1>1, <1>6, ConfirmKeeps
<1>7. CASE Record
  BY <1>1, <1>7, RecordKeeps
<1>8. CASE Crash
  <2> DEFINE orders == {o \in Order : row[o].state \in Nonterminal}
  <2>1. Start("reconcile", orders) \/ Start("none", {})
    BY <1>8 DEF Crash, Return
  <2>2. UNCHANGED <<row, exch, accepted>>
    BY <1>8 DEF Crash, audit, exchange
  <2>3. orders \in SUBSET Order /\ \A o \in orders : row[o].attempt # 0
    BY Attempted
  <2> HIDE DEF orders
  <2>4. CASE Start("reconcile", orders)
    BY <1>1, <2>2, <2>3, <2>4, StartKeeps
  <2>5. CASE Start("none", {})
    BY <1>1, <2>2, <2>5, StartKeeps
  <2> QED BY <2>1, <2>4, <2>5
<1>9. ASSUME NEW o \in Order, Move(o) PROVE Inv'
  <2>1. /\ exch[o] = "open" /\ exch'[o] \in {"filled", "ended"}
        /\ \A p \in Order : p # o => exch'[p] = exch[p]
    BY <1>9 DEF Move, Inv, TypeOK
  <2>2. UNCHANGED <<row, accepted, call>>
    BY <1>9 DEF Move, audit
  <2>3. FinalStatesTrue' /\ Numbered' /\ Counted'
    BY <2>1, <2>2 DEF Inv, FinalStatesTrue, Numbered, Counted
  <2>4. Begun' /\ Asking' /\ Truthful'
    BY <2>1, <2>2 DEF call, Inv, TypeOK, Begun, Asking, Truthful
  <2> QED BY <1>1, <2>3, <2>4 DEF Inv
<1>10. CASE UNCHANGED vars
  BY <1>1, <1>10 DEF vars, audit, exchange, call, Inv, FinalStatesTrue, Numbered, Counted, Begun, Asking, Truthful
<1> QED BY <1>2, <1>3, <1>4, <1>5, <1>6, <1>7, <1>8, <1>9, <1>10 DEF Next

(* Every final state in the audit store is what the exchange says, whatever  *)
(* reply is lost and whenever the process dies: _submit_with_query_first,    *)
(* _reconcile_order and _cancel_and_reconcile never record a guess as final. *)
THEOREM FinalStatesCorrect == Spec => []FinalStatesTrue
<1>1. Inv => FinalStatesTrue
  BY DEF Inv
<1> QED BY <1>1, InvInit, InvNext, PTL DEF Spec

(* A client order id never leads to two orders at the exchange: a create is  *)
(* sent only where the exchange knows no order under the id.                 *)
THEOREM OneOrderPerId == Spec => []NoDuplicate
<1>1. Inv => NoDuplicate
  BY DEF Inv, Counted, NoDuplicate
<1> QED BY <1>1, InvInit, InvNext, PTL DEF Spec

-----------------------------------------------------------------------------
(* One batch is active: the inductive invariant says in addition that the    *)
(* orders a call treats belong to one batch, and that no other is active.    *)
Treated == todo \cup (IF step = "next" THEN {} ELSE {at})

Focus == \A o \in Treated : \A b \in Batch : Active(b) => b = o[1]

OneBatch == \A o, p \in Treated : o[1] = p[1]

SerialInv == TypeOK /\ OneActiveBatch /\ Focus /\ OneBatch

\* A step that changes at most the row of an order the call treats.
LEMMA FocusKeeps ==
    ASSUME SerialInv, TypeOK', NEW x \in Treated,
           \A o \in Order : o # x => row'[o] = row[o],
           \A o \in Treated' : o[1] = x[1]
    PROVE SerialInv'
<1>1. \A b \in Batch : Active(b)' => b = x[1]
  <2> SUFFICES ASSUME NEW b \in Batch, Active(b)' PROVE b = x[1]
    OBVIOUS
  <2>1. PICK o \in Order : o[1] = b /\ row'[o].state \in Nonterminal
    BY DEF Active
  <2>2. CASE o = x
    BY <2>1, <2>2
  <2>3. CASE o # x
    <3>1. Active(b)
      BY <2>1, <2>3 DEF Active
    <3> QED BY <3>1 DEF SerialInv, Focus
  <2> QED BY <2>2, <2>3
<1>2. OneActiveBatch'
  BY <1>1 DEF OneActiveBatch
<1>3. Focus' /\ OneBatch'
  BY <1>1 DEF Focus, OneBatch
<1> QED BY <1>2, <1>3 DEF SerialInv

\* A step that leaves the rows alone and treats no other orders than before.
LEMMA CalmKeeps ==
    ASSUME SerialInv, TypeOK', UNCHANGED row, Treated' \subseteq Treated
    PROVE SerialInv'
<1>1. \A b \in Batch : Active(b)' <=> Active(b)
  BY DEF Active
<1> QED BY <1>1 DEF SerialInv, OneActiveBatch, Focus, OneBatch

\* A step that starts a call, or returns from it.
LEMMA StartSerial ==
    ASSUME SerialInv, TypeOK', NEW kind, NEW orders \in SUBSET Order,
           Start(kind, orders), UNCHANGED row,
           \A o \in orders : \A b \in Batch : Active(b) => b = o[1],
           \A o, p \in orders : o[1] = p[1]
    PROVE SerialInv'
<1>1. \A b \in Batch : Active(b)' <=> Active(b)
  BY DEF Active
<1>2. Treated' = orders
  BY DEF Treated, Start
<1> QED BY <1>1, <1>2 DEF SerialInv, OneActiveBatch, Focus, OneBatch

\* The orders that are not final belong to the one active batch.
LEMMA NonterminalOrders ==
    ASSUME SerialInv, NEW orders \in SUBSET Order,
           \A o \in orders : row[o].state \in Nonterminal
    PROVE /\ \A o \in orders : \A b \in Batch : Active(b) => b = o[1]
          /\ \A o, p \in orders : o[1] = p[1]
<1>1. \A o \in orders : o[1] \in Batch /\ Active(o[1])
  BY DEF Active, Order
<1> QED BY <1>1 DEF SerialInv, OneActiveBatch

LEMMA SerialCalls == ASSUME SerialInv, TypeOK', Calls PROVE SerialInv'
<1> USE DEF audit, exchange
<1>1. ASSUME NEW b \in Batch, Submit(b) PROVE SerialInv'
  <2> DEFINE orders == {o \in Order : o[1] = b}
  <2>1. /\ Start("submit", orders) /\ UNCHANGED row
        /\ \A c \in Batch : Active(c) => c = b
    BY <1>1 DEF Submit
  <2>2. orders \in SUBSET Order /\ \A o \in orders : o[1] = b
    OBVIOUS
  <2> HIDE DEF orders
  <2> QED BY <2>1, <2>2, StartSerial
<1>2. ASSUME NEW b \in Batch, Reconcile(b) PROVE SerialInv'
  <2> DEFINE orders == {o \in Order : o[1] = b /\ row[o].state \in Nonterminal}
  <2>1. Start("reconcile", orders) /\ UNCHANGED row
    BY <1>2 DEF Reconcile
  <2>2. orders \in SUBSET Order /\ \A o \in orders : row[o].state \in Nonterminal
    OBVIOUS
  <2> HIDE DEF orders
  <2> QED BY <2>1, <2>2, NonterminalOrders, StartSerial
<1>3. ASSUME NEW o \in Order, Cancel(o) PROVE SerialInv'
  <2>1. Start("cancel", {o}) /\ UNCHANGED row
    BY <1>3 DEF Cancel
  <2>2. {o} \in SUBSET Order /\ \A p \in {o} : row[p].state \in Nonterminal
    BY <1>3 DEF Cancel
  <2> QED BY <2>1, <2>2, NonterminalOrders, StartSerial
<1>4. CASE Trigger
  <2> DEFINE orders == {o \in Order : Open(o)}
  <2>1. Start("cancel", orders) /\ UNCHANGED row
    BY <1>4 DEF Trigger
  <2>2. orders \in SUBSET Order /\ \A o \in orders : row[o].state \in Nonterminal
    BY DEF Open, Nonterminal
  <2> HIDE DEF orders
  <2> QED BY <2>1, <2>2, NonterminalOrders, StartSerial
<1>5. CASE Reset
  BY <1>5, CalmKeeps DEF Reset, call, Treated
<1> QED BY <1>1, <1>2, <1>3, <1>4, <1>5 DEF Calls

LEMMA SerialLoop == ASSUME SerialInv, TypeOK', Loop PROVE SerialInv'
<1> USE DEF audit, exchange
<1>1. ASSUME NEW o \in Order, Skip(o) PROVE SerialInv'
  BY <1>1, CalmKeeps DEF Skip, Treated
<1>2. ASSUME NEW o \in Order, Stop(o) PROVE SerialInv'
  BY <1>2, CalmKeeps DEF Stop, Return, Start, Treated
<1>3. ASSUME NEW o \in Order, Send(o) PROVE SerialInv'
  <2>1. o \in Treated
    BY <1>3 DEF Send, Turn, Treated
  <2>2. \A p \in Order : p # o => row'[p] = row[p]
    BY <1>3 DEF Send, Pend, SerialInv, TypeOK
  <2>3. Treated' \subseteq Treated
    BY <1>3, <2>1 DEF Send, Treated
  <2>4. \A p \in Treated' : p[1] = o[1]
    BY <2>1, <2>3 DEF SerialInv, OneBatch
  <2> QED BY <2>1, <2>2, <2>4, FocusKeeps
<1>4. ASSUME NEW o \in Order, Treat(o) PROVE SerialInv'
  BY <1>4, CalmKeeps DEF Treat, Turn, Treated
<1> QED BY <1>1, <1>2, <1>3, <1>4 DEF Loop

LEMMA SerialRecord == ASSUME SerialInv, TypeOK', Record PROVE SerialInv'
<1>1. at \in Treated /\ at \in Order
  BY DEF Record, Treated, SerialInv, TypeOK
<1>2. \A p \in Order : p # at => row'[p] = row[p]
  BY DEF Record, SerialInv, TypeOK
<1>3. \A o \in Treated : o[1] = at[1]
  BY <1>1 DEF SerialInv, OneBatch
<1>4. \A o \in Treated' : o[1] = at[1]
  <2>1. CASE Settle
    <3>1. CASE job = "submit" /\ evidence \in {"rejected", "reconciliation_required"}
      BY <2>1, <3>1 DEF Settle, Start, Compensation, Treated
    <3>2. CASE ~(job = "submit" /\ evidence \in {"rejected", "reconciliation_required"})
      BY <2>1, <3>2, <1>3 DEF Settle, Start, Treated
    <3> QED BY <3>1, <3>2
  <2>2. CASE To("confirm")
    BY <2>2, <1>3 DEF Record, To, Treated
  <2> QED BY <2>1, <2>2 DEF Record
<1> QED BY <1>1, <1>2, <1>4, FocusKeeps

LEMMA SerialNext == SerialInv /\ [Next]_vars => SerialInv'
<1> SUFFICES ASSUME SerialInv, [Next]_vars PROVE SerialInv'
  OBVIOUS
<1>1. TypeOK'
  BY TypeNext DEF SerialInv
<1>2. CASE Calls
  BY <1>1, <1>2, SerialCalls
<1>3. CASE Loop
  BY <1>1, <1>3, SerialLoop
<1>4. CASE Finish
  BY <1>1, <1>4, CalmKeeps DEF Finish, Return, Start, Treated, audit
<1>5. CASE Route
  BY <1>1, <1>5, CalmKeeps
     DEF Route, Query, Create, CreateFails, Ask, CancelCall, Answer, To, Treated, audit
<1>6. CASE Confirm
  <2>1. CASE ConfirmKnown \/ ConfirmUnknown
    BY <1>1, <2>1, CalmKeeps DEF ConfirmKnown, ConfirmUnknown, Answer, Treated, audit
  <2>2. CASE Resend
    <3>1. at \in Treated
      BY <2>2 DEF Resend, Treated
    <3>2. \A p \in Order : p # at => row'[p] = row[p]
      BY <2>2 DEF Resend, Pend, SerialInv, TypeOK
    <3>3. Treated' \subseteq Treated
      BY <2>2 DEF Resend, To, Treated
    <3>4. \A p \in Treated' : p[1] = at[1]
      BY <3>1, <3>3 DEF SerialInv, OneBatch
    <3> QED BY <1>1, <3>1, <3>2, <3>4, FocusKeeps
  <2> QED BY <1>6, <2>1, <2>2 DEF Confirm
<1>7. CASE Record
  BY <1>1, <1>7, SerialRecord
<1>8. CASE Crash
  <2> DEFINE orders == {o \in Order : row[o].state \in Nonterminal}
  <2>1. Start("reconcile", orders) \/ Start("none", {})
    BY <1>8 DEF Crash, Return
  <2>2. UNCHANGED row
    BY <1>8 DEF Crash, audit
  <2>3. orders \in SUBSET Order /\ \A o \in orders : row[o].state \in Nonterminal
    OBVIOUS
  <2> HIDE DEF orders
  <2>4. CASE Start("reconcile", orders)
    BY <1>1, <2>2, <2>3, <2>4, NonterminalOrders, StartSerial
  <2>5. CASE Start("none", {})
    BY <1>1, <2>2, <2>5, StartSerial
  <2> QED BY <2>1, <2>4, <2>5
<1>9. ASSUME NEW o \in Order, Move(o) PROVE SerialInv'
  BY <1>1, <1>9, CalmKeeps DEF Move, audit, call, Treated
<1>10. CASE UNCHANGED vars
  BY <1>1, <1>10, CalmKeeps DEF vars, audit, call, Treated
<1> QED BY <1>2, <1>3, <1>4, <1>5, <1>6, <1>7, <1>8, <1>9, <1>10 DEF Next

(* At most one batch has orders that are not final, however many there are,  *)
(* because submit asks for every other batch under the lock and no other     *)
(* call touches a final order of another batch.                              *)
THEOREM OneBatchActive == Spec => []OneActiveBatch
<1>1. Init => SerialInv
  <2> SUFFICES ASSUME Init PROVE SerialInv
    OBVIOUS
  <2>1. \A b \in Batch : ~Active(b)
    BY DEF Init, Active, Nonterminal
  <2>2. Treated = {}
    BY DEF Init, Treated
  <2> QED BY <2>1, <2>2, TypeInit DEF SerialInv, OneActiveBatch, Focus, OneBatch
<1>2. SerialInv => OneActiveBatch
  BY DEF SerialInv
<1> QED BY <1>1, <1>2, SerialNext, PTL DEF Spec

-----------------------------------------------------------------------------
(* What a submission knows of its batch.                                     *)

\* An order that is authorized has never been attempted.
Unattempted == \A o \in Order : row[o].state = "authorized" => row[o].attempt = 0

Placed == {"open", "filled", "ended"}

\* A submission runs without the kill switch, has no rejected order before it,
\* and has placed what comes before its orders in the batch.
Submitting ==
    job = "submit" =>
        /\ ~killed
        /\ step # "next" => at \in todo
        /\ \A o \in todo : row[o].state # "rejected"
        /\ \A o \in todo, p \in Order \ todo :
              p[1] = o[1] /\ p[2] < o[2] => row[p].state \in Placed

SubmitInv == Inv /\ Unattempted /\ Submitting

(* Only three steps write a row, each the row of one order.                  *)
LEMMA RowSteps ==
    ASSUME Inv, [Next]_vars
    PROVE  \/ row' = row
           \/ \E o \in Order : Send(o)
           \/ Resend
           \/ Record
<1> USE DEF audit, exchange
<1>1. CASE Calls
  BY <1>1 DEF Calls, Submit, Reconcile, Cancel, Trigger, Reset
<1>2. CASE Loop
  BY <1>2 DEF Loop, Skip, Stop, Treat
<1>3. CASE Route \/ Confirm
  BY <1>3 DEF Route, Query, Create, CreateFails, Ask, CancelCall, Confirm,
     ConfirmKnown, ConfirmUnknown
<1>4. CASE Finish \/ Crash \/ UNCHANGED vars
  BY <1>4 DEF Finish, Crash, vars
<1>5. ASSUME NEW o \in Order, Move(o) PROVE row' = row
  BY <1>5 DEF Move
<1> QED BY <1>1, <1>2, <1>3, <1>4, <1>5 DEF Next

LEMMA SendRow ==
    ASSUME TypeOK, NEW o \in Order, Send(o)
    PROVE  /\ row'[o] = [state |-> "submission_pending", attempt |-> row[o].attempt + 1]
           /\ \A p \in Order : p # o => row'[p] = row[p]
           /\ o \in todo /\ job = "submit" /\ step = "next"
           /\ at' = o /\ UNCHANGED <<job, todo, killed>>
BY DEF Send, Turn, Pend, TypeOK

LEMMA ResendRow ==
    ASSUME TypeOK, Resend
    PROVE  /\ row'[at] = [state |-> "submission_pending", attempt |-> row[at].attempt + 1]
           /\ \A p \in Order : p # at => row'[p] = row[p]
           /\ row[at].state # "authorized" /\ row[at].attempt < 2
           /\ at \in Order /\ step = "confirm" /\ step' = "query"
           /\ UNCHANGED <<job, todo, at, killed>>
BY DEF Resend, Retryable, Pend, To, TypeOK

LEMMA RecordRow ==
    ASSUME Inv, Record
    PROVE  /\ row'[at] = [state |-> evidence, attempt |-> row[at].attempt]
           /\ \A p \in Order : p # at => row'[p] = row[p]
           /\ row[at].attempt # 0 /\ at \in Order /\ step = "record"
           /\ evidence \in State \ {"authorized", "submission_pending"}
           /\ UNCHANGED killed
BY DEF Record, Inv, TypeOK, Begun, Truthful

LEMMA UnattemptedNext == ASSUME Inv, Unattempted, [Next]_vars PROVE Unattempted'
<1>1. TypeOK
  BY DEF Inv
<1>2. CASE row' = row
  BY <1>2 DEF Unattempted
<1>3. ASSUME NEW o \in Order, Send(o) PROVE Unattempted'
  <2>1. /\ row'[o] = [state |-> "submission_pending", attempt |-> row[o].attempt + 1]
        /\ \A p \in Order : p # o => row'[p] = row[p]
    BY <1>1, <1>3, SendRow
  <2> QED BY <2>1 DEF Unattempted
<1>4. CASE Resend
  BY <1>1, <1>4, ResendRow DEF Unattempted
<1>5. CASE Record
  BY <1>5, RecordRow DEF Unattempted
<1> QED BY <1>2, <1>3, <1>4, <1>5, RowSteps

(* A step of a submission that writes only the rows of orders it still has   *)
(* to treat, and rejects none of them.                                       *)
LEMMA SubmittingKept ==
    ASSUME Submitting, UNCHANGED <<job, todo>>,
           job = "submit" =>
               /\ killed' = killed
               /\ step' # "next" => at' \in todo
               /\ \A o \in Order : \/ row'[o] = row[o]
                                   \/ o \in todo /\ row'[o].state # "rejected",
           todo \subseteq Order
    PROVE  Submitting'
<1> SUFFICES ASSUME job = "submit" PROVE Submitting'
  BY DEF Submitting
<1>1. \A o \in todo : row'[o].state # "rejected"
  BY DEF Submitting
<1>2. \A p \in Order \ todo : row'[p] = row[p]
  OBVIOUS
<1> QED BY <1>1, <1>2 DEF Submitting

LEMMA SubmittingNext == SubmitInv /\ [Next]_vars => SubmitInv'
<1> SUFFICES ASSUME SubmitInv, [Next]_vars PROVE Submitting'
  BY InvNext, UnattemptedNext DEF SubmitInv
<1> USE DEF audit, exchange
<1>now. Inv /\ TypeOK /\ Submitting /\ todo \subseteq Order
  BY DEF SubmitInv, Inv, TypeOK
<1>other. ASSUME job' # "submit" PROVE Submitting'
  BY <1>other DEF Submitting
<1>1. ASSUME NEW b \in Batch, Submit(b) PROVE Submitting'
  <2>1. /\ ~killed' /\ step' = "next" /\ todo' = {o \in Order : o[1] = b}
        /\ \A o \in Order : o[1] = b => row'[o].state # "rejected"
    BY <1>1 DEF Submit, Start
  <2> QED BY <2>1 DEF Submitting
<1>2. CASE (\E b \in Batch : Reconcile(b)) \/ (\E o \in Order : Cancel(o)) \/ Trigger
           \/ Finish \/ Crash \/ (\E o \in Order : Stop(o))
  <2>1. job' \in {"reconcile", "cancel", "none"}
    BY <1>2 DEF Reconcile, Cancel, Trigger, Finish, Crash, Stop, Return, Start
  <2> QED BY <2>1, <1>other
<1>3. CASE Reset \/ \E o \in Order : Treat(o)
  <2>1. job' # "submit"
    BY <1>3 DEF Reset, Treat, call
  <2> QED BY <2>1, <1>other
<1>4. ASSUME NEW o \in Order, Skip(o) PROVE Submitting'
  <2>1. /\ job = "submit" /\ job' = job /\ killed' = killed /\ row' = row
        /\ step = "next" /\ step' = step /\ o \in todo /\ todo' = todo \ {o}
        /\ row[o].state \in {"filled", "ended", "rejected", "open"}
    BY <1>4 DEF Skip, Turn
  <2>2. row[o].state \in Placed
    BY <2>1, <1>now DEF Submitting, Placed
  <2> QED BY <2>1, <2>2, <1>now DEF Submitting
<1>5. ASSUME NEW o \in Order, Send(o) PROVE Submitting'
  <2>1. /\ row'[o] = [state |-> "submission_pending", attempt |-> row[o].attempt + 1]
        /\ \A p \in Order : p # o => row'[p] = row[p]
        /\ o \in todo /\ at' = o /\ UNCHANGED <<job, todo, killed>>
    BY <1>5, <1>now, SendRow
  <2> QED BY <2>1, <1>now, SubmittingKept
<1>6. CASE Route \/ ConfirmKnown \/ ConfirmUnknown
  <2>1. /\ UNCHANGED <<row, killed, job, todo, at>> /\ step # "next"
    BY <1>6 DEF Route, Query, Create, CreateFails, Ask, CancelCall, ConfirmKnown,
       ConfirmUnknown, Answer, To
  <2>2. job = "submit" => at' \in todo
    BY <2>1, <1>now DEF Submitting
  <2> QED BY <2>1, <2>2, <1>now, SubmittingKept
<1>7. CASE Resend
  <2>1. /\ row'[at].state = "submission_pending" /\ step # "next"
        /\ \A p \in Order : p # at => row'[p] = row[p]
        /\ UNCHANGED <<job, todo, at, killed>>
    BY <1>7, <1>now, ResendRow
  <2>2. job = "submit" => at \in todo
    BY <2>1, <1>now DEF Submitting
  <2> QED BY <2>1, <2>2, <1>now, SubmittingKept
<1>8. CASE Record
  <2>1. /\ row'[at].state = evidence /\ at \in Order /\ step # "next"
        /\ \A p \in Order : p # at => row'[p] = row[p]
        /\ evidence \in State \ {"authorized", "submission_pending"}
        /\ killed' = killed
    BY <1>8, <1>now, RecordRow
  <2>2. job = "submit" => at \in todo
    BY <2>1, <1>now DEF Submitting
  <2>3. CASE To("confirm") /\ (job = "submit" => evidence # "rejected")
    BY <2>1, <2>2, <2>3, <1>now, SubmittingKept DEF To
  <2>4. CASE Settle
    <3>1. CASE job = "submit" /\ evidence \in {"rejected", "reconciliation_required"}
      BY <2>4, <3>1, <1>other DEF Settle, Start
    <3>2. CASE job = "submit" /\ evidence \notin {"rejected", "reconciliation_required"}
      <4>1. job' = job /\ todo' = todo \ {at} /\ step' = "next"
        BY <2>4, <3>2 DEF Settle, Start
      <4>2. row'[at].state \in Placed
        BY <2>1, <3>2 DEF State, Nonterminal, Placed
      <4> QED BY <2>1, <2>2, <3>2, <4>1, <4>2, <1>now DEF Submitting
    <3>3. CASE job # "submit"
      BY <2>4, <3>3, <1>other DEF Settle, Start
    <3> QED BY <3>1, <3>2, <3>3
  <2> QED BY <1>8, <2>3, <2>4 DEF Record
<1>9. CASE (\E o \in Order : Move(o)) \/ UNCHANGED vars
  <2>1. UNCHANGED <<row, killed, call>>
    BY <1>9 DEF Move, vars
  <2> QED BY <2>1, <1>now DEF Submitting, call
<1> QED BY <1>1, <1>2, <1>3, <1>4, <1>5, <1>6, <1>7, <1>8, <1>9
        DEF Next, Calls, Loop, Confirm

LEMMA SubmitInit == Init => SubmitInv
<1>1. Init => Unattempted /\ Submitting
  BY DEF Init, Unattempted, Submitting
<1> QED BY <1>1, InvInit DEF SubmitInv

(* An order leaves the state authorized only when a submission takes its     *)
(* turn.                                                                     *)
LEMMA OnlySendStarts ==
    ASSUME SubmitInv, [Next]_vars, NEW o \in Order,
           row[o].state = "authorized", row'[o].state # "authorized"
    PROVE  Send(o)
<1>now. Inv /\ TypeOK /\ row[o].attempt = 0
  BY DEF SubmitInv, Inv, Unattempted
<1>1. CASE row' = row
  BY <1>1
<1>2. ASSUME NEW p \in Order, Send(p) PROVE Send(o)
  BY <1>2, <1>now, SendRow
<1>3. CASE Resend
  BY <1>3, <1>now, ResendRow
<1>4. CASE Record
  BY <1>4, <1>now, RecordRow
<1> QED BY <1>1, <1>2, <1>3, <1>4, <1>now, RowSteps

(* An order is first submitted only when every earlier order of its batch is *)
(* known to be open or final, for any batch size and after any crash: the    *)
(* loop of submit ends at the first order that needs reconciliation, and a   *)
(* batch with a rejected order is never submitted again.                     *)
THEOREM SubmitsFailFast == Spec => FailFast
<1>1. SubmitInv /\ [Next]_vars =>
        [\A o \in Order :
            row[o].state = "authorized" /\ row'[o].state # "authorized" =>
                \A p \in Order : p[1] = o[1] /\ p[2] < o[2] =>
                    row[p].state \in {"open", "filled", "ended"}]_vars
  <2> SUFFICES ASSUME SubmitInv, [Next]_vars, NEW o \in Order, NEW p \in Order,
                      row[o].state = "authorized", row'[o].state # "authorized",
                      p[1] = o[1], p[2] < o[2]
               PROVE  row[p].state \in Placed
    BY DEF Placed
  <2>1. Send(o)
    BY OnlySendStarts
  <2>2. o \in todo /\ job = "submit" /\ \A q \in todo : q[1] = o[1] => o[2] <= q[2]
    BY <2>1 DEF Send, Turn
  <2>3. p \notin todo
    <3>1. o[2] \in Int /\ p[2] \in Int
      BY DEF Order
    <3> QED BY <2>2, <3>1
  <2> QED BY <2>2, <2>3 DEF SubmitInv, Submitting
<1> QED BY <1>1, SubmitInit, SubmittingNext, PTL DEF Spec, FailFast

(* While the kill switch is triggered no order leaves the state authorized,  *)
(* for any number of batches: the switch waits for the lock, and submit      *)
(* reads it under the lock.                                                  *)
THEOREM KilledStarts == Spec => KilledStartsNothing
<1>1. SubmitInv /\ [Next]_vars =>
        [killed => \A o \in Order :
            row[o].state = "authorized" => row'[o].state = "authorized"]_vars
  <2> SUFFICES ASSUME SubmitInv, [Next]_vars, killed, NEW o \in Order,
                      row[o].state = "authorized", row'[o].state # "authorized"
               PROVE  FALSE
    OBVIOUS
  <2>1. job = "submit"
    BY OnlySendStarts DEF Send
  <2> QED BY <2>1 DEF SubmitInv, Submitting
<1> QED BY <1>1, SubmitInit, SubmittingNext, PTL DEF Spec, KilledStartsNothing

-----------------------------------------------------------------------------
(* An order is sent at most twice, where the process recovers at its start.  *)

\* An order whose submission was not confirmed is in the hands of the call: the
\* one it submits, or one it reconciles.
Recovered ==
    /\ step # "next" => at \in todo /\ job # "none"
    /\ \A o \in Order : row[o].state = "submission_pending" =>
          /\ job \in {"submit", "reconcile"}
          /\ job = "submit" => step # "next" /\ o = at
          /\ job = "reconcile" => o \in todo

\* A request belongs to an attempt, and there are at most two attempts.
Limited ==
    /\ \A o \in Order : sent[o] <= row[o].attempt /\ row[o].attempt <= 2
    /\ step \in {"query", "create"} => sent[at] < row[at].attempt

RetryInv == SubmitInv /\ Recovered /\ Limited

NothingPending == \A o \in Order : row[o].state # "submission_pending"

(* Between two calls, and between two orders of a submission, no order waits *)
(* for a confirmation.                                                       *)
LEMMA PendingInHand ==
    ASSUME Recovered, step = "next",
           job \in {"none", "submit", "cancel"} \/ todo = {}
    PROVE  NothingPending
BY DEF Recovered, NothingPending

LEMMA RecoveredNext ==
    ASSUME RecoversAtStart, SubmitInv, Recovered, [Next]_vars PROVE Recovered'
<1> USE DEF audit, exchange
<1>now. Inv /\ TypeOK /\ at \in Order /\ todo \subseteq Order
  BY DEF SubmitInv, Inv, TypeOK
<1>start. ASSUME row' = row, step' = "next", NothingPending PROVE Recovered'
  BY <1>start DEF Recovered, NothingPending
<1>1. CASE \/ \E b \in Batch : Submit(b) \/ Reconcile(b)
           \/ \E o \in Order : Cancel(o)
           \/ Trigger
  <2>1. job = "none" /\ row' = row /\ step' = "next"
    BY <1>1 DEF Submit, Reconcile, Cancel, Trigger, Start
  <2> QED BY <2>1, <1>start, PendingInHand DEF Recovered
<1>2. CASE Reset \/ (\E o \in Order : Move(o)) \/ UNCHANGED vars
  <2>1. UNCHANGED <<row, call>>
    BY <1>2 DEF Reset, Move, vars
  <2> QED BY <2>1 DEF Recovered, call
<1>3. CASE Finish \/ \E o \in Order : Stop(o)
  <2>1. step = "next" /\ row' = row /\ step' = "next" /\ (job = "submit" \/ todo = {})
    BY <1>3 DEF Finish, Stop, Turn, Return, Start
  <2> QED BY <2>1, <1>start, PendingInHand
<1>4. CASE Crash
  <2>1. row' = row /\ step' = "next"
    BY <1>4 DEF Crash, Return, Start
  <2>2. CASE \E o \in Order : row[o].state \in Nonterminal
    <3>1. job' = "reconcile" /\ todo' = {o \in Order : row[o].state \in Nonterminal}
      BY <1>4, <2>2 DEF Crash, Start
    <3> QED BY <2>1, <3>1 DEF Recovered, Nonterminal
  <2>3. CASE \A o \in Order : row[o].state \notin Nonterminal
    BY <2>1, <2>3, <1>start DEF NothingPending, Nonterminal
  <2> QED BY <2>2, <2>3
<1>5. ASSUME NEW o \in Order, Skip(o) PROVE Recovered'
  <2>1. job = "submit" /\ step = "next" /\ row' = row /\ step' = "next"
    BY <1>5 DEF Skip, Turn
  <2> QED BY <2>1, <1>start, PendingInHand
<1>6. ASSUME NEW o \in Order, Treat(o) PROVE Recovered'
  BY <1>6 DEF Treat, Turn, Recovered
<1>7. ASSUME NEW o \in Order, Send(o) PROVE Recovered'
  <2>1. /\ \A p \in Order : p # o => row'[p] = row[p]
        /\ o \in todo /\ job = "submit" /\ step = "next"
        /\ at' = o /\ UNCHANGED <<job, todo>>
    BY <1>7, <1>now, SendRow
  <2>2. NothingPending
    BY <2>1, PendingInHand
  <2>3. step' # "next"
    BY <1>7 DEF Send
  <2> QED BY <2>1, <2>2, <2>3 DEF Recovered, NothingPending
<1>8. CASE Route \/ ConfirmKnown \/ ConfirmUnknown
  <2>1. UNCHANGED <<row, job, todo, at>> /\ step # "next" /\ step' # "next"
    BY <1>8 DEF Route, Query, Create, CreateFails, Ask, CancelCall, ConfirmKnown,
       ConfirmUnknown, Answer, To
  <2> QED BY <2>1 DEF Recovered
<1>9. CASE Resend
  <2>1. /\ \A p \in Order : p # at => row'[p] = row[p]
        /\ step = "confirm" /\ step' = "query" /\ UNCHANGED <<job, todo, at>>
    BY <1>9, <1>now, ResendRow
  <2>2. at \in todo /\ job \in {"submit", "reconcile"}
    BY <1>9, <2>1, <1>now DEF Resend, Retryable, Recovered, TypeOK, Jobs
  <2> QED BY <2>1, <2>2 DEF Recovered
<1>10. CASE Record
  <2>1. /\ row'[at].state # "submission_pending"
        /\ \A p \in Order : p # at => row'[p] = row[p]
        /\ step = "record"
    BY <1>10, <1>now, RecordRow
  <2>2. \A p \in Order : row'[p].state = "submission_pending" =>
            p # at /\ job = "reconcile" /\ p \in todo
    BY <2>1 DEF Recovered
  <2>3. CASE To("confirm")
    BY <2>1, <2>2, <2>3 DEF To, Recovered
  <2>4. CASE Settle
    <3>1. step' = "next" /\ (job = "reconcile" => job' = job /\ todo' = todo \ {at})
      BY <2>4 DEF Settle, Start
    <3> QED BY <2>2, <3>1 DEF Recovered
  <2> QED BY <1>10, <2>3, <2>4 DEF Record
<1> QED BY <1>1, <1>2, <1>3, <1>4, <1>5, <1>6, <1>7, <1>8, <1>9, <1>10
        DEF Next, Calls, Loop, Confirm

LEMMA LimitedNext == ASSUME RetryInv, [Next]_vars PROVE Limited'
<1> USE DEF audit, exchange
<1>now. Inv /\ TypeOK /\ Unattempted /\ Recovered /\ Limited
  BY DEF RetryInv, SubmitInv, Inv
<1>types. /\ at \in Order /\ \A o \in Order : sent[o] \in Nat /\ row[o].attempt \in Nat
  BY <1>now DEF TypeOK
\* A step that sends nothing and attempts nothing.
<1>quiet. ASSUME UNCHANGED sent, \A o \in Order : row'[o].attempt = row[o].attempt,
                 step' \in {"query", "create"} => at' = at /\ step \in {"query", "create"}
          PROVE  Limited'
  BY <1>quiet, <1>now, <1>types DEF Limited
<1>1. CASE Calls \/ Finish \/ Crash
  <2>1. UNCHANGED <<row, sent>> /\ (step' = "next" \/ UNCHANGED <<step, at>>)
    BY <1>1 DEF Calls, Submit, Reconcile, Cancel, Trigger, Reset, Finish, Crash, Return,
       Start, call
  <2> QED BY <2>1, <1>quiet
<1>2. ASSUME NEW o \in Order, Skip(o) \/ Stop(o) \/ Treat(o) PROVE Limited'
  <2>1. UNCHANGED <<row, sent>> /\ step' \in {"next", "cancel", "confirm"}
    BY <1>2 DEF Skip, Stop, Treat, Turn, Return, Start
  <2> QED BY <2>1, <1>quiet
\* The first attempt: an order that waits for its confirmation is never at the
\* turn of a submission.
<1>3. ASSUME NEW o \in Order, Send(o) PROVE Limited'
  <2>1. /\ row'[o] = [state |-> "submission_pending", attempt |-> row[o].attempt + 1]
        /\ \A p \in Order : p # o => row'[p] = row[p]
        /\ job = "submit" /\ step = "next" /\ at' = o
    BY <1>3, <1>now, SendRow
  <2>2. row[o].state = "authorized" /\ UNCHANGED sent
    BY <1>3, <2>1, <1>now, PendingInHand DEF Send, NothingPending
  <2>3. row[o].attempt = 0 /\ sent[o] = 0
    BY <2>2, <1>now, <1>types DEF Unattempted, Limited
  <2> QED BY <2>1, <2>2, <2>3, <1>now, <1>types DEF Limited
<1>4. CASE Query \/ Ask \/ CancelCall \/ ConfirmKnown \/ ConfirmUnknown
  <2>1. /\ UNCHANGED <<row, sent, at>>
        /\ step' = "record" \/ step = "query"
    BY <1>4 DEF Query, Ask, CancelCall, ConfirmKnown, ConfirmUnknown, Answer, To
  <2> QED BY <2>1, <1>quiet
<1>5. CASE Create \/ CreateFails
  <2>1. /\ step = "create" /\ step' \in {"record", "ask"} /\ row' = row
        /\ sent' = [sent EXCEPT ![at] = sent[at] + 1]
    BY <1>5 DEF Create, CreateFails, Answer, To
  <2>2. sent'[at] = sent[at] + 1 /\ \A o \in Order : o # at => sent'[o] = sent[o]
    BY <2>1, <1>now DEF TypeOK
  <2> QED BY <2>1, <2>2, <1>now, <1>types DEF Limited
<1>6. CASE Resend
  <2>1. /\ row'[at] = [state |-> "submission_pending", attempt |-> row[at].attempt + 1]
        /\ \A p \in Order : p # at => row'[p] = row[p]
        /\ row[at].attempt < 2 /\ at' = at
    BY <1>6, <1>now, ResendRow
  <2>2. UNCHANGED sent
    BY <1>6 DEF Resend
  <2> QED BY <2>1, <2>2, <1>now, <1>types DEF Limited
<1>7. CASE Record
  <2>1. UNCHANGED sent /\ step' \in {"next", "confirm"}
    BY <1>7 DEF Record, Settle, Start, To
  <2>2. \A o \in Order : row'[o].attempt = row[o].attempt
    BY <1>7, <1>now, RecordRow
  <2> QED BY <2>1, <2>2, <1>quiet
<1>8. CASE (\E o \in Order : Move(o)) \/ UNCHANGED vars
  <2>1. UNCHANGED <<row, sent, step, at>>
    BY <1>8 DEF Move, vars, call
  <2> QED BY <2>1, <1>quiet
<1> QED BY <1>1, <1>2, <1>3, <1>4, <1>5, <1>6, <1>7, <1>8 DEF Next, Loop, Route, Confirm

(* Where the process recovers at its start, as the local API does, an order  *)
(* is sent at most twice, however often the process dies: a restart puts     *)
(* every unconfirmed order into the hands of a reconciliation, which retries *)
(* once, before a submission could attempt it again.                         *)
THEOREM SentTwiceAtMost == RecoversAtStart => (Spec => []RetriedOnce)
<1> SUFFICES ASSUME RecoversAtStart PROVE Spec => []RetriedOnce
  OBVIOUS
<1>1. Init => RetryInv
  <2>1. Init => Recovered /\ Limited
    BY DEF Init, Recovered, Limited
  <2> QED BY <2>1, SubmitInit DEF RetryInv
<1>2. RetryInv /\ [Next]_vars => RetryInv'
  BY SubmittingNext, RecoveredNext, LimitedNext DEF RetryInv
<1>3. RetryInv => RetriedOnce
  <2> SUFFICES ASSUME RetryInv, NEW o \in Order PROVE sent[o] <= 2
    BY DEF RetriedOnce
  <2>1. sent[o] \in Nat /\ row[o].attempt \in Nat
    BY DEF RetryInv, SubmitInv, Inv, TypeOK
  <2> QED BY <2>1 DEF RetryInv, Limited
<1> QED BY <1>1, <1>2, <1>3, PTL DEF Spec
==============================================================================
