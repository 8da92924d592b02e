----------------------- MODULE AutoTradingPanelProofs -----------------------
(***************************************************************************)
(* Proofs about the automatic trading panel.  At most one request whose    *)
(* answer the client would still take is under way: a read and a command   *)
(* never are together, and neither outlives its page.  From that follow    *)
(* that what is shown never goes back, that the buttons stand for one      *)
(* command, and that a form nobody touched still holds what the service    *)
(* has.                                                                    *)
(***************************************************************************)
EXTENDS AutoTradingPanel, FiniteSetTheorems, TLAPS

(* A request under a number of its own: its answer is taken while it is    *)
(* live.  The gate's reads have none.                                      *)
Tracked(r) == r.live /\ r.by # "gate"

(* Nothing is seen before the service has been in that state. *)
Produced ==
    /\ \A r \in reads : r.seen <= Latest
    /\ \A w \in writes : w.version <= Latest
    /\ panel.shown <= Latest
    /\ shared <= Latest
    /\ floor <= Latest

(* At most one request is live, and it belongs to the page that is open. *)
Alone ==
    /\ \A r, s \in reads : Tracked(r) /\ Tracked(s) => r = s
    /\ \A v, w \in writes : v.live /\ w.live => v = w
    /\ \A r \in reads, w \in writes : ~(Tracked(r) /\ w.live)
    /\ \A r \in reads : Tracked(r) => (OfPanel(r) <=> Mounted)
    /\ \A w \in writes : w.live => Mounted

(* What it has seen is not older than what was shown before. *)
Newer ==
    /\ \A r \in reads : Tracked(r) /\ r.seen > 0 => floor <= r.seen
    /\ \A w \in writes : w.live /\ w.version > 0 => floor <= w.version

(* The buttons stand for the live command. *)
Flags ==
    /\ panel.inFlight <=> \E w \in writes : w.live
    /\ panel.busy <=> \E w \in writes : w.live /\ w.kind = "save"
    /\ panel.evaluating <=> \E w \in writes : w.live /\ w.kind = "evaluate"

(* A form as it was loaded, and a command sent from one, hold the          *)
(* configuration the service has.                                          *)
AsLoaded ==
    /\ clean => panel.draft = server[Latest].config
    /\ \A w \in writes : w.live /\ clean => w.clean
    /\ \A w \in writes :
           w.live /\ w.clean /\ w.version = 0 => w.config = server[Latest].config

Panel == [shown : View, draft : Config,
          busy : BOOLEAN, evaluating : BOOLEAN, inFlight : BOOLEAN]

PanelInv ==
    /\ TypeOK
    /\ Produced
    /\ Alone
    /\ Newer
    /\ Flags
    /\ AsLoaded

----------------------------------------------------------------------------
(* What the helpers do to the requests in flight *)

(* A superseded read stays in flight, no longer live; the others stay as   *)
(* they are.                                                               *)
LEMMA SupersededReads ==
    ASSUME reads \subseteq Read, NEW kinds,
           NEW s \in Superseded(kinds)
    PROVE  /\ s \in Read
           /\ s.live => s \in reads /\ s.by \notin kinds
           /\ \E r \in reads : s.seen = r.seen
BY DEF Superseded, Read

(* A page that is left abandons its commands. *)
LEMMA AbandonedWrites ==
    ASSUME writes \subseteq Command, NEW v \in Abandoned
    PROVE  /\ v \in Command
           /\ ~v.live
           /\ \E w \in writes : v.version = w.version
BY DEF Abandoned, Command

(* Somebody else's save changes only the mark of the commands in flight. *)
LEMMA UncleanWrites ==
    ASSUME NEW ws \in SUBSET Command
    PROVE  /\ \A v \in Unclean(ws) : 
                  /\ v \in Command
                  /\ ~v.clean
                  /\ \E w \in ws : /\ v = [w EXCEPT !.clean = FALSE]
                                   /\ v.live = w.live /\ v.kind = w.kind
                                   /\ v.version = w.version
           /\ \A w \in ws : \E v \in Unclean(ws) :
                  v.live = w.live /\ v.kind = w.kind
<1>1. \A w \in ws : LET v == [w EXCEPT !.clean = FALSE]
                   IN  /\ v \in Command
                       /\ ~v.clean
                       /\ v.live = w.live /\ v.kind = w.kind
                       /\ v.version = w.version
  BY DEF Command
<1>2. \A v \in Unclean(ws) : \E w \in ws : v = [w EXCEPT !.clean = FALSE]
  BY DEF Unclean
<1>3. \A w \in ws : [w EXCEPT !.clean = FALSE] \in Unclean(ws)
  BY DEF Unclean
<1>4. ASSUME NEW w \in ws
      PROVE  \E v \in Unclean(ws) : v.live = w.live /\ v.kind = w.kind
  BY <1>1, <1>3
<1>5. ASSUME NEW v \in Unclean(ws)
      PROVE  /\ v \in Command
             /\ ~v.clean
             /\ \E w \in ws : /\ v = [w EXCEPT !.clean = FALSE]
                              /\ v.live = w.live /\ v.kind = w.kind
                              /\ v.version = w.version
  <2>1. PICK w \in ws : v = [w EXCEPT !.clean = FALSE]
    BY <1>2
  <2>2. /\ v \in Command
        /\ ~v.clean
        /\ v.live = w.live /\ v.kind = w.kind
        /\ v.version = w.version
    BY <1>1, <2>1
  <2> QED BY <2>1, <2>2
<1> QED BY <1>4, <1>5

LEMMA Served ==
    ASSUME TypeOK
    PROVE  /\ Latest \in Version
           /\ Latest \in Nat /\ Latest > 0
           /\ server[Latest] \in ServerState
           /\ \A v \in Version : v <= Latest => server[v] \in ServerState
           /\ Version \subseteq View
           /\ View \subseteq Nat
<1>1. /\ server \in Seq(ServerState)
      /\ Len(server) \in 1 .. MaxVersions
  BY DEF TypeOK, Version
<1>2. /\ Len(server) \in Nat
      /\ Len(server) > 0
  BY <1>1, BoundAssumption
<1>3. \A v \in 1 .. Len(server) : server[v] \in ServerState
  BY <1>1
<1>4. /\ Version \subseteq View
      /\ View \subseteq Nat
  BY BoundAssumption DEF Version, View
<1>5. \A v \in Version : v <= Len(server) => v \in 1 .. Len(server)
  BY <1>2, BoundAssumption DEF Version
<1> QED BY <1>1, <1>2, <1>3, <1>4, <1>5 DEF Latest, Version

(* The three commands, put together *)
LEMMA Sends ==
    ASSUME Save \/ Pause \/ Evaluate
    PROVE  \E kind \in {"save", "evaluate"}, e \in BOOLEAN : Send(kind, e)
BY DEF Save, Pause, Evaluate

(* What the answer to a read does to the panel and to what is shared *)
LEMMA ReadOutcome ==
    ASSUME TypeOK, Produced, NEW r \in reads, ReadAnswered(r)
    PROVE  /\ reads' = reads \ {r}
           /\ UNCHANGED <<page, moves, server, writes, commands>>
           /\ panel' \in Panel
           /\ panel'.shown \in {panel.shown, r.seen}
           /\ panel'.inFlight = panel.inFlight
           /\ panel'.busy = panel.busy
           /\ panel'.evaluating = panel.evaluating
           /\ \/ Tracked(r) /\ Commit(r.seen)
              \/ UNCHANGED floor /\ gated' = TRUE /\ shared' = r.seen
              \/ UNCHANGED <<shared, gated, floor>>
           /\ \/ panel'.draft = panel.draft /\ UNCHANGED clean
              \/ /\ Tracked(r) /\ r.seen \in Version
                 /\ panel'.draft = server[r.seen].config
                 /\ clean' = (r.seen = Latest)
<1>0. /\ panel \in Panel
      /\ r \in Read
      /\ r.seen \in View
      /\ r.seen <= Latest
  BY DEF TypeOK, Panel, Produced, Read
<1>1. CASE LoadAnswered(r)
  <2>1. /\ r.seen \in Version
        /\ server[r.seen] \in ServerState
        /\ server[r.seen].config \in Config
    BY <1>0, <1>1, Served DEF LoadAnswered, Version, View, ServerState
  <2>2. panel' = [panel EXCEPT !.shown = r.seen, !.draft = server[r.seen].config]
    BY <1>1 DEF LoadAnswered, Filled, Showing
  <2>3. Tracked(r)
    BY <1>1 DEF LoadAnswered, Tracked, IsCurrent
  <2> QED BY <1>0, <1>1, <2>1, <2>2, <2>3 DEF LoadAnswered, ReadAnswered, Panel
<1>2. CASE RefreshAnswered(r)
  <2>1. Tracked(r)
    BY <1>2 DEF RefreshAnswered, Tracked, IsCurrent
  <2> QED BY <1>0, <1>2, <2>1 DEF RefreshAnswered, ReadAnswered, Showing, Panel
<1>3. CASE PanelReadFailed(r)
  <2>1. Tracked(r)
    BY <1>3 DEF PanelReadFailed, Tracked, IsCurrent, OfPanel
  <2> QED BY <1>0, <1>3, <2>1 DEF PanelReadFailed, ReadAnswered, Showing, Panel
<1>4. CASE RiskAnswered(r)
  BY <1>0, <1>4 DEF RiskAnswered, ReadAnswered, Tracked, IsCurrent, Commit
<1>5. CASE GateAnswered(r)
  BY <1>0, <1>5 DEF GateAnswered, ReadAnswered
<1>6. CASE GateCompletionFailed(r)
  BY <1>0, <1>6 DEF GateCompletionFailed, ReadAnswered
<1>7. CASE Dropped(r)
  BY <1>0, <1>7 DEF Dropped, ReadAnswered
<1> QED BY <1>1, <1>2, <1>3, <1>4, <1>5, <1>6, <1>7 DEF ReadAnswered

(* What the answer to a command does *)
LEMMA WriteOutcome ==
    ASSUME TypeOK, NEW w \in writes, WriteAnswered(w)
    PROVE  /\ writes' = writes \ {w}
           /\ UNCHANGED <<page, moves, server, reads, commands, clean>>
           /\ panel' \in Panel
           /\ panel'.draft = panel.draft
           /\ panel'.shown \in {panel.shown, w.version}
           /\ \/ ~w.live /\ UNCHANGED <<panel, shared, floor, gated>>
              \/ /\ w.live
                 /\ ~panel'.inFlight /\ ~panel'.busy /\ ~panel'.evaluating
                 /\ \/ w.version > 0 /\ Commit(w.version)
                    \/ UNCHANGED <<shared, floor, gated>>
<1>0. /\ panel \in Panel
      /\ w.version \in View
  BY DEF TypeOK, Panel, Command
<1>1. CASE SaveReturned(w)
  BY <1>0, <1>1 DEF SaveReturned, WriteAnswered, Free, Showing, Panel
<1>2. CASE EvaluateReturned(w)
  BY <1>0, <1>2 DEF EvaluateReturned, WriteAnswered, Free, Showing, Panel
<1>3. CASE WriteFailed(w)
  BY <1>0, <1>3 DEF WriteFailed, WriteAnswered, Free, Panel
<1>4. CASE LateReturn(w)
  BY <1>0, <1>4 DEF LateReturn, WriteAnswered
<1> QED BY <1>1, <1>2, <1>3, <1>4 DEF WriteAnswered

(* What the service does with a command: it is in a new state; the command *)
(* knows which one, and a save of somebody else marks the others.          *)
LEMMA ServedWrite ==
    ASSUME TypeOK, NEW w \in writes, ServeWrite(w)
    PROVE  \E s \in ServerState, v \in Command :
               /\ server' = Append(server, s)
               /\ w.kind = "evaluate" => s.config = server[Latest].config
               /\ w.kind = "save" => s.config = w.config
               /\ v.live = w.live /\ v.kind = w.kind /\ v.clean = w.clean
               /\ v.version = Latest + 1
               /\ writes' = (IF Foreign(w) THEN Unclean(writes \ {w})
                                           ELSE writes \ {w}) \cup {v}
<1>1. /\ w \in Command
      /\ w.kind = "save" \/ w.kind = "evaluate"
  BY DEF TypeOK, Command
<1>2. PICK s \in Became(w) : server' = Append(server, s)
  BY DEF ServeWrite
<1>3. /\ s \in ServerState
      /\ w.kind = "evaluate" => s.config = server[Latest].config
      /\ w.kind = "save" => s.config = w.config
  <2>1. CASE w.kind = "evaluate"
    <3>1. PICK e \in {server[Latest].enabled, FALSE} :
              s = [server[Latest] EXCEPT !.enabled = e]
      BY <1>2, <2>1 DEF Became
    <3> QED BY <2>1, <3>1, Served DEF ServerState
  <2>2. CASE w.kind = "save"
    <3>1. s = [config |-> w.config, enabled |-> w.enabled]
      BY <1>2, <2>2 DEF Became
    <3> QED BY <1>1, <2>2, <3>1 DEF ServerState, Command
  <2> QED BY <1>1, <2>1, <2>2
<1>4. Latest + 1 \in View
  BY Served, BoundAssumption DEF ServeWrite, Version, View
<1>5. PICK v : v = [w EXCEPT !.version = Latest + 1]
  OBVIOUS
<1>6. /\ v \in Command
      /\ v.live = w.live /\ v.kind = w.kind /\ v.clean = w.clean
      /\ v.version = Latest + 1
  BY <1>1, <1>4, <1>5 DEF Command
<1>7. writes' = (IF Foreign(w) THEN Unclean(writes \ {w})
                               ELSE writes \ {w}) \cup {v}
  BY <1>5 DEF ServeWrite
<1> QED BY <1>2, <1>3, <1>6, <1>7

----------------------------------------------------------------------------
(* The values the client holds *)

(* A new read has seen nothing and is live. *)
LEMMA NewReads ==
    ASSUME NEW by \in {"load", "refresh", "risk", "gate"}
    PROVE  /\ NewRead(by) \in Read
           /\ NewRead(by).by = by
           /\ NewRead(by).live = TRUE
           /\ NewRead(by).seen = 0
BY BoundAssumption DEF NewRead, Read, View

(* What is in flight when another page is opened *)
LEMMA OpenedPage ==
    ASSUME TypeOK, NEW p \in Page, OpenPage(p)
    PROVE  /\ panel' \in Panel
           /\ \A s \in reads' :
                  /\ s \in Read
                  /\ \/ s \in reads /\ s.by \notin (IF Mounted THEN PanelReads ELSE {"risk"})
                     \/ ~s.live
                     \/ s = NewRead(IF p = "console" THEN "load" ELSE "risk")
                  /\ s.seen = 0 \/ \E r \in reads : s.seen = r.seen
           /\ \A v \in writes' :
                  /\ v \in Command
                  /\ ~v.live
                  /\ \E w \in writes : v.version = w.version
<1>1. panel' \in Panel
  BY ConfigAssumption, BoundAssumption DEF OpenPage, Fresh, Panel, View
<1>2. \A s \in reads' : \/ s \in Superseded(IF Mounted THEN PanelReads ELSE {"risk"})
                        \/ s = NewRead(IF p = "console" THEN "load" ELSE "risk")
  BY DEF OpenPage, Left, FirstRead
<1>3. \A s \in Superseded(IF Mounted THEN PanelReads ELSE {"risk"}) :
          /\ s \in Read
          /\ s.live => /\ s \in reads
                       /\ s.by \notin (IF Mounted THEN PanelReads ELSE {"risk"})
          /\ \E r \in reads : s.seen = r.seen
  BY SupersededReads DEF TypeOK
<1>4. \A v \in writes' : /\ v \in Command
                         /\ ~v.live
                         /\ \E w \in writes : v.version = w.version
  BY AbandonedWrites DEF OpenPage, TypeOK
<1> QED BY <1>1, <1>2, <1>3, <1>4, NewReads

LEMMA TypeInit == Init => TypeOK /\ Produced /\ Newer
<1> SUFFICES ASSUME Init
             PROVE  TypeOK /\ Produced /\ Newer
  OBVIOUS
<1>1. PICK s \in Start : server = <<s>>
  BY DEF Init
<1>2. /\ server \in Seq(ServerState)
      /\ Len(server) = 1
  BY <1>1, StartAssumption
<1>3. 1 \in Version /\ 0 \in View
  BY BoundAssumption DEF Version, View
<1>4. panel \in Panel /\ panel.shown = 0
  BY <1>3, ConfigAssumption DEF Init, Fresh, Panel
<1>5. /\ reads \subseteq Read
      /\ \A r \in reads : r.seen = 0
  BY NewReads DEF Init, FirstRead
<1>6. TypeOK
  <2>1. 0 \in 0 .. MaxMoves /\ 0 \in 0 .. MaxCommands
    BY BoundAssumption
  <2> QED BY <1>2, <1>3, <1>4, <1>5, <2>1 DEF Init, TypeOK, Panel
<1> QED BY <1>2, <1>4, <1>5, <1>6 DEF Init, Produced, Newer, Latest

(* A state the service gets into is appended to those it has been in. *)
LEMMA ServerGrows ==
    ASSUME TypeOK, Latest < MaxVersions, NEW s \in ServerState,
           server' = Append(server, s)
    PROVE  /\ server' \in Seq(ServerState)
           /\ Latest' = Latest + 1
           /\ Latest' \in Version
           /\ server'[Latest'] = s
           /\ server'[Latest + 1] = s
<1>1. /\ server \in Seq(ServerState)
      /\ Len(server) \in Nat /\ Len(server) > 0
  BY Served DEF TypeOK, Latest
<1>2. /\ server' \in Seq(ServerState)
      /\ Len(server') = Len(server) + 1
      /\ server'[Len(server) + 1] = s
  BY <1>1
<1> QED BY <1>1, <1>2, BoundAssumption DEF Latest, Version

LEMMA TypeStep == TypeOK /\ Produced /\ [Next]_vars => TypeOK'
<1> SUFFICES ASSUME TypeOK, Produced, [Next]_vars
             PROVE  TypeOK'
  OBVIOUS
<1>a. /\ panel \in Panel
      /\ reads \subseteq Read
      /\ 0 \in View
  BY BoundAssumption DEF TypeOK, Panel, View
<1>1. ASSUME NEW p \in Page, OpenPage(p)
      PROVE  TypeOK'
  <2>1. /\ panel' \in Panel
        /\ reads' \subseteq Read
        /\ writes' \subseteq Command
    BY <1>1, OpenedPage
  <2>2. page' \in Page /\ moves' \in 0 .. MaxMoves
    BY <1>1, BoundAssumption DEF OpenPage, TypeOK
  <2> QED BY <1>1, <2>1, <2>2 DEF OpenPage, TypeOK, Panel
<1>2. ASSUME NEW c \in Config, EditDraft(c)
      PROVE  TypeOK'
  <2>1. panel' \in Panel /\ moves' \in 0 .. MaxMoves
    BY <1>2, <1>a, BoundAssumption DEF EditDraft, TypeOK, Panel
  <2> QED BY <1>2, <2>1 DEF EditDraft, TypeOK, Panel
<1>3. ASSUME NEW kind \in {"save", "evaluate"}, NEW e \in BOOLEAN, Send(kind, e)
      PROVE  TypeOK'
  <2>1. [kind |-> kind, config |-> panel.draft, enabled |-> e,
         clean |-> clean, live |-> TRUE, version |-> 0] \in Command
    BY <1>a DEF Command, TypeOK
  <2>2. reads' \subseteq Read
    BY <1>3, <1>a, SupersededReads DEF Send
  <2>3. panel' \in Panel
    BY <1>3, <1>a DEF Send, Panel
  <2>4. commands' \in 0 .. MaxCommands
    BY <1>3, BoundAssumption DEF Send, TypeOK
  <2> QED BY <1>3, <2>1, <2>2, <2>3, <2>4 DEF Send, TypeOK, Panel
<1>4. CASE GateLoads
  <2>1. reads' \subseteq Read
    BY <1>4, <1>a, NewReads DEF GateLoads
  <2>2. moves' \in 0 .. MaxMoves
    BY <1>4, BoundAssumption DEF GateLoads, TypeOK
  <2> QED BY <1>4, <1>a, <2>1, <2>2 DEF GateLoads, TypeOK
<1>5. CASE Poll
  <2>1. reads' \subseteq Read
    BY <1>5, <1>a, NewReads, SupersededReads DEF Poll
  <2> QED BY <1>5, <2>1 DEF Poll, TypeOK
<1>6. CASE RiskPoll
  <2>1. reads' \subseteq Read
    BY <1>6, <1>a, NewReads, SupersededReads DEF RiskPoll
  <2> QED BY <1>6, <2>1 DEF RiskPoll, TypeOK
<1>7. ASSUME NEW r \in reads, ServeRead(r)
      PROVE  TypeOK'
  <2>1. [r EXCEPT !.seen = Latest] \in Read
    BY <1>a, Served DEF Read
  <2> QED BY <1>7, <2>1 DEF ServeRead, TypeOK
<1>8. ASSUME NEW r \in reads, ReadAnswered(r)
      PROVE  TypeOK'
  <2>1. /\ reads' \subseteq reads
        /\ UNCHANGED <<page, moves, server, writes, commands>>
        /\ panel' \in Panel
        /\ clean' \in BOOLEAN
    BY <1>8, ReadOutcome DEF TypeOK
  <2>2. r.seen \in View
    BY <1>a DEF Read
  <2>3. shared' \in View /\ gated' \in BOOLEAN /\ floor' \in View
    BY <1>8, <2>2, ReadOutcome DEF Commit, NewFloor, TypeOK
  <2> QED BY <2>1, <2>3 DEF TypeOK, Panel
<1>9. ASSUME NEW w \in writes, ServeWrite(w)
      PROVE  TypeOK'
  <2>1. PICK s \in ServerState, v \in Command :
            /\ server' = Append(server, s)
            /\ writes' = (IF Foreign(w) THEN Unclean(writes \ {w})
                                        ELSE writes \ {w}) \cup {v}
    BY <1>9, ServedWrite
  <2>2. server' \in Seq(ServerState) /\ Len(server') \in Version
    BY <1>9, <2>1, ServerGrows DEF ServeWrite, Latest
  <2>3. writes' \subseteq Command
    BY <2>1, UncleanWrites DEF TypeOK
  <2>4. clean' \in BOOLEAN
    BY <1>9 DEF ServeWrite
  <2> QED BY <1>9, <2>2, <2>3, <2>4 DEF ServeWrite, TypeOK
<1>10. ASSUME NEW w \in writes, WriteAnswered(w)
       PROVE  TypeOK'
  <2>1. /\ writes' \subseteq writes
        /\ UNCHANGED <<page, moves, server, reads, commands, clean>>
        /\ panel' \in Panel
    BY <1>10, WriteOutcome
  <2>2. w.version \in View
    BY DEF TypeOK, Command
  <2>3. shared' \in View /\ gated' \in BOOLEAN /\ floor' \in View
    BY <1>10, <2>2, WriteOutcome DEF Commit, NewFloor, TypeOK
  <2> QED BY <2>1, <2>3 DEF TypeOK, Panel
<1>11. CASE RunnerStops
  <2>1. [server[Latest] EXCEPT !.enabled = FALSE] \in ServerState
    BY Served DEF ServerState
  <2>2. server' \in Seq(ServerState) /\ Len(server') \in Version
    BY <1>11, <2>1, ServerGrows DEF RunnerStops, Latest
  <2> QED BY <1>11, <2>2 DEF RunnerStops, TypeOK
<1>12. ASSUME NEW c \in Config, OtherSessionSaves(c)
       PROVE  TypeOK'
  <2>1. [config |-> c, enabled |-> TRUE] \in ServerState
    BY DEF ServerState
  <2>2. server' \in Seq(ServerState) /\ Len(server') \in Version
    BY <1>12, <2>1, ServerGrows DEF OtherSessionSaves, Latest
  <2>3. writes' \subseteq Command
    BY <1>12, UncleanWrites DEF OtherSessionSaves, TypeOK
  <2> QED BY <1>12, <2>2, <2>3 DEF OtherSessionSaves, TypeOK
<1>13. CASE UNCHANGED vars
  BY <1>13 DEF TypeOK, vars
<1> QED BY <1>1, <1>2, <1>3, <1>4, <1>5, <1>6, <1>7, <1>8, <1>9, <1>10,
           <1>11, <1>12, <1>13, Sends
        DEF Next, Operator, Reads, Writes, Others

----------------------------------------------------------------------------
(* Nothing seen before it was produced *)

(* The three ways the service gets into another state *)
LEMMA ServerMoves ==
    ASSUME TypeOK,
           \/ \E w \in writes : ServeWrite(w)
           \/ RunnerStops
           \/ \E c \in Config : OtherSessionSaves(c)
    PROVE  \E s \in ServerState : /\ server' = Append(server, s)
                                  /\ Latest < MaxVersions
                                  /\ Latest' = Latest + 1
                                  /\ server'[Latest'] = s
                                  /\ server'[Latest + 1] = s
<1>1. ASSUME NEW w \in writes, ServeWrite(w)
      PROVE  Latest < MaxVersions /\ \E s \in ServerState : server' = Append(server, s)
  BY <1>1, ServedWrite DEF ServeWrite
<1>2. ASSUME RunnerStops
      PROVE  Latest < MaxVersions /\ \E s \in ServerState : server' = Append(server, s)
  <2>1. [server[Latest] EXCEPT !.enabled = FALSE] \in ServerState
    BY Served DEF ServerState
  <2> QED BY <1>2, <2>1 DEF RunnerStops
<1>3. ASSUME NEW c \in Config, OtherSessionSaves(c)
      PROVE  Latest < MaxVersions /\ \E s \in ServerState : server' = Append(server, s)
  <2>1. [config |-> c, enabled |-> TRUE] \in ServerState
    BY DEF ServerState
  <2> QED BY <1>3, <2>1 DEF OtherSessionSaves
<1>4. Latest < MaxVersions /\ \E s \in ServerState : server' = Append(server, s)
  BY <1>1, <1>2, <1>3
<1> QED BY <1>4, ServerGrows

LEMMA ProducedStep == TypeOK /\ Produced /\ [Next]_vars => Produced'
<1> SUFFICES ASSUME TypeOK, Produced, [Next]_vars
             PROVE  Produced'
  OBVIOUS
<1>a. /\ Latest \in Nat
      /\ \A r \in reads : r.seen \in Nat
      /\ \A w \in writes : w.version \in Nat
      /\ panel.shown \in Nat /\ shared \in Nat /\ floor \in Nat
  BY Served DEF TypeOK, Read, Command, Panel
<1>b. server' = server => Latest' = Latest
  BY DEF Latest
<1>1. ASSUME NEW p \in Page, OpenPage(p)
      PROVE  Produced'
  <2>1. /\ \A s \in reads' : s.seen = 0 \/ \E r \in reads : s.seen = r.seen
        /\ \A v \in writes' : \E w \in writes : v.version = w.version
    BY <1>1, OpenedPage
  <2>2. panel'.shown = 0
    BY <1>1 DEF OpenPage, Fresh
  <2> QED BY <1>1, <1>a, <1>b, <2>1, <2>2 DEF OpenPage, Produced
<1>2. ASSUME NEW c \in Config, EditDraft(c)
      PROVE  Produced'
  BY <1>2, <1>a, <1>b DEF EditDraft, Produced, TypeOK
<1>3. ASSUME NEW kind \in {"save", "evaluate"}, NEW e \in BOOLEAN, Send(kind, e)
      PROVE  Produced'
  <2>1. \A s \in reads' : \E r \in reads : s.seen = r.seen
    BY <1>3, SupersededReads DEF Send, TypeOK
  <2>2. \A v \in writes' : v \in writes \/ v.version = 0
    BY <1>3 DEF Send
  <2>3. panel'.shown = panel.shown
    BY <1>3 DEF Send, TypeOK
  <2> QED BY <1>3, <1>a, <1>b, <2>1, <2>2, <2>3 DEF Send, Produced
<1>4. CASE GateLoads
  <2>1. \A s \in reads' : s \in reads \/ s.seen = 0
    BY <1>4, NewReads DEF GateLoads
  <2> QED BY <1>4, <1>a, <1>b, <2>1 DEF GateLoads, Produced
<1>5. CASE Poll
  <2>1. \A s \in reads' : s.seen = 0 \/ \E r \in reads : s.seen = r.seen
    BY <1>5, NewReads, SupersededReads DEF Poll, TypeOK
  <2> QED BY <1>5, <1>a, <1>b, <2>1 DEF Poll, Produced
<1>6. CASE RiskPoll
  <2>1. \A s \in reads' : s.seen = 0 \/ \E r \in reads : s.seen = r.seen
    BY <1>6, NewReads, SupersededReads DEF RiskPoll, TypeOK
  <2> QED BY <1>6, <1>a, <1>b, <2>1 DEF RiskPoll, Produced
<1>7. ASSUME NEW r \in reads, ServeRead(r)
      PROVE  Produced'
  <2>1. \A s \in reads' : s \in reads \/ s.seen = Latest
    BY <1>7 DEF ServeRead, TypeOK, Read
  <2> QED BY <1>7, <1>a, <1>b, <2>1 DEF ServeRead, Produced
<1>8. ASSUME NEW r \in reads, ReadAnswered(r)
      PROVE  Produced'
  <2>1. /\ reads' \subseteq reads
        /\ writes' = writes /\ Latest' = Latest
        /\ panel'.shown \in {panel.shown, r.seen}
        /\ shared' \in {shared, r.seen}
        /\ floor' \in {floor, r.seen}
    BY <1>8, <1>b, ReadOutcome DEF Commit, NewFloor
  <2> QED BY <2>1, <1>a DEF Produced
<1>9. ASSUME NEW w \in writes, WriteAnswered(w)
      PROVE  Produced'
  <2>1. /\ writes' \subseteq writes
        /\ reads' = reads /\ Latest' = Latest
        /\ panel'.shown \in {panel.shown, w.version}
        /\ shared' \in {shared, w.version}
        /\ floor' \in {floor, w.version}
    BY <1>9, <1>b, WriteOutcome DEF Commit, NewFloor
  <2> QED BY <2>1, <1>a DEF Produced
<1>10. ASSUME NEW w \in writes, ServeWrite(w)
       PROVE  Produced'
  <2>1. Latest' = Latest + 1
    BY <1>10, ServerMoves
  <2>2. \A v \in writes' : \/ \E u \in writes : v.version = u.version
                           \/ v.version = Latest + 1
    <3>1. PICK v \in Command :
              /\ v.version = Latest + 1
              /\ writes' = (IF Foreign(w) THEN Unclean(writes \ {w})
                                          ELSE writes \ {w}) \cup {v}
      BY <1>10, ServedWrite
    <3>2. \A x \in Unclean(writes \ {w}) : \E u \in writes : x.version = u.version
      BY UncleanWrites DEF TypeOK
    <3>3. \A x \in writes' : x = v \/ x \in Unclean(writes \ {w}) \/ x \in writes
      BY <3>1
    <3> QED BY <3>1, <3>2, <3>3
  <2>3. \A v \in writes' : v.version <= Latest'
    BY <1>a, <2>1, <2>2 DEF Produced
  <2>4. UNCHANGED <<panel, shared, reads, floor>>
    BY <1>10 DEF ServeWrite
  <2> QED BY <1>a, <2>1, <2>3, <2>4 DEF Produced
<1>11. CASE RunnerStops
  <2>1. Latest' = Latest + 1
    BY <1>11, ServerMoves
  <2> QED BY <1>11, <1>a, <2>1 DEF RunnerStops, Produced
<1>12. ASSUME NEW c \in Config, OtherSessionSaves(c)
       PROVE  Produced'
  <2>1. Latest' = Latest + 1
    BY <1>12, ServerMoves
  <2>2. \A v \in writes' : \E u \in writes : v.version = u.version
    BY <1>12, UncleanWrites DEF OtherSessionSaves, TypeOK
  <2> QED BY <1>12, <1>a, <2>1, <2>2 DEF OtherSessionSaves, Produced
<1>13. CASE UNCHANGED vars
  BY <1>13, <1>b DEF Produced, vars
<1> QED BY <1>1, <1>2, <1>3, <1>4, <1>5, <1>6, <1>7, <1>8, <1>9, <1>10,
           <1>11, <1>12, <1>13, Sends
        DEF Next, Operator, Reads, Writes, Others

----------------------------------------------------------------------------
(* At most one live request *)

LEMMA AloneStep == TypeOK /\ Alone /\ Flags /\ [Next]_vars => Alone'
<1> SUFFICES ASSUME TypeOK, Alone, Flags, [Next]_vars
             PROVE  Alone'
  OBVIOUS
<1>a. /\ reads \subseteq Read
      /\ \A r \in reads : r.by \in {"load", "refresh", "risk", "gate"}
  BY DEF TypeOK, Read
<1>b. page \in {"console", "portfolio"}
  BY DEF TypeOK, Page
<1>1. ASSUME NEW p \in Page, OpenPage(p)
      PROVE  Alone'
  <2>1. \A s \in reads' :
            \/ s \in reads /\ s.by \notin (IF Mounted THEN PanelReads ELSE {"risk"})
            \/ ~s.live
            \/ s = NewRead(IF p = "console" THEN "load" ELSE "risk")
    BY <1>1, OpenedPage
  <2>2. \A s \in reads' :
            Tracked(s) => s = NewRead(IF p = "console" THEN "load" ELSE "risk")
    BY <2>1, <1>a DEF Alone, Tracked, OfPanel, PanelReads
  <2>3. \A v \in writes' : ~v.live
    BY <1>1, OpenedPage
  <2>4. page' = p
    BY <1>1 DEF OpenPage
  <2>5. OfPanel(NewRead(IF p = "console" THEN "load" ELSE "risk")) <=> p = "console"
    BY NewReads DEF OfPanel
  <2> QED BY <2>2, <2>3, <2>4, <2>5 DEF Alone, Mounted, Tracked, OfPanel
<1>2. ASSUME NEW kind \in {"save", "evaluate"}, NEW e \in BOOLEAN, Send(kind, e)
      PROVE  Alone'
  <2>1. \A s \in reads' : s.live => s \in reads /\ s.by \notin PanelReads
    BY <1>2, <1>a, SupersededReads DEF Send
  <2>2. \A s \in reads' : ~Tracked(s)
    BY <1>2, <1>a, <2>1 DEF Send, MaySend, Alone, Tracked, OfPanel, PanelReads
  <2>3. /\ \A w \in writes : ~w.live
        /\ Mounted
        /\ page' = page
    BY <1>2 DEF Send, MaySend, Flags
  <2>4. PICK w : writes' = writes \cup {w}
    BY <1>2 DEF Send
  <2> QED BY <2>2, <2>3, <2>4 DEF Alone, Mounted
<1>3. CASE GateLoads
  <2>1. \A s \in reads' : s \in reads \/ ~Tracked(s)
    BY <1>3, NewReads DEF GateLoads, Tracked
  <2> QED BY <1>3, <2>1 DEF GateLoads, Alone, Mounted, Tracked, OfPanel
<1>4. CASE Poll
  <2>1. \A s \in reads' : \/ s.live => s \in reads /\ s.by \notin PanelReads
                          \/ s = NewRead("refresh")
    BY <1>4, <1>a, SupersededReads DEF Poll
  <2>2. \A s \in reads' : Tracked(s) => s = NewRead("refresh")
    BY <1>4, <1>a, <2>1 DEF Poll, Alone, Tracked, OfPanel, PanelReads
  <2>3. /\ \A w \in writes' : ~w.live
        /\ Mounted'
    BY <1>4 DEF Poll, Flags, Mounted
  <2>4. OfPanel(NewRead("refresh"))
    BY NewReads DEF OfPanel
  <2> QED BY <2>2, <2>3, <2>4 DEF Alone, Tracked, OfPanel
<1>5. CASE RiskPoll
  <2>1. \A s \in reads' : \/ s.live => s \in reads /\ s.by \notin {"risk"}
                          \/ s = NewRead("risk")
    BY <1>5, <1>a, SupersededReads DEF RiskPoll
  <2>2. \A s \in reads' : Tracked(s) => s = NewRead("risk")
    BY <1>5, <1>a, <1>b, <2>1 DEF RiskPoll, Alone, Tracked, OfPanel, Mounted
  <2>3. /\ \A w \in writes' : ~w.live
        /\ ~Mounted'
    BY <1>5 DEF RiskPoll, Alone, Mounted
  <2>4. ~OfPanel(NewRead("risk"))
    BY NewReads DEF OfPanel
  <2> QED BY <2>2, <2>3, <2>4 DEF Alone, Tracked, OfPanel
<1>6. ASSUME NEW r \in reads, ServeRead(r)
      PROVE  Alone'
  <2>0. PICK q : q = [r EXCEPT !.seen = Latest]
    OBVIOUS
  <2>1. /\ reads' = (reads \ {r}) \cup {q}
        /\ q.by = r.by /\ q.live = r.live
    BY <1>6, <1>a, <2>0 DEF ServeRead, Read
  <2>2. Mounted' <=> Mounted
    BY <1>6 DEF ServeRead, Mounted
  <2>3. writes' = writes
    BY <1>6 DEF ServeRead
  <2> QED BY <2>1, <2>2, <2>3 DEF Alone, Tracked, OfPanel
<1>7. ASSUME NEW r \in reads, ReadAnswered(r)
      PROVE  Alone'
  BY <1>7 DEF ReadAnswered, Alone, Mounted, Tracked, OfPanel
<1>8. ASSUME NEW w \in writes, ServeWrite(w)
      PROVE  Alone'
  <2>1. PICK v \in Command :
            /\ v.live = w.live
            /\ writes' = (IF Foreign(w) THEN Unclean(writes \ {w})
                                        ELSE writes \ {w}) \cup {v}
    BY <1>8, ServedWrite
  <2>2. \A x \in Unclean(writes \ {w}) :
            \E u \in writes \ {w} : x = [u EXCEPT !.clean = FALSE] /\ x.live = u.live
    BY UncleanWrites DEF TypeOK
  <2>3. \A x \in writes' :
            x.live => \/ x = v /\ w.live
                      \/ x \in writes \ {w}
                      \/ \E u \in writes \ {w} : x = [u EXCEPT !.clean = FALSE] /\ u.live
    BY <2>1, <2>2
  <2>4. \A x, y \in writes' : x.live /\ y.live => x = y
    <3>1. CASE w.live
      BY <2>3, <3>1 DEF Alone
    <3>2. CASE ~w.live /\ Foreign(w)
      <4> SUFFICES ASSUME NEW x \in writes', NEW y \in writes', x.live, y.live
                   PROVE  x = y
        OBVIOUS
      <4>1. x \in Unclean(writes \ {w}) /\ y \in Unclean(writes \ {w})
        BY <2>1, <3>2
      <4>2. PICK u \in writes \ {w} : x = [u EXCEPT !.clean = FALSE] /\ u.live
        BY <2>2, <4>1
      <4>3. PICK t \in writes \ {w} : y = [t EXCEPT !.clean = FALSE] /\ t.live
        BY <2>2, <4>1
      <4> QED BY <4>2, <4>3 DEF Alone
    <3>3. CASE ~w.live /\ ~Foreign(w)
      BY <2>1, <3>3 DEF Alone
    <3> QED BY <3>1, <3>2, <3>3
  <2>5. \A x \in writes' : x.live => \E u \in writes : u.live
    BY <2>3
  <2> QED BY <1>8, <2>4, <2>5 DEF ServeWrite, Alone, Mounted, Tracked, OfPanel
<1>9. ASSUME NEW w \in writes, WriteAnswered(w)
      PROVE  Alone'
  BY <1>9 DEF WriteAnswered, Alone, Mounted, Tracked, OfPanel
<1>10. ASSUME NEW c \in Config, OtherSessionSaves(c)
       PROVE  Alone'
  <2>1. \A x \in writes' :
            \E u \in writes : x = [u EXCEPT !.clean = FALSE] /\ x.live = u.live
    BY <1>10, UncleanWrites DEF OtherSessionSaves, TypeOK
  <2>2. \A x, y \in writes' : x.live /\ y.live => x = y
    BY <2>1 DEF Alone
  <2>3. \A x \in writes' : x.live => \E u \in writes : u.live
    BY <2>1
  <2>4. UNCHANGED <<page, reads>>
    BY <1>10 DEF OtherSessionSaves
  <2> QED BY <2>2, <2>3, <2>4 DEF Alone, Mounted, Tracked, OfPanel
<1>11. CASE UNCHANGED <<page, reads, writes>>
  BY <1>11 DEF Alone, Mounted, Tracked, OfPanel
<1> QED BY <1>1, <1>2, <1>3, <1>4, <1>5, <1>6, <1>7, <1>8, <1>9, <1>10, <1>11,
           Sends
        DEF Next, Operator, Reads, Writes, Others, EditDraft, RunnerStops, vars

----------------------------------------------------------------------------
(* A live request has seen nothing older than what was shown *)

LEMMA NewerStep == TypeOK /\ Produced /\ Alone /\ Newer /\ [Next]_vars => Newer'
<1> SUFFICES ASSUME TypeOK, Produced, Alone, Newer, [Next]_vars
             PROVE  Newer'
  OBVIOUS
<1>a. /\ reads \subseteq Read
      /\ Latest \in Nat
      /\ \A r \in reads : r.seen \in Nat
      /\ \A w \in writes : w.version \in Nat
      /\ floor \in Nat
      /\ floor <= Latest
  BY Served DEF TypeOK, Read, Command, Produced
<1>1. ASSUME NEW p \in Page, OpenPage(p)
      PROVE  Newer'
  <2>1. \A s \in reads' : s \in reads \/ ~s.live \/ s.seen = 0
    BY <1>1, OpenedPage, NewReads
  <2>2. \A v \in writes' : ~v.live
    BY <1>1, OpenedPage
  <2> QED BY <1>1, <2>1, <2>2 DEF OpenPage, Newer, Tracked
<1>2. ASSUME NEW kind \in {"save", "evaluate"}, NEW e \in BOOLEAN, Send(kind, e)
      PROVE  Newer'
  <2>1. \A s \in reads' : s.live => s \in reads
    BY <1>2, <1>a, SupersededReads DEF Send
  <2>2. \A v \in writes' : v \in writes \/ v.version = 0
    BY <1>2 DEF Send
  <2> QED BY <1>2, <2>1, <2>2 DEF Send, Newer, Tracked
<1>3. CASE GateLoads
  <2>1. \A s \in reads' : s \in reads \/ s.seen = 0
    BY <1>3, NewReads DEF GateLoads
  <2> QED BY <1>3, <2>1 DEF GateLoads, Newer, Tracked
<1>4. CASE Poll
  <2>1. \A s \in reads' : s.live => s \in reads \/ s.seen = 0
    BY <1>4, <1>a, NewReads, SupersededReads DEF Poll
  <2> QED BY <1>4, <2>1 DEF Poll, Newer, Tracked
<1>5. CASE RiskPoll
  <2>1. \A s \in reads' : s.live => s \in reads \/ s.seen = 0
    BY <1>5, <1>a, NewReads, SupersededReads DEF RiskPoll
  <2> QED BY <1>5, <2>1 DEF RiskPoll, Newer, Tracked
<1>6. ASSUME NEW r \in reads, ServeRead(r)
      PROVE  Newer'
  <2>1. \A s \in reads' : s \in reads \/ s.seen = Latest
    BY <1>6, <1>a DEF ServeRead, Read
  <2> QED BY <1>6, <1>a, <2>1 DEF ServeRead, Newer, Tracked
<1>7. ASSUME NEW r \in reads, ReadAnswered(r)
      PROVE  Newer'
  <2>1. /\ reads' = reads \ {r}
        /\ writes' = writes
        /\ Tracked(r) \/ floor' = floor
    BY <1>7, ReadOutcome
  <2>2. CASE Tracked(r)
    BY <2>1, <2>2 DEF Alone, Newer, Tracked
  <2>3. CASE floor' = floor
    BY <2>1, <2>3 DEF Newer, Tracked
  <2> QED BY <2>1, <2>2, <2>3
<1>8. ASSUME NEW w \in writes, ServeWrite(w)
      PROVE  Newer'
  <2>1. PICK v \in Command :
            /\ v.version = Latest + 1
            /\ writes' = (IF Foreign(w) THEN Unclean(writes \ {w})
                                        ELSE writes \ {w}) \cup {v}
    BY <1>8, ServedWrite
  <2>2. \A x \in Unclean(writes \ {w}) :
            \E u \in writes : x.version = u.version /\ x.live = u.live
    BY UncleanWrites DEF TypeOK
  <2>3. \A x \in writes' : \/ x.version = Latest + 1
                           \/ \E u \in writes : x.version = u.version /\ x.live = u.live
    BY <2>1, <2>2
  <2>4. \A x \in writes' : x.live /\ x.version > 0 => floor <= x.version
    BY <1>a, <2>3 DEF Newer
  <2> QED BY <1>8, <2>4 DEF ServeWrite, Newer, Tracked
<1>9. ASSUME NEW w \in writes, WriteAnswered(w)
      PROVE  Newer'
  <2>1. /\ writes' = writes \ {w}
        /\ reads' = reads
        /\ w.live \/ floor' = floor
    BY <1>9, WriteOutcome
  <2>2. CASE w.live
    BY <2>1, <2>2 DEF Alone, Newer, Tracked
  <2>3. CASE floor' = floor
    BY <2>1, <2>3 DEF Newer, Tracked
  <2> QED BY <2>1, <2>2, <2>3
<1>10. ASSUME NEW c \in Config, OtherSessionSaves(c)
       PROVE  Newer'
  <2>1. \A x \in writes' : \E u \in writes : x.version = u.version /\ x.live = u.live
    BY <1>10, UncleanWrites DEF OtherSessionSaves, TypeOK
  <2> QED BY <1>10, <2>1 DEF OtherSessionSaves, Newer, Tracked
<1>11. CASE UNCHANGED <<reads, writes, floor>>
  BY <1>11 DEF Newer, Tracked
<1> QED BY <1>1, <1>2, <1>3, <1>4, <1>5, <1>6, <1>7, <1>8, <1>9, <1>10, <1>11,
           Sends
        DEF Next, Operator, Reads, Writes, Others, EditDraft, RunnerStops, vars

----------------------------------------------------------------------------
(* The buttons *)

LEMMA FlagsStep == TypeOK /\ Produced /\ Alone /\ Flags /\ [Next]_vars => Flags'
<1> SUFFICES ASSUME TypeOK, Produced, Alone, Flags, [Next]_vars
             PROVE  Flags'
  OBVIOUS
<1>a. panel \in Panel
  BY DEF TypeOK, Panel
<1>1. ASSUME NEW p \in Page, OpenPage(p)
      PROVE  Flags'
  <2>1. /\ \A v \in writes' : ~v.live
        /\ ~panel'.inFlight /\ ~panel'.busy /\ ~panel'.evaluating
    BY <1>1, OpenedPage DEF OpenPage, Fresh
  <2> QED BY <2>1 DEF Flags
<1>2. ASSUME NEW kind \in {"save", "evaluate"}, NEW e \in BOOLEAN, Send(kind, e)
      PROVE  Flags'
  <2>1. /\ \A v \in writes : ~v.live
        /\ ~panel.busy /\ ~panel.evaluating
    BY <1>2 DEF Send, MaySend, Flags
  <2>a. PICK w : w = [kind |-> kind, config |-> panel.draft, enabled |-> e,
                     clean |-> clean, live |-> TRUE, version |-> 0]
    OBVIOUS
  <2>2. /\ writes' = writes \cup {w}
        /\ w.live /\ w.kind = kind
    BY <1>2, <2>a DEF Send
  <2>3. /\ panel'.inFlight
        /\ panel'.busy <=> kind = "save"
        /\ panel'.evaluating <=> kind = "evaluate"
    BY <1>2, <1>a, <2>1 DEF Send, Panel
  <2> QED BY <2>1, <2>2, <2>3 DEF Flags
<1>3. ASSUME NEW r \in reads, ReadAnswered(r)
      PROVE  Flags'
  BY <1>3, ReadOutcome DEF Flags
<1>4. ASSUME NEW w \in writes, ServeWrite(w)
      PROVE  Flags'
  <2>1. PICK v \in Command :
            /\ v.live = w.live /\ v.kind = w.kind
            /\ writes' = (IF Foreign(w) THEN Unclean(writes \ {w})
                                        ELSE writes \ {w}) \cup {v}
    BY <1>4, ServedWrite
  <2>2. /\ \A x \in Unclean(writes \ {w}) :
               \E u \in writes : x.live = u.live /\ x.kind = u.kind
        /\ \A u \in writes \ {w} :
               \E x \in Unclean(writes \ {w}) : x.live = u.live /\ x.kind = u.kind
    BY UncleanWrites DEF TypeOK
  <2>3. \A x \in writes' : \E u \in writes : x.live = u.live /\ x.kind = u.kind
    BY <2>1, <2>2
  <2>4. \A u \in writes : \E x \in writes' : x.live = u.live /\ x.kind = u.kind
    BY <2>1, <2>2
  <2>5. panel' = panel
    BY <1>4 DEF ServeWrite
  <2> QED BY <2>3, <2>4, <2>5 DEF Flags
<1>5. ASSUME NEW w \in writes, WriteAnswered(w)
      PROVE  Flags'
  <2>1. writes' = writes \ {w}
    BY <1>5, WriteOutcome
  <2>2. CASE ~w.live /\ panel' = panel
    BY <2>1, <2>2 DEF Flags
  <2>3. CASE w.live /\ ~panel'.inFlight /\ ~panel'.busy /\ ~panel'.evaluating
    BY <2>1, <2>3 DEF Alone, Flags
  <2> QED BY <1>5, <2>2, <2>3, WriteOutcome
<1>6. ASSUME NEW c \in Config, OtherSessionSaves(c)
      PROVE  Flags'
  <2>1. /\ \A x \in writes' : \E u \in writes : x.live = u.live /\ x.kind = u.kind
        /\ \A u \in writes : \E x \in writes' : x.live = u.live /\ x.kind = u.kind
    BY <1>6, UncleanWrites DEF OtherSessionSaves, TypeOK
  <2> QED BY <1>6, <2>1 DEF OtherSessionSaves, Flags
<1>7. ASSUME NEW c \in Config, EditDraft(c)
      PROVE  Flags'
  BY <1>7, <1>a DEF EditDraft, Flags, Panel
<1>8. CASE UNCHANGED <<panel, writes>>
  BY <1>8 DEF Flags
<1> QED BY <1>1, <1>2, <1>3, <1>4, <1>5, <1>6, <1>7, <1>8, Sends
        DEF Next, Operator, Reads, Writes, Others, GateLoads, Poll, RiskPoll,
            ServeRead, RunnerStops, vars

----------------------------------------------------------------------------
(* The form *)

LEMMA AsLoadedStep ==
    TypeOK /\ Produced /\ Alone /\ AsLoaded /\ [Next]_vars => AsLoaded'
<1> SUFFICES ASSUME TypeOK, Produced, Alone, AsLoaded, [Next]_vars
             PROVE  AsLoaded'
  OBVIOUS
<1>a. /\ panel \in Panel
      /\ \A w \in writes : w.kind \in {"save", "evaluate"}
      /\ Latest \in Nat
  BY Served DEF TypeOK, Panel, Command
<1>b. server' = server => Latest' = Latest
  BY DEF Latest
<1>1. ASSUME NEW p \in Page, OpenPage(p)
      PROVE  AsLoaded'
  <2>1. \A v \in writes' : ~v.live
    BY <1>1, OpenedPage
  <2> QED BY <1>1, <2>1 DEF OpenPage, AsLoaded
<1>2. ASSUME NEW kind \in {"save", "evaluate"}, NEW e \in BOOLEAN, Send(kind, e)
      PROVE  AsLoaded'
  <2>a. PICK w : w = [kind |-> kind, config |-> panel.draft, enabled |-> e,
                     clean |-> clean, live |-> TRUE, version |-> 0]
    OBVIOUS
  <2>1. /\ writes' = writes \cup {w}
        /\ w.config = panel.draft /\ w.clean = clean
    BY <1>2, <2>a DEF Send
  <2>2. panel'.draft = panel.draft
    BY <1>2, <1>a DEF Send, Panel
  <2> QED BY <1>2, <1>b, <2>1, <2>2 DEF Send, AsLoaded
<1>3. ASSUME NEW r \in reads, ReadAnswered(r)
      PROVE  AsLoaded'
  <2>1. writes' = writes /\ server' = server
    BY <1>3, ReadOutcome
  <2>2. CASE panel'.draft = panel.draft /\ UNCHANGED clean
    BY <1>b, <2>1, <2>2 DEF AsLoaded
  <2>3. CASE /\ Tracked(r)
             /\ panel'.draft = server[r.seen].config
             /\ clean' = (r.seen = Latest)
    BY <1>b, <2>1, <2>3 DEF Alone, AsLoaded
  <2> QED BY <1>3, <2>2, <2>3, ReadOutcome
<1>4. ASSUME NEW w \in writes, ServeWrite(w)
      PROVE  AsLoaded'
  <2>1. PICK s \in ServerState, v \in Command :
            /\ server' = Append(server, s)
            /\ w.kind = "evaluate" => s.config = server[Latest].config
            /\ w.kind = "save" => s.config = w.config
            /\ v.live = w.live /\ v.kind = w.kind /\ v.clean = w.clean
            /\ v.version = Latest + 1
            /\ writes' = (IF Foreign(w) THEN Unclean(writes \ {w})
                                        ELSE writes \ {w}) \cup {v}
    BY <1>4, ServedWrite
  <2>2. server'[Latest'] = s
    BY <1>4, <2>1, ServerGrows DEF ServeWrite
  <2>3. /\ panel' = panel
        /\ clean' = (clean /\ ~Foreign(w))
        /\ w.version = 0
    BY <1>4 DEF ServeWrite
  <2>4. CASE Foreign(w)
    <3>1. \A x \in Unclean(writes \ {w}) : ~x.clean
      BY UncleanWrites DEF TypeOK
    <3>2. ~w.live /\ ~clean'
      BY <2>3, <2>4 DEF Foreign
    <3>3. \A x \in writes' : x.live => ~x.clean
      BY <2>1, <2>4, <3>1, <3>2
    <3> QED BY <3>2, <3>3 DEF AsLoaded
  <2>5. CASE ~Foreign(w) /\ w.live
    <3>1. \A x \in writes' : x.live => x = v
      BY <2>1, <2>5 DEF Alone
    <3>2. clean => s.config = server[Latest].config
      BY <1>a, <2>1, <2>3, <2>5 DEF AsLoaded
    <3>3. clean' => panel'.draft = server'[Latest'].config
      BY <2>2, <2>3, <3>2 DEF AsLoaded
    <3>4. clean' => v.clean
      BY <2>1, <2>3, <2>5 DEF AsLoaded
    <3>5. v.version # 0
      BY <1>a, <2>1
    <3> QED BY <3>1, <3>3, <3>4, <3>5 DEF AsLoaded
  <2>6. CASE ~Foreign(w) /\ ~w.live
    <3>1. s.config = server[Latest].config
      BY <1>a, <2>1, <2>6 DEF Foreign
    <3>2. \A x \in writes' : x.live => x \in writes
      BY <2>1, <2>6
    <3> QED BY <2>2, <2>3, <3>1, <3>2 DEF AsLoaded
  <2> QED BY <2>4, <2>5, <2>6
<1>5. ASSUME NEW w \in writes, WriteAnswered(w)
      PROVE  AsLoaded'
  BY <1>5, <1>b, WriteOutcome DEF AsLoaded
<1>6. ASSUME NEW c \in Config, OtherSessionSaves(c)
      PROVE  AsLoaded'
  <2>1. \A x \in writes' : ~x.clean
    BY <1>6, UncleanWrites DEF OtherSessionSaves, TypeOK
  <2> QED BY <1>6, <2>1 DEF OtherSessionSaves, AsLoaded
<1>7. CASE RunnerStops
  <2>1. server'[Latest'].config = server[Latest].config
    <3>1. [server[Latest] EXCEPT !.enabled = FALSE] \in ServerState
      BY Served DEF ServerState
    <3>2. server'[Latest'] = [server[Latest] EXCEPT !.enabled = FALSE]
      BY <1>7, <3>1, ServerGrows DEF RunnerStops
    <3> QED BY <3>2, Served DEF ServerState
  <2> QED BY <1>7, <2>1 DEF RunnerStops, AsLoaded
<1>8. ASSUME NEW c \in Config, EditDraft(c)
      PROVE  AsLoaded'
  BY <1>8, <1>b DEF EditDraft, AsLoaded
<1>9. CASE UNCHANGED <<panel, clean, writes, server>>
  BY <1>9, <1>b DEF AsLoaded
<1> QED BY <1>1, <1>2, <1>3, <1>4, <1>5, <1>6, <1>7, <1>8, <1>9, Sends
        DEF Next, Operator, Reads, Writes, Others, GateLoads, Poll, RiskPoll,
            ServeRead, vars

----------------------------------------------------------------------------
(* The results *)

LEMMA PanelInit == Init => PanelInv
<1> SUFFICES ASSUME Init
             PROVE  PanelInv
  OBVIOUS
<1>1. TypeOK /\ Produced /\ Newer
  BY TypeInit
<1>2. Alone
  <2>1. CASE page = "console"
    BY <2>1, NewReads DEF Init, FirstRead, Alone, Mounted, OfPanel
  <2>2. CASE page = "portfolio"
    BY <2>2, NewReads DEF Init, FirstRead, Alone, Mounted, OfPanel
  <2> QED BY <1>1, <2>1, <2>2 DEF TypeOK, Page
<1>3. Flags /\ AsLoaded
  BY DEF Init, Fresh, Flags, AsLoaded
<1> QED BY <1>1, <1>2, <1>3 DEF PanelInv

LEMMA PanelStep == PanelInv /\ [Next]_vars => PanelInv'
BY TypeStep, ProducedStep, AloneStep, NewerStep, FlagsStep, AsLoadedStep
   DEF PanelInv

LEMMA PanelInvariant == Spec => []PanelInv
BY PanelInit, PanelStep, PTL DEF Spec

(***************************************************************************)
(* The panel, the shared snapshot and the requests always have the values  *)
(* the code can give them, for any number of moves, versions, commands and *)
(* reads (ExecutionAutoPaperTradingSection.tsx).                           *)
(***************************************************************************)
THEOREM PanelTypes == Spec => []TypeOK
<1>1. PanelInv => TypeOK
  BY DEF PanelInv
<1> QED BY <1>1, PanelInvariant, PTL

(***************************************************************************)
(* The operator gives the service one command at a time: two commands of a *)
(* mounted panel are never in flight together, and its flags say exactly   *)
(* which one is (requestInFlightRef, busy and evaluating).                 *)
(***************************************************************************)
THEOREM OneCommand == Spec => []OneCommandAtATime
<1> DEFINE mine == {w \in writes : w.live}
<1>1. ASSUME PanelInv
      PROVE  OneCommandAtATime
  <2>1. Cardinality(mine) <= 1
    <3>1. CASE mine = {}
      BY <3>1, FS_EmptySet
    <3>2. ASSUME NEW w \in mine
          PROVE  Cardinality(mine) <= 1
      <4>1. mine = {w}
        BY <1>1, <3>2 DEF PanelInv, Alone
      <4>2. Cardinality(mine) = 1
        BY <4>1, FS_Singleton, Zenon
      <4> QED BY <4>2
    <3> QED BY <3>1, <3>2
  <2>2. /\ panel.inFlight <=> mine # {}
        /\ panel.busy <=> \E w \in mine : w.kind = "save"
        /\ panel.evaluating <=> \E w \in mine : w.kind = "evaluate"
    BY <1>1 DEF PanelInv, Flags
  <2> QED BY <2>1, <2>2 DEF OneCommandAtATime
<1> QED BY <1>1, PanelInvariant, PTL

(***************************************************************************)
(* A pause or a save of a loaded form nobody has touched changes nothing   *)
(* of the configuration, unless somebody else has saved since (load, save  *)
(* and pause of the section).                                              *)
(***************************************************************************)
THEOREM UntouchedForm == Spec => UntouchedFormChangesNothing
<1>1. ASSUME PanelInv, NEW w \in writes,
             ServeWrite(w), w.kind = "save", w.live, w.clean
      PROVE  server'[Latest + 1].config = server[Latest].config
  <2>1. PICK s \in ServerState :
            /\ server' = Append(server, s)
            /\ s.config = w.config
    BY <1>1, ServedWrite DEF PanelInv
  <2>2. server'[Latest + 1] = s
    BY <1>1, <2>1, ServerGrows DEF PanelInv, ServeWrite
  <2>3. w.config = server[Latest].config
    BY <1>1 DEF PanelInv, AsLoaded, ServeWrite
  <2> QED BY <2>1, <2>2, <2>3
<1>2. PanelInv =>
          [\A w \in writes :
              ServeWrite(w) /\ w.kind = "save" /\ w.live /\ w.clean
              => server'[Latest + 1].config = server[Latest].config]_vars
  BY <1>1
<1> QED BY <1>2, PanelInvariant, PTL DEF UntouchedFormChangesNothing

----------------------------------------------------------------------------
(* The refinement of LatestView *)

(* An answer that is committed shows a version, or forgets it. *)
LEMMA CommitShows ==
    ASSUME PanelInv, NEW v \in View, Commit(v), server' = server,
           v <= Latest, v > 0 => floor <= v
    PROVE  Screen!Show \/ Screen!Forget
<1>1. /\ Latest \in Nat /\ floor \in Nat /\ v \in Nat
      /\ Latest' = Latest
  BY Served DEF PanelInv, TypeOK, Latest
<1>2. CASE v = 0
  BY <1>1, <1>2 DEF Commit, NewFloor, Screen!Forget
<1>3. CASE v > 0
  BY <1>1, <1>3 DEF Commit, NewFloor, Screen!Show
<1> QED BY <1>1, <1>2, <1>3

LEMMA ScreenStep ==
    ASSUME PanelInv, [Next]_vars
    PROVE  [Screen!Next]_(Screen!vars)
<1>a. server' = server => Latest' = Latest
  BY DEF Latest
<1>1. ASSUME NEW r \in reads, ReadAnswered(r)
      PROVE  [Screen!Next]_(Screen!vars)
  <2>1. server' = server
    BY <1>1, ReadOutcome DEF PanelInv
  <2>2. CASE Tracked(r) /\ Commit(r.seen)
    <3>1. /\ r.seen \in View
          /\ r.seen <= Latest
          /\ r.seen > 0 => floor <= r.seen
      BY <2>2 DEF PanelInv, TypeOK, Read, Produced, Newer
    <3> QED BY <2>1, <2>2, <3>1, CommitShows DEF Screen!Next
  <2>3. CASE UNCHANGED floor /\ gated' = TRUE /\ shared' = r.seen
    BY <1>a, <2>1, <2>3 DEF Screen!Next, Screen!Forget
  <2>4. CASE UNCHANGED <<shared, gated, floor>>
    BY <1>a, <2>1, <2>4 DEF Screen!vars
  <2> QED BY <1>1, <2>2, <2>3, <2>4, ReadOutcome DEF PanelInv
<1>2. ASSUME NEW w \in writes, WriteAnswered(w)
      PROVE  [Screen!Next]_(Screen!vars)
  <2>1. server' = server
    BY <1>2, WriteOutcome DEF PanelInv
  <2>2. CASE w.live /\ w.version > 0 /\ Commit(w.version)
    <3>1. /\ w.version \in View
          /\ w.version <= Latest
          /\ floor <= w.version
      BY <2>2 DEF PanelInv, TypeOK, Command, Produced, Newer
    <3> QED BY <2>1, <2>2, <3>1, CommitShows DEF Screen!Next
  <2>3. CASE UNCHANGED <<shared, gated, floor>>
    BY <1>a, <2>1, <2>3 DEF Screen!vars
  <2> QED BY <1>2, <2>2, <2>3, WriteOutcome DEF PanelInv
<1>3. CASE GateLoads
  BY <1>a, <1>3 DEF GateLoads, Screen!Next, Screen!Forget
<1>4. CASE \/ \E w \in writes : ServeWrite(w)
           \/ RunnerStops
           \/ \E c \in Config : OtherSessionSaves(c)
  <2>1. Latest' = Latest + 1 /\ Latest \in Nat
    BY <1>4, ServerMoves, Served DEF PanelInv
  <2>2. UNCHANGED <<shared, gated, floor>>
    BY <1>4 DEF ServeWrite, RunnerStops, OtherSessionSaves
  <2> QED BY <2>1, <2>2 DEF Screen!Next, Screen!ServerMoves
<1>5. CASE UNCHANGED <<server, shared, gated, floor>>
  BY <1>a, <1>5 DEF Screen!vars
<1>6. ASSUME NEW kind \in {"save", "evaluate"}, NEW e \in BOOLEAN, Send(kind, e)
      PROVE  UNCHANGED <<server, shared, gated, floor>>
  BY <1>6 DEF Send
<1> QED BY <1>1, <1>2, <1>3, <1>4, <1>5, <1>6, Sends
        DEF Next, Operator, Reads, Writes, Others, OpenPage, EditDraft, Poll,
            RiskPoll, ServeRead, vars

(***************************************************************************)
(* What the panel and the poll of the portfolio share implements a view    *)
(* that never goes back: it shows nothing or a version the service has     *)
(* been in, no older than any shown before, whatever answers overtake each *)
(* other (the request numbers of the section and of                        *)
(* refreshPortfolioProductionRisk).                                        *)
(***************************************************************************)
THEOREM SharedIsLatestView == Spec => SharedShowsLatest
<1>1. Init => Screen!Init
  <2> SUFFICES ASSUME Init
               PROVE  Screen!Init
    OBVIOUS
  <2>1. Latest \in Nat
    BY TypeInit, Served
  <2> QED BY <2>1 DEF Init, Screen!Init
<1>2. PanelInv /\ [Next]_vars => [Screen!Next]_(Screen!vars)
  BY ScreenStep
<1> QED BY <1>1, <1>2, PanelInvariant, PTL DEF Spec, SharedShowsLatest, Screen!Spec
=============================================================================
