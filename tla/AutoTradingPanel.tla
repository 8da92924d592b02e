-------------------------- MODULE AutoTradingPanel --------------------------
(***************************************************************************)
(* The automatic trading panel of the web client                           *)
(* (ExecutionAutoPaperTradingSection.tsx) and the snapshot it shares with  *)
(* the other pages, which the portfolio page polls and the live trading    *)
(* gate loads for themselves.                                              *)
(*                                                                         *)
(* The panel numbers its reads and drops an answer that is not of the last *)
(* one; a number never comes back, so a request carries the field live     *)
(* here, cleared by what advances the number or unmounts the panel.  A     *)
(* request that is no longer live stays in flight: the server still serves *)
(* it, and its answer still arrives.                                       *)
(*                                                                         *)
(* A snapshot is its place in server, the states the service has been in.  *)
(* A configuration is a model value: of its fields only the mode matters.  *)
(***************************************************************************)
EXTENDS Naturals, Sequences, FiniteSets

CONSTANTS
    Config,         \* configurations the form can hold
    DefaultDraft,   \* what the form holds before the first load answers
    Start,          \* states the service may be in when the client opens
    MaxMoves,       \* bound: pages opened, loads of the gate, edits of the form
    MaxVersions,    \* bound: states of the service
    MaxCommands,    \* bound: saves and evaluations
    MaxReads        \* bound: reads in flight when a timer starts another

ASSUME ConfigAssumption == DefaultDraft \in Config
ASSUME BoundAssumption == MaxMoves \in Nat /\ MaxVersions \in Nat \ {0}
                          /\ MaxCommands \in Nat /\ MaxReads \in Nat \ {0}

\* console: a page that mounts the panel, of which there are two, dynamic
\* trading and execution; going from one to the other mounts another panel.
Page == {"console", "portfolio"}
Version == 1 .. MaxVersions
View == 0 .. MaxVersions                \* 0: null, the state is not known

VARIABLES
    page,
    moves,
    server,     \* the states of the service, the last one current
    panel,      \* the mounted panel, or what is left of the last one
    shared,     \* the snapshot of the controller, common to the pages
    reads,      \* requests for a snapshot in flight
    writes,     \* saves and evaluations in flight
    commands,   \* how many of them there have been
    clean,      \* history: the draft is as loaded, nobody else has saved since
    floor,      \* history: the newest version the panel or the poll has shared
    gated       \* history: shared holds what the gate put there

vars == <<page, moves, server, panel, shared, reads, writes, commands, clean,
          floor, gated>>

ServerState == [config : Config, enabled : BOOLEAN]
ASSUME StartAssumption == Start \subseteq ServerState
Read == [by : {"load", "refresh", "risk", "gate"}, live : BOOLEAN, seen : View]
\* version: the state it made, 0 until the service has served it.
\* clean: the draft is as it was loaded, and nobody else has saved since.
Command == [kind : {"save", "evaluate"}, config : Config, enabled : BOOLEAN,
            clean : BOOLEAN, live : BOOLEAN, version : View]

TypeOK ==
    /\ page \in Page /\ moves \in 0 .. MaxMoves
    /\ server \in Seq(ServerState) /\ Len(server) \in Version
    /\ panel \in [shown : View, draft : Config,
                  busy : BOOLEAN, evaluating : BOOLEAN, inFlight : BOOLEAN]
    /\ shared \in View /\ gated \in BOOLEAN
    /\ reads \subseteq Read /\ writes \subseteq Command
    /\ commands \in 0 .. MaxCommands
    /\ clean \in BOOLEAN /\ floor \in View

Latest == Len(server)
Mounted == page = "console"
OfPanel(r) == r.by \in {"load", "refresh"}

Fresh == [shown |-> 0, draft |-> DefaultDraft,
          busy |-> FALSE, evaluating |-> FALSE, inFlight |-> FALSE]
NewRead(by) == [by |-> by, live |-> TRUE, seen |-> 0]

\* The requests with those of the given kinds no longer live.
Superseded(kinds) == {IF r.by \in kinds THEN [r EXCEPT !.live = FALSE] ELSE r : r \in reads}
PanelReads == {"load", "refresh"}

\* A page that polls starts by reading.
FirstRead(p) == IF p = "console" THEN {NewRead("load")} ELSE {NewRead("risk")}

Init ==
    /\ page \in Page /\ moves = 0
    /\ \E s \in Start : server = <<s>>
    /\ panel = Fresh /\ clean = FALSE
    /\ shared = 0 /\ reads = FirstRead(page)
    /\ writes = {} /\ commands = 0
    /\ floor = 0 /\ gated = FALSE

(***************************************************************************)
(* Pages and timers                                                        *)
(***************************************************************************)
\* Unmounting: mountedRef is cleared, both request numbers advance.
Abandoned == {[w EXCEPT !.live = FALSE] : w \in writes}
Left == Superseded(IF Mounted THEN PanelReads ELSE {"risk"})

OpenPage(p) ==
    /\ moves < MaxMoves /\ (p = page => Mounted)
    /\ moves' = moves + 1 /\ page' = p
    /\ reads' = Left \cup FirstRead(p)
    /\ writes' = Abandoned
    /\ panel' = Fresh /\ clean' = FALSE
    /\ UNCHANGED <<server, shared, commands, floor, gated>>

Room == Cardinality(reads) < MaxReads

\* refresh, every five seconds: not while a save or an evaluation is running.
Poll ==
    /\ Mounted /\ ~panel.inFlight /\ Room
    /\ reads' = Superseded(PanelReads) \cup {NewRead("refresh")}
    /\ UNCHANGED <<page, moves, server, panel, shared, writes, commands, clean,
                   floor, gated>>

\* refreshPortfolioProductionRisk on its own timer, under its own number.
RiskPoll ==
    /\ page = "portfolio" /\ Room
    /\ reads' = Superseded({"risk"}) \cup {NewRead("risk")}
    /\ UNCHANGED <<page, moves, server, panel, shared, writes, commands, clean,
                   floor, gated>>

\* openLiveTradingGate and completeLiveTradingGate: no number, no check.
GateLoads ==
    /\ moves < MaxMoves /\ moves' = moves + 1
    /\ shared' = 0 /\ gated' = TRUE
    /\ reads' = reads \cup {NewRead("gate")}
    /\ UNCHANGED <<page, server, panel, writes, commands, clean, floor>>

(***************************************************************************)
(* Reads                                                                   *)
(***************************************************************************)
ServeRead(r) ==
    /\ r.seen = 0
    /\ reads' = (reads \ {r}) \cup {[r EXCEPT !.seen = Latest]}
    /\ UNCHANGED <<page, moves, server, panel, shared, writes, commands, clean,
                   floor, gated>>

NewFloor(f, v) == IF v = 0 THEN f ELSE v

\* commitSnapshot: the panel's state and the controller's, or null for both.
Commit(v) ==
    /\ shared' = v /\ gated' = FALSE
    /\ floor' = NewFloor(floor, v)
Showing(v) == [panel EXCEPT !.shown = v]

CurrentWhileMounted(r) == r.live \/ (Mounted /\ OfPanel(r))
IsCurrent(r) == r.live

\* load fills the form with what it read; refresh leaves the form alone.
FilledWhole(v) == [Showing(v) EXCEPT !.draft = server[v]]
ShownOnly(v) == Showing(v)
Filled(v) == [Showing(v) EXCEPT !.draft = server[v].config]

LoadAnswered(r) ==
    /\ r.by = "load" /\ r.seen > 0 /\ IsCurrent(r)
    /\ Commit(r.seen)
    /\ panel' = Filled(r.seen) /\ clean' = (r.seen = Latest)

RefreshAnswered(r) ==
    /\ r.by = "refresh" /\ r.seen > 0 /\ IsCurrent(r)
    /\ Commit(r.seen)
    /\ panel' = Showing(r.seen) /\ UNCHANGED clean

PanelReadFailed(r) ==
    /\ OfPanel(r) /\ r.seen = 0 /\ IsCurrent(r)
    /\ Commit(0)
    /\ panel' = Showing(0) /\ UNCHANGED clean

RiskAnswered(r) ==
    /\ r.by = "risk" /\ IsCurrent(r)
    /\ shared' = r.seen /\ gated' = FALSE
    /\ floor' = NewFloor(floor, r.seen)
    /\ UNCHANGED <<panel, clean>>

\* Unserved answers stand for failures: opening the gate leaves null,
\* completing it leaves what the snapshot has become meanwhile.
GateAnswered(r) ==
    /\ r.by = "gate"
    /\ shared' = r.seen /\ gated' = TRUE
    /\ UNCHANGED <<panel, clean, floor>>

GateCompletionFailed(r) ==
    /\ r.by = "gate" /\ r.seen = 0
    /\ UNCHANGED <<panel, clean, shared, floor, gated>>

Dropped(r) ==
    /\ ~IsCurrent(r)
    /\ UNCHANGED <<panel, clean, shared, floor, gated>>

ReadAnswered(r) ==
    /\ \/ LoadAnswered(r) \/ RefreshAnswered(r) \/ PanelReadFailed(r)
       \/ RiskAnswered(r) \/ GateAnswered(r) \/ GateCompletionFailed(r)
       \/ Dropped(r)
    /\ reads' = reads \ {r}
    /\ UNCHANGED <<page, moves, server, writes, commands>>

(***************************************************************************)
(* The form and the commands                                               *)
(***************************************************************************)
EditDraft(c) ==
    /\ Mounted /\ c # panel.draft
    /\ moves < MaxMoves /\ moves' = moves + 1
    /\ panel' = [panel EXCEPT !.draft = c] /\ clean' = FALSE
    /\ UNCHANGED <<page, server, shared, reads, writes, commands, floor, gated>>

ShownEnabled == panel.shown > 0 /\ server[panel.shown].enabled
\* requestInFlight, a ref: it is set before the buttons are drawn again.
MaySendUnlessBusy == Mounted /\ ~panel.busy
MaySend == Mounted /\ ~panel.inFlight

Send(kind, e) ==
    /\ MaySend /\ commands < MaxCommands
    /\ commands' = commands + 1
    /\ writes' = writes \cup
          {[kind |-> kind, config |-> panel.draft, enabled |-> e,
            clean |-> clean, live |-> TRUE, version |-> 0]}
    /\ reads' = Superseded(PanelReads)
    /\ panel' = [panel EXCEPT !.inFlight = TRUE,
                              !.busy = @ \/ kind = "save",
                              !.evaluating = @ \/ kind = "evaluate"]
    /\ UNCHANGED <<page, moves, server, shared, clean, floor, gated>>

Save == ~panel.busy /\ Send("save", TRUE)
Pause == ~panel.busy /\ ShownEnabled /\ Send("save", FALSE)
\* Of a service that is on, or off with an order that is not settled: the
\* panel then reconciles.  Either way it must show a state.
Evaluate == ~panel.busy /\ panel.shown > 0 /\ Send("evaluate", TRUE)

\* The service: what it does with a configuration is AutoTrading's subject.
Became(w) ==
    LET now == server[Latest]
    IN IF w.kind = "evaluate"
       THEN {[now EXCEPT !.enabled = e] : e \in {now.enabled, FALSE}}
       ELSE {[config |-> w.config, enabled |-> w.enabled]}

\* Somebody else has saved: another session, or a panel that is gone.
Unclean(ws) == {[w EXCEPT !.clean = FALSE] : w \in ws}
Foreign(w) == w.kind = "save" /\ ~w.live

ServeWrite(w) ==
    /\ w.version = 0 /\ Latest < MaxVersions
    /\ \E s \in Became(w) : server' = Append(server, s)
    /\ LET rest == writes \ {w}
           served == [w EXCEPT !.version = Latest + 1]
       IN writes' = (IF Foreign(w) THEN Unclean(rest) ELSE rest) \cup {served}
    /\ clean' = (clean /\ ~Foreign(w))
    /\ UNCHANGED <<page, moves, panel, shared, reads, commands, floor, gated>>

\* The finally blocks.
FreeButRef(p) == [p EXCEPT !.busy = FALSE, !.evaluating = FALSE]
Free(p) == [p EXCEPT !.inFlight = FALSE, !.busy = FALSE, !.evaluating = FALSE]

SaveReturned(w) ==
    /\ w.kind = "save" /\ w.version > 0 /\ w.live
    /\ Commit(w.version)
    /\ panel' = Free(Showing(w.version)) /\ UNCHANGED clean

EvaluateReturned(w) ==
    /\ w.kind = "evaluate" /\ w.version > 0 /\ w.live
    /\ Commit(w.version)
    /\ panel' = Free(Showing(w.version)) /\ UNCHANGED clean

\* The command was lost or refused, or its answer was: what was shown stays.
WriteFailed(w) ==
    /\ w.live
    /\ panel' = Free(panel)
    /\ UNCHANGED <<clean, shared, floor, gated>>

LateReturn(w) == ~w.live /\ UNCHANGED <<panel, clean, shared, floor, gated>>

WriteAnswered(w) ==
    /\ \/ SaveReturned(w) \/ EvaluateReturned(w) \/ WriteFailed(w) \/ LateReturn(w)
    /\ writes' = writes \ {w}
    /\ UNCHANGED <<page, moves, server, reads, commands>>

RunnerStops ==
    /\ Latest < MaxVersions /\ server[Latest].enabled
    /\ server' = Append(server, [server[Latest] EXCEPT !.enabled = FALSE])
    /\ UNCHANGED <<page, moves, panel, shared, reads, writes, commands, clean,
                   floor, gated>>

OtherSessionSaves(c) ==
    /\ Latest < MaxVersions /\ c # server[Latest].config
    /\ server' = Append(server, [config |-> c, enabled |-> TRUE])
    /\ clean' = FALSE /\ writes' = Unclean(writes)
    /\ UNCHANGED <<page, moves, panel, shared, reads, commands, floor, gated>>

CurrentReadServed == \E r \in reads : OfPanel(r) /\ IsCurrent(r) /\ ServeRead(r)
CurrentReadAnswered == \E r \in reads : OfPanel(r) /\ IsCurrent(r) /\ ReadAnswered(r)
Answers == \/ \E r \in reads : ~(OfPanel(r) /\ r.live) /\ ReadAnswered(r)
           \/ \E w \in writes : ServeWrite(w) \/ WriteAnswered(w)
Reads == \E r \in reads : ServeRead(r) \/ ReadAnswered(r)
Writes == \E w \in writes : ServeWrite(w) \/ WriteAnswered(w)
Operator == \/ \E p \in Page : OpenPage(p)
            \/ \E c \in Config : EditDraft(c)
            \/ Save \/ Pause \/ Evaluate \/ GateLoads

Others == RunnerStops \/ \E c \in Config : OtherSessionSaves(c)

Next == Operator \/ Poll \/ RiskPoll \/ Reads \/ Writes \/ Others

Spec == Init /\ [][Next]_vars

\* The timer fires and every request is answered; and the answers of the
\* polls are not for ever later than the next poll, which would drop them all.
FairSpec == /\ Spec
            /\ WF_vars(Poll) /\ WF_vars(Answers)
            /\ SF_vars(CurrentReadServed) /\ SF_vars(CurrentReadAnswered)

(***************************************************************************)
(* Properties                                                              *)
(***************************************************************************)
\* What the panel and the poll of the portfolio page share never goes back:
\* not to a read that a command overtook, nor to one of a page the operator
\* has left (the request numbers of load, refresh, save and evaluate, and of
\* refreshPortfolioProductionRisk).  What the gate puts there is not theirs.
Screen == INSTANCE LatestView WITH
    latest <- Latest, shown <- IF gated THEN 0 ELSE shared
SharedShowsLatest == Screen!Spec

\* The operator gives the service one command at a time: the panel is
\* occupied exactly while one of its own is in flight, and says so.  The live
\* gate beside it posts on its own: what it sends is the other session's here.
OneCommandAtATime ==
    LET mine == {w \in writes : w.live}
    IN /\ Cardinality(mine) <= 1
       /\ panel.inFlight <=> mine # {}
       /\ panel.busy <=> \E w \in mine : w.kind = "save"
       /\ panel.evaluating <=> \E w \in mine : w.kind = "evaluate"

\* A pause or a save of a loaded form nobody has touched changes nothing of
\* the configuration, unless somebody else has saved since it was loaded.
UntouchedFormChangesNothing ==
    [][\A w \in writes :
          ServeWrite(w) /\ w.kind = "save" /\ w.live /\ w.clean
          => server'[Latest + 1].config = server[Latest].config]_vars

\* A panel that stays open ends up showing the service's state, or that it
\* cannot be read, and the other pages see the same (the five second timer
\* goes on after every command and repairs what the gate overwrote).
ConsoleCatchesUp ==
    []<>(~Mounted \/ (panel.shown \in {0, Latest} /\ shared = panel.shown))
=============================================================================
