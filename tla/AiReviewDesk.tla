---------------------------- MODULE AiReviewDesk ----------------------------
(***************************************************************************)
(* The AI review page of the web client: the request coordinator of        *)
(* lib/ai-review-stage3.ts, the operator's actions of                      *)
(* review-state-actions.tsx and review-readiness.tsx, and the layout       *)
(* effects of workspace-runtime-effects.tsx that load the page again when  *)
(* its context or its experiments change.                                  *)
(*                                                                         *)
(* The coordinator compares generations and signals.  A generation never   *)
(* comes back, so a token is here the field live of its request, cleared   *)
(* by every operation that advances the lane or aborts its controller.     *)
(* Requests that are no longer live stay in flight: the server may still   *)
(* serve them and their answers still arrive.                              *)
(*                                                                         *)
(* A review is a number, its place in reviews; its decisions form a chain  *)
(* only ever appended to, so a decision is its place in that chain.        *)
(***************************************************************************)
EXTENDS Integers, FiniteSets, Sequences

CONSTANTS
    Scope,              \* contexts the operator moves between, [area, run]
    StartScope,         \* the one the page is opened in, on the review page
    Experiment,
    RunOf,              \* the research run an experiment was made from
    DoneAtStart,        \* the experiments completed before the page opens
    External,           \* the external model providers
    Local,              \* the local one
    None,               \* no experiment
    MaxMoves,           \* bound: moves, and experiments another session lists
    MaxReviews,         \* bound: reviews the server creates
    MaxDecisions        \* bound: decisions on one review

ASSUME ScopeAssumption ==
    /\ \A s \in Scope : s.area \in {"ai-review", "settings", "elsewhere"}
    /\ StartScope \in Scope /\ StartScope.area = "ai-review"
ASSUME ExperimentAssumption == DoneAtStart \subseteq Experiment /\ None \notin Experiment
ASSUME ProviderAssumption == Local \notin External
ASSUME BoundAssumption ==
    MaxMoves \in Nat /\ MaxReviews \in Nat /\ MaxDecisions \in Nat

VARIABLES
    scope,      \* the context the page shows
    moves,      \* counts both kinds of moves
    done,       \* completed experiments
    desk,       \* what the page shows
    busy,       \* the coordinator's flags, which the page copies
    loads,      \* context requests in flight
    runs,       \* requests for a review
    appends,    \* requests that append a decision and read the chain back
    pending,    \* an experiment the run button is waiting for
    reviews,    \* the server's reviews
    grant,      \* history: what the operator approved sending
    overtaken   \* history: a prepared review was started over a context load

vars == <<scope, moves, done, desk, busy, loads, runs, appends, pending,
          reviews, grant, overtaken>>

Provider == External \cup {Local}
Review == 1 .. MaxReviews
Selection == [primary : Experiment \cup {None}, comparisons : SUBSET Experiment,
              provider : Provider]
LoadRequest == [scope : Scope, live : BOOLEAN, read : BOOLEAN,
                review : 0 .. MaxReviews, seen : 0 .. MaxDecisions]
RunRequest == [selection : Selection, live : BOOLEAN, made : 0 .. MaxReviews,
        prepared : BOOLEAN]
\* asked: the decision is on its way; recorded, refused: the server has
\* answered; chain: the decision is recorded and the chain asked for.
AppendRequest == [review : Review, after : 0 .. MaxDecisions, live : BOOLEAN,
                  step : {"asked", "recorded", "refused", "chain"}]
\* current: the page has stayed on the run the experiment was asked for.
Pending == [selection : Selection, current : BOOLEAN,
            step : {"none", "running", "listing"}]

TypeOK ==
    /\ scope \in Scope /\ moves \in 0 .. MaxMoves
    /\ done \subseteq Experiment
    /\ desk \in [selection : Selection, known : BOOLEAN, initialized : BOOLEAN,
                 approved : BOOLEAN, review : 0 .. MaxReviews, seen : 0 .. MaxDecisions]
    /\ busy \in [loading : BOOLEAN, running : BOOLEAN, appending : BOOLEAN]
    /\ loads \subseteq LoadRequest /\ runs \subseteq RunRequest
    /\ appends \subseteq AppendRequest
    /\ pending \in Pending
    /\ \A r \in DOMAIN reviews :
          reviews[r] \in [selection : Selection, chain : 0 .. MaxDecisions]
    /\ Len(reviews) <= MaxReviews
    /\ grant \in Selection
    /\ overtaken \in BOOLEAN

RunOfReview(r) == RunOf[reviews[r].selection.primary]
Visible(s, completed) == {e \in completed : RunOf[e] = s.run}
Busy == busy.loading \/ busy.running \/ busy.appending
OnPage == scope.area = "ai-review"
NoSelection == [primary |-> None, comparisons |-> {}, provider |-> Local]
NoPending == [selection |-> NoSelection, current |-> FALSE, step |-> "none"]

-----------------------------------------------------------------------------
(* The request coordinator.                                                *)

Cancelled(requests) == {[q EXCEPT !.live = FALSE] : q \in requests}

CancelReview ==
    /\ runs' = Cancelled(runs)
    /\ appends' = Cancelled(appends)

\* A request of this lane is begun: the earlier ones are aborted.
BeginRun(q) ==
    /\ runs' = Cancelled(runs) \cup {q}
    /\ appends' = Cancelled(appends)
    /\ busy' = [loading |-> FALSE, running |-> TRUE, appending |-> FALSE]

BeginAppend(q) ==
    /\ runs' = Cancelled(runs)
    /\ appends' = Cancelled(appends) \cup {q}
    /\ busy' = [loading |-> FALSE, running |-> FALSE, appending |-> TRUE]

InvalidateReview ==
    /\ CancelReview
    /\ busy' = [busy EXCEPT !.running = FALSE, !.appending = FALSE]

\* Mutant: an answer is applied whatever happened since it was asked for.
AlwaysCurrent(q) == q.live \in BOOLEAN

IsCurrent(q) == q.live

FinishContext == busy' = [busy EXCEPT !.loading = FALSE]

\* Mutant: the flags of a finished request are left on.
FinishReviewHalf == busy' = [busy EXCEPT !.appending = FALSE]

FinishReview == busy' = [busy EXCEPT !.running = FALSE, !.appending = FALSE]

-----------------------------------------------------------------------------
(* The context: the two layout effects.                                    *)

\* Which experiment is shown first: the one just made, else the first listed.
FirstPrimary(s, completed, made) ==
    IF made # None THEN {made}
    ELSE IF Visible(s, completed) = {} THEN {None} ELSE Visible(s, completed)

LoadOf(s) == [scope |-> s, live |-> TRUE, read |-> FALSE, review |-> 0, seen |-> 0]

RestartContext(s, completed, made) ==
    \E p \in FirstPrimary(s, completed, made) :
        /\ desk' = [desk EXCEPT !.selection.primary = p, !.selection.comparisons = {},
                                !.known = FALSE, !.approved = FALSE,
                                !.review = 0, !.seen = 0]
        /\ loads' = Cancelled(loads) \cup
              (IF s.area = "elsewhere" THEN {}
               ELSE {LoadOf(s)})
        /\ busy' = [loading |-> s.area # "elsewhere", running |-> FALSE, appending |-> FALSE]
        /\ CancelReview
        /\ overtaken' = FALSE

SwitchContext(s) ==
    /\ s # scope /\ moves < MaxMoves
    /\ scope' = s
    /\ moves' = moves + 1
    /\ pending' = [pending EXCEPT !.current = @ /\ s.run = scope.run]
    /\ RestartContext(s, done, None)
    /\ UNCHANGED <<done, reviews, grant>>

\* An experiment of another session appears in the list.
ExperimentListed(e) ==
    /\ e \notin done /\ e # pending.selection.primary
    /\ moves < MaxMoves
    /\ moves' = moves + 1
    /\ done' = done \cup {e}
    /\ IF RunOf[e] = scope.run
       THEN RestartContext(scope, done', None)
       ELSE UNCHANGED <<desk, busy, loads, runs, appends, overtaken>>
    /\ UNCHANGED <<scope, pending, reviews, grant>>

\* The registry is read, and on the review page the archive of the run: its
\* newest review with the review's decisions.
ReadContext(q) ==
    /\ q \in loads /\ ~q.read
    /\ LET ofRun == {r \in DOMAIN reviews : RunOfReview(r) = q.scope.run}
           newest == CHOOSE r \in ofRun : \A o \in ofRun : o <= r
           found == q.scope.area = "ai-review" /\ ofRun # {}
       IN loads' = (loads \ {q}) \cup
              {[q EXCEPT !.read = TRUE,
                         !.review = IF found THEN newest ELSE 0,
                         !.seen = IF found THEN reviews[newest].chain ELSE 0]}
    /\ UNCHANGED <<scope, moves, done, desk, busy, runs, appends, pending,
                   reviews, grant, overtaken>>

\* The provider of the page once the registry says which ones are configured.
ProviderFor(configured) ==
    IF ~desk.initialized /\ configured \cap External # {} THEN configured \cap External
    ELSE IF desk.selection.provider \in configured THEN {desk.selection.provider}
    ELSE {Local}

\* listed: the registry answered; configured: the external providers it has;
\* archived: so did the archive, and its records are consistent; matches: the
\* restored experiment is the one the page's draft describes.
ContextLoaded(q) ==
    /\ q \in loads /\ q.read
    /\ loads' = loads \ {q}
    /\ IF ~IsCurrent(q) THEN UNCHANGED <<desk, busy>>
       ELSE /\ FinishContext
            /\ \E listed, archived, matches \in BOOLEAN, configured \in SUBSET External :
               \E p \in ProviderFor(IF listed THEN configured \cup {Local} ELSE {}) :
                  LET shown == [desk EXCEPT !.known = listed, !.initialized = TRUE,
                                            !.selection.provider = p]
                      restored == [shown EXCEPT !.review = q.review, !.seen = q.seen]
                      s == reviews[q.review].selection
                  IN desk' = IF ~archived \/ q.review = 0 THEN shown
                             ELSE IF ~matches \/ s.primary \notin Visible(scope, done)
                             THEN restored
                             ELSE [restored EXCEPT !.selection.primary = s.primary,
                                                   !.selection.comparisons = s.comparisons]
    /\ UNCHANGED <<scope, moves, done, runs, appends, pending, reviews, grant, overtaken>>

-----------------------------------------------------------------------------
(* What the operator does on the page.                                     *)

\* Mutant: another model is chosen and the approval stays.
ChosenStillApproved(selection) ==
    /\ InvalidateReview
    /\ desk' = [desk EXCEPT !.selection = selection, !.review = 0, !.seen = 0]

Chosen(selection) ==
    /\ InvalidateReview
    /\ desk' = [desk EXCEPT !.selection = selection, !.approved = FALSE,
                            !.review = 0, !.seen = 0]

Idle == OnPage /\ ~Busy /\ ~pending.current

ToggleComparison(e) ==
    /\ Idle /\ desk.selection.primary \in Visible(scope, done)
    /\ e \in Visible(scope, done) \ {desk.selection.primary}
    /\ LET chosen == desk.selection.comparisons
       IN IF e \in chosen
          THEN Chosen([desk.selection EXCEPT !.comparisons = chosen \ {e}])
          ELSE /\ Cardinality(chosen) < 4
               /\ Chosen([desk.selection EXCEPT !.comparisons = chosen \cup {e}])
    /\ UNCHANGED <<scope, moves, done, loads, pending, reviews, grant, overtaken>>

SelectProvider(p) ==
    /\ Idle /\ desk.known /\ p # desk.selection.provider
    /\ Chosen([desk.selection EXCEPT !.provider = p])
    /\ UNCHANGED <<scope, moves, done, loads, pending, reviews, grant, overtaken>>

ApproveExternalData(approved) ==
    /\ Idle /\ desk.selection.provider \in External /\ approved # desk.approved
    /\ InvalidateReview
    /\ desk' = [desk EXCEPT !.approved = approved, !.review = 0, !.seen = 0]
    /\ grant' = IF approved THEN desk.selection ELSE NoSelection
    /\ UNCHANGED <<scope, moves, done, loads, pending, reviews, overtaken>>

MayRun ==
    /\ Idle /\ desk.known
    /\ desk.selection.provider \in External => desk.approved

\* The run button when the shown experiment is the one the draft describes.
RunReview ==
    /\ MayRun /\ desk.selection.primary # None
    /\ BeginRun([selection |-> desk.selection, live |-> TRUE, made |-> 0, prepared |-> FALSE])
    /\ UNCHANGED <<scope, moves, done, desk, loads, pending, reviews, grant, overtaken>>

\* The run button when it is not: an experiment is asked for first, and the
\* review will be asked for with what the page showed at this moment.
PrepareReview(e) ==
    /\ MayRun /\ pending.step = "none" /\ e \notin done /\ RunOf[e] = scope.run
    /\ pending' = [selection |-> [desk.selection EXCEPT !.primary = e], current |-> TRUE,
                   step |-> "running"]
    /\ UNCHANGED <<scope, moves, done, desk, busy, loads, runs, appends, reviews,
                   grant, overtaken>>

\* The experiment is answered: dropped when the page has moved to another run
\* or the experiment failed; else shown, which restarts the context, and the
\* list of experiments is read again.
ExperimentMade(ok) ==
    /\ pending.step = "running"
    /\ IF ~ok \/ ~pending.current
       THEN /\ pending' = NoPending
            /\ UNCHANGED <<done, desk, busy, loads, runs, appends, overtaken>>
       ELSE /\ pending' = [pending EXCEPT !.step = "listing"]
            /\ done' = done \cup {pending.selection.primary}
            /\ RestartContext(scope, done', pending.selection.primary)
    /\ UNCHANGED <<scope, moves, reviews, grant>>

\* The list is read, or left unread because the page has moved on; either way
\* the review is asked for, in the context the page is in now.
ReviewPrepared ==
    /\ pending.step = "listing"
    /\ pending' = NoPending
    /\ desk' = [desk EXCEPT !.selection.primary = pending.selection.primary,
                            !.selection.comparisons = {}]
    /\ BeginRun([selection |-> pending.selection, live |-> TRUE, made |-> 0, prepared |-> TRUE])
    /\ overtaken' = (overtaken \/ ~pending.current \/ \E q \in loads : q.live)
    /\ UNCHANGED <<scope, moves, done, loads, reviews, grant>>

\* A recorded decision replaces the last one the page shows.
AppendDecision ==
    /\ Idle /\ desk.review # 0
    /\ BeginAppend([review |-> desk.review, after |-> desk.seen, live |-> TRUE, step |-> "asked"])
    /\ UNCHANGED <<scope, moves, done, desk, loads, pending, reviews, grant, overtaken>>

-----------------------------------------------------------------------------
(* The server, and the answers.                                            *)

\* Mutant: the answer names the review after the one made.
CreateReviewMisnumbered(q) ==
    /\ q \in runs /\ q.made = 0 /\ Len(reviews) < MaxReviews
    /\ reviews' = Append(reviews, [selection |-> q.selection, chain |-> 0])
    /\ runs' = (runs \ {q}) \cup {[q EXCEPT !.made = Len(reviews) + 2]}
    /\ UNCHANGED <<scope, moves, done, desk, busy, loads, appends, pending, grant, overtaken>>

CreateReview(q) ==
    /\ q \in runs /\ q.made = 0 /\ Len(reviews) < MaxReviews
    /\ reviews' = Append(reviews, [selection |-> q.selection, chain |-> 0])
    /\ runs' = (runs \ {q}) \cup {[q EXCEPT !.made = Len(reviews) + 1]}
    /\ UNCHANGED <<scope, moves, done, desk, busy, loads, appends, pending, grant, overtaken>>

\* The page shows the review it asked for.  Lost or refused requests, and the
\* ones whose answer is lost, end as a failure.
ReviewReturned(q, ok) ==
    /\ q \in runs /\ (ok => q.made # 0)
    /\ runs' = runs \ {q}
    /\ IF ~IsCurrent(q) THEN UNCHANGED <<desk, busy>>
       ELSE /\ FinishReview
            /\ desk' = IF ok THEN [desk EXCEPT !.review = q.made, !.seen = 0] ELSE desk
    /\ UNCHANGED <<scope, moves, done, loads, appends, pending, reviews, grant, overtaken>>

Becomes(q, step) == appends' = (appends \ {q}) \cup {[q EXCEPT !.step = step]}

\* The server appends a decision that supersedes the last one it holds.
RecordDecision(q) ==
    /\ q \in appends /\ q.step = "asked"
    /\ LET chain == reviews[q.review].chain
       IN IF q.after = chain
          THEN /\ chain < MaxDecisions
               /\ reviews' = [reviews EXCEPT ![q.review].chain = chain + 1]
               /\ Becomes(q, "recorded")
          ELSE Becomes(q, "refused") /\ UNCHANGED reviews
    /\ UNCHANGED <<scope, moves, done, desk, busy, loads, runs, pending, grant, overtaken>>

\* A request that is no longer current, refused or lost ends here; one that
\* is recorded reads the chain back.
DecisionAnswered(q) ==
    /\ q \in appends /\ q.step # "chain"
    /\ \/ IsCurrent(q) /\ q.step = "recorded" /\ Becomes(q, "chain") /\ UNCHANGED busy
       \/ /\ appends' = appends \ {q}
          /\ IF IsCurrent(q) THEN FinishReview ELSE UNCHANGED busy
    /\ UNCHANGED <<scope, moves, done, desk, loads, runs, pending, reviews, grant, overtaken>>

\* The chain read back is shown when its last decision is the one recorded;
\* when another reviewer's follows it, or the read fails, nothing is.
ChainReadBack(q) ==
    /\ q \in appends /\ q.step = "chain"
    /\ appends' = appends \ {q}
    /\ IF ~IsCurrent(q) THEN UNCHANGED <<desk, busy>>
       ELSE /\ FinishReview
            /\ \/ /\ reviews[q.review].chain = q.after + 1
                  /\ desk' = [desk EXCEPT !.seen = q.after + 1]
               \/ UNCHANGED desk
    /\ UNCHANGED <<scope, moves, done, loads, runs, pending, reviews, grant, overtaken>>

\* Another reviewer decides.
OtherDecision(r) ==
    /\ reviews[r].chain < MaxDecisions
    /\ reviews' = [reviews EXCEPT ![r].chain = @ + 1]
    /\ UNCHANGED <<scope, moves, done, desk, busy, loads, runs, appends, pending,
                   grant, overtaken>>

-----------------------------------------------------------------------------
\* The page has just been opened and its context is being loaded.
Init ==
    /\ scope = StartScope
    /\ moves = 0
    /\ done = DoneAtStart
    /\ \E p \in FirstPrimary(scope, done, None) :
          desk = [selection |-> [NoSelection EXCEPT !.primary = p], known |-> FALSE,
                  initialized |-> FALSE, approved |-> FALSE, review |-> 0, seen |-> 0]
    /\ busy = [loading |-> TRUE, running |-> FALSE, appending |-> FALSE]
    /\ loads = {LoadOf(scope)} /\ runs = {} /\ appends = {}
    /\ pending = NoPending
    /\ reviews = <<>>
    /\ grant = NoSelection
    /\ overtaken = FALSE

Operator ==
    \/ \E s \in Scope : SwitchContext(s)
    \/ \E e \in Experiment : ToggleComparison(e) \/ PrepareReview(e)
    \/ \E p \in Provider : SelectProvider(p)
    \/ \E approved \in BOOLEAN : ApproveExternalData(approved)
    \/ RunReview
    \/ AppendDecision

Server ==
    \/ \E q \in runs : CreateReview(q)
    \/ \E q \in appends : RecordDecision(q)
    \/ \E r \in DOMAIN reviews : OtherDecision(r)
    \/ \E e \in Experiment : ExperimentListed(e)

Answers ==
    \/ \E q \in loads : ReadContext(q) \/ ContextLoaded(q)
    \/ \E q \in runs, ok \in BOOLEAN : ReviewReturned(q, ok)
    \/ \E q \in appends : DecisionAnswered(q) \/ ChainReadBack(q)
    \/ \E ok \in BOOLEAN : ExperimentMade(ok)
    \/ ReviewPrepared

Next == Operator \/ Server \/ Answers

\* Every request is answered or fails; the operator need do nothing.
Fairness == WF_vars(Answers)

Spec == Init /\ [][Next]_vars /\ Fairness

-----------------------------------------------------------------------------
\* The page says the approval must be given again after the model or the
\* experiment changes: while it stands, what would be sent is what was
\* approved, whatever loads, restores or restarts came between.
ApprovalBinds == desk.approved /\ ~overtaken => grant = desk.selection

\* The review the page shows is one of the run the page is on.
ReviewOfThisRun == desk.review # 0 => RunOfReview(desk.review) = scope.run

\* The same, but for a review asked for after the operator had moved on.
LoadedReviewOfThisRun == ~overtaken => ReviewOfThisRun

\* While a review stays on the page its decisions never disappear from it: a
\* context load that was read before a decision is never shown after it.
DecisionsNeverGoBack ==
    [][desk.review # 0 /\ desk'.review = desk.review /\ ~overtaken
          => desk'.seen >= desk.seen]_vars

\* The page is always unlocked again.
DeskBecomesFree == Busy ~> ~Busy
=============================================================================
