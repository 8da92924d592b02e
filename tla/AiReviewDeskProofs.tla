------------------------- MODULE AiReviewDeskProofs -------------------------
(***************************************************************************)
(* Proofs about the AI review page.  The argument is about the lanes of    *)
(* the request coordinator: one live context load and one live request of  *)
(* the review lane at most, and while the load is live the page shows no   *)
(* review, holds no approval and nothing else is live, unless a prepared   *)
(* review was started over it.                                             *)
(***************************************************************************)
EXTENDS AiReviewDesk, WellFoundedInduction, TLAPS

Desk ==
    [selection : Selection, known : BOOLEAN, initialized : BOOLEAN,
     approved : BOOLEAN, review : 0 .. MaxReviews, seen : 0 .. MaxDecisions]

BusyFlags == [loading : BOOLEAN, running : BOOLEAN, appending : BOOLEAN]

ReviewRecord == [selection : Selection, chain : 0 .. MaxDecisions]

(* The numbers in flight and on the page are of reviews the server has, and *)
(* what goes with a number was taken from that review.                      *)
Numbered ==
    /\ reviews \in Seq(ReviewRecord)
    /\ desk.review <= Len(reviews)
    /\ \A q \in loads :
           /\ q.review <= Len(reviews)
           /\ q.review # 0 => RunOfReview(q.review) = q.scope.run
    /\ \A q \in runs :
           /\ q.made <= Len(reviews)
           /\ q.made # 0 => reviews[q.made].selection = q.selection
    /\ \A q \in appends : q.review <= Len(reviews)

(* The experiment the run button waits for *)
Waiting ==
    /\ pending.step # "none" => pending.selection.primary \in Experiment
    /\ pending.current => RunOf[pending.selection.primary] = scope.run
    /\ pending.current /\ pending.step = "listing" => ~desk.approved

(* One live request in each lane, and the load is of the page's context *)
Single ==
    /\ \A p, q \in loads : p.live /\ q.live => p = q
    /\ \A p, q \in runs : p.live /\ q.live => p = q
    /\ \A p, q \in appends : p.live /\ q.live => p = q
    /\ \A p \in runs, q \in appends : ~(p.live /\ q.live)
    /\ \A q \in loads : q.live => q.scope = scope

(* While the context is being loaded the page is locked and empty. *)
Loading ==
    ~overtaken =>
        \A q \in loads : q.live =>
            /\ busy.loading
            /\ desk.review = 0
            /\ ~desk.approved
            /\ \A p \in runs : ~p.live
            /\ \A p \in appends : ~p.live

(* What the live request of the review lane was asked with *)
Asked ==
    ~overtaken =>
        /\ desk.selection.primary # None => RunOf[desk.selection.primary] = scope.run
        /\ \A q \in runs : q.live =>
               /\ RunOf[q.selection.primary] = scope.run
               /\ q.made # 0 => desk.review < q.made
        /\ \A q \in appends : q.live =>
               /\ q.review = desk.review
               /\ q.after = desk.seen

DeskInv ==
    /\ TypeOK
    /\ Numbered
    /\ Waiting
    /\ Single
    /\ Loading
    /\ Asked
    /\ ApprovalBinds
    /\ LoadedReviewOfThisRun

----------------------------------------------------------------------------
(* The reviews of the server *)

(* A set of reviews that is not empty has a newest one. *)
LEMMA HasNewest ==
    ASSUME NEW n \in Nat, NEW S \in SUBSET (1 .. n), S # {}
    PROVE  \E m \in S : \A o \in S : o <= m
<1> DEFINE Below == {k \in Nat : n - k \in S}
           Less == OpToRel(<, Nat)
<1>1. Below # {}
  <2>1. PICK s \in S : TRUE
    OBVIOUS
  <2>2. n - s \in Below
    BY <2>1
  <2> QED BY <2>2
<1>2. \A x, y \in Nat : <<y, x>> \in Less <=> y < x
  BY DEF OpToRel
<1>3. IsWellFoundedOn(Less, Nat)
  BY NatLessThanWellFounded
<1>4. PICK x \in Below : \A y \in Below : ~(y < x)
  <2>1. Below \subseteq Nat
    OBVIOUS
  <2> HIDE DEF Less, Below
  <2>2. PICK x \in Below : \A y \in Below : ~(<<y, x>> \in Less)
    BY <1>1, <1>3, <2>1, WFMin
  <2> QED BY <1>2, <2>1, <2>2
<1>5. ASSUME NEW o \in S
      PROVE  o <= n - x
  <2>1. n - o \in Below
    OBVIOUS
  <2> QED BY <1>4, <2>1
<1> QED BY <1>4, <1>5

(* A decision changes the chain of its review and nothing else. *)
LEMMA DecisionAdded ==
    ASSUME reviews \in Seq(ReviewRecord),
           NEW r \in 1 .. Len(reviews), NEW c \in 0 .. MaxDecisions,
           reviews' = [reviews EXCEPT ![r].chain = c]
    PROVE  /\ reviews' \in Seq(ReviewRecord)
           /\ Len(reviews') = Len(reviews)
           /\ \A k \in 1 .. Len(reviews) :
                  /\ reviews'[k] \in ReviewRecord
                  /\ reviews'[k].selection = reviews[k].selection
<1>1. PICK d : d = [reviews[r] EXCEPT !.chain = c]
  OBVIOUS
<1>2. /\ d \in ReviewRecord
      /\ d.selection = reviews[r].selection
  <2>1. reviews[r] \in ReviewRecord
    OBVIOUS
  <2> QED BY <1>1, <2>1 DEF ReviewRecord
<1>3. reviews' = [reviews EXCEPT ![r] = d]
  BY <1>1
<1>4. /\ reviews' \in Seq(ReviewRecord)
      /\ Len(reviews') = Len(reviews)
  BY <1>2, <1>3
<1>5. \A k \in 1 .. Len(reviews) :
          reviews'[k] = IF k = r THEN d ELSE reviews[k]
  BY <1>3
<1> QED BY <1>2, <1>4, <1>5

----------------------------------------------------------------------------
(* What the coordinator does to the requests in flight *)

LEMMA CancelledLoads ==
    ASSUME loads \subseteq LoadRequest, NEW q \in Cancelled(loads)
    PROVE  /\ q \in LoadRequest
           /\ ~q.live
           /\ \E p \in loads : q.review = p.review /\ q.scope = p.scope
BY DEF Cancelled, LoadRequest

LEMMA CancelledRuns ==
    ASSUME runs \subseteq RunRequest, NEW q \in Cancelled(runs)
    PROVE  /\ q \in RunRequest
           /\ ~q.live
           /\ \E p \in runs : q.made = p.made /\ q.selection = p.selection
BY DEF Cancelled, RunRequest

LEMMA CancelledAppends ==
    ASSUME appends \subseteq AppendRequest, NEW q \in Cancelled(appends)
    PROVE  /\ q \in AppendRequest
           /\ ~q.live
           /\ \E p \in appends : q.review = p.review
BY DEF Cancelled, AppendRequest

(* The review lane after everything in it was aborted *)
LaneCancelled ==
    /\ runs' \subseteq RunRequest
    /\ \A q \in runs' :
           /\ ~q.live
           /\ \E p \in runs : q.made = p.made /\ q.selection = p.selection
    /\ appends' \subseteq AppendRequest
    /\ \A q \in appends' : ~q.live /\ \E p \in appends : q.review = p.review

LEMMA LaneIsCancelled ==
    ASSUME TypeOK, CancelReview
    PROVE  LaneCancelled
BY CancelledRuns, CancelledAppends DEF TypeOK, CancelReview, LaneCancelled

(* What a restart of the context in s leaves behind *)
Restarted(s) ==
    /\ desk' \in Desk
    /\ desk'.review = 0
    /\ desk'.seen = 0
    /\ ~desk'.approved
    /\ desk'.selection.primary # None => RunOf[desk'.selection.primary] = s.run
    /\ busy' \in BusyFlags
    /\ loads' \subseteq LoadRequest
    /\ \A q \in loads' :
           /\ q.live => q = LoadOf(s) /\ busy'.loading
           /\ q.review # 0 => \E p \in loads : q.review = p.review /\ q.scope = p.scope
    /\ LaneCancelled
    /\ overtaken' = FALSE

LEMMA LoadsOf ==
    ASSUME NEW s \in Scope
    PROVE  /\ LoadOf(s) \in LoadRequest
           /\ LoadOf(s).scope = s
           /\ LoadOf(s).review = 0
BY BoundAssumption DEF LoadOf, LoadRequest

LEMMA RestartEffect ==
    ASSUME TypeOK,
           NEW s \in Scope, NEW completed \in SUBSET Experiment,
           NEW made \in Experiment \cup {None},
           made # None => RunOf[made] = s.run,
           RestartContext(s, completed, made)
    PROVE  Restarted(s)
<1>1. PICK p \in FirstPrimary(s, completed, made) :
          desk' = [desk EXCEPT !.selection.primary = p, !.selection.comparisons = {},
                               !.known = FALSE, !.approved = FALSE,
                               !.review = 0, !.seen = 0]
  BY DEF RestartContext
<1>2. /\ p \in Experiment \cup {None}
      /\ p # None => RunOf[p] = s.run
  BY <1>1 DEF FirstPrimary, Visible
<1>3. /\ desk \in Desk
      /\ desk.selection \in Selection
  BY DEF TypeOK, Desk
<1>4. PICK d : d = [desk EXCEPT !.selection = [desk.selection EXCEPT !.primary = p]]
  OBVIOUS
<1>5. /\ d \in Desk
      /\ d.selection \in Selection
      /\ d.selection.primary = p
  <2>1. /\ [desk.selection EXCEPT !.primary = p] \in Selection
        /\ [desk.selection EXCEPT !.primary = p].primary = p
    BY <1>2, <1>3 DEF Selection
  <2>2. d \in Desk /\ d.selection = [desk.selection EXCEPT !.primary = p]
    BY <1>3, <1>4, <2>1 DEF Desk
  <2> QED BY <2>1, <2>2
<1>6. desk' = [d EXCEPT !.selection = [d.selection EXCEPT !.comparisons = {}],
                        !.known = FALSE, !.approved = FALSE,
                        !.review = 0, !.seen = 0]
  BY <1>1, <1>4
<1>7. /\ desk' \in Desk
      /\ desk'.review = 0 /\ desk'.seen = 0 /\ ~desk'.approved
      /\ desk'.selection.primary = p
  <2>1. /\ [d.selection EXCEPT !.comparisons = {}] \in Selection
        /\ [d.selection EXCEPT !.comparisons = {}].primary = p
    BY <1>5 DEF Selection
  <2>2. PICK sel : sel = [d.selection EXCEPT !.comparisons = {}]
    OBVIOUS
  <2>3. 0 \in 0 .. MaxReviews /\ 0 \in 0 .. MaxDecisions
    BY BoundAssumption
  <2>4. desk' = [d EXCEPT !.selection = sel, !.known = FALSE, !.approved = FALSE,
                          !.review = 0, !.seen = 0]
    BY <1>6, <2>2
  <2>5. sel \in Selection /\ sel.primary = p
    BY <2>1, <2>2
  <2> QED BY <1>5, <2>3, <2>4, <2>5 DEF Desk
<1>8. /\ loads' \subseteq LoadRequest
      /\ busy' \in BusyFlags
      /\ \A q \in loads' :
           /\ q.live => q = LoadOf(s) /\ busy'.loading
           /\ q.review # 0 => \E o \in loads : q.review = o.review /\ q.scope = o.scope
  <2>1. \A q \in loads' : \/ q \in Cancelled(loads)
                          \/ q = LoadOf(s) /\ busy'.loading
    <3>1. CASE s.area = "elsewhere"
      BY <3>1 DEF RestartContext
    <3>2. CASE s.area # "elsewhere"
      <4>1. busy'.loading
        <5>1. busy'.loading = (s.area # "elsewhere")
          BY DEF RestartContext
        <5> QED BY <3>2, <5>1
      <4>2. loads' = Cancelled(loads) \cup {LoadOf(s)}
        BY <3>2 DEF RestartContext
      <4> QED BY <4>1, <4>2
    <3> QED BY <3>1, <3>2
  <2>2. \A q \in loads' : q \in Cancelled(loads) =>
            /\ q \in LoadRequest
            /\ ~q.live
            /\ \E o \in loads : q.review = o.review /\ q.scope = o.scope
    BY CancelledLoads DEF TypeOK
  <2>3. busy' \in BusyFlags
    BY DEF RestartContext, BusyFlags
  <2> QED BY <2>1, <2>2, <2>3, LoadsOf
<1>9. LaneCancelled /\ overtaken' = FALSE
  BY LaneIsCancelled DEF RestartContext
<1> QED BY <1>2, <1>7, <1>8, <1>9 DEF Restarted

(* The three steps that may restart the context *)
LEMMA Restarts ==
    ASSUME TypeOK, Waiting,
           \/ \E s \in Scope : SwitchContext(s)
           \/ \E e \in Experiment : ExperimentListed(e)
           \/ \E ok \in BOOLEAN : ExperimentMade(ok)
    PROVE  /\ scope' \in Scope
           /\ done' \subseteq Experiment
           /\ UNCHANGED <<reviews, grant>>
           /\ \/ Restarted(scope')
              \/ UNCHANGED <<scope, desk, busy, loads, runs, appends, overtaken>>
<1>0. done \subseteq Experiment /\ scope \in Scope
  BY DEF TypeOK
<1>1. ASSUME NEW s \in Scope, SwitchContext(s)
      PROVE  /\ scope' = s
             /\ done' = done
             /\ UNCHANGED <<reviews, grant>>
             /\ Restarted(s)
  BY <1>0, <1>1, RestartEffect DEF SwitchContext
<1>2. ASSUME NEW e \in Experiment, ExperimentListed(e)
      PROVE  /\ scope' = scope
             /\ done' \subseteq Experiment
             /\ UNCHANGED <<reviews, grant>>
             /\ \/ Restarted(scope)
                \/ UNCHANGED <<scope, desk, busy, loads, runs, appends, overtaken>>
  <2>1. done' \subseteq Experiment
    BY <1>0, <1>2 DEF ExperimentListed
  <2>2. CASE RunOf[e] = scope.run
    BY <1>0, <1>2, <2>1, <2>2, RestartEffect DEF ExperimentListed
  <2>3. CASE RunOf[e] # scope.run
    BY <1>2, <2>1, <2>3 DEF ExperimentListed
  <2> QED BY <2>2, <2>3
<1>3. ASSUME NEW ok \in BOOLEAN, ExperimentMade(ok)
      PROVE  /\ scope' = scope
             /\ done' \subseteq Experiment
             /\ UNCHANGED <<reviews, grant>>
             /\ \/ Restarted(scope)
                \/ UNCHANGED <<scope, desk, busy, loads, runs, appends, overtaken>>
  <2>1. CASE ~ok \/ ~pending.current
    BY <1>0, <1>3, <2>1 DEF ExperimentMade
  <2>2. CASE ok /\ pending.current
    <3>1. /\ pending.selection.primary \in Experiment
          /\ RunOf[pending.selection.primary] = scope.run
      BY <1>3, <2>2 DEF Waiting, ExperimentMade
    <3>2. /\ RestartContext(scope, done', pending.selection.primary)
          /\ done' \subseteq Experiment
          /\ UNCHANGED <<scope, reviews, grant>>
      BY <1>0, <1>3, <2>2, <3>1 DEF ExperimentMade
    <3> QED BY <1>0, <3>1, <3>2, RestartEffect
  <2> QED BY <2>1, <2>2
<1> QED BY <1>0, <1>1, <1>2, <1>3

(* A request of the review lane is begun *)
LEMMA RunBegun ==
    ASSUME TypeOK, NEW r \in RunRequest, BeginRun(r)
    PROVE  /\ runs' \subseteq RunRequest
           /\ \A q \in runs' :
                  \/ q = r
                  \/ ~q.live /\ \E p \in runs : q.made = p.made /\ q.selection = p.selection
           /\ appends' \subseteq AppendRequest
           /\ \A q \in appends' : ~q.live /\ \E p \in appends : q.review = p.review
           /\ busy' \in BusyFlags
BY CancelledRuns, CancelledAppends DEF TypeOK, BeginRun, BusyFlags

LEMMA AppendBegun ==
    ASSUME TypeOK, NEW r \in AppendRequest, BeginAppend(r)
    PROVE  /\ appends' \subseteq AppendRequest
           /\ \A q \in appends' :
                  \/ q = r
                  \/ ~q.live /\ \E p \in appends : q.review = p.review
           /\ runs' \subseteq RunRequest
           /\ \A q \in runs' :
                  ~q.live /\ \E p \in runs : q.made = p.made /\ q.selection = p.selection
           /\ busy' \in BusyFlags
BY CancelledRuns, CancelledAppends DEF TypeOK, BeginAppend, BusyFlags

(* The operator changes what a review would be asked for with *)
LEMMA Chooses ==
    ASSUME TypeOK,
           \/ \E e \in Experiment : ToggleComparison(e)
           \/ \E p \in Provider : SelectProvider(p)
    PROVE  /\ desk' \in Desk
           /\ desk'.selection.primary = desk.selection.primary
           /\ ~desk'.approved
           /\ desk'.review = 0 /\ desk'.seen = 0
           /\ LaneCancelled
           /\ busy' = [busy EXCEPT !.running = FALSE, !.appending = FALSE]
           /\ UNCHANGED <<scope, moves, done, loads, pending, reviews, grant, overtaken>>
<1>1. desk \in Desk /\ desk.selection \in Selection
  BY DEF TypeOK, Desk
<1>2. PICK sel \in Selection :
          /\ sel.primary = desk.selection.primary
          /\ Chosen(sel)
          /\ UNCHANGED <<scope, moves, done, loads, pending, reviews, grant, overtaken>>
  <2>1. ASSUME NEW e \in Experiment, ToggleComparison(e)
        PROVE  \E sel \in Selection :
                   /\ sel.primary = desk.selection.primary
                   /\ Chosen(sel)
                   /\ UNCHANGED <<scope, moves, done, loads, pending, reviews, grant,
                                  overtaken>>
    <3>1. PICK c \in SUBSET Experiment : Chosen([desk.selection EXCEPT !.comparisons = c])
      <4>1. /\ desk.selection.comparisons \ {e} \in SUBSET Experiment
            /\ desk.selection.comparisons \cup {e} \in SUBSET Experiment
        BY <1>1 DEF Selection
      <4> QED BY <2>1, <4>1 DEF ToggleComparison
    <3>2. PICK sel : sel = [desk.selection EXCEPT !.comparisons = c]
      OBVIOUS
    <3>3. sel \in Selection /\ sel.primary = desk.selection.primary
      BY <1>1, <3>2 DEF Selection
    <3> QED BY <2>1, <3>1, <3>2, <3>3 DEF ToggleComparison
  <2>2. ASSUME NEW p \in Provider, SelectProvider(p)
        PROVE  \E sel \in Selection :
                   /\ sel.primary = desk.selection.primary
                   /\ Chosen(sel)
                   /\ UNCHANGED <<scope, moves, done, loads, pending, reviews, grant,
                                  overtaken>>
    <3>1. PICK sel : sel = [desk.selection EXCEPT !.provider = p]
      OBVIOUS
    <3>2. sel \in Selection /\ sel.primary = desk.selection.primary
      BY <1>1, <3>1 DEF Selection
    <3> QED BY <2>2, <3>1, <3>2 DEF SelectProvider
  <2> QED BY <2>1, <2>2
<1>3. LaneCancelled
  BY <1>2, LaneIsCancelled DEF Chosen, InvalidateReview
<1>4. 0 \in 0 .. MaxReviews /\ 0 \in 0 .. MaxDecisions
  BY BoundAssumption
<1> QED BY <1>1, <1>2, <1>3, <1>4 DEF Chosen, InvalidateReview, Desk

(* The archive is read: the load names a review of its run, or none. *)
LEMMA ContextRead ==
    ASSUME TypeOK, Numbered, NEW q \in loads, ReadContext(q)
    PROVE  \E r \in LoadRequest :
               /\ loads' = (loads \ {q}) \cup {r}
               /\ r.live = q.live
               /\ r.scope = q.scope
               /\ r.review <= Len(reviews)
               /\ r.review # 0 => RunOfReview(r.review) = r.scope.run
<1> DEFINE ofRun == {r \in DOMAIN reviews : RunOfReview(r) = q.scope.run}
           newest == CHOOSE r \in ofRun : \A o \in ofRun : o <= r
           found == q.scope.area = "ai-review" /\ ofRun # {}
           v == IF found THEN newest ELSE 0
           c == IF found THEN reviews[newest].chain ELSE 0
           r == [q EXCEPT !.read = TRUE, !.review = v, !.seen = c]
<1>1. loads' = (loads \ {q}) \cup {r}
  BY DEF ReadContext
<1>2. q \in LoadRequest
  BY DEF TypeOK
<1>3. /\ Len(reviews) \in Nat
      /\ DOMAIN reviews = 1 .. Len(reviews)
      /\ Len(reviews) <= MaxReviews
  BY DEF Numbered, TypeOK
<1>4. found => newest \in ofRun
  <2> SUFFICES ASSUME found
               PROVE  newest \in ofRun
    OBVIOUS
  <2>1. \E m \in ofRun : \A o \in ofRun : o <= m
    BY <1>3, HasNewest
  <2> HIDE DEF ofRun, found
  <2> QED BY <2>1
<1>5. found => newest \in 1 .. Len(reviews) /\ RunOfReview(newest) = q.scope.run
  <2> HIDE DEF newest
  <2> QED BY <1>3, <1>4
<1> HIDE DEF ofRun, newest, found
<1>6. /\ v \in 0 .. MaxReviews
      /\ v <= Len(reviews)
      /\ v # 0 => RunOfReview(v) = q.scope.run
  BY <1>3, <1>5, BoundAssumption
<1>7. c \in 0 .. MaxDecisions
  <2>1. found => reviews[newest] \in ReviewRecord
    BY <1>3, <1>5 DEF TypeOK, ReviewRecord
  <2> QED BY <2>1, BoundAssumption DEF ReviewRecord
<1> HIDE DEF v, c
<1>8. /\ r \in LoadRequest
      /\ r.live = q.live /\ r.scope = q.scope /\ r.review = v
  BY <1>2, <1>6, <1>7 DEF LoadRequest
<1> HIDE DEF r
<1> QED BY <1>1, <1>6, <1>8

(* The answer to a context load fills the page, if the load is still live. *)
LEMMA ContextAnswered ==
    ASSUME TypeOK, Numbered, NEW q \in loads, ContextLoaded(q)
    PROVE  /\ loads' = loads \ {q}
           /\ UNCHANGED <<scope, moves, done, runs, appends, pending, reviews, grant,
                          overtaken>>
           /\ \/ UNCHANGED <<desk, busy>>
              \/ /\ q.live
                 /\ busy' = [busy EXCEPT !.loading = FALSE]
                 /\ desk' \in Desk
                 /\ desk'.approved = desk.approved
                 /\ \/ desk'.review = desk.review /\ desk'.seen = desk.seen
                    \/ desk'.review = q.review /\ desk'.seen = q.seen
                 /\ \/ desk'.selection.primary = desk.selection.primary
                    \/ desk'.selection.primary \in Visible(scope, done)
<1>1. CASE ~q.live
  BY <1>1 DEF ContextLoaded, IsCurrent
<1>2. CASE q.live
  <2>1. /\ desk \in Desk
        /\ q \in LoadRequest
    BY DEF TypeOK, Desk
  <2>2. PICK listed \in BOOLEAN, archived \in BOOLEAN, matches \in BOOLEAN,
             configured \in SUBSET External :
            \E p \in ProviderFor(IF listed THEN configured \cup {Local} ELSE {}) :
                LET shown == [desk EXCEPT !.known = listed, !.initialized = TRUE,
                                          !.selection.provider = p]
                    restored == [shown EXCEPT !.review = q.review, !.seen = q.seen]
                    s == reviews[q.review].selection
                IN desk' = IF ~archived \/ q.review = 0 THEN shown
                           ELSE IF ~matches \/ s.primary \notin Visible(scope, done)
                           THEN restored
                           ELSE [restored EXCEPT !.selection.primary = s.primary,
                                                 !.selection.comparisons = s.comparisons]
    BY <1>2 DEF ContextLoaded, IsCurrent
  <2>3. PICK p \in ProviderFor(IF listed THEN configured \cup {Local} ELSE {}) :
            LET shown == [desk EXCEPT !.known = listed, !.initialized = TRUE,
                                      !.selection.provider = p]
                restored == [shown EXCEPT !.review = q.review, !.seen = q.seen]
                s == reviews[q.review].selection
            IN desk' = IF ~archived \/ q.review = 0 THEN shown
                       ELSE IF ~matches \/ s.primary \notin Visible(scope, done)
                       THEN restored
                       ELSE [restored EXCEPT !.selection.primary = s.primary,
                                             !.selection.comparisons = s.comparisons]
    BY <2>2
  <2>4. p \in Provider
    BY DEF ProviderFor, Provider
  <2>5. PICK shown : shown = [desk EXCEPT !.known = listed, !.initialized = TRUE,
                                          !.selection.provider = p]
    OBVIOUS
  <2>6. PICK sel : sel = [desk.selection EXCEPT !.provider = p]
    OBVIOUS
  <2>7. sel \in Selection /\ sel.primary = desk.selection.primary
    BY <2>1, <2>4, <2>6 DEF Desk, Selection
  <2>8. shown = [desk EXCEPT !.known = listed, !.initialized = TRUE, !.selection = sel]
    BY <2>1, <2>5, <2>6 DEF Desk
  <2>9. /\ shown \in Desk
        /\ shown.approved = desk.approved
        /\ shown.review = desk.review /\ shown.seen = desk.seen
        /\ shown.selection = sel
    BY <2>1, <2>7, <2>8 DEF Desk
  <2>10. PICK restored : restored = [shown EXCEPT !.review = q.review, !.seen = q.seen]
    OBVIOUS
  <2>11. /\ restored \in Desk
         /\ restored.approved = desk.approved
         /\ restored.review = q.review /\ restored.seen = q.seen
         /\ restored.selection = sel
    BY <2>1, <2>9, <2>10 DEF Desk, LoadRequest
  <2>12. CASE ~archived \/ q.review = 0
    <3>1. desk' = shown
      BY <2>3, <2>5, <2>12
    <3> QED BY <1>2, <2>7, <2>9, <3>1 DEF ContextLoaded, IsCurrent, FinishContext
  <2>13. CASE /\ archived /\ q.review # 0
              /\ \/ ~matches
                 \/ reviews[q.review].selection.primary \notin Visible(scope, done)
    <3>1. desk' = restored
      BY <2>3, <2>5, <2>10, <2>13
    <3> QED BY <1>2, <2>7, <2>11, <3>1 DEF ContextLoaded, IsCurrent, FinishContext
  <2>14. CASE /\ archived /\ q.review # 0 /\ matches
              /\ reviews[q.review].selection.primary \in Visible(scope, done)
    <3>1. PICK s : s = reviews[q.review].selection
      OBVIOUS
    <3>2. s \in Selection
      <4>1. q.review \in 1 .. Len(reviews)
        BY <2>1, <2>14, BoundAssumption DEF Numbered, LoadRequest
      <4>2. reviews[q.review] \in ReviewRecord
        BY <4>1 DEF Numbered
      <4> QED BY <3>1, <4>2 DEF ReviewRecord
    <3>3. desk' = [restored EXCEPT !.selection.primary = s.primary,
                                   !.selection.comparisons = s.comparisons]
      BY <2>3, <2>5, <2>10, <2>14, <3>1
    <3>4. PICK mid : mid = [restored EXCEPT !.selection = [sel EXCEPT !.primary = s.primary]]
      OBVIOUS
    <3>5. /\ mid \in Desk
          /\ mid.approved = desk.approved
          /\ mid.review = q.review /\ mid.seen = q.seen
          /\ mid.selection \in Selection /\ mid.selection.primary = s.primary
      <4>1. PICK t : t = [sel EXCEPT !.primary = s.primary]
        OBVIOUS
      <4>2. t \in Selection /\ t.primary = s.primary
        BY <2>7, <3>2, <4>1 DEF Selection
      <4>3. mid = [restored EXCEPT !.selection = t]
        BY <3>4, <4>1
      <4> QED BY <2>11, <4>2, <4>3 DEF Desk
    <3>6. PICK t : t = [mid.selection EXCEPT !.comparisons = s.comparisons]
      OBVIOUS
    <3>7. t \in Selection /\ t.primary = s.primary
      BY <3>2, <3>5, <3>6 DEF Selection
    <3>8. desk' = [mid EXCEPT !.selection = t]
      BY <2>11, <3>3, <3>4, <3>6
    <3>9. /\ desk' \in Desk
          /\ desk'.approved = desk.approved
          /\ desk'.review = q.review /\ desk'.seen = q.seen
          /\ desk'.selection.primary = s.primary
      BY <3>5, <3>7, <3>8 DEF Desk
    <3> QED BY <1>2, <2>14, <3>1, <3>9 DEF ContextLoaded, IsCurrent, FinishContext
  <2> QED BY <2>12, <2>13, <2>14
<1> QED BY <1>1, <1>2

(* A prepared review takes the place of what the page showed. *)
LEMMA PreparedReview ==
    ASSUME TypeOK, Waiting, ReviewPrepared
    PROVE  /\ desk' \in Desk
           /\ desk'.selection.primary = pending.selection.primary
           /\ desk'.approved = desk.approved
           /\ desk'.review = desk.review /\ desk'.seen = desk.seen
           /\ \E r \in RunRequest :
                  /\ r.selection = pending.selection /\ r.made = 0
                  /\ BeginRun(r)
<1>1. /\ desk \in Desk
      /\ desk.selection \in Selection
      /\ pending.selection \in Selection
  BY DEF TypeOK, Desk, Pending
<1>2. PICK r : r = [selection |-> pending.selection, live |-> TRUE, made |-> 0,
                    prepared |-> TRUE]
  OBVIOUS
<1>3. /\ r \in RunRequest
      /\ r.selection = pending.selection /\ r.made = 0
  BY <1>1, <1>2, BoundAssumption DEF RunRequest
<1>4. BeginRun(r)
  BY <1>2 DEF ReviewPrepared
<1>5. PICK e \in Experiment : e = pending.selection.primary
  BY DEF ReviewPrepared, Waiting
<1>6. PICK a : a = [desk.selection EXCEPT !.primary = e]
  OBVIOUS
<1>7. a \in Selection /\ a.primary = e
  BY <1>1, <1>6 DEF Selection
<1>8. PICK d : d = [desk EXCEPT !.selection = a]
  OBVIOUS
<1>9. /\ d \in Desk /\ d.selection = a
      /\ d.approved = desk.approved
      /\ d.review = desk.review /\ d.seen = desk.seen
  BY <1>1, <1>7, <1>8 DEF Desk
<1>10. PICK b : b = [a EXCEPT !.comparisons = {}]
  OBVIOUS
<1>11. b \in Selection /\ b.primary = e
  BY <1>7, <1>10 DEF Selection
<1>12. desk' = [d EXCEPT !.selection = b]
  <2>1. desk' = [desk EXCEPT !.selection.primary = e, !.selection.comparisons = {}]
    BY <1>5 DEF ReviewPrepared
  <2> QED BY <1>6, <1>8, <1>9, <1>10, <2>1
<1>13. /\ desk' \in Desk
       /\ desk'.selection.primary = e
       /\ desk'.approved = desk.approved
       /\ desk'.review = desk.review /\ desk'.seen = desk.seen
  BY <1>9, <1>11, <1>12 DEF Desk
<1> QED BY <1>3, <1>4, <1>5, <1>13

----------------------------------------------------------------------------
(* The values the page holds, and the reviews its numbers are of *)

LEMMA TypeInit == Init => TypeOK /\ Numbered
<1> SUFFICES ASSUME Init
             PROVE  TypeOK /\ Numbered
  OBVIOUS
<1>0. /\ 0 \in 0 .. MaxReviews /\ 0 \in 0 .. MaxDecisions /\ 0 \in 0 .. MaxMoves
      /\ scope \in Scope
  BY BoundAssumption, ScopeAssumption DEF Init
<1>1. NoSelection \in Selection
  BY DEF NoSelection, Selection, Provider
<1>2. PICK p \in FirstPrimary(scope, done, None) :
          desk = [selection |-> [NoSelection EXCEPT !.primary = p], known |-> FALSE,
                  initialized |-> FALSE, approved |-> FALSE, review |-> 0, seen |-> 0]
  BY DEF Init
<1>3. p \in Experiment \cup {None}
  BY <1>2, ExperimentAssumption DEF FirstPrimary, Visible, Init
<1>4. PICK a : a = [NoSelection EXCEPT !.primary = p]
  OBVIOUS
<1>5. a \in Selection
  BY <1>1, <1>3, <1>4 DEF Selection
<1>6. desk \in Desk /\ desk.review = 0
  BY <1>0, <1>2, <1>4, <1>5 DEF Desk
<1>7. NoPending \in Pending
  BY <1>1 DEF NoPending, Pending
<1>8. busy \in BusyFlags
  BY DEF Init, BusyFlags
<1>9. /\ loads \subseteq LoadRequest
      /\ \A q \in loads : q.review = 0
  BY <1>0, LoadsOf DEF Init
<1>10. TypeOK
  <2>1. /\ scope \in Scope /\ moves \in 0 .. MaxMoves
        /\ done \subseteq Experiment
    BY <1>0, ExperimentAssumption DEF Init
  <2>2. /\ runs = {} /\ appends = {} /\ pending \in Pending
        /\ reviews = <<>> /\ grant \in Selection /\ overtaken \in BOOLEAN
    BY <1>1, <1>7 DEF Init
  <2>3. DOMAIN reviews = {} /\ Len(reviews) = 0
    BY <2>2
  <2> QED BY <1>6, <1>8, <1>9, <2>1, <2>2, <2>3, BoundAssumption
          DEF TypeOK, Desk, BusyFlags
<1>11. Numbered
  BY <1>6, <1>9 DEF Init, Numbered
<1> QED BY <1>10, <1>11

(* What a restart leaves has its types and its numbers. *)
LEMMA RestartTyped ==
    ASSUME TypeOK, Numbered, NEW s \in Scope, Restarted(s),
           UNCHANGED <<reviews, grant>>,
           scope' \in Scope, moves' \in 0 .. MaxMoves, done' \subseteq Experiment,
           pending' \in Pending
    PROVE  TypeOK' /\ Numbered'
<1>1. TypeOK'
  BY DEF TypeOK, Restarted, LaneCancelled, Desk, BusyFlags
<1>2. Numbered'
  BY DEF Numbered, Restarted, LaneCancelled, RunOfReview
<1> QED BY <1>1, <1>2

LEMMA TypeStep == TypeOK /\ Numbered /\ Waiting /\ [Next]_vars => TypeOK' /\ Numbered'
<1> SUFFICES ASSUME TypeOK, Numbered, Waiting, [Next]_vars
             PROVE  TypeOK' /\ Numbered'
  OBVIOUS
<1>a. /\ desk \in Desk /\ desk.selection \in Selection
      /\ busy \in BusyFlags
      /\ pending \in Pending
      /\ 0 \in 0 .. MaxReviews /\ 0 \in 0 .. MaxDecisions
      /\ done \subseteq Experiment
  BY BoundAssumption DEF TypeOK, Desk, BusyFlags
<1>b. /\ DOMAIN reviews = 1 .. Len(reviews)
      /\ Len(reviews) \in Nat
  BY DEF Numbered
<1>1. CASE \/ \E s \in Scope : SwitchContext(s)
           \/ \E e \in Experiment : ExperimentListed(e)
           \/ \E ok \in BOOLEAN : ExperimentMade(ok)
  <2>1. /\ scope' \in Scope
        /\ done' \subseteq Experiment
        /\ UNCHANGED <<reviews, grant>>
        /\ \/ Restarted(scope')
           \/ UNCHANGED <<scope, desk, busy, loads, runs, appends, overtaken>>
    BY <1>1, Restarts
  <2>2. moves' \in 0 .. MaxMoves
    BY <1>1, BoundAssumption
       DEF SwitchContext, ExperimentListed, ExperimentMade, TypeOK
  <2>3. pending' \in Pending
    <3>1. NoPending \in Pending
      BY DEF NoPending, NoSelection, Pending, Selection, Provider
    <3>2. \A s \in Scope :
              [pending EXCEPT !.current = @ /\ s.run = scope.run] \in Pending
      BY <1>a DEF Pending
    <3>3. [pending EXCEPT !.step = "listing"] \in Pending
      BY <1>a DEF Pending
    <3> QED BY <1>1, <1>a, <3>1, <3>2, <3>3
            DEF SwitchContext, ExperimentListed, ExperimentMade
  <2>4. CASE Restarted(scope')
    BY <2>1, <2>2, <2>3, <2>4, RestartTyped
  <2>5. CASE UNCHANGED <<scope, desk, busy, loads, runs, appends, overtaken>>
    BY <2>1, <2>2, <2>3, <2>5 DEF TypeOK, Numbered, RunOfReview
  <2> QED BY <2>1, <2>4, <2>5
<1>2. CASE \/ \E e \in Experiment : ToggleComparison(e)
           \/ \E p \in Provider : SelectProvider(p)
  <2>1. /\ desk' \in Desk
        /\ desk'.review = 0
        /\ LaneCancelled
        /\ busy' = [busy EXCEPT !.running = FALSE, !.appending = FALSE]
        /\ UNCHANGED <<scope, moves, done, loads, pending, reviews, grant, overtaken>>
    BY <1>2, Chooses
  <2>2. busy' \in BusyFlags
    BY <1>a, <2>1 DEF BusyFlags
  <2>3. TypeOK'
    BY <2>1, <2>2 DEF TypeOK, LaneCancelled, Desk, BusyFlags
  <2>4. Numbered'
    BY <2>1 DEF Numbered, LaneCancelled, RunOfReview
  <2> QED BY <2>3, <2>4
<1>3. ASSUME NEW approved \in BOOLEAN, ApproveExternalData(approved)
      PROVE  TypeOK' /\ Numbered'
  <2>1. LaneCancelled
    BY <1>3, LaneIsCancelled DEF ApproveExternalData, InvalidateReview
  <2>2. busy' \in BusyFlags
    BY <1>3, <1>a DEF ApproveExternalData, InvalidateReview, BusyFlags
  <2>3. desk' \in Desk /\ desk'.review = 0
    BY <1>3, <1>a, BoundAssumption DEF ApproveExternalData, Desk
  <2>4. grant' \in Selection
    BY <1>3, <1>a DEF ApproveExternalData, NoSelection, Selection, Provider
  <2>5. TypeOK'
    BY <1>3, <2>1, <2>2, <2>3, <2>4
       DEF ApproveExternalData, TypeOK, LaneCancelled, Desk, BusyFlags
  <2>6. Numbered'
    BY <1>3, <2>1, <2>3 DEF ApproveExternalData, Numbered, LaneCancelled, RunOfReview
  <2> QED BY <2>5, <2>6
<1>4. CASE RunReview
  <2>1. PICK r : r = [selection |-> desk.selection, live |-> TRUE, made |-> 0,
                      prepared |-> FALSE]
    OBVIOUS
  <2>2. r \in RunRequest /\ r.made = 0
    BY <1>a, <2>1 DEF RunRequest
  <2>3. BeginRun(r)
    BY <1>4, <2>1 DEF RunReview
  <2>4. TypeOK'
    BY <1>4, <2>2, <2>3, RunBegun DEF RunReview, TypeOK, BusyFlags
  <2>5. Numbered'
    BY <1>4, <1>b, <2>2, <2>3, RunBegun DEF RunReview, Numbered, RunOfReview
  <2> QED BY <2>4, <2>5
<1>5. ASSUME NEW e \in Experiment, PrepareReview(e)
      PROVE  TypeOK' /\ Numbered'
  <2>1. [desk.selection EXCEPT !.primary = e] \in Selection
    BY <1>a DEF Selection
  <2>2. pending' \in Pending
    BY <1>5, <2>1 DEF PrepareReview, Pending
  <2> QED BY <1>5, <2>2 DEF PrepareReview, TypeOK, Numbered, RunOfReview
<1>6. CASE AppendDecision
  <2>1. PICK r : r = [review |-> desk.review, after |-> desk.seen, live |-> TRUE,
                      step |-> "asked"]
    OBVIOUS
  <2>2. r \in AppendRequest /\ r.review = desk.review
    BY <1>6, <1>a, <2>1, BoundAssumption DEF AppendDecision, AppendRequest, Desk, Review
  <2>3. BeginAppend(r)
    BY <1>6, <2>1 DEF AppendDecision
  <2>4. TypeOK'
    BY <1>6, <2>2, <2>3, AppendBegun DEF AppendDecision, TypeOK, BusyFlags
  <2>5. Numbered'
    BY <1>6, <2>2, <2>3, AppendBegun DEF AppendDecision, Numbered, RunOfReview
  <2> QED BY <2>4, <2>5
<1>7. ASSUME NEW q \in runs, CreateReview(q)
      PROVE  TypeOK' /\ Numbered'
  <2>1. PICK v : v = [selection |-> q.selection, chain |-> 0]
    OBVIOUS
  <2>2. q \in RunRequest /\ v \in ReviewRecord /\ v.selection = q.selection
    BY <2>1, BoundAssumption DEF TypeOK, RunRequest, ReviewRecord
  <2>3. reviews' = Append(reviews, v)
    BY <1>7, <2>1 DEF CreateReview
  <2>4. /\ reviews' \in Seq(ReviewRecord)
        /\ Len(reviews') = Len(reviews) + 1
        /\ reviews'[Len(reviews) + 1] = v
        /\ \A r \in 1 .. Len(reviews) : reviews'[r] = reviews[r]
    BY <2>2, <2>3 DEF Numbered
  <2>5. Len(reviews) + 1 \in 0 .. MaxReviews
    BY <1>7, <1>b, BoundAssumption DEF CreateReview
  <2>6. PICK r : r = [q EXCEPT !.made = Len(reviews) + 1]
    OBVIOUS
  <2>7. r \in RunRequest /\ r.made = Len(reviews) + 1 /\ r.selection = q.selection
    BY <2>2, <2>5, <2>6 DEF RunRequest
  <2>8. runs' = (runs \ {q}) \cup {r}
    BY <1>7, <2>6 DEF CreateReview
  <2>9. Numbered'
    <3>1. \A k \in loads : k.review \in Nat
      BY DEF TypeOK, LoadRequest
    <3>2. /\ desk.review \in Nat
          /\ \A k \in runs : k.made \in Nat
          /\ \A k \in appends : k.review \in Nat
      BY <1>a, BoundAssumption DEF TypeOK, Desk, RunRequest, AppendRequest, Review
    <3>3. \A k \in loads : k.review # 0 => reviews'[k.review] = reviews[k.review]
      BY <1>b, <2>4, <3>1 DEF Numbered
    <3>4. \A k \in runs : k.made # 0 => reviews'[k.made] = reviews[k.made]
      BY <1>b, <2>4, <3>2 DEF Numbered
    <3>5. \A k \in runs' : /\ k.made <= Len(reviews')
                           /\ k.made # 0 => reviews'[k.made].selection = k.selection
      BY <1>b, <2>2, <2>4, <2>7, <2>8, <3>2, <3>4 DEF Numbered
    <3>6. \A k \in loads' :
              /\ k.review <= Len(reviews')
              /\ k.review # 0 => RunOfReview(k.review)' = k.scope.run
      BY <1>7, <1>b, <2>4, <3>1, <3>3 DEF CreateReview, Numbered, RunOfReview
    <3>7. /\ desk'.review <= Len(reviews')
          /\ \A k \in appends' : k.review <= Len(reviews')
      BY <1>7, <1>b, <2>4, <3>2 DEF CreateReview, Numbered
    <3> QED BY <2>4, <3>5, <3>6, <3>7 DEF Numbered
  <2>10. TypeOK'
    <3>1. /\ \A k \in DOMAIN reviews' :
                 reviews'[k] \in [selection : Selection, chain : 0 .. MaxDecisions]
          /\ Len(reviews') <= MaxReviews
      <4>1. \A k \in DOMAIN reviews' : reviews'[k] \in ReviewRecord
        BY <2>4
      <4>2. Len(reviews') <= MaxReviews
        BY <2>4, <2>5
      <4> QED BY <4>1, <4>2 DEF ReviewRecord
    <3> QED BY <1>7, <2>7, <2>8, <3>1 DEF CreateReview, TypeOK
  <2> QED BY <2>9, <2>10
<1>8. ASSUME NEW r \in 1 .. Len(reviews), NEW c \in 0 .. MaxDecisions,
             reviews' = [reviews EXCEPT ![r].chain = c]
      PROVE  /\ Len(reviews') = Len(reviews)
             /\ reviews' \in Seq(ReviewRecord)
             /\ Len(reviews') <= MaxReviews
             /\ \A k \in DOMAIN reviews' :
                    reviews'[k] \in [selection : Selection, chain : 0 .. MaxDecisions]
             /\ \A k \in 1 .. Len(reviews) : reviews'[k].selection = reviews[k].selection
  BY <1>8, DecisionAdded DEF Numbered, TypeOK, ReviewRecord
<1>9. ASSUME NEW q \in appends, NEW step \in {"asked", "recorded", "refused", "chain"},
             Becomes(q, step)
      PROVE  /\ appends' \subseteq AppendRequest
             /\ \A p \in appends' : \E o \in appends : p.review = o.review
  BY <1>9 DEF Becomes, TypeOK, AppendRequest
<1>10. ASSUME UNCHANGED <<desk, loads, runs>>,
              Len(reviews') = Len(reviews),
              reviews' \in Seq(ReviewRecord),
              \A k \in 1 .. Len(reviews) : reviews'[k].selection = reviews[k].selection,
              \A p \in appends' : \E o \in appends : p.review = o.review
       PROVE  Numbered'
  <2>1. /\ \A q \in loads : q.review \in Nat
        /\ \A q \in runs : q.made \in Nat
    BY BoundAssumption DEF TypeOK, LoadRequest, RunRequest
  <2> QED BY <1>10, <1>b, <2>1 DEF Numbered, RunOfReview
<1>11. ASSUME NEW q \in appends, RecordDecision(q)
       PROVE  TypeOK' /\ Numbered'
  <2>1. q.review \in 1 .. Len(reviews)
    BY <1>b DEF TypeOK, AppendRequest, Review, Numbered
  <2>2. CASE q.after = reviews[q.review].chain
    <3>1. reviews[q.review].chain + 1 \in 0 .. MaxDecisions
      <4>1. reviews[q.review] \in ReviewRecord
        BY <2>1 DEF Numbered
      <4> QED BY <1>11, <2>2, <4>1, BoundAssumption DEF RecordDecision, ReviewRecord
    <3>2. /\ reviews' = [reviews EXCEPT ![q.review].chain = reviews[q.review].chain + 1]
          /\ Becomes(q, "recorded")
      BY <1>11, <2>2 DEF RecordDecision
    <3> QED BY <1>8, <1>9, <1>10, <1>11, <2>1, <3>1, <3>2 DEF RecordDecision, TypeOK
  <2>3. CASE q.after # reviews[q.review].chain
    <3>1. Becomes(q, "refused") /\ reviews' = reviews
      BY <1>11, <2>3 DEF RecordDecision
    <3>2. reviews \in Seq(ReviewRecord)
      BY DEF Numbered
    <3> QED BY <1>9, <1>10, <1>11, <3>1, <3>2 DEF RecordDecision, TypeOK
  <2> QED BY <2>2, <2>3
<1>12. ASSUME NEW r \in DOMAIN reviews, OtherDecision(r)
       PROVE  TypeOK' /\ Numbered'
  <2>1. r \in 1 .. Len(reviews) /\ reviews[r] \in ReviewRecord
    BY <1>b DEF Numbered
  <2>2. reviews[r].chain + 1 \in 0 .. MaxDecisions
    BY <1>12, <2>1, BoundAssumption DEF OtherDecision, ReviewRecord
  <2>3. reviews' = [reviews EXCEPT ![r].chain = reviews[r].chain + 1]
    BY <1>12 DEF OtherDecision
  <2> QED BY <1>8, <1>10, <1>12, <2>1, <2>2, <2>3 DEF OtherDecision, TypeOK
<1>13. ASSUME NEW q \in loads, ReadContext(q)
       PROVE  TypeOK' /\ Numbered'
  <2>1. PICK r \in LoadRequest :
            /\ loads' = (loads \ {q}) \cup {r}
            /\ r.review <= Len(reviews)
            /\ r.review # 0 => RunOfReview(r.review) = r.scope.run
    BY <1>13, ContextRead
  <2>2. TypeOK'
    BY <1>13, <2>1 DEF ReadContext, TypeOK
  <2>3. Numbered'
    BY <1>13, <2>1 DEF ReadContext, Numbered, RunOfReview
  <2> QED BY <2>2, <2>3
<1>14. ASSUME NEW q \in loads, ContextLoaded(q)
       PROVE  TypeOK' /\ Numbered'
  <2>1. /\ loads' = loads \ {q}
        /\ UNCHANGED <<scope, moves, done, runs, appends, pending, reviews, grant,
                       overtaken>>
        /\ desk' \in Desk
        /\ desk'.review \in {desk.review, q.review}
        /\ busy' \in BusyFlags
    BY <1>14, <1>a, ContextAnswered DEF BusyFlags
  <2>2. TypeOK'
    BY <2>1 DEF TypeOK, Desk, BusyFlags
  <2>3. Numbered'
    BY <2>1 DEF Numbered, RunOfReview
  <2> QED BY <2>2, <2>3
<1>15. ASSUME NEW q \in runs, NEW ok \in BOOLEAN, ReviewReturned(q, ok)
       PROVE  TypeOK' /\ Numbered'
  <2>1. q.made \in 0 .. MaxReviews /\ 0 \in 0 .. MaxDecisions
    BY BoundAssumption DEF TypeOK, RunRequest
  <2>2. /\ desk' \in Desk
        /\ desk'.review \in {desk.review, q.made}
        /\ busy' \in BusyFlags
    BY <1>15, <1>a, <2>1 DEF ReviewReturned, FinishReview, Desk, BusyFlags
  <2>3. TypeOK'
    BY <1>15, <2>2 DEF ReviewReturned, TypeOK, Desk, BusyFlags
  <2>4. Numbered'
    BY <1>15, <2>2 DEF ReviewReturned, Numbered, RunOfReview
  <2> QED BY <2>3, <2>4
<1>16. ASSUME NEW q \in appends, DecisionAnswered(q)
       PROVE  TypeOK' /\ Numbered'
  <2>1. /\ appends' \subseteq AppendRequest
        /\ \A p \in appends' : \E o \in appends : p.review = o.review
    BY <1>9, <1>16 DEF DecisionAnswered, TypeOK
  <2>2. busy' \in BusyFlags
    BY <1>16, <1>a DEF DecisionAnswered, FinishReview, BusyFlags
  <2>3. TypeOK'
    BY <1>16, <2>1, <2>2 DEF DecisionAnswered, TypeOK, BusyFlags
  <2>4. Numbered'
    BY <1>16, <2>1 DEF DecisionAnswered, Numbered, RunOfReview
  <2> QED BY <2>3, <2>4
<1>17. ASSUME NEW q \in appends, ChainReadBack(q)
       PROVE  TypeOK' /\ Numbered'
  <2>1. q.review \in 1 .. Len(reviews)
    BY <1>b DEF TypeOK, AppendRequest, Review, Numbered
  <2>2. reviews[q.review] \in ReviewRecord
    BY <2>1 DEF Numbered
  <2>3. /\ desk' \in Desk
        /\ desk'.review = desk.review
    <3>1. \/ desk' = desk
          \/ /\ reviews[q.review].chain = q.after + 1
             /\ desk' = [desk EXCEPT !.seen = q.after + 1]
      BY <1>17 DEF ChainReadBack
    <3>2. reviews[q.review].chain \in 0 .. MaxDecisions
      BY <2>2 DEF ReviewRecord
    <3> QED BY <1>a, <3>1, <3>2 DEF Desk
  <2>6. busy' \in BusyFlags
    BY <1>17, <1>a DEF ChainReadBack, FinishReview, BusyFlags
  <2>4. TypeOK'
    BY <1>17, <2>3, <2>6 DEF ChainReadBack, TypeOK, Desk, BusyFlags
  <2>5. Numbered'
    BY <1>17, <2>3 DEF ChainReadBack, Numbered, RunOfReview
  <2> QED BY <2>4, <2>5
<1>18. CASE ReviewPrepared
  <2>1. /\ desk' \in Desk
        /\ desk'.review = desk.review
        /\ \E r \in RunRequest : r.made = 0 /\ BeginRun(r)
    BY <1>18, PreparedReview
  <2>2. PICK r \in RunRequest : r.made = 0 /\ BeginRun(r)
    BY <2>1
  <2>3. pending' \in Pending /\ overtaken' \in BOOLEAN
    BY <1>18 DEF ReviewPrepared, NoPending, NoSelection, Pending, Selection, Provider,
                 TypeOK
  <2>4. TypeOK'
    BY <1>18, <2>1, <2>2, <2>3, RunBegun DEF ReviewPrepared, TypeOK, Desk, BusyFlags
  <2>5. Numbered'
    BY <1>18, <1>b, <2>1, <2>2, RunBegun DEF ReviewPrepared, Numbered, RunOfReview
  <2> QED BY <2>4, <2>5
<1>19. CASE UNCHANGED vars
  BY <1>19 DEF TypeOK, Numbered, RunOfReview, vars
<1> QED BY <1>1, <1>2, <1>3, <1>4, <1>5, <1>6, <1>7, <1>11, <1>12, <1>13, <1>14,
           <1>15, <1>16, <1>17, <1>18, <1>19
        DEF Next, Operator, Server, Answers

----------------------------------------------------------------------------
(* The experiment the run button waits for *)

(* The answer to a review request shows the review made, if it is still live. *)
LEMMA Returned ==
    ASSUME TypeOK, NEW q \in runs, NEW ok \in BOOLEAN, ReviewReturned(q, ok)
    PROVE  /\ runs' = runs \ {q}
           /\ UNCHANGED <<scope, loads, appends, pending, reviews, grant, overtaken>>
           /\ busy'.loading = busy.loading
           /\ desk'.approved = desk.approved
           /\ desk'.selection = desk.selection
           /\ \/ desk' = desk
              \/ /\ q.live /\ q.made # 0
                 /\ desk'.review = q.made /\ desk'.seen = 0
<1>1. desk \in Desk /\ busy \in BusyFlags
  BY DEF TypeOK, Desk, BusyFlags
<1>2. CASE ~q.live
  BY <1>2 DEF ReviewReturned, IsCurrent
<1>3. CASE q.live
  BY <1>1, <1>3 DEF ReviewReturned, IsCurrent, FinishReview, Desk, BusyFlags
<1> QED BY <1>2, <1>3

(* The chain read back changes the last decision shown and nothing else. *)
LEMMA ChainRead ==
    ASSUME TypeOK, NEW q \in appends, ChainReadBack(q)
    PROVE  /\ appends' = appends \ {q}
           /\ UNCHANGED <<scope, loads, runs, pending, reviews, grant, overtaken>>
           /\ busy'.loading = busy.loading
           /\ desk'.approved = desk.approved
           /\ desk'.selection = desk.selection
           /\ desk'.review = desk.review
           /\ \/ desk' = desk
              \/ q.live /\ desk'.seen = q.after + 1
<1>1. desk \in Desk /\ busy \in BusyFlags
  BY DEF TypeOK, Desk, BusyFlags
<1>2. CASE ~q.live
  BY <1>2 DEF ChainReadBack, IsCurrent
<1>3. CASE q.live
  BY <1>1, <1>3 DEF ChainReadBack, IsCurrent, FinishReview, Desk, BusyFlags
<1> QED BY <1>2, <1>3

(* The operator approves, or takes the approval back. *)
LEMMA Approves ==
    ASSUME TypeOK, NEW approved \in BOOLEAN, ApproveExternalData(approved)
    PROVE  /\ desk'.approved = approved
           /\ desk'.selection = desk.selection
           /\ desk'.review = 0 /\ desk'.seen = 0
           /\ approved => grant' = desk.selection
           /\ LaneCancelled
           /\ busy'.loading = busy.loading
           /\ UNCHANGED <<scope, loads, pending, reviews, overtaken>>
<1>1. desk \in Desk /\ busy \in BusyFlags
  BY DEF TypeOK, Desk, BusyFlags
<1>2. LaneCancelled
  BY LaneIsCancelled DEF ApproveExternalData, InvalidateReview
<1> QED BY <1>1, <1>2 DEF ApproveExternalData, InvalidateReview, Desk, BusyFlags

LEMMA WaitingStep ==
    TypeOK /\ Numbered /\ Waiting /\ [Next]_vars => Waiting'
<1> SUFFICES ASSUME TypeOK, Numbered, Waiting, [Next]_vars
             PROVE  Waiting'
  OBVIOUS
<1>a. pending \in Pending
  BY DEF TypeOK
<1>b. NoPending.step = "none" /\ ~NoPending.current
  BY DEF NoPending
<1>c. ASSUME UNCHANGED <<scope, pending>>, desk'.approved => desk.approved
      PROVE  Waiting'
  BY <1>c DEF Waiting
<1>1. ASSUME NEW s \in Scope, SwitchContext(s)
      PROVE  Waiting'
  <2>1. /\ pending'.selection = pending.selection
        /\ pending'.step = pending.step
        /\ pending'.current => pending.current /\ s.run = scope.run
        /\ scope' = s
    BY <1>1, <1>a DEF SwitchContext, Pending
  <2>2. ~desk'.approved
    <3>1. \/ Restarted(scope')
          \/ UNCHANGED <<scope, desk, busy, loads, runs, appends, overtaken>>
      BY <1>1, Restarts
    <3>2. scope' # scope
      BY <1>1 DEF SwitchContext
    <3> QED BY <3>1, <3>2 DEF Restarted
  <2> QED BY <2>1, <2>2 DEF Waiting
<1>2. ASSUME NEW e \in Experiment, ExperimentListed(e)
      PROVE  Waiting'
  <2>1. desk'.approved => desk.approved
    <3>1. \/ Restarted(scope')
          \/ UNCHANGED <<scope, desk, busy, loads, runs, appends, overtaken>>
      BY <1>2, Restarts
    <3> QED BY <3>1 DEF Restarted
  <2> QED BY <1>2, <1>c, <2>1 DEF ExperimentListed
<1>3. ASSUME NEW ok \in BOOLEAN, ExperimentMade(ok)
      PROVE  Waiting'
  <2>1. CASE ~ok \/ ~pending.current
    BY <1>3, <1>b, <2>1 DEF ExperimentMade, Waiting
  <2>2. CASE ok /\ pending.current
    <3>1. /\ pending'.selection = pending.selection
          /\ pending'.current = pending.current
          /\ pending.step = "running"
          /\ scope' = scope
      BY <1>3, <1>a, <2>2 DEF ExperimentMade, Pending
    <3>2. RestartContext(scope, done', pending.selection.primary)
      BY <1>3, <2>2 DEF ExperimentMade
    <3>3. ~desk'.approved
      <4>1. /\ done' \subseteq Experiment /\ scope \in Scope
            /\ pending.selection.primary \in Experiment
            /\ RunOf[pending.selection.primary] = scope.run
        BY <1>3, <2>2, <3>1 DEF ExperimentMade, Waiting, TypeOK
      <4> QED BY <3>2, <4>1, RestartEffect DEF Restarted
    <3> QED BY <3>1, <3>3 DEF Waiting
  <2> QED BY <2>1, <2>2
<1>4. CASE \/ \E e \in Experiment : ToggleComparison(e)
           \/ \E p \in Provider : SelectProvider(p)
  BY <1>4, <1>c, Chooses
<1>5. ASSUME NEW approved \in BOOLEAN, ApproveExternalData(approved)
      PROVE  Waiting'
  <2>1. ~pending.current
    BY <1>5 DEF ApproveExternalData, Idle
  <2> QED BY <1>5, <2>1, Approves DEF Waiting
<1>6. ASSUME NEW e \in Experiment, PrepareReview(e)
      PROVE  Waiting'
  <2>1. PICK sel : sel = [desk.selection EXCEPT !.primary = e]
    OBVIOUS
  <2>2. sel.primary = e
    BY <2>1 DEF TypeOK, Selection
  <2>3. /\ pending' = [selection |-> sel, current |-> TRUE, step |-> "running"]
        /\ scope' = scope /\ RunOf[e] = scope.run
    BY <1>6, <2>1 DEF PrepareReview
  <2> QED BY <2>2, <2>3 DEF Waiting
<1>7. CASE RunReview \/ AppendDecision
  BY <1>7, <1>c DEF RunReview, AppendDecision
<1>8. CASE \/ \E q \in runs : CreateReview(q)
           \/ \E q \in appends : RecordDecision(q) \/ DecisionAnswered(q)
           \/ \E r \in DOMAIN reviews : OtherDecision(r)
           \/ \E q \in loads : ReadContext(q)
  BY <1>8, <1>c
     DEF CreateReview, RecordDecision, DecisionAnswered, OtherDecision, ReadContext
<1>9. ASSUME NEW q \in loads, ContextLoaded(q)
      PROVE  Waiting'
  BY <1>9, <1>c, ContextAnswered
<1>10. ASSUME NEW q \in runs, NEW ok \in BOOLEAN, ReviewReturned(q, ok)
       PROVE  Waiting'
  BY <1>10, <1>c, Returned
<1>11. ASSUME NEW q \in appends, ChainReadBack(q)
       PROVE  Waiting'
  BY <1>11, <1>c, ChainRead
<1>12. CASE ReviewPrepared
  BY <1>12, <1>b DEF ReviewPrepared, Waiting
<1>13. CASE UNCHANGED vars
  BY <1>13, <1>c DEF vars
<1> QED BY <1>1, <1>2, <1>3, <1>4, <1>5, <1>6, <1>7, <1>8, <1>9, <1>10, <1>11, <1>12,
           <1>13
        DEF Next, Operator, Server, Answers

----------------------------------------------------------------------------
(* The lanes of the coordinator *)

Lanes ==
    /\ Single
    /\ Loading
    /\ Asked
    /\ ApprovalBinds
    /\ LoadedReviewOfThisRun

(* While the page is not locked no load is live, unless one was overtaken. *)
LEMMA IdleHasNoLoad ==
    ASSUME Loading, ~Busy, ~overtaken
    PROVE  \A q \in loads : ~q.live
BY DEF Loading, Busy

(* A restart of the context leaves one live load and an empty page. *)
LEMMA RestartLanes ==
    ASSUME Restarted(scope')
    PROVE  Lanes'
<1>1. \A q \in loads' : q.live => q = LoadOf(scope') /\ q.scope = scope'
  BY DEF Restarted, LoadOf
<1>2. Single'
  BY <1>1 DEF Single, Restarted, LaneCancelled
<1>3. Loading' /\ Asked'
  BY DEF Loading, Asked, Restarted, LaneCancelled
<1>4. ApprovalBinds' /\ LoadedReviewOfThisRun'
  BY DEF ApprovalBinds, LoadedReviewOfThisRun, ReviewOfThisRun, Restarted
<1> QED BY <1>2, <1>3, <1>4 DEF Lanes

(* What changes none of the lanes keeps them. *)
LEMMA LanesKept ==
    ASSUME Lanes,
           UNCHANGED <<scope, desk, busy, loads, runs, appends, reviews, grant, overtaken>>
    PROVE  Lanes'
BY DEF Lanes, Single, Loading, Asked, ApprovalBinds, LoadedReviewOfThisRun,
       ReviewOfThisRun, RunOfReview

(* The operator's choices abort the review lane and leave no review shown. *)
LEMMA ChoiceLanes ==
    ASSUME TypeOK, Lanes,
           \/ \E e \in Experiment : ToggleComparison(e)
           \/ \E p \in Provider : SelectProvider(p)
           \/ \E approved \in BOOLEAN : ApproveExternalData(approved)
    PROVE  Lanes'
<1>0. busy \in BusyFlags
  BY DEF TypeOK, BusyFlags
<1>1. /\ desk'.selection.primary = desk.selection.primary
      /\ desk'.review = 0 /\ desk'.seen = 0
      /\ LaneCancelled
      /\ busy'.loading = busy.loading
      /\ UNCHANGED <<scope, loads, overtaken>>
      /\ desk'.approved => ~Busy /\ grant' = desk'.selection
  <2>1. CASE \/ \E e \in Experiment : ToggleComparison(e)
             \/ \E p \in Provider : SelectProvider(p)
    BY <1>0, <2>1, Chooses DEF BusyFlags
  <2>2. ASSUME NEW approved \in BOOLEAN, ApproveExternalData(approved)
        PROVE  /\ desk'.selection.primary = desk.selection.primary
               /\ desk'.review = 0 /\ desk'.seen = 0
               /\ LaneCancelled
               /\ busy'.loading = busy.loading
               /\ UNCHANGED <<scope, loads, overtaken>>
               /\ desk'.approved => ~Busy /\ grant' = desk'.selection
    BY <2>2, Approves DEF ApproveExternalData, Idle
  <2> QED BY <2>1, <2>2
<1>2. Single'
  BY <1>1 DEF Lanes, Single, LaneCancelled
<1>3. Loading'
  BY <1>1, IdleHasNoLoad DEF Lanes, Loading, LaneCancelled
<1>4. Asked'
  BY <1>1 DEF Lanes, Asked, LaneCancelled
<1>5. ApprovalBinds' /\ LoadedReviewOfThisRun'
  BY <1>1 DEF ApprovalBinds, LoadedReviewOfThisRun, ReviewOfThisRun
<1> QED BY <1>2, <1>3, <1>4, <1>5 DEF Lanes

(* The operator asks for a review, or decides on the one shown. *)
LEMMA AskLanes ==
    ASSUME TypeOK, Numbered, Lanes, RunReview \/ AppendDecision
    PROVE  Lanes'
<1>0. desk \in Desk /\ ~Busy
  BY DEF TypeOK, Desk, RunReview, AppendDecision, MayRun, Idle
<1>1. UNCHANGED <<scope, desk, loads, reviews, grant, overtaken>>
  BY DEF RunReview, AppendDecision
<1>2. /\ \A p, q \in runs' : p.live /\ q.live => p = q
      /\ \A p, q \in appends' : p.live /\ q.live => p = q
      /\ \A p \in runs', q \in appends' : ~(p.live /\ q.live)
      /\ \A q \in runs' : q.live =>
             /\ q.selection = desk.selection
             /\ q.selection.primary # None
             /\ q.made = 0
      /\ \A q \in appends' : q.live => q.review = desk.review /\ q.after = desk.seen
  <2>1. CASE RunReview
    <3>1. PICK r : r = [selection |-> desk.selection, live |-> TRUE, made |-> 0,
                        prepared |-> FALSE]
      OBVIOUS
    <3>2. r \in RunRequest
      BY <1>0, <3>1, BoundAssumption DEF RunRequest, Desk
    <3>3. BeginRun(r) /\ desk.selection.primary # None
      BY <2>1, <3>1 DEF RunReview
    <3>4. /\ \A q \in runs' : q.live => q = r
          /\ \A q \in appends' : ~q.live
      BY <3>2, <3>3, RunBegun
    <3>5. r.selection = desk.selection /\ r.selection.primary # None /\ r.made = 0
      BY <3>1, <3>3
    <3> QED BY <3>4, <3>5
  <2>2. CASE AppendDecision
    <3>1. PICK r : r = [review |-> desk.review, after |-> desk.seen, live |-> TRUE,
                        step |-> "asked"]
      OBVIOUS
    <3>2. r \in AppendRequest
      BY <1>0, <2>2, <3>1, BoundAssumption
         DEF AppendDecision, AppendRequest, Desk, Review
    <3>3. BeginAppend(r)
      BY <2>2, <3>1 DEF AppendDecision
    <3>4. /\ \A q \in appends' : q.live => q = r
          /\ \A q \in runs' : ~q.live
      BY <3>2, <3>3, AppendBegun
    <3>5. r.review = desk.review /\ r.after = desk.seen
      BY <3>1
    <3> QED BY <3>4, <3>5
  <2> QED BY <2>1, <2>2
<1>3. Single'
  BY <1>1, <1>2 DEF Lanes, Single
<1>4. Loading'
  BY <1>0, <1>1, IdleHasNoLoad DEF Lanes, Loading
<1>5. Asked'
  BY <1>1, <1>2 DEF Lanes, Asked
<1>6. ApprovalBinds' /\ LoadedReviewOfThisRun'
  BY <1>1 DEF Lanes, ApprovalBinds, LoadedReviewOfThisRun, ReviewOfThisRun, RunOfReview
<1> QED BY <1>3, <1>4, <1>5, <1>6 DEF Lanes

(* A review the server makes has a number above the one the page shows. *)
LEMMA CreatedLanes ==
    ASSUME TypeOK, Numbered, Lanes, NEW q \in runs, CreateReview(q)
    PROVE  Lanes'
<1>1. PICK r : r = [q EXCEPT !.made = Len(reviews) + 1]
  OBVIOUS
<1>2. /\ r.live = q.live
      /\ r.selection = q.selection
      /\ r.made = Len(reviews) + 1
  BY <1>1 DEF TypeOK, RunRequest
<1>3. /\ runs' = (runs \ {q}) \cup {r}
      /\ UNCHANGED <<scope, desk, busy, loads, appends, grant, overtaken>>
  BY <1>1 DEF CreateReview
<1>4. desk.review \in Nat /\ desk.review <= Len(reviews) /\ Len(reviews) \in Nat
  BY BoundAssumption DEF TypeOK, Numbered
<1>5. desk.review # 0 => reviews'[desk.review] = reviews[desk.review]
  <2>1. PICK v : v = [selection |-> q.selection, chain |-> 0]
    OBVIOUS
  <2>2. v \in ReviewRecord
    BY <2>1, BoundAssumption DEF TypeOK, RunRequest, ReviewRecord
  <2>3. reviews' = Append(reviews, v)
    BY <2>1 DEF CreateReview
  <2>4. \A k \in 1 .. Len(reviews) : reviews'[k] = reviews[k]
    BY <2>2, <2>3 DEF Numbered
  <2> QED BY <1>4, <2>4
<1>6. Single'
  BY <1>2, <1>3 DEF Lanes, Single
<1>7. Loading'
  BY <1>2, <1>3 DEF Lanes, Loading
<1>8. Asked'
  BY <1>2, <1>3, <1>4 DEF Lanes, Asked
<1>9. ApprovalBinds' /\ LoadedReviewOfThisRun'
  BY <1>3, <1>5 DEF Lanes, ApprovalBinds, LoadedReviewOfThisRun, ReviewOfThisRun, RunOfReview
<1> QED BY <1>6, <1>7, <1>8, <1>9 DEF Lanes

(* A request that only moves to its next step keeps what it was asked with. *)
LEMMA MovedOn ==
    ASSUME TypeOK, NEW q \in appends, NEW step, Becomes(q, step)
    PROVE  \E r : /\ appends' = (appends \ {q}) \cup {r}
                  /\ r.live = q.live /\ r.review = q.review /\ r.after = q.after
<1>1. PICK r : r = [q EXCEPT !.step = step]
  OBVIOUS
<1>2. r.live = q.live /\ r.review = q.review /\ r.after = q.after
  BY <1>1 DEF TypeOK, AppendRequest
<1> QED BY <1>1, <1>2 DEF Becomes

(* The decisions the server records and answers *)
LEMMA DecisionLanes ==
    ASSUME TypeOK, Numbered, Lanes,
           \/ \E q \in appends : RecordDecision(q) \/ DecisionAnswered(q)
           \/ \E r \in DOMAIN reviews : OtherDecision(r)
    PROVE  Lanes'
<1>1. /\ UNCHANGED <<scope, desk, loads, runs, grant, overtaken>>
      /\ busy'.loading = busy.loading
  BY DEF TypeOK, RecordDecision, DecisionAnswered, OtherDecision, FinishReview
<1>2. \/ appends' = appends
      \/ \E q \in appends : appends' = appends \ {q}
      \/ \E q \in appends : \E r :
             /\ appends' = (appends \ {q}) \cup {r}
             /\ r.live = q.live /\ r.review = q.review /\ r.after = q.after
  BY MovedOn DEF RecordDecision, DecisionAnswered, OtherDecision
<1>3. \A p \in appends' : \E o \in appends :
          p.live = o.live /\ p.review = o.review /\ p.after = o.after
  BY <1>2
<1>4. desk.review # 0 => reviews'[desk.review].selection = reviews[desk.review].selection
  <2>1. desk.review \in Nat /\ desk.review <= Len(reviews) /\ DOMAIN reviews = 1 .. Len(reviews)
    BY BoundAssumption DEF TypeOK, Numbered
  <2>2. \A k \in 1 .. Len(reviews) : reviews[k] \in ReviewRecord
    BY DEF Numbered
  <2>3. \/ reviews' = reviews
        \/ \E r \in 1 .. Len(reviews) :
               /\ reviews[r].chain < MaxDecisions
               /\ reviews' = [reviews EXCEPT ![r].chain = reviews[r].chain + 1]
    <3>1. \A q \in appends : q.review \in 1 .. Len(reviews)
      BY <2>1 DEF TypeOK, Numbered, AppendRequest, Review
    <3>2. ASSUME NEW q \in appends, RecordDecision(q)
          PROVE  \/ reviews' = reviews
                 \/ /\ reviews[q.review].chain < MaxDecisions
                    /\ reviews' = [reviews EXCEPT ![q.review].chain =
                                                      reviews[q.review].chain + 1]
      BY <3>2 DEF RecordDecision
    <3>3. ASSUME NEW q \in appends, DecisionAnswered(q)
          PROVE  reviews' = reviews
      BY <3>3 DEF DecisionAnswered
    <3>4. ASSUME NEW r \in DOMAIN reviews, OtherDecision(r)
          PROVE  /\ reviews[r].chain < MaxDecisions
                 /\ reviews' = [reviews EXCEPT ![r].chain = reviews[r].chain + 1]
      BY <3>4 DEF OtherDecision
    <3> QED BY <2>1, <3>1, <3>2, <3>3, <3>4
  <2>4. ASSUME NEW r \in 1 .. Len(reviews),
               reviews[r].chain < MaxDecisions,
               reviews' = [reviews EXCEPT ![r].chain = reviews[r].chain + 1]
        PROVE  \A k \in 1 .. Len(reviews) : reviews'[k].selection = reviews[k].selection
    <3>1. reviews[r].chain + 1 \in 0 .. MaxDecisions
      BY <2>2, <2>4, BoundAssumption DEF ReviewRecord
    <3> QED BY <2>4, <3>1, DecisionAdded DEF Numbered
  <2> QED BY <2>1, <2>3, <2>4
<1>5. Single'
  <2>1. \A p, q \in appends' : p.live /\ q.live => p = q
    BY <1>2 DEF Lanes, Single
  <2> QED BY <1>1, <1>3, <2>1 DEF Lanes, Single
<1>6. Loading'
  BY <1>1, <1>3 DEF Lanes, Loading
<1>7. Asked'
  BY <1>1, <1>3 DEF Lanes, Asked
<1>8. ApprovalBinds' /\ LoadedReviewOfThisRun'
  BY <1>1, <1>4 DEF Lanes, ApprovalBinds, LoadedReviewOfThisRun, ReviewOfThisRun, RunOfReview
<1> QED BY <1>5, <1>6, <1>7, <1>8 DEF Lanes

(* The archive is read, and the answer comes to the page. *)
LEMMA ContextLanes ==
    ASSUME TypeOK, Numbered, Lanes, NEW q \in loads, ReadContext(q) \/ ContextLoaded(q)
    PROVE  Lanes'
<1>1. CASE ReadContext(q)
  <2>1. PICK r : /\ loads' = (loads \ {q}) \cup {r}
                 /\ r.live = q.live /\ r.scope = q.scope
    BY <1>1, ContextRead
  <2>2. UNCHANGED <<scope, desk, busy, runs, appends, reviews, grant, overtaken>>
    BY <1>1 DEF ReadContext
  <2>3. Single'
    BY <2>1, <2>2 DEF Lanes, Single
  <2>4. Loading'
    BY <2>1, <2>2 DEF Lanes, Loading
  <2>5. Asked' /\ ApprovalBinds' /\ LoadedReviewOfThisRun'
    BY <2>2 DEF Lanes, Asked, ApprovalBinds, LoadedReviewOfThisRun, ReviewOfThisRun,
                RunOfReview
  <2> QED BY <2>3, <2>4, <2>5 DEF Lanes
<1>2. CASE ContextLoaded(q)
  <2>1. /\ loads' = loads \ {q}
        /\ UNCHANGED <<scope, runs, appends, reviews, grant, overtaken>>
    BY <1>2, ContextAnswered
  <2>2. Single'
    BY <2>1 DEF Lanes, Single
  <2>3. CASE UNCHANGED <<desk, busy>>
    <3>1. Loading'
      BY <2>1, <2>3 DEF Lanes, Loading
    <3>2. Asked' /\ ApprovalBinds' /\ LoadedReviewOfThisRun'
      BY <2>1, <2>3 DEF Lanes, Asked, ApprovalBinds, LoadedReviewOfThisRun,
                        ReviewOfThisRun, RunOfReview
    <3> QED BY <2>2, <3>1, <3>2 DEF Lanes
  <2>4. CASE ~UNCHANGED <<desk, busy>>
    <3>1. /\ q.live
          /\ desk'.approved = desk.approved
          /\ desk'.review \in {desk.review, q.review}
          /\ \/ desk'.selection.primary = desk.selection.primary
             \/ desk'.selection.primary \in Visible(scope, done)
      BY <1>2, <2>4, ContextAnswered
    <3>2. Loading'
      BY <2>1, <3>1 DEF Lanes, Loading, Single
    <3>3. Asked'
      BY <2>1, <3>1 DEF Lanes, Asked, Loading, Visible
    <3>4. ApprovalBinds'
      BY <2>1, <3>1 DEF Lanes, ApprovalBinds, Loading
    <3>5. LoadedReviewOfThisRun'
      <4>1. ASSUME ~overtaken, desk'.review # 0
            PROVE  RunOfReview(desk'.review) = scope.run
        BY <3>1, <4>1 DEF Lanes, Loading, Single, Numbered
      <4> QED BY <2>1, <4>1 DEF LoadedReviewOfThisRun, ReviewOfThisRun, RunOfReview
    <3> QED BY <2>2, <3>2, <3>3, <3>4, <3>5 DEF Lanes
  <2> QED BY <2>3, <2>4
<1> QED BY <1>1, <1>2

(* The review made is shown, or the chain of the one shown is read back. *)
LEMMA AnswerLanes ==
    ASSUME TypeOK, Numbered, Lanes,
           \/ \E q \in runs, ok \in BOOLEAN : ReviewReturned(q, ok)
           \/ \E q \in appends : ChainReadBack(q)
    PROVE  Lanes'
<1>1. ASSUME NEW q \in runs, NEW ok \in BOOLEAN, ReviewReturned(q, ok)
      PROVE  Lanes'
  <2>1. /\ runs' = runs \ {q}
        /\ UNCHANGED <<scope, loads, appends, reviews, grant, overtaken>>
        /\ busy'.loading = busy.loading
        /\ desk'.approved = desk.approved
        /\ desk'.selection = desk.selection
        /\ \/ desk' = desk
           \/ q.live /\ q.made # 0 /\ desk'.review = q.made
    BY <1>1, Returned
  <2>2. Single'
    BY <2>1 DEF Lanes, Single
  <2>3. Loading'
    BY <2>1 DEF Lanes, Loading
  <2>4. Asked'
    BY <2>1 DEF Lanes, Asked, Single
  <2>5. ApprovalBinds'
    BY <2>1 DEF Lanes, ApprovalBinds
  <2>6. LoadedReviewOfThisRun'
    <3>1. ASSUME ~overtaken, desk'.review # 0
          PROVE  RunOfReview(desk'.review) = scope.run
      BY <2>1, <3>1
         DEF Lanes, Asked, LoadedReviewOfThisRun, ReviewOfThisRun, Numbered, RunOfReview
    <3> QED BY <2>1, <3>1 DEF LoadedReviewOfThisRun, ReviewOfThisRun, RunOfReview
  <2> QED BY <2>2, <2>3, <2>4, <2>5, <2>6 DEF Lanes
<1>2. ASSUME NEW q \in appends, ChainReadBack(q)
      PROVE  Lanes'
  <2>1. /\ appends' = appends \ {q}
        /\ UNCHANGED <<scope, loads, runs, reviews, grant, overtaken>>
        /\ busy'.loading = busy.loading
        /\ desk'.approved = desk.approved
        /\ desk'.selection = desk.selection
        /\ desk'.review = desk.review
        /\ desk' = desk \/ q.live
    BY <1>2, ChainRead
  <2>2. Single'
    BY <2>1 DEF Lanes, Single
  <2>3. Loading'
    BY <2>1 DEF Lanes, Loading
  <2>4. Asked'
    BY <2>1 DEF Lanes, Asked, Single
  <2>5. ApprovalBinds' /\ LoadedReviewOfThisRun'
    BY <2>1 DEF Lanes, ApprovalBinds, LoadedReviewOfThisRun, ReviewOfThisRun, RunOfReview
  <2> QED BY <2>2, <2>3, <2>4, <2>5 DEF Lanes
<1> QED BY <1>1, <1>2

(* A prepared review is asked for: either over a load, and then it counts as *)
(* overtaken, or on a page that holds no approval.                           *)
LEMMA PreparedLanes ==
    ASSUME TypeOK, Waiting, Lanes, ReviewPrepared
    PROVE  Lanes'
<1>1. PICK r \in RunRequest :
          r.selection = pending.selection /\ r.made = 0 /\ BeginRun(r)
  BY PreparedReview
<1>2. /\ \A p \in runs' : p.live => p = r
      /\ \A p \in appends' : ~p.live
  BY <1>1, RunBegun
<1>3. /\ desk'.selection.primary = pending.selection.primary
      /\ desk'.approved = desk.approved
      /\ desk'.review = desk.review
  BY PreparedReview
<1>4. /\ UNCHANGED <<scope, loads, reviews, grant>>
      /\ ~overtaken' => ~overtaken /\ pending.current /\ \A q \in loads : ~q.live
      /\ pending.step = "listing"
  BY DEF ReviewPrepared
<1>5. Single'
  BY <1>2, <1>4 DEF Lanes, Single
<1>6. Loading'
  BY <1>4 DEF Loading
<1>7. Asked'
  BY <1>1, <1>2, <1>3, <1>4 DEF Asked, Waiting
<1>8. ApprovalBinds'
  BY <1>3, <1>4 DEF ApprovalBinds, Waiting
<1>9. LoadedReviewOfThisRun'
  BY <1>3, <1>4 DEF Lanes, LoadedReviewOfThisRun, ReviewOfThisRun, RunOfReview
<1> QED BY <1>5, <1>6, <1>7, <1>8, <1>9 DEF Lanes

----------------------------------------------------------------------------
(* The invariant of the page *)

LEMMA DeskInit == Init => DeskInv
<1> SUFFICES ASSUME Init
             PROVE  DeskInv
  OBVIOUS
<1>1. TypeOK /\ Numbered
  BY TypeInit
<1>2. Waiting
  BY DEF Init, Waiting, NoPending
<1>3. PICK p \in FirstPrimary(scope, done, None) :
          desk = [selection |-> [NoSelection EXCEPT !.primary = p], known |-> FALSE,
                  initialized |-> FALSE, approved |-> FALSE, review |-> 0, seen |-> 0]
  BY DEF Init
<1>4. /\ desk.review = 0 /\ ~desk.approved
      /\ desk.selection.primary # None => RunOf[desk.selection.primary] = scope.run
  <2>1. PICK sel : sel = [NoSelection EXCEPT !.primary = p]
    OBVIOUS
  <2>2. sel.primary = p
    BY <2>1 DEF NoSelection
  <2>3. desk.selection = sel /\ desk.review = 0 /\ ~desk.approved
    BY <1>3, <2>1
  <2>4. p # None => RunOf[p] = scope.run
    BY <1>3 DEF FirstPrimary, Visible
  <2> QED BY <2>2, <2>3, <2>4
<1>5. /\ runs = {} /\ appends = {} /\ loads = {LoadOf(scope)} /\ busy.loading
      /\ LoadOf(scope).scope = scope
  BY DEF Init, LoadOf
<1>6. Single /\ Loading /\ Asked
  BY <1>4, <1>5 DEF Single, Loading, Asked
<1>7. ApprovalBinds /\ LoadedReviewOfThisRun
  BY <1>4 DEF ApprovalBinds, LoadedReviewOfThisRun, ReviewOfThisRun
<1> QED BY <1>1, <1>2, <1>6, <1>7 DEF DeskInv

LEMMA LanesStep == DeskInv /\ [Next]_vars => Lanes'
<1> SUFFICES ASSUME DeskInv, [Next]_vars
             PROVE  Lanes'
  OBVIOUS
<1>a. TypeOK /\ Numbered /\ Waiting /\ Lanes
  BY DEF DeskInv, Lanes
<1>1. CASE \/ \E s \in Scope : SwitchContext(s)
           \/ \E e \in Experiment : ExperimentListed(e)
           \/ \E ok \in BOOLEAN : ExperimentMade(ok)
  BY <1>a, <1>1, Restarts, RestartLanes, LanesKept
<1>2. CASE \/ \E e \in Experiment : ToggleComparison(e)
           \/ \E p \in Provider : SelectProvider(p)
           \/ \E approved \in BOOLEAN : ApproveExternalData(approved)
  BY <1>a, <1>2, ChoiceLanes
<1>3. CASE RunReview \/ AppendDecision
  BY <1>a, <1>3, AskLanes
<1>4. CASE \E e \in Experiment : PrepareReview(e)
  BY <1>a, <1>4, LanesKept DEF PrepareReview
<1>5. CASE \E q \in runs : CreateReview(q)
  BY <1>a, <1>5, CreatedLanes
<1>6. CASE \/ \E q \in appends : RecordDecision(q) \/ DecisionAnswered(q)
           \/ \E r \in DOMAIN reviews : OtherDecision(r)
  BY <1>a, <1>6, DecisionLanes
<1>7. CASE \E q \in loads : ReadContext(q) \/ ContextLoaded(q)
  BY <1>a, <1>7, ContextLanes
<1>8. CASE \/ \E q \in runs, ok \in BOOLEAN : ReviewReturned(q, ok)
           \/ \E q \in appends : ChainReadBack(q)
  BY <1>a, <1>8, AnswerLanes
<1>9. CASE ReviewPrepared
  BY <1>a, <1>9, PreparedLanes
<1>10. CASE UNCHANGED vars
  BY <1>a, <1>10, LanesKept DEF vars
<1> QED BY <1>1, <1>2, <1>3, <1>4, <1>5, <1>6, <1>7, <1>8, <1>9, <1>10
        DEF Next, Operator, Server, Answers

LEMMA DeskInvariant == Spec => []DeskInv
<1>1. Init => DeskInv
  BY DeskInit
<1>2. DeskInv /\ [Next]_vars => DeskInv'
  <2> SUFFICES ASSUME DeskInv, [Next]_vars
               PROVE  DeskInv'
    OBVIOUS
  <2>1. TypeOK /\ Numbered /\ Waiting
    BY DEF DeskInv
  <2>2. TypeOK' /\ Numbered' /\ Waiting'
    BY <2>1, TypeStep, WaitingStep
  <2>3. Lanes'
    BY LanesStep
  <2> QED BY <2>2, <2>3 DEF DeskInv, Lanes
<1> QED BY <1>1, <1>2, PTL DEF Spec

(* What the page, the coordinator, the requests in flight and the server hold *)
(* is always of its type: no answer puts a review on the page that the server *)
(* never made, and the experiment shown is one of the registry or none.       *)
THEOREM DeskTypes == Spec => []TypeOK
<1>1. DeskInv => TypeOK
  BY DEF DeskInv
<1> QED BY <1>1, DeskInvariant, PTL

(* The approval to send data to an external model stands only for the model,  *)
(* the experiment and the comparisons it was given for, whatever loads,       *)
(* restarts, choices and answers come between, unless a prepared review was   *)
(* started over a context load.                                               *)
THEOREM ApprovalStands == Spec => []ApprovalBinds
<1>1. DeskInv => ApprovalBinds
  BY DEF DeskInv
<1> QED BY <1>1, DeskInvariant, PTL

(* The review the page shows is of the run the page is on, unless a prepared  *)
(* review was asked for after the operator had moved on: no load, answer or   *)
(* chain of a context that was left is ever shown in another.                 *)
THEOREM ReviewIsOfThisRun == Spec => []LoadedReviewOfThisRun
<1>1. DeskInv => LoadedReviewOfThisRun
  BY DEF DeskInv
<1> QED BY <1>1, DeskInvariant, PTL

(* The decisions a step leaves on the page, while the review stays there *)
LEMMA SeenStep ==
    ASSUME DeskInv, [Next]_vars,
           desk.review # 0, desk'.review = desk.review, ~overtaken
    PROVE  desk'.seen >= desk.seen
<1>a. TypeOK /\ Numbered /\ Waiting /\ Single /\ Loading /\ Asked
  BY DEF DeskInv
<1>b. desk.seen \in Nat
  BY <1>a, BoundAssumption DEF TypeOK
<1>c. ASSUME UNCHANGED desk
      PROVE  desk'.seen >= desk.seen
  BY <1>b, <1>c
<1>1. CASE \/ \E s \in Scope : SwitchContext(s)
           \/ \E e \in Experiment : ExperimentListed(e)
           \/ \E ok \in BOOLEAN : ExperimentMade(ok)
  <2>1. Restarted(scope') \/ UNCHANGED desk
    BY <1>a, <1>1, Restarts
  <2> QED BY <1>c, <2>1 DEF Restarted
<1>2. CASE \/ \E e \in Experiment : ToggleComparison(e)
           \/ \E p \in Provider : SelectProvider(p)
           \/ \E approved \in BOOLEAN : ApproveExternalData(approved)
  <2>1. desk'.review = 0
    BY <1>a, <1>2, Chooses, Approves
  <2> QED BY <2>1
<1>3. CASE \/ RunReview \/ AppendDecision
           \/ \E e \in Experiment : PrepareReview(e)
           \/ \E q \in runs : CreateReview(q)
           \/ \E q \in appends : RecordDecision(q) \/ DecisionAnswered(q)
           \/ \E r \in DOMAIN reviews : OtherDecision(r)
           \/ \E q \in loads : ReadContext(q)
           \/ UNCHANGED vars
  BY <1>c, <1>3
     DEF RunReview, AppendDecision, PrepareReview, CreateReview, RecordDecision,
         DecisionAnswered, OtherDecision, ReadContext, vars
<1>4. ASSUME NEW q \in loads, ContextLoaded(q)
      PROVE  desk'.seen >= desk.seen
  <2>1. q.live => desk.review = 0
    BY <1>a DEF Loading
  <2>2. UNCHANGED desk
    BY <1>4, <1>a, <2>1, ContextAnswered
  <2> QED BY <1>c, <2>2
<1>5. ASSUME NEW q \in runs, NEW ok \in BOOLEAN, ReviewReturned(q, ok)
      PROVE  desk'.seen >= desk.seen
  <2>1. q.live /\ q.made # 0 => desk.review < q.made
    BY <1>a DEF Asked
  <2>2. desk.review \in Nat
    BY <1>a, BoundAssumption DEF TypeOK
  <2>3. UNCHANGED desk \/ (q.live /\ q.made # 0 /\ desk'.review = q.made)
    BY <1>5, <1>a, Returned
  <2>4. UNCHANGED desk
    BY <2>1, <2>2, <2>3
  <2> QED BY <1>c, <2>4
<1>6. ASSUME NEW q \in appends, ChainReadBack(q)
      PROVE  desk'.seen >= desk.seen
  <2>1. UNCHANGED desk \/ (q.live /\ desk'.seen = q.after + 1)
    BY <1>6, <1>a, ChainRead
  <2>2. q.live => q.after = desk.seen
    BY <1>a DEF Asked
  <2> QED BY <1>b, <2>1, <2>2
<1>7. CASE ReviewPrepared
  <2>1. desk'.seen = desk.seen
    BY <1>7, <1>a, PreparedReview
  <2> QED BY <1>b, <2>1
<1> QED BY <1>1, <1>2, <1>3, <1>4, <1>5, <1>6, <1>7
        DEF Next, Operator, Server, Answers

(* While a review stays on the page its decisions never disappear from it:    *)
(* a chain read back only extends what is shown, and a load that was read     *)
(* before a decision is no longer live when a review is shown.                *)
THEOREM DecisionsStay == Spec => DecisionsNeverGoBack
<1>1. DeskInv /\ [Next]_vars =>
          [desk.review # 0 /\ desk'.review = desk.review /\ ~overtaken
              => desk'.seen >= desk.seen]_vars
  BY SeenStep
<1> QED BY <1>1, DeskInvariant, PTL DEF Spec, DecisionsNeverGoBack
=============================================================================
