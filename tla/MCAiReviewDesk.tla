--------------------------- MODULE MCAiReviewDesk ---------------------------
(* Two research runs: two experiments of the first, one still to be made, and *)
(* one of the second; the review page of both and a page that needs nothing.   *)
EXTENDS AiReviewDesk, TLC
CONSTANTS r1, r2, e1, e2, f1

MCScope == {[area |-> "ai-review", run |-> r1], [area |-> "ai-review", run |-> r2],
            [area |-> "settings", run |-> r1], [area |-> "elsewhere", run |-> r1]}
MCStartScope == [area |-> "ai-review", run |-> r1]
MCExperiment == {e1, e2, f1}
MCRunOf == (e1 :> r1) @@ (e2 :> r1) @@ (f1 :> r2)
MCDoneAtStart == {e1, f1}
=============================================================================
