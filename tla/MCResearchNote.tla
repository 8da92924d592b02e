--------------------------- MODULE MCResearchNote ---------------------------
(* Two contexts and one external provider: a generation and its successor, *)
(* with reads of the notes of both contexts and a save across them.        *)
EXTENDS ResearchNote
=============================================================================
