----------------------------- MODULE LatestView -----------------------------
(***************************************************************************)
(* What a view of a remote state promises: it shows nothing, or a version  *)
(* the server has produced and no older than any it has shown before.      *)
(***************************************************************************)
EXTENDS Naturals

VARIABLES
    latest,     \* the server's newest version
    shown,      \* the version on the screen, 0 when the state is unknown
    floor       \* the newest version shown so far

vars == <<latest, shown, floor>>

Init == latest \in Nat /\ shown = 0 /\ floor = 0

ServerMoves == latest' > latest /\ UNCHANGED <<shown, floor>>
Show == /\ shown' \in floor .. latest /\ shown' > 0
        /\ floor' = shown' /\ UNCHANGED latest
Forget == shown' = 0 /\ UNCHANGED <<latest, floor>>

Next == ServerMoves \/ Show \/ Forget
Spec == Init /\ [][Next]_vars
=============================================================================
