---------------------------- MODULE MCPublicLease ----------------------------
(* Three instances, a lease of two ticks, and statements that lag or lead    *)
(* the database's clock by up to one tick.                                   *)
EXTENDS PublicLease

MCAges == {-1, 0, 1}
MCFloor == -1
=============================================================================
