------------------------- MODULE MCProductionClaim -------------------------
(* Three tenants and two accounts: two tenants compete for one account while *)
(* the third moves from one to the other.                                    *)
EXTENDS ProductionClaim
============================================================================
