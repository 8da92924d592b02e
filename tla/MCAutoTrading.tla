---------------------------- MODULE MCAutoTrading ----------------------------
(* Two orders, a buy of two units and the sale that follows, are enough for  *)
(* every interleaving of one order with the next; two crashes let a recovery *)
(* die as well.                                                              *)
EXTENDS AutoTrading
==============================================================================
