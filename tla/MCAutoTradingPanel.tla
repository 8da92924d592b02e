------------------------- MODULE MCAutoTradingPanel -------------------------
(* A paper configuration, which the form holds before it is loaded, and a *)
(* production one, under which the service trades when the client opens.  *)
EXTENDS AutoTradingPanel
CONSTANTS paper, prod

MCConfig == {paper, prod}
MCStart == {[config |-> prod, enabled |-> TRUE]}
=============================================================================
