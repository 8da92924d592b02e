-------------------------- MODULE MCStage6Sandbox --------------------------
(* One batch of two orders for what happens inside a batch, and two batches *)
(* of one order for what happens between them.                              *)
EXTENDS Stage6Sandbox
============================================================================
