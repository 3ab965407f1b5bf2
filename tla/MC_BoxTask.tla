---------------------------- MODULE MC_BoxTask ----------------------------
(* Instances of BoxTask for TLC. *)
EXTENDS BoxTask
=============================================================================
