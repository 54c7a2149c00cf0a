------------------------------ MODULE MCStore ------------------------------
(***************************************************************************)
(* Instances of RunStore for TLC.                                          *)
(***************************************************************************)
EXTENDS RunStore

TwoRuns == {"r1", "r2"}
============================================================================
