--------------------------- MODULE MCCommandQueue ---------------------------
(***************************************************************************)
(* A small room for TLC: one actuator and a few transactions.              *)
(***************************************************************************)
EXTENDS CommandQueue

=============================================================================
