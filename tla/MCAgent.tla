------------------------------- MODULE MCAgent -------------------------------
(***************************************************************************)
(* Model checking of Agent: two requests that have a handler, one that has *)
(* none.                                                                   *)
(***************************************************************************)
EXTENDS Agent
=============================================================================
