------------------------------ MODULE MCGateway ------------------------------
(***************************************************************************)
(* Model checking of Gateway with two connections.                         *)
(***************************************************************************)
EXTENDS Gateway
=============================================================================
