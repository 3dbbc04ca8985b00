-------------------------- MODULE MCLogicalRouter --------------------------
(* LogicalRouter with two nodes; one has a client.                         *)
EXTENDS LogicalRouter
=============================================================================
