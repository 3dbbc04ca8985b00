---------------------------- MODULE MCConnection ----------------------------
(***************************************************************************)
(* Model checking of Connection: both configurations, plain and encrypted, *)
(* are initial states.                                                     *)
(***************************************************************************)
EXTENDS Connection
=============================================================================
