---------------------------- MODULE MCActorSystem ----------------------------
(* ActorSystem with three processes, two of them with the same name.       *)
EXTENDS ActorSystem

CONSTANTS a1, a2, a3, n

MCNameOf == [p \in Proc |-> IF p = a3 THEN None ELSE n]
MCOneName == [p \in Proc |-> n]

=============================================================================
