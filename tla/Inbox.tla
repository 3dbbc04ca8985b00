-------------------------------- MODULE Inbox --------------------------------
(***************************************************************************)
(* What a mailbox promises the rest of the actor system: a FIFO of         *)
(* messages with room for Capacity user messages, emptied one message at a *)
(* time.  Mailbox implements it; ActorSystem is written on top of it.      *)
(***************************************************************************)
EXTENDS Naturals, Sequences, FiniteSets

CONSTANT Capacity

VARIABLES
  inbox,   \* kinds of the messages accepted and not yet taken, oldest first
  busy     \* a message is being handled

Kinds == {"user", "system"}

Users(s) == {i \in DOMAIN s : s[i] = "user"}

Init == inbox = <<>> /\ busy = FALSE

\* A full mailbox accepts no user message; it always accepts system messages.
Put(k) ==
  /\ k = "user" => Cardinality(Users(inbox)) < Capacity
  /\ inbox' = Append(inbox, k)
  /\ UNCHANGED busy

Take ==
  /\ ~busy /\ inbox # <<>>
  /\ inbox' = Tail(inbox)
  /\ busy' = TRUE

Done ==
  /\ busy
  /\ busy' = FALSE
  /\ UNCHANGED inbox

Next == (\E k \in Kinds : Put(k)) \/ Take \/ Done

Safety == Init /\ [][Next]_<<inbox, busy>>

Spec ==
  /\ Safety
  /\ WF_<<inbox, busy>>(Take) /\ WF_<<inbox, busy>>(Done)

=============================================================================
