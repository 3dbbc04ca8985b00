------------------------------ MODULE MCMailbox ------------------------------
(* Model checking of Mailbox, with two producers and two runners.          *)
EXTENDS Mailbox
=============================================================================
