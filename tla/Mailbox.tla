------------------------------- MODULE Mailbox -------------------------------
(***************************************************************************)
(* An actor's mailbox: the lock-free multi-producer queue of               *)
(* pkg/mpsc/mpsc.go, the message counter that bounds it and the CAS that   *)
(* lets one goroutine at a time drain it (actor/mailbox.go).               *)
(*                                                                         *)
(* Every atomic operation of the code is one step.  The queue is kept the  *)
(* immutable way: log[i] is the i-th node ever swapped into Mpsc.head (so  *)
(* head = Len(log); node 0 is the stub), tail is the last node popped, and *)
(* i \in linked says that the pointer `next' of node i-1 already names     *)
(* node i.  A node holds the kind of its message: "user" messages are      *)
(* subject to the capacity, "system" ones (init, stop, timer tasks) are    *)
(* not.                                                                    *)
(***************************************************************************)
EXTENDS Integers, Sequences, FiniteSets

CONSTANTS
  Producer,   \* goroutines that push (senders, timers, the actor itself)
  Runner,     \* goroutines the dispatcher starts; bounds how many linger at once
  Capacity,   \* Mailbox.capacity, positive after newMailbox
  MaxPush     \* bound: pushes each producer attempts

ASSUME ProducerAssumption == IsFiniteSet(Producer)
ASSUME CapacityAssumption == Capacity \in Nat \ {0}
ASSUME MaxPushAssumption == MaxPush \in Nat

VARIABLES
  log, tail, linked,   \* the queue: Mpsc.head, Mpsc.tail, node.next
  messages,            \* Mailbox.messages, pending messages by count
  status,              \* Mailbox.schedulerStatus
  pc, kind, node,      \* per producer: next step, message pushed, node it swapped in
  pushes,              \* per producer: pushes attempted (bounded by MaxPush)
  rpc,                 \* per runner: next step of processMessages/run
  invoked              \* history: the last node handed to InvokerMessage

queueVars == <<log, tail, linked>>
producerVars == <<pc, kind, node, pushes>>
vars == <<queueVars, messages, status, producerVars, rpc, invoked>>

Kind == {"user", "system"}
ProducerStep == {"ready", "undo", "swap", "link", "schedule"}
RunnerStep == {"none", "pop", "dec", "invoke", "store", "load", "cas"}

\* A runner owns the consumer side from its CAS to its Store(idle).
Active == {"pop", "dec", "invoke", "store"}

TypeOK ==
  /\ log \in Seq(Kind) /\ tail \in Nat /\ linked \in SUBSET Nat
  /\ messages \in Nat
  /\ status \in {"idle", "running"}
  /\ pc \in [Producer -> ProducerStep]
  /\ kind \in [Producer -> Kind]
  /\ node \in [Producer -> Nat]
  /\ pushes \in [Producer -> Nat]
  /\ rpc \in [Runner -> RunnerStep]
  /\ invoked \in Nat

Init ==
  /\ log = <<>> /\ tail = 0 /\ linked = {}
  /\ messages = 0
  /\ status = "idle"
  /\ pc = [p \in Producer |-> "ready"]
  /\ kind = [p \in Producer |-> "user"]
  /\ node = [p \in Producer |-> 0]
  /\ pushes = [p \in Producer |-> 0]
  /\ rpc = [r \in Runner |-> "none"]
  /\ invoked = 0

-----------------------------------------------------------------------------
(* Producers: PushUser, PushSystem, Mpsc.Push, schedule.                   *)

\* Both pushes start by counting the message; PushUser then compares the new
\* count with the capacity, PushSystem does not.
Count(p, k) ==
  /\ pc[p] = "ready"
  /\ pushes[p] < MaxPush
  /\ pushes' = [pushes EXCEPT ![p] = @ + 1]
  /\ kind' = [kind EXCEPT ![p] = k]
  /\ messages' = messages + 1
  /\ UNCHANGED <<queueVars, status, node, rpc, invoked>>

\* Mutant of PushUser: the old count is compared, one message too late.
PushUserLate(p) ==
  /\ Count(p, "user")
  /\ pc' = [pc EXCEPT ![p] = IF messages > Capacity THEN "undo" ELSE "swap"]

PushUser(p) ==
  /\ Count(p, "user")
  /\ pc' = [pc EXCEPT ![p] = IF messages + 1 > Capacity THEN "undo" ELSE "swap"]

PushSystem(p) ==
  /\ Count(p, "system")
  /\ pc' = [pc EXCEPT ![p] = "swap"]

\* The rejected push takes its count back and returns ErrMailboxFull.
Undo(p) ==
  /\ pc[p] = "undo"
  /\ messages' = messages - 1
  /\ pc' = [pc EXCEPT ![p] = "ready"]
  /\ UNCHANGED <<queueVars, status, kind, node, pushes, rpc, invoked>>

\* Mpsc.Push, first half: SwapPointer(head).  The node is in the list but
\* nothing reaches it yet.
Swap(p) ==
  /\ pc[p] = "swap"
  /\ log' = Append(log, kind[p])
  /\ node' = [node EXCEPT ![p] = Len(log) + 1]
  /\ pc' = [pc EXCEPT ![p] = "link"]
  /\ UNCHANGED <<tail, linked, messages, status, kind, pushes, rpc, invoked>>

\* Mpsc.Push, second half: StorePointer(prev.next).
Link(p) ==
  /\ pc[p] = "link"
  /\ linked' = linked \cup {node[p]}
  /\ pc' = [pc EXCEPT ![p] = "schedule"]
  /\ UNCHANGED <<log, tail, messages, status, kind, node, pushes, rpc, invoked>>

\* Mutant of Schedule: a plain store instead of the CAS.
ScheduleAlways(p) ==
  /\ pc[p] = "schedule"
  /\ pc' = [pc EXCEPT ![p] = "ready"]
  /\ status' = "running"
  /\ \E r \in Runner : rpc[r] = "none" /\ rpc' = [rpc EXCEPT ![r] = "pop"]
  /\ UNCHANGED <<queueVars, messages, kind, node, pushes, invoked>>

\* schedule: the CAS, and for its winner a new goroutine in processMessages.
Schedule(p) ==
  /\ pc[p] = "schedule"
  /\ pc' = [pc EXCEPT ![p] = "ready"]
  /\ \/ /\ status = "idle"
        /\ status' = "running"
        /\ \E r \in Runner : rpc[r] = "none" /\ rpc' = [rpc EXCEPT ![r] = "pop"]
     \/ /\ status = "running"
        /\ UNCHANGED <<status, rpc>>
  /\ UNCHANGED <<queueVars, messages, kind, node, pushes, invoked>>

-----------------------------------------------------------------------------
(* Runners: processMessages, run, Mpsc.Pop.                                *)

Goto(r, from, to) ==
  /\ rpc[r] = from
  /\ rpc' = [rpc EXCEPT ![r] = to]

\* Mutant of Pop: a node is skipped when its link is late.
PopSkips(r) ==
  /\ \/ \E i \in linked : i > tail /\ tail' = i /\ Goto(r, "pop", "dec")
     \/ tail + 1 \notin linked /\ tail' = tail /\ Goto(r, "pop", "store")
  /\ UNCHANGED <<log, linked, messages, status, producerVars, invoked>>

\* Mpsc.Pop: the next node, unless its predecessor does not point to it yet.
Pop(r) ==
  /\ \/ tail + 1 \in linked /\ tail' = tail + 1 /\ Goto(r, "pop", "dec")
     \/ tail + 1 \notin linked /\ tail' = tail /\ Goto(r, "pop", "store")
  /\ UNCHANGED <<log, linked, messages, status, producerVars, invoked>>

Decrement(r) ==
  /\ Goto(r, "dec", "invoke")
  /\ messages' = messages - 1
  /\ UNCHANGED <<queueVars, status, producerVars, invoked>>

\* InvokerMessage handles the message and says whether run must return.
Invoke(r, exit) ==
  /\ Goto(r, "invoke", IF exit THEN "store" ELSE "pop")
  /\ invoked' = tail
  /\ UNCHANGED <<queueVars, messages, status, producerVars>>

\* Mutant of StoreIdle: the status is not reset.
StoreNothing(r) ==
  /\ Goto(r, "store", "load")
  /\ UNCHANGED <<queueVars, messages, status, producerVars, invoked>>

StoreIdle(r) ==
  /\ Goto(r, "store", "load")
  /\ status' = "idle"
  /\ UNCHANGED <<queueVars, messages, producerVars, invoked>>

\* Mutant of Recheck: processMessages returns after Store(idle).
RecheckNever(r) ==
  /\ Goto(r, "load", "none")
  /\ UNCHANGED <<queueVars, messages, status, producerVars, invoked>>

\* processMessages looks at the counter once more after it gave up the mailbox.
Recheck(r) ==
  /\ Goto(r, "load", IF messages > 0 THEN "cas" ELSE "none")
  /\ UNCHANGED <<queueVars, messages, status, producerVars, invoked>>

Reacquire(r) ==
  /\ \/ status = "idle" /\ status' = "running" /\ Goto(r, "cas", "pop")
     \/ status = "running" /\ UNCHANGED status /\ Goto(r, "cas", "none")
  /\ UNCHANGED <<queueVars, messages, producerVars, invoked>>

-----------------------------------------------------------------------------
ProducerNext(p) ==
  PushUser(p) \/ PushSystem(p) \/ Undo(p) \/ Swap(p) \/ Link(p) \/ Schedule(p)

RunnerNext(r) ==
  \/ Pop(r) \/ Decrement(r) \/ StoreIdle(r) \/ Recheck(r) \/ Reacquire(r)
  \/ \E exit \in BOOLEAN : Invoke(r, exit)

\* Every producer has made its MaxPush attempts and nothing is left to do.
Quiescent ==
  /\ \A p \in Producer : pc[p] = "ready" /\ pushes[p] = MaxPush
  /\ \A r \in Runner : rpc[r] = "none"
  /\ UNCHANGED vars

Next ==
  \/ \E p \in Producer : ProducerNext(p)
  \/ \E r \in Runner : RunnerNext(r)
  \/ Quiescent

Spec == Init /\ [][Next]_vars

\* The Go scheduler runs every goroutine: a started push completes and a
\* runner keeps going.  Nobody has to start a push.
Fairness ==
  /\ \A p \in Producer : WF_vars(Undo(p) \/ Swap(p) \/ Link(p) \/ Schedule(p))
  /\ \A r \in Runner : WF_vars(RunnerNext(r))

FairSpec == Spec /\ Fairness

-----------------------------------------------------------------------------
(* Safety.                                                                 *)

\* schedule's comment, "only one goroutine processes the queue": at most one
\* runner is between its CAS(idle, running) and its Store(idle), so Mpsc.Pop
\* has a single consumer and an actor handles one message at a time.
SingleRunner ==
  \A r, s \in Runner : rpc[r] \in Active /\ rpc[s] \in Active => r = s

\* The status word agrees with the goroutines: "running" iff a runner is active.
StatusAgrees == status = "running" <=> \E r \in Runner : rpc[r] \in Active

Waiting == Len(log) - tail

\* Producers whose Add(1) has no node behind it (yet, or ever).
Counted == {p \in Producer : pc[p] \in {"undo", "swap"}}
InHand == IF \E r \in Runner : rpc[r] = "dec" THEN 1 ELSE 0

\* Mailbox.messages counts the nodes not popped, the producers between their
\* Add(1) and their Swap or Add(-1), and the message popped but not
\* uncounted: the counter never falls below what is really queued, which is
\* what Recheck relies on.
CountAccounting == messages = Waiting + Cardinality(Counted) + InHand

\* No wake-up is lost: if a message is queued while the mailbox is idle then
\* its producer has still to link or schedule it, or a runner has still to
\* look at the counter (mailbox.go:83-91 against mpsc.go:28-29).
NoLostWakeup ==
  status = "idle" /\ Waiting > 0 =>
    \/ \E p \in Producer : pc[p] \in {"link", "schedule"}
    \/ \E r \in Runner : rpc[r] \in {"load", "cas"}

UserWaiting == {i \in (tail + 1)..Len(log) : log[i] = "user"}
UserInFlight == {p \in Producer : pc[p] = "swap" /\ kind[p] = "user"}

\* PushUser never lets more than Capacity user messages wait, however many
\* producers race between Add(1) and Push and however many system messages
\* are counted with them.
CapacityBound ==
  Cardinality(UserWaiting) + Cardinality(UserInFlight) <= Capacity

\* Messages reach InvokerMessage in queue order, each exactly once.
InvokedInOrder == [][invoked' = invoked + 1]_invoked

(* Liveness.                                                               *)

\* Every accepted message is eventually handled, and the mailbox comes to
\* rest: the pop/store/load/cas loop of a runner that waits for a producer's
\* Link does not go on for ever.
AcceptedHandled ==
  /\ \A i \in 1..(MaxPush * Cardinality(Producer)) : Len(log) >= i ~> invoked >= i
  /\ \A r \in Runner : rpc[r] = "pop" ~> rpc[r] = "none"

(* The abstract inbox.                                                     *)

\* The mailbox as an Inbox: a message is accepted by Swap and taken by Pop.
Handling == \E r \in Runner : rpc[r] \in {"dec", "invoke"}
Promise == INSTANCE Inbox WITH inbox <- SubSeq(log, tail + 1, Len(log)), busy <- Handling

\* The mailbox of actor/mailbox.go implements the abstract Inbox, fairness
\* included: messages are taken in the order their swaps happened, one at a
\* time, a user message is accepted only while fewer than Capacity wait, and
\* a waiting message is eventually taken.
ImplementsInbox == Promise!Spec

=============================================================================
