----------------------------- MODULE ActorSystem -----------------------------
(***************************************************************************)
(* The life of actor processes: SpawnActor, Push, timers, Stop, ForceStop  *)
(* and Destroy (actor/process.go), the id and name tables with their wait  *)
(* group (actor/manager.go) and System.Stop (actor/system.go).             *)
(*                                                                         *)
(* A mailbox is an Inbox (Mailbox implements it).  Locks whose critical    *)
(* section is one step are not represented; the others are read off the    *)
(* program counters: a pusher in "pushing" holds its target's closingMu    *)
(* for reading, System.Stop holds spawnMu from "locked" to its end and     *)
(* manager's lock, for reading, in "stopall".  Process.closed steers       *)
(* nothing: run returns on it, and processMessages calls run again while   *)
(* messages remain.                                                        *)
(***************************************************************************)
EXTENDS Integers, Sequences, FiniteSets

CONSTANTS
  Proc,          \* process objects, each spawned at most once
  Name, NameOf,  \* actor names; NameOf[p] \in Name \cup {None}
  Client,        \* goroutines calling Tell, StopProcess and SpawnActor
  None,
  Capacity,      \* SpawnOptions.MailboxSize
  MaxOps,        \* bound: lookups per client
  Spawner, Timed, Forcer
                 \* processes whose handlers call SpawnActor, AfterFunc, ForceStop

ASSUME ProcAssumption == IsFiniteSet(Proc) /\ None \notin Proc /\ Proc \cap Client = {}
ASSUME NameAssumption == None \notin Name /\ NameOf \in [Proc -> Name \cup {None}]
ASSUME BoundAssumption ==
  /\ Capacity \in Nat \ {0} /\ MaxOps \in Nat 
  /\ Spawner \subseteq Proc /\ Timed \subseteq Proc /\ Forcer \subseteq Proc

VARIABLES
  spawned,            \* processes SpawnActor has created and returned
  ids, names,         \* manager.ids (as a set), manager.names
  waitGroup,          \* manager.waitGroup
  inbox,              \* per process: messages accepted, oldest first
  closing,            \* processes with Process.closing set
  phase,              \* per process: what its mailbox goroutine is doing
  timer,              \* per process: one AfterFunc timer
  destroyed,          \* history, per process: calls of Actor.Destroy
  pc, target, ops,    \* per client and timer goroutine: step, *Process in hand, lookups
  sys, todo           \* System.Stop: step, processes manager.stop has still to stop

registryVars == <<spawned, ids, names, waitGroup>>
processVars == <<inbox, closing, phase, timer, destroyed>>
pusherVars == <<pc, target, ops>>
systemVars == <<sys, todo>>
vars == <<registryVars, processVars, pusherVars, systemVars>>

Pusher == Client \cup Proc   \* p \in Proc pushes for p's timer
Message == {"init", "user", "task", "stop"}
Handling == {"init", "user", "task"}
Phase == Handling \cup {"idle", "spawn", "destroy", "name", "id"}

TypeOK ==
  /\ spawned \subseteq Proc /\ ids \subseteq Proc
  /\ names \in [Name -> Proc \cup {None}]
  /\ waitGroup \in Nat
  /\ inbox \in [Proc -> Seq(Message)]
  /\ closing \subseteq Proc
  /\ phase \in [Proc -> Phase]
  /\ timer \in [Proc -> {"unused", "armed", "spent"}]
  /\ destroyed \in [Proc -> Nat]
  /\ pc \in [Pusher -> {"idle", "found", "pushing"}]
  /\ target \in [Pusher -> Proc \cup {None}]
  /\ ops \in [Client -> 0..MaxOps]
  /\ sys \in {"up", "locked", "stopall", "wait", "done", "timedout"}
  /\ todo \subseteq Proc

Init ==
  /\ spawned = {} /\ ids = {} /\ waitGroup = 0
  /\ names = [n \in Name |-> None]
  /\ inbox = [p \in Proc |-> <<>>]
  /\ closing = {}
  /\ phase = [p \in Proc |-> "idle"]
  /\ timer = [p \in Proc |-> "unused"]
  /\ destroyed = [p \in Proc |-> 0]
  /\ pc = [t \in Pusher |-> "idle"]
  /\ target = [t \in Pusher |-> None]
  /\ ops = [c \in Client |-> 0]
  /\ sys = "up" /\ todo = {}

-----------------------------------------------------------------------------
(* Spawning.                                                               *)

SpawnLocked == sys \in {"locked", "stopall", "wait"}

\* namedLocked: the empty name is never taken.
Named(p) == NameOf[p] # None /\ names[NameOf[p]] # None

\* addLocked, after the init message was pushed to the new mailbox.
AddLocked(p) ==
  /\ inbox' = [inbox EXCEPT ![p] = Append(@, "init")]
  /\ spawned' = spawned \cup {p}
  /\ ids' = ids \cup {p}
  /\ names' = IF NameOf[p] = None THEN names ELSE [names EXCEPT ![NameOf[p]] = p]
  /\ waitGroup' = waitGroup + 1

\* Mutant of SpawnOK: stopping is not looked at.
SpawnAnyTime(p) ==
  /\ p \notin spawned /\ ~Named(p)
  /\ AddLocked(p)

\* SpawnActor succeeds: spawnMu was free, the system is not stopping and the
\* name is new.
SpawnOK(p) ==
  /\ sys = "up" /\ p \notin spawned /\ ~Named(p)
  /\ AddLocked(p)

SpawnActor(p) ==
  /\ SpawnOK(p)
  /\ UNCHANGED <<closing, phase, timer, destroyed, pusherVars, systemVars>>

\* A handler calls SpawnActor and stays in it while System.Stop holds spawnMu.
HandlerSpawn(p) ==
  /\ p \in Spawner /\ phase[p] \in Handling
  /\ phase' = [phase EXCEPT ![p] = "spawn"]
  /\ UNCHANGED <<registryVars, inbox, closing, timer, destroyed, pusherVars, systemVars>>

HandlerSpawned(p) ==
  /\ phase[p] = "spawn"
  /\ ~SpawnLocked
  /\ phase' = [phase EXCEPT ![p] = "idle"]
  /\ \/ \E q \in Proc : SpawnOK(q)
     \/ UNCHANGED <<registryVars, inbox>>      \* ErrNameExists, or stopping
  /\ UNCHANGED <<closing, timer, destroyed, pusherVars, systemVars>>

-----------------------------------------------------------------------------
(* Pushing and stopping.                                                   *)

\* getProcess: by id, then by name.
GetProcess(p) ==
  IF p \in ids THEN p ELSE IF Named(p) THEN names[NameOf[p]] ELSE None

\* A client looks up the process of a PID it was given.
Lookup(c, p) ==
  /\ pc[c] = "idle" /\ ops[c] < MaxOps /\ p \in spawned
  /\ ops' = [ops EXCEPT ![c] = @ + 1]
  /\ target' = [target EXCEPT ![c] = GetProcess(p)]
  /\ pc' = [pc EXCEPT ![c] = IF GetProcess(p) = None THEN "idle" ELSE "found"]
  /\ UNCHANGED <<registryVars, processVars, systemVars>>

Idle(t) == pc' = [pc EXCEPT ![t] = "idle"] /\ target' = [target EXCEPT ![t] = None]

\* Mailbox.messages of p: what is queued, and what is about to be.
Messages(p) == Len(inbox[p]) + Cardinality({t \in Pusher : pc[t] = "pushing" /\ target[t] = p})

\* Process.Push and PushSystem: with closingMu held, a closing process refuses.
\* Then the counter goes up; a user message is refused if it is over the
\* capacity, which it may also be for a moment by another push that is refused.
PushBegin(t) ==
  /\ pc[t] = "found"
  /\ LET p == target[t]
         trying == {c \in Client \ {t} : pc[c] = "found" /\ target[c] = p} IN
     \/ /\ p \in closing \/ (t \in Client /\ Messages(p) + Cardinality(trying) >= Capacity)
        /\ Idle(t)   \* ErrActorProcessStopped, ErrMailboxFull
     \/ /\ p \notin closing /\ (t \in Client => Messages(p) < Capacity)
        /\ pc' = [pc EXCEPT ![t] = "pushing"] /\ UNCHANGED target
  /\ UNCHANGED <<registryVars, processVars, ops, systemVars>>

\* The message is queued and closingMu released.
PushEnd(t) ==
  /\ pc[t] = "pushing"
  /\ Idle(t)
  /\ inbox' = [inbox EXCEPT ![target[t]] = Append(@, IF t \in Client THEN "user" ELSE "task")]
  /\ UNCHANGED <<registryVars, closing, phase, timer, destroyed, ops, systemVars>>

\* Mutant of StopProc: it does not exclude a push in progress.
StopProcUnlocked(p) ==
  /\ closing' = closing \cup {p}
  /\ inbox' = IF p \in closing THEN inbox ELSE [inbox EXCEPT ![p] = Append(@, "stop")]
  /\ UNCHANGED <<registryVars, phase, timer, destroyed>>

\* Process.Stop: waits for the readers of closingMu, closes the process to
\* pushes and queues the stop message, once.
StopProc(p) ==
  /\ \A t \in Pusher : ~(pc[t] = "pushing" /\ target[t] = p)
  /\ closing' = closing \cup {p}
  /\ inbox' = IF p \in closing THEN inbox ELSE [inbox EXCEPT ![p] = Append(@, "stop")]
  /\ UNCHANGED <<registryVars, phase, timer, destroyed>>

StopProcess(c) ==
  /\ pc[c] = "found"
  /\ StopProc(target[c])
  /\ Idle(c)
  /\ UNCHANGED <<ops, systemVars>>

\* ctx.Stop in a handler.
SelfStop(p) ==
  /\ phase[p] \in Handling
  /\ StopProc(p)
  /\ UNCHANGED <<pusherVars, systemVars>>

-----------------------------------------------------------------------------
(* Timers.                                                                 *)

AfterFunc(p) ==
  /\ p \in Timed /\ phase[p] \in Handling /\ timer[p] = "unused"
  /\ timer' = [timer EXCEPT ![p] = "armed"]
  /\ UNCHANGED <<registryVars, inbox, closing, phase, destroyed, pusherVars, systemVars>>

StopTimer(p) ==
  /\ phase[p] \in Handling /\ timer[p] = "armed"
  /\ timer' = [timer EXCEPT ![p] = "spent"]
  /\ UNCHANGED <<registryVars, inbox, closing, phase, destroyed, pusherVars, systemVars>>

\* The timer's goroutine starts a PushSystem of the task.
TimerFires(p) ==
  /\ timer[p] = "armed"
  /\ timer' = [timer EXCEPT ![p] = "spent"]
  /\ pc' = [pc EXCEPT ![p] = "found"]
  /\ target' = [target EXCEPT ![p] = p]
  /\ UNCHANGED <<registryVars, inbox, closing, phase, destroyed, ops, systemVars>>

-----------------------------------------------------------------------------
(* The mailbox goroutine: InvokerMessage.                                  *)

Take(p) ==
  /\ phase[p] = "idle" /\ inbox[p] # <<>>
  /\ phase' = [phase EXCEPT ![p] = IF Head(inbox[p]) = "stop" THEN "destroy" ELSE Head(inbox[p])]
  /\ inbox' = [inbox EXCEPT ![p] = Tail(@)]
  /\ UNCHANGED <<registryVars, closing, timer, destroyed, pusherVars, systemVars>>

\* ctx.ForceStop: handleDestroy inside the handler, taken here as the last
\* thing the handler does; closing stays as it is.
ForceStop(p) ==
  /\ p \in Forcer /\ phase[p] \in Handling
  /\ phase' = [phase EXCEPT ![p] = "destroy"]
  /\ UNCHANGED <<registryVars, inbox, closing, timer, destroyed, pusherVars, systemVars>>

\* Mutant of Destroy: the removal is not deferred, and Actor.Destroy panics.
DestroyPanics(p) ==
  /\ phase[p] = "destroy"
  /\ phase' = [phase EXCEPT ![p] = "idle"]
  /\ timer' = [timer EXCEPT ![p] = IF @ = "armed" THEN "spent" ELSE @]
  /\ destroyed' = [destroyed EXCEPT ![p] = @ + 1]
  /\ UNCHANGED <<registryVars, inbox, closing, pusherVars, systemVars>>

\* handleDestroy: clearTimers and Actor.Destroy (whether or not it panics, the
\* deferred mgr.remove follows).
Destroy(p) ==
  /\ phase[p] = "destroy"
  /\ phase' = [phase EXCEPT ![p] = "name"]
  /\ timer' = [timer EXCEPT ![p] = IF @ = "armed" THEN "spent" ELSE @]
  /\ destroyed' = [destroyed EXCEPT ![p] = @ + 1]
  /\ UNCHANGED <<registryVars, inbox, closing, pusherVars, systemVars>>

\* Mutant of RemoveName: only the id is removed.
RemoveNameNot(p) ==
  /\ phase[p] = "name" /\ sys # "stopall"
  /\ phase' = [phase EXCEPT ![p] = "id"]
  /\ UNCHANGED <<registryVars, inbox, closing, timer, destroyed, pusherVars, systemVars>>

\* manager.remove is two critical sections; both wait for manager.stop.
RemoveName(p) ==
  /\ phase[p] = "name" /\ sys # "stopall"
  /\ phase' = [phase EXCEPT ![p] = "id"]
  /\ names' = IF NameOf[p] = None THEN names ELSE [names EXCEPT ![NameOf[p]] = None]
  /\ UNCHANGED <<spawned, ids, waitGroup, inbox, closing, timer, destroyed,
                 pusherVars, systemVars>>

RemoveId(p) ==
  /\ phase[p] = "id" /\ sys # "stopall"
  /\ phase' = [phase EXCEPT ![p] = "idle"]
  /\ ids' = ids \ {p}
  /\ waitGroup' = IF p \in ids THEN waitGroup - 1 ELSE waitGroup
  /\ UNCHANGED <<spawned, names, inbox, closing, timer, destroyed, pusherVars, systemVars>>

\* The handler returns, or panics and is recovered.
Return(p) ==
  /\ phase[p] \in Handling
  /\ phase' = [phase EXCEPT ![p] = "idle"]
  /\ UNCHANGED <<registryVars, inbox, closing, timer, destroyed, pusherVars, systemVars>>

-----------------------------------------------------------------------------
(* System.Stop.                                                            *)

StopLock ==
  /\ sys = "up" /\ sys' = "locked"
  /\ UNCHANGED <<registryVars, processVars, pusherVars, todo>>

\* manager.stop takes its lock for reading: the tables stand still until
\* every process in them was told to stop.
StopCollect ==
  /\ sys = "locked" /\ sys' = "stopall"
  /\ todo' = ids
  /\ UNCHANGED <<registryVars, processVars, pusherVars>>

StopOne(p) ==
  /\ sys = "stopall" /\ p \in todo
  /\ StopProc(p)
  /\ todo' = todo \ {p}
  /\ UNCHANGED <<pusherVars, sys>>

StopWait ==
  /\ sys = "stopall" /\ todo = {}
  /\ sys' = "wait"
  /\ UNCHANGED <<registryVars, processVars, pusherVars, todo>>

WaitDone ==
  /\ sys = "wait" /\ waitGroup = 0
  /\ sys' = "done"
  /\ UNCHANGED <<registryVars, processVars, pusherVars, todo>>

\* Mutant of WaitTimeout: the wait has no limit.
WaitForever ==
  /\ sys = "wait" /\ waitGroup = 0
  /\ sys' = "timedout"
  /\ UNCHANGED <<registryVars, processVars, pusherVars, todo>>

\* WaitWithTimeout gives up after ten seconds and System.Stop returns an error.
WaitTimeout ==
  /\ sys = "wait" /\ sys' = "timedout"
  /\ UNCHANGED <<registryVars, processVars, pusherVars, todo>>

-----------------------------------------------------------------------------
ClientNext(c) == (\E p \in Proc : Lookup(c, p)) \/ StopProcess(c)
PushNext(t) == PushBegin(t) \/ PushEnd(t)
\* Steps the actor's goroutine takes without the handler's choosing.
RunNext(p) ==
  Take(p) \/ Destroy(p) \/ RemoveName(p) \/ RemoveId(p) \/ Return(p) \/ HandlerSpawned(p)
HandlerNext(p) ==
  HandlerSpawn(p) \/ SelfStop(p) \/ AfterFunc(p) \/ StopTimer(p) \/ ForceStop(p)
StopNext == StopCollect \/ (\E p \in Proc : StopOne(p)) \/ StopWait \/ WaitDone

\* Nothing left to do: no message, no handler, no call in progress.
Quiescent ==
  /\ \A p \in Proc : phase[p] = "idle" /\ inbox[p] = <<>>
  /\ \A t \in Pusher : pc[t] = "idle"
  /\ sys \in {"up", "done", "timedout"}
  /\ UNCHANGED vars

Next ==
  \/ \E p \in Proc : SpawnActor(p) \/ TimerFires(p) \/ RunNext(p) \/ HandlerNext(p)
  \/ \E c \in Client : ClientNext(c)
  \/ \E t \in Pusher : PushNext(t)
  \/ StopLock \/ StopNext \/ WaitTimeout
  \/ Quiescent

Spec == Init /\ [][Next]_vars

\* Goroutines run, handlers return, a RWMutex does not starve its writer and
\* the ten-second timer fires.  Callers owe nothing.
Fairness ==
  /\ \A p \in Proc : WF_vars(RunNext(p))
  /\ \A t \in Pusher : WF_vars(PushNext(t))
  /\ WF_vars(StopNext) /\ WF_vars(WaitTimeout)

FairSpec == Spec /\ Fairness

-----------------------------------------------------------------------------
(* Properties.                                                             *)

\* Process.Stop and Push share closingMu so that the stop message is the last
\* one, whoever stops the process, and how often: every message accepted before
\* it is handled before Destroy, nothing is queued or handled after it, and
\* Actor.Destroy runs once (concurrency_test.go, "want exactly 1"), unless its
\* handlers use ForceStop.
DestroyIsFinal ==
  \A p \in Proc \ Forcer :
    /\ phase[p] = "destroy" \/ destroyed[p] > 0 =>
         inbox[p] = <<>> /\ phase[p] \notin Handling \cup {"spawn"}
    /\ \A i \in DOMAIN inbox[p] : inbox[p][i] = "stop" => i = Len(inbox[p])
    /\ destroyed[p] <= 1

\* Live: registered, and its removal has not passed removeName.
Live(p) == p \in ids /\ phase[p] # "id"

\* "A non-empty actor name must be unique within one actor system"
\* (docs/actor.md): no two registered processes share it.
UniqueNames ==
  \A p, q \in Proc :
    Live(p) /\ Live(q) /\ NameOf[p] = NameOf[q] /\ NameOf[p] # None => p = q

\* The wait group counts the registered processes, so that System.Stop waits
\* for exactly the actors it stops, and the name table is exact: a name leads
\* to the live actor that bears it, and a removal in two steps never takes
\* away the name of a younger process.
RegistryAgrees ==
  /\ waitGroup = Cardinality(ids)
  /\ \A p \in Proc : Live(p) /\ NameOf[p] # None => names[NameOf[p]] = p
  /\ \A n \in Name : names[n] # None => Live(names[n]) /\ NameOf[names[n]] = n

\* When System.Stop returns nil every actor ever spawned has been destroyed
\* and removed, and none can appear afterwards.
StopIsComplete == sys = "done" => ids = {} /\ \A p \in spawned : destroyed[p] > 0

\* A stopped actor is eventually destroyed and leaves the tables, even if its
\* handler is in SpawnActor while System.Stop holds spawnMu.
StopLeadsToRemoval == \A p \in Proc : p \in closing ~> p \notin ids /\ destroyed[p] > 0

\* System.Stop returns, even if an actor it waits for waits for spawnMu.
StopReturns == sys = "locked" ~> sys \in {"done", "timedout"}

=============================================================================
