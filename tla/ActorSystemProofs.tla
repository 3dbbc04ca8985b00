-------------------------- MODULE ActorSystemProofs --------------------------
(***************************************************************************)
(* Theorems about module ActorSystem, for any finite set of processes, any *)
(* clients, capacity and number of operations, and whoever spawns, sets    *)
(* timers or forces its own stop.                                          *)
(*                                                                         *)
(* DestroyIsFinal is about single states of one process and is not         *)
(* inductive: that the stop message stays last depends on closing, on the  *)
(* pushers that hold closingMu and on Destroy having come from a stop      *)
(* message (StopMessage).  The tables need in addition that a process on   *)
(* its way through manager.remove is still registered (Registered).        *)
(***************************************************************************)
EXTENDS ActorSystem, FiniteSetTheorems, SequenceTheorems, TLAPS

Removing == {"destroy", "name", "id"}

\* Whoever has a *Process in hand got it from the tables or from its timer, and
\* both know spawned processes only.
Targets ==
  /\ \A t \in Pusher : pc[t] # "idle" => target[t] \in spawned
  /\ \A n \in Name : names[n] # None => names[n] \in spawned
  /\ ids \subseteq spawned /\ todo \subseteq spawned

\* Nothing happens to a process before SpawnActor.
Unborn ==
  \A p \in Proc \ spawned :
    /\ inbox[p] = <<>> /\ phase[p] = "idle" /\ timer[p] = "unused"
    /\ destroyed[p] = 0 /\ p \notin closing

Ended(p) == phase[p] \in Removing \/ destroyed[p] > 0

\* The life of a process that does not force its own stop: a stop message is
\* queued by the one that closes the process to pushes and stays the last; the
\* removal begins with it, and at the end nothing is left.
StopMessage ==
  \A p \in Proc \ Forcer :
    /\ p \in closing => \A t \in Pusher : ~(pc[t] = "pushing" /\ target[t] = p)
    /\ \A i \in 1..Len(inbox[p]) : inbox[p][i] = "stop" => p \in closing /\ i = Len(inbox[p])
    /\ p \in closing => Ended(p) \/ (inbox[p] # <<>> /\ inbox[p][Len(inbox[p])] = "stop")
    /\ Ended(p) => p \in closing /\ inbox[p] = <<>> /\ phase[p] \in Removing \cup {"idle"}
    /\ phase[p] \in {"name", "id"} => destroyed[p] = 1
    /\ phase[p] = "destroy" => destroyed[p] = 0
    /\ destroyed[p] <= 1

\* The wait group counts the registered processes; only the last step of a
\* removal takes a process out, after Destroy; and in the removal of one that
\* does not force its stop it is still registered.
Registered ==
  /\ waitGroup = Cardinality(ids)
  /\ \A p \in Proc : phase[p] \in {"name", "id"} => destroyed[p] > 0
  /\ \A p \in spawned \ ids : destroyed[p] > 0
  /\ \A p \in Proc \ Forcer : phase[p] \in Removing => p \in ids
  /\ sys = "done" => ids = {}

\* A name that no process with a forced stop bears leads to its live process.
Calm(n) == \A p \in Forcer : NameOf[p] # n
NamesAgree ==
  \A n \in Name : Calm(n) =>
    /\ \A p \in Proc : Live(p) /\ NameOf[p] = n => names[n] = p
    /\ names[n] # None => Live(names[n]) /\ NameOf[names[n]] = n

IInv == TypeOK /\ Targets /\ Unborn /\ StopMessage /\ Registered /\ NamesAgree

-----------------------------------------------------------------------------
\* What Append and Tail do to a mailbox, index by index.
LEMMA AppendFacts ==
  ASSUME NEW s \in Seq(Message), NEW e \in Message
  PROVE  /\ Append(s, e) \in Seq(Message) /\ Append(s, e) # <<>>
         /\ Len(s) \in Nat /\ Len(Append(s, e)) = Len(s) + 1
         /\ Append(s, e)[Len(s) + 1] = e
         /\ \A i \in 1..Len(s) : Append(s, e)[i] = s[i]
<1>1. Append(s, e) \in Seq(Message) /\ Len(s) \in Nat /\ Len(Append(s, e)) = Len(s) + 1
  OBVIOUS
<1>2. Append(s, e)[Len(s) + 1] = e /\ \A i \in 1..Len(s) : Append(s, e)[i] = s[i]
  OBVIOUS
<1>3. Append(s, e) # <<>>
  BY <1>1
<1> QED
  BY <1>1, <1>2, <1>3

\* Head and Tail, index by index.
LEMMA TailFacts ==
  ASSUME NEW s \in Seq(Message), s # <<>>
  PROVE  /\ Head(s) \in Message /\ Head(s) = s[1] /\ Tail(s) \in Seq(Message)
         /\ Len(s) \in Nat \ {0} /\ Len(Tail(s)) = Len(s) - 1
         /\ \A i \in 1..(Len(s) - 1) : Tail(s)[i] = s[i + 1]
         /\ Tail(s) = <<>> <=> Len(s) = 1
<1>1. Len(s) \in Nat \ {0} /\ Tail(s) \in Seq(Message) /\ Len(Tail(s)) = Len(s) - 1
  OBVIOUS
<1>2. Head(s) \in Message /\ Head(s) = s[1]
  OBVIOUS
<1>3. \A i \in 1..(Len(s) - 1) : Tail(s)[i] = s[i + 1]
  BY <1>1
<1>4. Tail(s) = <<>> <=> Len(s) = 1
  <2> DEFINE t == Tail(s)
  <2>1. t \in Seq(Message) /\ Len(t) = Len(s) - 1
    BY <1>1
  <2> HIDE DEF t
  <2>2. t = <<>> <=> Len(t) = 0
    BY <2>1, EmptySeq, LenProperties
  <2>3. t = <<>> <=> Len(s) = 1
    BY <1>1, <2>1, <2>2
  <2> QED
    BY <2>3 DEF t
<1> QED
  BY <1>1, <1>2, <1>3, <1>4

\* The processes in the id table can be counted.
LEMMA IdsFinite ==
  ASSUME TypeOK
  PROVE  /\ IsFiniteSet(ids) /\ Cardinality(ids) \in Nat
         /\ Cardinality(ids) = 0 <=> ids = {}
<1>1. IsFiniteSet(ids)
  BY ProcAssumption, FS_Subset DEF TypeOK
<1> QED
  BY <1>1, FS_CardinalityType, FS_EmptySet

-----------------------------------------------------------------------------
\* Process.Stop, called by anyone: pushes in progress are over, and the stop
\* message is the last, or it was queued before.
LEMMA StopProcKeeps ==
  ASSUME IInv, NEW p \in Proc, StopProc(p),
         \A t \in Pusher : pc'[t] = "pushing" => pc[t] = "pushing" /\ target'[t] = target[t]
  PROVE  StopMessage'
<1> USE DEF IInv, TypeOK, StopMessage, Ended, Removing, StopProc
<1>1. SUFFICES ASSUME NEW q \in Proc \ Forcer
               PROVE  /\ q \in closing' => \A t \in Pusher : ~(pc'[t] = "pushing" /\ target'[t] = q)
                      /\ \A i \in 1..Len(inbox'[q]) :
                           inbox'[q][i] = "stop" => q \in closing' /\ i = Len(inbox'[q])
                      /\ q \in closing' => Ended(q)' \/ (inbox'[q] # <<>> /\ inbox'[q][Len(inbox'[q])] = "stop")
                      /\ Ended(q)' => q \in closing' /\ inbox'[q] = <<>>
  OBVIOUS
<1>2. CASE q # p \/ p \in closing
  BY <1>2
<1>3. CASE q = p /\ p \notin closing
  <2>1. inbox'[p] = Append(inbox[p], "stop") /\ inbox[p] \in Seq(Message) /\ "stop" \in Message
    BY <1>3 DEF Message
  <2>2. /\ inbox'[p] # <<>> /\ Len(inbox'[p]) = Len(inbox[p]) + 1 /\ Len(inbox[p]) \in Nat
        /\ inbox'[p][Len(inbox[p]) + 1] = "stop"
        /\ \A i \in 1..Len(inbox[p]) : inbox'[p][i] = inbox[p][i]
    BY <2>1, AppendFacts
  <2>3. \A i \in 1..Len(inbox[p]) : inbox[p][i] # "stop"
    BY <1>3
  <2> QED
    BY <1>3, <2>2, <2>3
<1> QED
  BY <1>2, <1>3

\* The next message is the stop message exactly when it is the only one of a
\* process that was stopped.
LEMMA StopComesLast ==
  ASSUME IInv, NEW p \in Proc \ Forcer, inbox[p] # <<>>
  PROVE  /\ Head(inbox[p]) = "stop" <=> p \in closing /\ Len(inbox[p]) = 1
         /\ ~Ended(p) /\ destroyed[p] = 0 /\ p \in ids
<1> USE DEF IInv, TypeOK, StopMessage
<1>1. ~Ended(p)
  OBVIOUS
<1>2. destroyed[p] = 0
  BY <1>1 DEF Ended
<1>3. p \in ids
  BY <1>2 DEF Unborn, Registered
<1>4. Len(inbox[p]) \in Nat \ {0} /\ Head(inbox[p]) = inbox[p][1]
  BY TailFacts
<1>5. Head(inbox[p]) = "stop" => p \in closing /\ Len(inbox[p]) = 1
  <2>1. 1 \in 1..Len(inbox[p])
    BY <1>4
  <2>2. inbox[p][1] = "stop" => p \in closing /\ 1 = Len(inbox[p])
    BY <2>1
  <2> QED
    BY <1>4, <2>2
<1>6. p \in closing /\ Len(inbox[p]) = 1 => Head(inbox[p]) = "stop"
  BY <1>1, <1>4
<1> QED
  BY <1>1, <1>2, <1>3, <1>5, <1>6

\* The mailbox goroutine takes a message.
LEMMA TakeKeepsStopMessage ==
  ASSUME IInv, NEW p \in Proc, Take(p)
  PROVE  StopMessage'
<1> DEFINE s == inbox[p]
           phase1 == IF Head(s) = "stop" THEN "destroy" ELSE Head(s)
<1>1. /\ s \in Seq(Message) /\ s # <<>> /\ phase[p] = "idle"
      /\ inbox' = [inbox EXCEPT ![p] = Tail(s)] /\ phase' = [phase EXCEPT ![p] = phase1]
      /\ UNCHANGED <<closing, destroyed, pc, target>>
  BY DEF IInv, TypeOK, Take, pusherVars
<1>2. /\ Head(s) \in Message /\ Head(s) = s[1] /\ Len(s) \in Nat \ {0} /\ Len(Tail(s)) = Len(s) - 1
      /\ \A i \in 1..(Len(s) - 1) : Tail(s)[i] = s[i + 1]
      /\ Tail(s) = <<>> <=> Len(s) = 1
  BY <1>1, TailFacts
<1>3. SUFFICES ASSUME NEW q \in Proc \ Forcer
               PROVE  /\ q \in closing => \A t \in Pusher : ~(pc[t] = "pushing" /\ target[t] = q)
                      /\ \A i \in 1..Len(inbox'[q]) :
                           inbox'[q][i] = "stop" => q \in closing /\ i = Len(inbox'[q])
                      /\ q \in closing => Ended(q)' \/ (inbox'[q] # <<>> /\ inbox'[q][Len(inbox'[q])] = "stop")
                      /\ Ended(q)' => q \in closing /\ inbox'[q] = <<>> /\ phase'[q] \in Removing \cup {"idle"}
                      /\ phase'[q] \in {"name", "id"} => destroyed[q] = 1
                      /\ phase'[q] = "destroy" => destroyed[q] = 0
                      /\ destroyed[q] <= 1
  BY <1>1 DEF StopMessage
<1>4. CASE q # p
  BY <1>1, <1>4 DEF IInv, TypeOK, StopMessage, Ended
<1>5. CASE q = p
  <2>1. /\ Head(s) = "stop" <=> p \in closing /\ Len(s) = 1
        /\ ~Ended(p) /\ destroyed[p] = 0
    BY <1>1, <1>5, StopComesLast
  <2>2. inbox'[p] = Tail(s) /\ phase'[p] = phase1
    BY <1>1 DEF IInv, TypeOK
  <2>3. p \in closing => s[Len(s)] = "stop" /\ \A t \in Pusher : ~(pc[t] = "pushing" /\ target[t] = p)
    BY <1>5, <2>1 DEF IInv, StopMessage
  <2>4. \A i \in 1..Len(s) : s[i] = "stop" => p \in closing /\ i = Len(s)
    BY <1>5 DEF IInv, StopMessage
  <2>5. \A i \in 1..(Len(s) - 1) : Tail(s)[i] = "stop" => p \in closing /\ i = Len(s) - 1
    BY <1>2, <2>4
  <2>6. p \in closing /\ Len(s) # 1 => Tail(s) # <<>> /\ Tail(s)[Len(s) - 1] = "stop"
    BY <1>2, <2>3
  <2>7. Ended(p)' <=> Head(s) = "stop"
    BY <1>1, <1>2, <2>1, <2>2 DEF Ended, Removing, Message
  <2>8. phase1 \notin {"name", "id"} /\ (Head(s) = "stop" => phase1 = "destroy")
    BY <1>2 DEF Message
  <2> HIDE DEF s, phase1
  <2>9. \A i \in 1..Len(inbox'[p]) : inbox'[p][i] = "stop" => p \in closing /\ i = Len(inbox'[p])
    BY <1>2, <2>2, <2>5
  <2>10. p \in closing => Ended(p)' \/ (inbox'[p] # <<>> /\ inbox'[p][Len(inbox'[p])] = "stop")
    BY <1>2, <2>1, <2>2, <2>6, <2>7
  <2>11. Ended(p)' => p \in closing /\ inbox'[p] = <<>> /\ phase'[p] \in Removing \cup {"idle"}
    BY <1>2, <2>1, <2>2, <2>7, <2>8 DEF Removing
  <2> QED
    BY <1>5, <2>1, <2>2, <2>3, <2>8, <2>9, <2>10, <2>11
<1> QED
  BY <1>4, <1>5

\* What a successful SpawnActor writes has its type.
LEMMA SpawnTypes ==
  ASSUME TypeOK, NEW q \in Proc, SpawnOK(q)
  PROVE  /\ spawned' \subseteq Proc /\ ids' \subseteq Proc /\ waitGroup' \in Nat
         /\ names' \in [Name -> Proc \cup {None}]
         /\ inbox' \in [Proc -> Seq(Message)]
<1> USE DEF TypeOK, SpawnOK, AddLocked
<1>1. spawned' \subseteq Proc /\ ids' \subseteq Proc /\ waitGroup' \in Nat
  OBVIOUS
<1>2. names' \in [Name -> Proc \cup {None}]
  BY NameAssumption
<1>3. inbox' \in [Proc -> Seq(Message)]
  <2>1. Append(inbox[q], "init") \in Seq(Message)
    BY AppendFacts DEF Message
  <2> QED
    BY <2>1
<1> QED
  BY <1>1, <1>2, <1>3

\* Every step keeps the types; the wait group does not go below zero.
LEMMA StepTypeOK ==
  ASSUME IInv, [Next]_vars
  PROVE  TypeOK'
<1> USE DEF IInv, TypeOK, Targets, registryVars, processVars, pusherVars, systemVars, Pusher, Handling, Phase, Message
<1>1. ASSUME NEW p \in Proc, SpawnActor(p) PROVE TypeOK'
  <2>1. SpawnOK(p)
    BY <1>1 DEF SpawnActor
  <2> QED
    BY <1>1, <2>1, SpawnTypes DEF SpawnActor
<1>2. ASSUME NEW p \in Proc, TimerFires(p) PROVE TypeOK'
  BY <1>2 DEF TimerFires
<1>3. ASSUME NEW p \in Proc, Take(p) PROVE TypeOK'
  <2>1. Head(inbox[p]) \in Message /\ Tail(inbox[p]) \in Seq(Message)
    BY <1>3, TailFacts DEF Take
  <2> QED
    BY <1>3, <2>1 DEF Take
<1>4. ASSUME NEW p \in Proc, Destroy(p) PROVE TypeOK'
  BY <1>4 DEF Destroy
<1>5. ASSUME NEW p \in Proc, RemoveName(p) PROVE TypeOK'
  BY <1>5 DEF RemoveName
<1>6. ASSUME NEW p \in Proc, RemoveId(p) PROVE TypeOK'
  <2>1. p \in ids => Cardinality(ids) # 0
    BY IdsFinite
  <2>2. waitGroup = Cardinality(ids) /\ Cardinality(ids) \in Nat
    BY IdsFinite DEF Registered
  <2>3. waitGroup' \in Nat
    BY <1>6, <2>1, <2>2 DEF RemoveId
  <2> QED
    BY <1>6, <2>3 DEF RemoveId
<1>7. ASSUME NEW p \in Proc, Return(p) PROVE TypeOK'
  BY <1>7 DEF Return
<1>8. ASSUME NEW p \in Proc, HandlerSpawned(p) PROVE TypeOK'
  <2>1. ASSUME NEW q \in Proc, SpawnOK(q) PROVE TypeOK'
    BY <1>8, <2>1, SpawnTypes DEF HandlerSpawned
  <2>2. CASE UNCHANGED <<registryVars, inbox>>
    BY <1>8, <2>2 DEF HandlerSpawned
  <2> QED
    BY <1>8, <2>1, <2>2 DEF HandlerSpawned
<1>9. ASSUME NEW p \in Proc, HandlerSpawn(p) PROVE TypeOK'
  BY <1>9 DEF HandlerSpawn
<1>10. ASSUME NEW p \in Proc, SelfStop(p) PROVE TypeOK'
  BY <1>10 DEF SelfStop, StopProc
<1>11. ASSUME NEW p \in Proc, AfterFunc(p) PROVE TypeOK'
  BY <1>11 DEF AfterFunc
<1>12. ASSUME NEW p \in Proc, StopTimer(p) PROVE TypeOK'
  BY <1>12 DEF StopTimer
<1>13. ASSUME NEW p \in Proc, ForceStop(p) PROVE TypeOK'
  BY <1>13 DEF ForceStop
<1>14. ASSUME NEW c \in Client, NEW p \in Proc, Lookup(c, p) PROVE TypeOK'
  <2>1. GetProcess(p) \in Proc \cup {None}
    BY NameAssumption DEF GetProcess, Named
  <2>2. ops[c] + 1 \in 0..MaxOps
    BY <1>14, BoundAssumption DEF Lookup
  <2> QED
    BY <1>14, <2>1, <2>2 DEF Lookup
<1>15. ASSUME NEW c \in Client, StopProcess(c) PROVE TypeOK'
  BY <1>15 DEF StopProcess, StopProc, Idle
<1>16. ASSUME NEW t \in Pusher, PushBegin(t) PROVE TypeOK'
  BY <1>16 DEF PushBegin, Idle
<1>17. ASSUME NEW t \in Pusher, PushEnd(t) PROVE TypeOK'
  BY <1>17 DEF PushEnd, Idle
<1>18. CASE StopLock
  BY <1>18 DEF StopLock
<1>19. CASE StopCollect
  BY <1>19 DEF StopCollect
<1>20. ASSUME NEW p \in Proc, StopOne(p) PROVE TypeOK'
  BY <1>20 DEF StopOne, StopProc
<1>21. CASE StopWait
  BY <1>21 DEF StopWait
<1>22. CASE WaitDone
  BY <1>22 DEF WaitDone
<1>23. CASE WaitTimeout
  BY <1>23 DEF WaitTimeout
<1>24. CASE UNCHANGED vars
  BY <1>24 DEF vars
<1> QED
  BY <1>1, <1>2, <1>3, <1>4, <1>5, <1>6, <1>7, <1>8, <1>9, <1>10, <1>11, <1>12, <1>13, <1>14, <1>15, <1>16, <1>17, <1>18, <1>19, <1>20, <1>21, <1>22, <1>23, <1>24
     DEF Next, ClientNext, PushNext, RunNext, HandlerNext, StopNext, Quiescent

\* Every step keeps Targets.
LEMMA StepTargets ==
  ASSUME IInv, [Next]_vars
  PROVE  Targets'
<1> USE DEF IInv, TypeOK, Targets, Unborn, registryVars, processVars, pusherVars, systemVars, Pusher, Handling
<1>1. ASSUME NEW p \in Proc, SpawnActor(p) PROVE Targets'
  BY <1>1 DEF SpawnActor, SpawnOK, AddLocked
<1>2. ASSUME NEW p \in Proc, TimerFires(p) PROVE Targets'
  BY <1>2 DEF TimerFires
<1>3. ASSUME NEW p \in Proc, Take(p) PROVE Targets'
  BY <1>3 DEF Take
<1>4. ASSUME NEW p \in Proc, Destroy(p) PROVE Targets'
  BY <1>4 DEF Destroy
<1>5. ASSUME NEW p \in Proc, RemoveName(p) PROVE Targets'
  BY <1>5 DEF RemoveName
<1>6. ASSUME NEW p \in Proc, RemoveId(p) PROVE Targets'
  BY <1>6 DEF RemoveId
<1>7. ASSUME NEW p \in Proc, Return(p) PROVE Targets'
  BY <1>7 DEF Return
<1>8. ASSUME NEW p \in Proc, HandlerSpawned(p) PROVE Targets'
  <2>1. ASSUME NEW q \in Proc, SpawnOK(q) PROVE Targets'
    BY <1>8, <2>1 DEF HandlerSpawned, SpawnOK, AddLocked
  <2>2. CASE UNCHANGED <<registryVars, inbox>>
    BY <1>8, <2>2 DEF HandlerSpawned
  <2> QED
    BY <1>8, <2>1, <2>2 DEF HandlerSpawned
<1>9. ASSUME NEW p \in Proc, HandlerSpawn(p) PROVE Targets'
  BY <1>9 DEF HandlerSpawn
<1>10. ASSUME NEW p \in Proc, SelfStop(p) PROVE Targets'
  BY <1>10 DEF SelfStop, StopProc
<1>11. ASSUME NEW p \in Proc, AfterFunc(p) PROVE Targets'
  BY <1>11 DEF AfterFunc
<1>12. ASSUME NEW p \in Proc, StopTimer(p) PROVE Targets'
  BY <1>12 DEF StopTimer
<1>13. ASSUME NEW p \in Proc, ForceStop(p) PROVE Targets'
  BY <1>13 DEF ForceStop
<1>14. ASSUME NEW c \in Client, NEW p \in Proc, Lookup(c, p) PROVE Targets'
  <2>1. GetProcess(p) # None => GetProcess(p) \in spawned
    BY NameAssumption DEF GetProcess, Named
  <2> QED
    BY <1>14, <2>1 DEF Lookup
<1>15. ASSUME NEW c \in Client, StopProcess(c) PROVE Targets'
  BY <1>15 DEF StopProcess, StopProc, Idle
<1>16. ASSUME NEW t \in Pusher, PushBegin(t) PROVE Targets'
  BY <1>16 DEF PushBegin, Idle
<1>17. ASSUME NEW t \in Pusher, PushEnd(t) PROVE Targets'
  BY <1>17 DEF PushEnd, Idle
<1>18. CASE StopLock
  BY <1>18 DEF StopLock
<1>19. CASE StopCollect
  BY <1>19 DEF StopCollect
<1>20. ASSUME NEW p \in Proc, StopOne(p) PROVE Targets'
  BY <1>20 DEF StopOne, StopProc
<1>21. CASE StopWait
  BY <1>21 DEF StopWait
<1>22. CASE WaitDone
  BY <1>22 DEF WaitDone
<1>23. CASE WaitTimeout
  BY <1>23 DEF WaitTimeout
<1>24. CASE UNCHANGED vars
  BY <1>24 DEF vars
<1> QED
  BY <1>1, <1>2, <1>3, <1>4, <1>5, <1>6, <1>7, <1>8, <1>9, <1>10, <1>11, <1>12, <1>13, <1>14, <1>15, <1>16, <1>17, <1>18, <1>19, <1>20, <1>21, <1>22, <1>23, <1>24
     DEF Next, ClientNext, PushNext, RunNext, HandlerNext, StopNext, Quiescent

\* Every step keeps Unborn.
LEMMA StepUnborn ==
  ASSUME IInv, [Next]_vars
  PROVE  Unborn'
<1> USE DEF IInv, TypeOK, Targets, Unborn, registryVars, processVars, pusherVars, systemVars, Pusher, Handling
<1>1. ASSUME NEW p \in Proc, SpawnActor(p) PROVE Unborn'
  BY <1>1 DEF SpawnActor, SpawnOK, AddLocked
<1>2. ASSUME NEW p \in Proc, TimerFires(p) PROVE Unborn'
  BY <1>2 DEF TimerFires
<1>3. ASSUME NEW p \in Proc, Take(p) PROVE Unborn'
  BY <1>3 DEF Take
<1>4. ASSUME NEW p \in Proc, Destroy(p) PROVE Unborn'
  BY <1>4 DEF Destroy
<1>5. ASSUME NEW p \in Proc, RemoveName(p) PROVE Unborn'
  BY <1>5 DEF RemoveName
<1>6. ASSUME NEW p \in Proc, RemoveId(p) PROVE Unborn'
  BY <1>6 DEF RemoveId
<1>7. ASSUME NEW p \in Proc, Return(p) PROVE Unborn'
  BY <1>7 DEF Return
<1>8. ASSUME NEW p \in Proc, HandlerSpawned(p) PROVE Unborn'
  <2>1. ASSUME NEW q \in Proc, SpawnOK(q) PROVE Unborn'
    BY <1>8, <2>1 DEF HandlerSpawned, SpawnOK, AddLocked
  <2>2. CASE UNCHANGED <<registryVars, inbox>>
    BY <1>8, <2>2 DEF HandlerSpawned
  <2> QED
    BY <1>8, <2>1, <2>2 DEF HandlerSpawned
<1>9. ASSUME NEW p \in Proc, HandlerSpawn(p) PROVE Unborn'
  BY <1>9 DEF HandlerSpawn
<1>10. ASSUME NEW p \in Proc, SelfStop(p) PROVE Unborn'
  BY <1>10 DEF SelfStop, StopProc
<1>11. ASSUME NEW p \in Proc, AfterFunc(p) PROVE Unborn'
  BY <1>11 DEF AfterFunc
<1>12. ASSUME NEW p \in Proc, StopTimer(p) PROVE Unborn'
  BY <1>12 DEF StopTimer
<1>13. ASSUME NEW p \in Proc, ForceStop(p) PROVE Unborn'
  BY <1>13 DEF ForceStop
<1>14. ASSUME NEW c \in Client, NEW p \in Proc, Lookup(c, p) PROVE Unborn'
  BY <1>14 DEF Lookup
<1>15. ASSUME NEW c \in Client, StopProcess(c) PROVE Unborn'
  BY <1>15 DEF StopProcess, StopProc, Idle
<1>16. ASSUME NEW t \in Pusher, PushBegin(t) PROVE Unborn'
  BY <1>16 DEF PushBegin, Idle
<1>17. ASSUME NEW t \in Pusher, PushEnd(t) PROVE Unborn'
  BY <1>17 DEF PushEnd, Idle
<1>18. CASE StopLock
  BY <1>18 DEF StopLock
<1>19. CASE StopCollect
  BY <1>19 DEF StopCollect
<1>20. ASSUME NEW p \in Proc, StopOne(p) PROVE Unborn'
  BY <1>20 DEF StopOne, StopProc
<1>21. CASE StopWait
  BY <1>21 DEF StopWait
<1>22. CASE WaitDone
  BY <1>22 DEF WaitDone
<1>23. CASE WaitTimeout
  BY <1>23 DEF WaitTimeout
<1>24. CASE UNCHANGED vars
  BY <1>24 DEF vars
<1> QED
  BY <1>1, <1>2, <1>3, <1>4, <1>5, <1>6, <1>7, <1>8, <1>9, <1>10, <1>11, <1>12, <1>13, <1>14, <1>15, <1>16, <1>17, <1>18, <1>19, <1>20, <1>21, <1>22, <1>23, <1>24
     DEF Next, ClientNext, PushNext, RunNext, HandlerNext, StopNext, Quiescent

\* Every step keeps StopMessage.
LEMMA StepStopMessage ==
  ASSUME IInv, [Next]_vars
  PROVE  StopMessage'
<1> USE DEF IInv, TypeOK, Targets, Unborn, StopMessage, Ended, Removing, registryVars, processVars, pusherVars, systemVars, Pusher, Handling
<1>1. ASSUME NEW p \in Proc, SpawnActor(p) PROVE StopMessage'
  BY <1>1 DEF SpawnActor, SpawnOK, AddLocked
<1>2. ASSUME NEW p \in Proc, TimerFires(p) PROVE StopMessage'
  BY <1>2 DEF TimerFires
<1>3. ASSUME NEW p \in Proc, Take(p) PROVE StopMessage'
  BY <1>3, TakeKeepsStopMessage
<1>4. ASSUME NEW p \in Proc, Destroy(p) PROVE StopMessage'
  BY <1>4 DEF Destroy
<1>5. ASSUME NEW p \in Proc, RemoveName(p) PROVE StopMessage'
  BY <1>5 DEF RemoveName
<1>6. ASSUME NEW p \in Proc, RemoveId(p) PROVE StopMessage'
  BY <1>6 DEF RemoveId
<1>7. ASSUME NEW p \in Proc, Return(p) PROVE StopMessage'
  BY <1>7 DEF Return
<1>8. ASSUME NEW p \in Proc, HandlerSpawned(p) PROVE StopMessage'
  <2>1. ASSUME NEW q \in Proc, SpawnOK(q) PROVE StopMessage'
    BY <1>8, <2>1 DEF HandlerSpawned, SpawnOK, AddLocked
  <2>2. CASE UNCHANGED <<registryVars, inbox>>
    BY <1>8, <2>2 DEF HandlerSpawned
  <2> QED
    BY <1>8, <2>1, <2>2 DEF HandlerSpawned
<1>9. ASSUME NEW p \in Proc, HandlerSpawn(p) PROVE StopMessage'
  BY <1>9 DEF HandlerSpawn
<1>10. ASSUME NEW p \in Proc, SelfStop(p) PROVE StopMessage'
  BY <1>10, StopProcKeeps DEF SelfStop
<1>11. ASSUME NEW p \in Proc, AfterFunc(p) PROVE StopMessage'
  BY <1>11 DEF AfterFunc
<1>12. ASSUME NEW p \in Proc, StopTimer(p) PROVE StopMessage'
  BY <1>12 DEF StopTimer
<1>13. ASSUME NEW p \in Proc, ForceStop(p) PROVE StopMessage'
  BY <1>13 DEF ForceStop
<1>14. ASSUME NEW c \in Client, NEW p \in Proc, Lookup(c, p) PROVE StopMessage'
  BY <1>14 DEF Lookup
<1>15. ASSUME NEW c \in Client, StopProcess(c) PROVE StopMessage'
  <2>1. target[c] \in Proc /\ \A t \in Pusher : pc'[t] = "pushing" => pc[t] = "pushing" /\ target'[t] = target[t]
    BY <1>15 DEF StopProcess, Idle
  <2> QED
    BY <1>15, <2>1, StopProcKeeps DEF StopProcess
<1>16. ASSUME NEW t \in Pusher, PushBegin(t) PROVE StopMessage'
  <2>1. /\ \A s \in Pusher \ {t} : pc'[s] = pc[s] /\ target'[s] = target[s]
        /\ pc'[t] = "pushing" => target'[t] = target[t] /\ target[t] \notin closing
        /\ UNCHANGED <<inbox, closing, phase, destroyed>>
    BY <1>16 DEF PushBegin, Idle
  <2>2. ASSUME NEW q \in Proc \ Forcer, q \in closing, NEW s \in Pusher
        PROVE  ~(pc'[s] = "pushing" /\ target'[s] = q)
    <3>1. CASE s = t
      BY <2>1, <2>2, <3>1
    <3>2. CASE s # t
      BY <2>1, <2>2, <3>2
    <3> QED
      BY <3>1, <3>2
  <2> QED
    BY <2>1, <2>2
<1>17. ASSUME NEW t \in Pusher, PushEnd(t) PROVE StopMessage'
  BY <1>17 DEF PushEnd, Idle
<1>18. CASE StopLock
  BY <1>18 DEF StopLock
<1>19. CASE StopCollect
  BY <1>19 DEF StopCollect
<1>20. ASSUME NEW p \in Proc, StopOne(p) PROVE StopMessage'
  BY <1>20, StopProcKeeps DEF StopOne
<1>21. CASE StopWait
  BY <1>21 DEF StopWait
<1>22. CASE WaitDone
  BY <1>22 DEF WaitDone
<1>23. CASE WaitTimeout
  BY <1>23 DEF WaitTimeout
<1>24. CASE UNCHANGED vars
  BY <1>24 DEF vars
<1> QED
  BY <1>1, <1>2, <1>3, <1>4, <1>5, <1>6, <1>7, <1>8, <1>9, <1>10, <1>11, <1>12, <1>13, <1>14, <1>15, <1>16, <1>17, <1>18, <1>19, <1>20, <1>21, <1>22, <1>23, <1>24
     DEF Next, ClientNext, PushNext, RunNext, HandlerNext, StopNext, Quiescent

\* A step that changes neither table, nor who is past removeName, keeps the
\* name table exact.
LEMMA NamesStay ==
  ASSUME IInv, UNCHANGED <<ids, names>>, \A p \in Proc : phase'[p] = "id" <=> phase[p] = "id"
  PROVE  NamesAgree'
<1>1. \A p \in Proc : Live(p)' <=> Live(p)
  BY DEF Live
<1> QED
  BY <1>1, NameAssumption DEF IInv, TypeOK, NamesAgree

\* A new process gets a name that led nowhere.
LEMMA SpawnKeeps ==
  ASSUME IInv, NEW p \in Proc, SpawnOK(p),
         \A q \in Proc : phase'[q] = "id" <=> phase[q] = "id"
  PROVE  NamesAgree'
<1>1. /\ p \notin ids /\ phase[p] # "id" /\ ids' = ids \cup {p} /\ p # None
      /\ names' = IF NameOf[p] = None THEN names ELSE [names EXCEPT ![NameOf[p]] = p]
      /\ NameOf[p] # None => names[NameOf[p]] = None /\ NameOf[p] \in Name
  BY NameAssumption, ProcAssumption DEF IInv, Unborn, Targets, SpawnOK, AddLocked, Named
<1>2. \A q \in Proc : q \in ids' /\ phase'[q] # "id" <=> Live(q) \/ q = p
  BY <1>1 DEF Live
<1>3. \A n \in Name : names'[n] = IF n = NameOf[p] THEN p ELSE names[n]
  BY <1>1, NameAssumption DEF IInv, TypeOK
<1>4. SUFFICES ASSUME NEW n \in Name, Calm(n)
               PROVE  /\ \A q \in Proc : q \in ids' /\ phase'[q] # "id" /\ NameOf[q] = n => names'[n] = q
                      /\ names'[n] # None =>
                           names'[n] \in ids' /\ phase'[names'[n]] # "id" /\ NameOf[names'[n]] = n
  BY DEF NamesAgree, Calm, Live
<1>5. /\ \A q \in Proc : Live(q) /\ NameOf[q] = n => names[n] = q
      /\ names[n] # None => Live(names[n]) /\ NameOf[names[n]] = n
      /\ names[n] \in Proc \cup {None}
  BY <1>4 DEF IInv, TypeOK, NamesAgree
<1>6. CASE n = NameOf[p]
  BY <1>1, <1>2, <1>3, <1>5, <1>6, ProcAssumption, NameAssumption
<1>7. CASE n # NameOf[p]
  BY <1>1, <1>2, <1>3, <1>5, <1>7
<1> QED
  BY <1>6, <1>7

\* Every step keeps NamesAgree.
LEMMA StepNamesAgree ==
  ASSUME IInv, [Next]_vars
  PROVE  NamesAgree'
<1> USE DEF IInv, TypeOK, registryVars, processVars, pusherVars, systemVars, Handling, StopProc
<1>1. ASSUME NEW p \in Proc, SpawnActor(p) PROVE NamesAgree'
  BY <1>1, SpawnKeeps DEF SpawnActor
<1>2. ASSUME NEW p \in Proc, TimerFires(p) PROVE NamesAgree'
  BY <1>2, NamesStay DEF TimerFires
<1>3. ASSUME NEW p \in Proc, Take(p) PROVE NamesAgree'
  <2>0. Head(inbox[p]) \in Message
    BY <1>3, TailFacts DEF Take
  <2>1. UNCHANGED <<ids, names>> /\ \A q \in Proc : phase'[q] = "id" <=> phase[q] = "id"
    BY <1>3, <2>0 DEF Take, Message
  <2> QED
    BY <2>1, NamesStay
<1>4. ASSUME NEW p \in Proc, Destroy(p) PROVE NamesAgree'
  <2>1. UNCHANGED <<ids, names>> /\ \A q \in Proc : phase'[q] = "id" <=> phase[q] = "id"
    BY <1>4 DEF Destroy
  <2> QED
    BY <2>1, NamesStay
<1>5. ASSUME NEW p \in Proc, RemoveName(p) PROVE NamesAgree'
  <2>1. /\ phase[p] = "name" /\ phase' = [phase EXCEPT ![p] = "id"] /\ ids' = ids
        /\ names' = IF NameOf[p] = None THEN names ELSE [names EXCEPT ![NameOf[p]] = None]
    BY <1>5 DEF RemoveName
  <2>2. \A q \in Proc : Live(q)' <=> Live(q) /\ q # p
    BY <2>1 DEF Live
  <2>3. \A n \in Name : names'[n] = IF n = NameOf[p] THEN None ELSE names[n]
    BY <2>1, NameAssumption
  <2>4. p \notin Forcer => Live(p)
    BY <2>1 DEF Live, Registered, Removing
  <2>5. ASSUME NEW n \in Name, Calm(n), NameOf[p] = n PROVE names[n] = p
    BY <2>4, <2>5 DEF Calm, NamesAgree
  <2> QED
    BY <2>2, <2>3, <2>5, NameAssumption, ProcAssumption DEF NamesAgree, Calm
<1>6. ASSUME NEW p \in Proc, RemoveId(p) PROVE NamesAgree'
  <2>1. phase[p] = "id" /\ phase' = [phase EXCEPT ![p] = "idle"] /\ ids' = ids \ {p} /\ names' = names
    BY <1>6 DEF RemoveId
  <2>2. \A q \in Proc : Live(q)' <=> Live(q)
    BY <2>1 DEF Live
  <2> QED
    BY <2>1, <2>2, NameAssumption DEF NamesAgree
<1>7. ASSUME NEW p \in Proc, Return(p) PROVE NamesAgree'
  <2>1. UNCHANGED <<ids, names>> /\ \A q \in Proc : phase'[q] = "id" <=> phase[q] = "id"
    BY <1>7 DEF Return
  <2> QED
    BY <2>1, NamesStay
<1>8. ASSUME NEW p \in Proc, HandlerSpawned(p) PROVE NamesAgree'
  <2>1. \A q \in Proc : phase'[q] = "id" <=> phase[q] = "id"
    BY <1>8 DEF HandlerSpawned
  <2> QED
    BY <1>8, <2>1, SpawnKeeps, NamesStay DEF HandlerSpawned
<1>9. ASSUME NEW p \in Proc, HandlerSpawn(p) PROVE NamesAgree'
  <2>1. UNCHANGED <<ids, names>> /\ \A q \in Proc : phase'[q] = "id" <=> phase[q] = "id"
    BY <1>9 DEF HandlerSpawn
  <2> QED
    BY <2>1, NamesStay
<1>10. ASSUME NEW p \in Proc, SelfStop(p) PROVE NamesAgree'
  BY <1>10, NamesStay DEF SelfStop, StopProc
<1>11. ASSUME NEW p \in Proc, AfterFunc(p) PROVE NamesAgree'
  BY <1>11, NamesStay DEF AfterFunc
<1>12. ASSUME NEW p \in Proc, StopTimer(p) PROVE NamesAgree'
  BY <1>12, NamesStay DEF StopTimer
<1>13. ASSUME NEW p \in Proc, ForceStop(p) PROVE NamesAgree'
  <2>1. UNCHANGED <<ids, names>> /\ \A q \in Proc : phase'[q] = "id" <=> phase[q] = "id"
    BY <1>13 DEF ForceStop
  <2> QED
    BY <2>1, NamesStay
<1>14. ASSUME NEW c \in Client, NEW p \in Proc, Lookup(c, p) PROVE NamesAgree'
  BY <1>14, NamesStay DEF Lookup
<1>15. ASSUME NEW c \in Client, StopProcess(c) PROVE NamesAgree'
  BY <1>15, NamesStay DEF StopProcess, StopProc, Idle
<1>16. ASSUME NEW t \in Pusher, PushBegin(t) PROVE NamesAgree'
  BY <1>16, NamesStay DEF PushBegin, Idle
<1>17. ASSUME NEW t \in Pusher, PushEnd(t) PROVE NamesAgree'
  BY <1>17, NamesStay DEF PushEnd, Idle
<1>18. CASE StopLock
  BY <1>18, NamesStay DEF StopLock
<1>19. CASE StopCollect
  BY <1>19, NamesStay DEF StopCollect
<1>20. ASSUME NEW p \in Proc, StopOne(p) PROVE NamesAgree'
  BY <1>20, NamesStay DEF StopOne, StopProc
<1>21. CASE StopWait
  BY <1>21, NamesStay DEF StopWait
<1>22. CASE WaitDone
  BY <1>22, NamesStay DEF WaitDone
<1>23. CASE WaitTimeout
  BY <1>23, NamesStay DEF WaitTimeout
<1>24. CASE UNCHANGED vars
  BY <1>24, NamesStay DEF vars
<1> QED
  BY <1>1, <1>2, <1>3, <1>4, <1>5, <1>6, <1>7, <1>8, <1>9, <1>10, <1>11, <1>12, <1>13, <1>14, <1>15, <1>16, <1>17, <1>18, <1>19, <1>20, <1>21, <1>22, <1>23, <1>24
     DEF Next, ClientNext, PushNext, RunNext, HandlerNext, StopNext, Quiescent

\* Every step keeps Registered.
LEMMA StepRegistered ==
  ASSUME IInv, [Next]_vars
  PROVE  Registered'
<1> USE DEF IInv, TypeOK, Targets, Unborn, Registered, Removing, registryVars, processVars, pusherVars, systemVars, Pusher, Handling
<1>1. ASSUME NEW p \in Proc, SpawnActor(p) PROVE Registered'
  <2>1. p \notin ids /\ waitGroup' = waitGroup + 1 /\ ids' = ids \cup {p} /\ spawned' = spawned \cup {p}
    BY <1>1 DEF SpawnActor, SpawnOK, AddLocked
  <2>2. waitGroup' = Cardinality(ids')
    BY <2>1, IdsFinite, FS_AddElement
  <2> QED
    BY <1>1, <2>1, <2>2 DEF SpawnActor, SpawnOK
<1>2. ASSUME NEW p \in Proc, TimerFires(p) PROVE Registered'
  BY <1>2 DEF TimerFires
<1>3. ASSUME NEW p \in Proc, Take(p) PROVE Registered'
  <2>1. phase' = [phase EXCEPT ![p] = IF Head(inbox[p]) = "stop" THEN "destroy" ELSE Head(inbox[p])]
        /\ inbox[p] # <<>> /\ Head(inbox[p]) \in Message /\ phase[p] = "idle"
    BY <1>3, TailFacts DEF Take
  <2>2. p \notin Forcer => p \in ids
    BY <2>1, StopComesLast
  <2> QED
    BY <1>3, <2>1, <2>2 DEF Take, Message
<1>4. ASSUME NEW p \in Proc, Destroy(p) PROVE Registered'
  BY <1>4 DEF Destroy
<1>5. ASSUME NEW p \in Proc, RemoveName(p) PROVE Registered'
  BY <1>5 DEF RemoveName
<1>6. ASSUME NEW p \in Proc, RemoveId(p) PROVE Registered'
  <2>1. waitGroup' = Cardinality(ids')
    BY <1>6, IdsFinite, FS_RemoveElement DEF RemoveId
  <2> QED
    BY <1>6, <2>1 DEF RemoveId
<1>7. ASSUME NEW p \in Proc, Return(p) PROVE Registered'
  BY <1>7 DEF Return
<1>8. ASSUME NEW p \in Proc, HandlerSpawned(p) PROVE Registered'
  <2>1. ASSUME NEW q \in Proc, SpawnOK(q) PROVE Registered'
    <3>1. q \notin ids /\ waitGroup' = waitGroup + 1 /\ ids' = ids \cup {q} /\ spawned' = spawned \cup {q}
      BY <2>1 DEF SpawnOK, AddLocked
    <3>2. waitGroup' = Cardinality(ids')
      BY <3>1, IdsFinite, FS_AddElement
    <3> QED
      BY <1>8, <2>1, <3>1, <3>2 DEF HandlerSpawned, SpawnOK
  <2>2. CASE UNCHANGED <<registryVars, inbox>>
    BY <1>8, <2>2 DEF HandlerSpawned
  <2> QED
    BY <1>8, <2>1, <2>2 DEF HandlerSpawned
<1>9. ASSUME NEW p \in Proc, HandlerSpawn(p) PROVE Registered'
  BY <1>9 DEF HandlerSpawn
<1>10. ASSUME NEW p \in Proc, SelfStop(p) PROVE Registered'
  BY <1>10 DEF SelfStop, StopProc
<1>11. ASSUME NEW p \in Proc, AfterFunc(p) PROVE Registered'
  BY <1>11 DEF AfterFunc
<1>12. ASSUME NEW p \in Proc, StopTimer(p) PROVE Registered'
  BY <1>12 DEF StopTimer
<1>13. ASSUME NEW p \in Proc, ForceStop(p) PROVE Registered'
  BY <1>13 DEF ForceStop
<1>14. ASSUME NEW c \in Client, NEW p \in Proc, Lookup(c, p) PROVE Registered'
  BY <1>14 DEF Lookup
<1>15. ASSUME NEW c \in Client, StopProcess(c) PROVE Registered'
  BY <1>15 DEF StopProcess, StopProc, Idle
<1>16. ASSUME NEW t \in Pusher, PushBegin(t) PROVE Registered'
  BY <1>16 DEF PushBegin, Idle
<1>17. ASSUME NEW t \in Pusher, PushEnd(t) PROVE Registered'
  BY <1>17 DEF PushEnd, Idle
<1>18. CASE StopLock
  BY <1>18 DEF StopLock
<1>19. CASE StopCollect
  BY <1>19 DEF StopCollect
<1>20. ASSUME NEW p \in Proc, StopOne(p) PROVE Registered'
  BY <1>20 DEF StopOne, StopProc
<1>21. CASE StopWait
  BY <1>21 DEF StopWait
<1>22. CASE WaitDone
  BY <1>22, IdsFinite DEF WaitDone
<1>23. CASE WaitTimeout
  BY <1>23 DEF WaitTimeout
<1>24. CASE UNCHANGED vars
  BY <1>24 DEF vars
<1> QED
  BY <1>1, <1>2, <1>3, <1>4, <1>5, <1>6, <1>7, <1>8, <1>9, <1>10, <1>11, <1>12, <1>13, <1>14, <1>15, <1>16, <1>17, <1>18, <1>19, <1>20, <1>21, <1>22, <1>23, <1>24
     DEF Next, ClientNext, PushNext, RunNext, HandlerNext, StopNext, Quiescent

-----------------------------------------------------------------------------
\* IInv holds in every reachable state.
THEOREM Invariance == Spec => []IInv
<1>1. Init => IInv
  <2> SUFFICES ASSUME Init PROVE IInv
    OBVIOUS
  <2>1. TypeOK /\ Targets /\ Unborn /\ StopMessage
    BY BoundAssumption DEF Init, TypeOK, Targets, Unborn, StopMessage, Ended, Removing, Pusher, Phase
  <2>2. Registered /\ NamesAgree
    BY FS_EmptySet DEF Init, Registered, NamesAgree, Live, Removing
  <2> QED
    BY <2>1, <2>2 DEF IInv
<1>2. IInv /\ [Next]_vars => IInv'
  BY StepTypeOK, StepTargets, StepUnborn, StepStopMessage, StepRegistered, StepNamesAgree DEF IInv
<1> QED
  BY <1>1, <1>2, PTL DEF Spec

\* Every variable keeps its type; in particular manager.remove never makes the
\* wait group negative, which would panic.
THEOREM TypeCorrect == Spec => []TypeOK
<1>1. IInv => TypeOK
  BY DEF IInv
<1> QED
  BY Invariance, <1>1, PTL

\* Process.Stop against pushes, timers and other stops: for every process that
\* does not force its own stop, Destroy comes after everything accepted, once.
THEOREM DestroyLast == Spec => []DestroyIsFinal
<1>1. IInv => DestroyIsFinal
  <2> SUFFICES ASSUME IInv, NEW p \in Proc \ Forcer
               PROVE  /\ phase[p] = "destroy" \/ destroyed[p] > 0 =>
                           inbox[p] = <<>> /\ phase[p] \notin Handling \cup {"spawn"}
                      /\ \A i \in DOMAIN inbox[p] : inbox[p][i] = "stop" => i = Len(inbox[p])
                      /\ destroyed[p] <= 1
    BY DEF DestroyIsFinal
  <2>1. phase[p] = "destroy" \/ destroyed[p] > 0 =>
          inbox[p] = <<>> /\ phase[p] \notin Handling \cup {"spawn"}
    BY DEF IInv, StopMessage, Ended, Removing, Handling
  <2>2. DOMAIN inbox[p] = 1..Len(inbox[p])
    BY DEF IInv, TypeOK
  <2> QED
    BY <2>1, <2>2 DEF IInv, StopMessage
<1> QED
  BY Invariance, <1>1, PTL

\* System.Stop that returns nil left no actor: everyone ever spawned has been
\* destroyed, whoever spawns from handlers or forces its stop meanwhile.
THEOREM StopComplete == Spec => []StopIsComplete
<1>1. IInv => StopIsComplete
  BY DEF IInv, Registered, StopIsComplete
<1> QED
  BY Invariance, <1>1, PTL

\* The tables agree in every system whose named actors do not force their own
\* stop.  (For named actors that do, docs/actor.md's unique names are lost: see
\* UniqueNames.)
THEOREM RegistryExact ==
  ASSUME \A p \in Forcer : NameOf[p] = None
  PROVE  Spec => []RegistryAgrees
<1>1. \A n \in Name : Calm(n)
  BY NameAssumption DEF Calm
<1>2. IInv => RegistryAgrees
  BY <1>1, NameAssumption DEF IInv, TypeOK, Registered, NamesAgree, RegistryAgrees
<1> QED
  BY Invariance, <1>2, PTL
=============================================================================
