---------------------------- MODULE MailboxProofs ----------------------------
(***************************************************************************)
(* Proofs about Mailbox, for any finite set of producers, any set of       *)
(* runners and any capacity.  The inductive invariant is IInv.             *)
(*                                                                         *)
(* The last theorem is the safety half of the refinement of Inbox: a swap  *)
(* puts a message, a pop takes the head, the end of Invoke ends a handler, *)
(* and every other atomic operation is invisible.                          *)
(***************************************************************************)
EXTENDS Mailbox, TLAPS, FiniteSetTheorems, SequenceTheorems

\* Nodes are linked after they were swapped in and popped after they were
\* linked (mpsc.go:28-29 and 33-36).
QueueShape ==
  /\ tail <= Len(log)
  /\ linked \subseteq 1..Len(log)
  /\ \A p \in Producer : pc[p] = "link" => node[p] \in 1..Len(log)

IInv ==
  /\ TypeOK
  /\ QueueShape
  /\ SingleRunner
  /\ StatusAgrees
  /\ CountAccounting
  /\ NoLostWakeup

\* The set of producers between Add(1) and Swap/Undo is finite.
LEMMA CountedFinite ==
  /\ IsFiniteSet(Counted)
  /\ Cardinality(Counted) \in Nat
BY FS_Subset, FS_CardinalityType, ProducerAssumption DEF Counted

\* A push's Add(1) enters Counted.
LEMMA CountAddsOne ==
  ASSUME TypeOK, NEW p \in Producer, PushUser(p) \/ PushSystem(p)
  PROVE  Cardinality(Counted') = Cardinality(Counted) + 1
<1>1. Counted' = Counted \cup {p} /\ p \notin Counted
  BY DEF TypeOK, PushUser, PushSystem, Count, Counted, ProducerStep
<1> QED
  BY <1>1, CountedFinite, FS_AddElement

\* Undo and Swap leave Counted.
LEMMA UndoSwapTakesOne ==
  ASSUME TypeOK, NEW p \in Producer, Undo(p) \/ Swap(p)
  PROVE  /\ Cardinality(Counted') = Cardinality(Counted) - 1
         /\ Cardinality(Counted) >= 1
<1>1. Counted' = Counted \ {p} /\ p \in Counted
  BY DEF TypeOK, Undo, Swap, Counted, ProducerStep
<1>2. Cardinality(Counted') = Cardinality(Counted) - 1
  BY <1>1, CountedFinite, FS_RemoveElement
<1>3. IsFiniteSet(Counted') /\ Cardinality(Counted') \in Nat
  BY <1>1, CountedFinite, FS_RemoveElement, FS_CardinalityType
<1> QED
  BY <1>2, <1>3, CountedFinite

\* No other step changes Counted.
LEMMA CountedUnchanged ==
  ASSUME TypeOK,
         \/ \E p \in Producer : Link(p) \/ Schedule(p)
         \/ \E r \in Runner : RunnerNext(r)
         \/ UNCHANGED vars
  PROVE  Counted' = Counted
BY DEF TypeOK, Link, Schedule, RunnerNext, Pop, Decrement, Invoke, StoreIdle, Recheck,
       Reacquire, producerVars, vars, Counted, ProducerStep

\* The initial state satisfies the invariant.
LEMMA InitIInv == Init => IInv
<1> SUFFICES ASSUME Init PROVE IInv
  OBVIOUS
<1>1. TypeOK /\ QueueShape /\ SingleRunner /\ StatusAgrees /\ NoLostWakeup
  BY DEF Init, TypeOK, QueueShape, SingleRunner, StatusAgrees, NoLostWakeup, Kind,
         ProducerStep, RunnerStep, Active, Waiting
<1>2. Counted = {}
  BY DEF Init, Counted
<1>3. CountAccounting
  BY <1>2, FS_EmptySet DEF Init, CountAccounting, Waiting, InHand
<1> QED
  BY <1>1, <1>3 DEF IInv

\* Every step of a producer or a runner preserves the invariant: one step
\* per action, the counter and the wake-up conjuncts separately.
LEMMA NextIInv == IInv /\ [Next]_vars => IInv'
<1> SUFFICES ASSUME IInv, [Next]_vars PROVE IInv'
  OBVIOUS
<1> USE DEF IInv
<1> TypeOK /\ QueueShape /\ SingleRunner /\ StatusAgrees /\ CountAccounting /\ NoLostWakeup
  OBVIOUS
<1>0. /\ Cardinality(Counted) \in Nat /\ InHand \in {0, 1} /\ Len(log) \in Nat
      /\ tail \in Nat /\ Waiting \in Nat /\ messages \in Nat
  BY CountedFinite DEF InHand, Waiting, TypeOK, QueueShape
<1>1. ASSUME NEW p \in Producer, PushUser(p) \/ PushSystem(p) PROVE IInv'
  <2>1. /\ UNCHANGED <<log, tail, linked, status, node, rpc>> /\ messages' = messages + 1
        /\ pc[p] = "ready" /\ \E s \in {"undo", "swap"} : pc' = [pc EXCEPT ![p] = s]
        /\ \E k \in Kind : kind' = [kind EXCEPT ![p] = k]
        /\ pushes' = [pushes EXCEPT ![p] = @ + 1] /\ invoked' = invoked
    BY <1>1 DEF PushUser, PushSystem, Count, queueVars, Kind
  <2>2. TypeOK'
    BY <1>0, <2>1 DEF TypeOK, ProducerStep
  <2>3. QueueShape' /\ SingleRunner' /\ StatusAgrees' /\ NoLostWakeup'
    BY <2>1 DEF QueueShape, SingleRunner, StatusAgrees, NoLostWakeup, Waiting, TypeOK
  <2>4. Waiting' = Waiting /\ InHand' = InHand
    BY <2>1 DEF Waiting, InHand
  <2>5. CountAccounting'
    BY <1>0, <1>1, <2>1, <2>4, CountAddsOne DEF CountAccounting
  <2> QED BY <2>2, <2>3, <2>5
<1>2. ASSUME NEW p \in Producer, Undo(p) PROVE IInv'
  <2>1. Waiting' = Waiting /\ InHand' = InHand
    BY <1>2 DEF Undo, queueVars, Waiting, InHand
  <2>2. CountAccounting' /\ messages' \in Nat
    <3>1. Cardinality(Counted') = Cardinality(Counted) - 1 /\ Cardinality(Counted) >= 1
      BY <1>2, UndoSwapTakesOne
    <3>2. messages = Waiting + Cardinality(Counted) + InHand
      BY DEF CountAccounting
    <3>3. messages' = messages - 1
      BY <1>2 DEF Undo
    <3>4. messages' = Waiting' + Cardinality(Counted') + InHand' /\ messages' \in Nat
      BY <1>0, <2>1, <3>1, <3>2, <3>3, SMTT(20)
    <3> QED BY <3>4 DEF CountAccounting
  <2>3. TypeOK' /\ QueueShape' /\ SingleRunner' /\ StatusAgrees' /\ NoLostWakeup'
    BY <1>2, <2>2 DEF Undo, queueVars, TypeOK, ProducerStep, QueueShape, SingleRunner,
                      StatusAgrees, NoLostWakeup, Waiting
  <2> QED BY <2>2, <2>3
<1>3. ASSUME NEW p \in Producer, Swap(p) PROVE IInv'
  <2>1. Len(log') = Len(log) + 1 /\ log' \in Seq(Kind)
    BY <1>3 DEF Swap, TypeOK
  <2>2. Waiting' = Waiting + 1 /\ InHand' = InHand
    BY <1>0, <1>3, <2>1 DEF Swap, Waiting, InHand
  <2>3. CountAccounting'
    <3>1. Cardinality(Counted') = Cardinality(Counted) - 1
      BY <1>3, UndoSwapTakesOne
    <3> QED BY <1>0, <1>3, <2>2, <3>1 DEF Swap, CountAccounting
  <2>4. TypeOK' /\ QueueShape'
    BY <1>0, <1>3, <2>1 DEF Swap, TypeOK, ProducerStep, QueueShape
  <2>5. SingleRunner' /\ StatusAgrees' /\ NoLostWakeup'
    BY <1>3 DEF Swap, SingleRunner, StatusAgrees, NoLostWakeup, TypeOK
  <2> QED BY <2>3, <2>4, <2>5
<1>4. ASSUME NEW p \in Producer, Link(p) PROVE IInv'
  <2>1. Counted' = Counted
    BY <1>4, CountedUnchanged
  <2>2. Waiting' = Waiting /\ InHand' = InHand
    BY <1>4 DEF Link, Waiting, InHand
  <2>3. CountAccounting'
    BY <1>4, <2>1, <2>2 DEF Link, CountAccounting
  <2>4. TypeOK' /\ QueueShape' /\ SingleRunner' /\ StatusAgrees'
    BY <1>4 DEF Link, TypeOK, ProducerStep, QueueShape, SingleRunner, StatusAgrees
  <2>5. NoLostWakeup'
    BY <1>4 DEF Link, NoLostWakeup, TypeOK
  <2> QED BY <2>3, <2>4, <2>5
<1>5. ASSUME NEW p \in Producer, Schedule(p) PROVE IInv'
  <2>1. Counted' = Counted
    BY <1>5, CountedUnchanged
  <2>2. Waiting' = Waiting /\ InHand' = InHand
    BY <1>5 DEF Schedule, queueVars, Waiting, InHand, TypeOK
  <2>3. CountAccounting'
    BY <1>5, <2>1, <2>2 DEF Schedule, CountAccounting
  <2>4. TypeOK' /\ QueueShape'
    BY <1>5 DEF Schedule, queueVars, TypeOK, ProducerStep, RunnerStep, QueueShape
  <2>5. SingleRunner' /\ StatusAgrees' /\ status' = "running"
    BY <1>5 DEF Schedule, TypeOK, SingleRunner, StatusAgrees, Active
  <2>6. NoLostWakeup'
    BY <2>5 DEF NoLostWakeup
  <2> QED BY <2>3, <2>4, <2>5, <2>6
<1>6. ASSUME NEW r \in Runner, Pop(r) PROVE IInv'
  <2>1. Counted' = Counted
    BY <1>6, CountedUnchanged DEF RunnerNext
  <2>2. status = "running" /\ InHand = 0
    BY <1>6 DEF Pop, Goto, StatusAgrees, SingleRunner, Active, InHand
  <2>3. TypeOK' /\ QueueShape'
    <3>1. tail' \in Nat /\ tail' <= Len(log)
      BY <1>0, <1>6 DEF Pop, QueueShape
    <3>2. rpc' \in [Runner -> RunnerStep]
      BY <1>6 DEF Pop, Goto, TypeOK, RunnerStep
    <3> QED
      BY <1>6, <3>1, <3>2 DEF Pop, producerVars, TypeOK, QueueShape
  <2>4. SingleRunner' /\ StatusAgrees'
    BY <1>6 DEF Pop, Goto, TypeOK, SingleRunner, StatusAgrees, Active
  <2>5. NoLostWakeup'
    BY <1>6, <2>2 DEF Pop, NoLostWakeup
  <2>6. CountAccounting'
    <3>1. CASE tail + 1 \in linked
      <4>1. InHand' = 1 /\ tail' = tail + 1
        BY <1>6, <3>1 DEF Pop, Goto, InHand, TypeOK
      <4> QED
        BY <1>0, <1>6, <2>1, <2>2, <4>1 DEF Pop, CountAccounting, Waiting
    <3>2. CASE tail + 1 \notin linked
      <4>1. InHand' = 0 /\ tail' = tail
        BY <1>6, <2>2, <3>2 DEF Pop, Goto, InHand, TypeOK
      <4> QED
        BY <1>0, <1>6, <2>1, <2>2, <4>1 DEF Pop, CountAccounting, Waiting
    <3> QED BY <3>1, <3>2
  <2> QED BY <2>3, <2>4, <2>5, <2>6
<1>7. ASSUME NEW r \in Runner, Decrement(r) PROVE IInv'
  <2>1. Counted' = Counted
    BY <1>7, CountedUnchanged DEF RunnerNext
  <2>2. InHand = 1 /\ InHand' = 0 /\ status = "running"
    BY <1>7 DEF Decrement, Goto, TypeOK, SingleRunner, StatusAgrees, Active, InHand
  <2>3. CountAccounting' /\ messages' \in Nat
    BY <1>0, <1>7, <2>1, <2>2 DEF Decrement, queueVars, CountAccounting, Waiting
  <2>4. TypeOK' /\ QueueShape'
    BY <1>7, <2>3 DEF Decrement, Goto, queueVars, producerVars, TypeOK, RunnerStep, QueueShape
  <2>5. SingleRunner' /\ StatusAgrees' /\ NoLostWakeup'
    BY <1>7, <2>2 DEF Decrement, Goto, TypeOK, SingleRunner, StatusAgrees, Active, NoLostWakeup
  <2> QED BY <2>3, <2>4, <2>5
<1>8. ASSUME NEW r \in Runner, NEW exit \in BOOLEAN, Invoke(r, exit) PROVE IInv'
  <2>1. Counted' = Counted
    BY <1>8, CountedUnchanged DEF RunnerNext
  <2>2. InHand' = InHand /\ status = "running"
    BY <1>8 DEF Invoke, Goto, TypeOK, StatusAgrees, Active, InHand
  <2>3. CountAccounting'
    BY <1>8, <2>1, <2>2 DEF Invoke, queueVars, CountAccounting, Waiting
  <2>4. TypeOK' /\ QueueShape'
    BY <1>8 DEF Invoke, Goto, queueVars, producerVars, TypeOK, RunnerStep, QueueShape
  <2>5. SingleRunner' /\ StatusAgrees' /\ NoLostWakeup'
    BY <1>8, <2>2 DEF Invoke, Goto, TypeOK, SingleRunner, StatusAgrees, Active, NoLostWakeup
  <2> QED BY <2>3, <2>4, <2>5
<1>9. ASSUME NEW r \in Runner, StoreIdle(r) PROVE IInv'
  <2>1. Counted' = Counted
    BY <1>9, CountedUnchanged DEF RunnerNext
  <2>2. InHand' = InHand
    BY <1>9 DEF StoreIdle, Goto, TypeOK, InHand
  <2>3. CountAccounting'
    BY <1>9, <2>1, <2>2 DEF StoreIdle, queueVars, CountAccounting, Waiting
  <2>4. TypeOK' /\ QueueShape'
    BY <1>9 DEF StoreIdle, Goto, queueVars, producerVars, TypeOK, RunnerStep, QueueShape
  <2>5. SingleRunner' /\ StatusAgrees'
    BY <1>9 DEF StoreIdle, Goto, TypeOK, SingleRunner, StatusAgrees, Active
  <2>6. rpc'[r] = "load"
    BY <1>9 DEF StoreIdle, Goto, TypeOK
  <2>7. NoLostWakeup'
    BY <2>6 DEF NoLostWakeup
  <2> QED BY <2>3, <2>4, <2>5, <2>7
<1>10. ASSUME NEW r \in Runner, Recheck(r) PROVE IInv'
  <2>1. Counted' = Counted
    BY <1>10, CountedUnchanged DEF RunnerNext
  <2>2. InHand' = InHand /\ Waiting' = Waiting
    BY <1>10 DEF Recheck, Goto, queueVars, TypeOK, InHand, Waiting
  <2>3. CountAccounting'
    BY <1>10, <2>1, <2>2 DEF Recheck, CountAccounting
  <2>4. TypeOK' /\ QueueShape'
    BY <1>10 DEF Recheck, Goto, queueVars, producerVars, TypeOK, RunnerStep, QueueShape
  <2>5. SingleRunner' /\ StatusAgrees'
    BY <1>10 DEF Recheck, Goto, TypeOK, SingleRunner, StatusAgrees, Active
  <2>6. NoLostWakeup'
    <3>1. CASE Waiting = 0
      BY <2>2, <3>1 DEF NoLostWakeup
    <3>2. CASE Waiting > 0
      <4>1. messages > 0
        BY <1>0, <3>2 DEF CountAccounting
      <4>2. rpc'[r] = "cas"
        BY <1>10, <4>1 DEF Recheck, Goto, TypeOK
      <4> QED BY <4>2 DEF NoLostWakeup
    <3> QED BY <1>0, <3>1, <3>2
  <2> QED BY <2>3, <2>4, <2>5, <2>6
<1>11. ASSUME NEW r \in Runner, Reacquire(r) PROVE IInv'
  <2>1. Counted' = Counted
    BY <1>11, CountedUnchanged DEF RunnerNext
  <2>2. InHand' = InHand /\ Waiting' = Waiting
    BY <1>11 DEF Reacquire, Goto, queueVars, TypeOK, InHand, Waiting
  <2>3. CountAccounting'
    BY <1>11, <2>1, <2>2 DEF Reacquire, CountAccounting
  <2>4. TypeOK' /\ QueueShape'
    BY <1>11 DEF Reacquire, Goto, queueVars, producerVars, TypeOK, RunnerStep, QueueShape
  <2>5. SingleRunner' /\ StatusAgrees' /\ status' = "running"
    BY <1>11 DEF Reacquire, Goto, TypeOK, SingleRunner, StatusAgrees, Active
  <2>6. NoLostWakeup'
    BY <2>5 DEF NoLostWakeup
  <2> QED BY <2>3, <2>4, <2>5, <2>6
<1>12. CASE UNCHANGED vars
  <2>1. Counted' = Counted
    BY <1>12, CountedUnchanged
  <2> QED
    BY <1>12, <2>1 DEF vars, queueVars, producerVars, TypeOK, QueueShape, SingleRunner,
       StatusAgrees, CountAccounting, NoLostWakeup, Waiting, InHand
<1> QED
  BY <1>1, <1>2, <1>3, <1>4, <1>5, <1>6, <1>7, <1>8, <1>9, <1>10, <1>11, <1>12
  DEF Next, ProducerNext, RunnerNext, Quiescent

\* IInv holds in every reachable state.
THEOREM Invariance == Spec => []IInv
BY InitIInv, NextIInv, PTL DEF Spec

\* Type correctness of the mailbox; Mailbox.messages never goes negative.
THEOREM TypeCorrect == Spec => []TypeOK
<1>1. IInv => TypeOK
  BY DEF IInv
<1> QED BY <1>1, Invariance, PTL

\* At most one goroutine drains a mailbox (schedule and processMessages).
THEOREM MutualExclusion == Spec => []SingleRunner
<1>1. IInv => SingleRunner
  BY DEF IInv
<1> QED BY <1>1, Invariance, PTL

\* The counter of mailbox.go never under-counts the queue.
THEOREM Accounting == Spec => []CountAccounting
<1>1. IInv => CountAccounting
  BY DEF IInv
<1> QED BY <1>1, Invariance, PTL

\* A message is never left in an idle mailbox that nobody will look at.
THEOREM WakeupSafety == Spec => []NoLostWakeup
<1>1. IInv => NoLostWakeup
  BY DEF IInv
<1> QED BY <1>1, Invariance, PTL

-----------------------------------------------------------------------------
(* The capacity.                                                           *)

\* The user messages queued or about to be are among the counted ones.
LEMMA UsersCounted ==
  ASSUME IInv
  PROVE  /\ IsFiniteSet(UserWaiting) /\ IsFiniteSet(UserInFlight)
         /\ Cardinality(UserWaiting) \in Nat /\ Cardinality(UserInFlight) \in Nat
         /\ Cardinality(UserWaiting) + Cardinality(UserInFlight) <= messages
<1>1. Len(log) \in Nat /\ tail \in Nat /\ tail <= Len(log)
  BY DEF IInv, TypeOK, QueueShape
<1>2. /\ IsFiniteSet((tail + 1)..Len(log))
      /\ Cardinality((tail + 1)..Len(log)) = Waiting
  <2>1. tail + 1 \in Int /\ Len(log) \in Int
    BY <1>1
  <2>2. /\ IsFiniteSet((tail + 1)..Len(log))
        /\ Cardinality((tail + 1)..Len(log))
             = IF tail + 1 > Len(log) THEN 0 ELSE Len(log) - (tail + 1) + 1
    BY <2>1, FS_Interval
  <2> QED BY <1>1, <2>2 DEF Waiting
<1>3. UserWaiting \in SUBSET ((tail + 1)..Len(log)) /\ UserInFlight \in SUBSET Counted
  BY DEF UserWaiting, UserInFlight, Counted
<1>4. IsFiniteSet(UserWaiting) /\ Cardinality(UserWaiting) <= Waiting
  BY <1>2, <1>3, FS_Subset
<1>5. IsFiniteSet(UserInFlight) /\ Cardinality(UserInFlight) <= Cardinality(Counted)
  BY <1>3, CountedFinite, FS_Subset
<1>6. Cardinality(UserWaiting) \in Nat /\ Cardinality(UserInFlight) \in Nat
  BY <1>4, <1>5, FS_CardinalityType
<1>7. messages = Waiting + Cardinality(Counted) + InHand /\ InHand \in {0, 1}
  BY DEF IInv, CountAccounting, InHand
<1> QED
  BY <1>1, <1>4, <1>5, <1>6, <1>7, CountedFinite DEF Waiting

\* Only a push that saw room adds a user message.
LEMMA NextCapacity == IInv /\ CapacityBound /\ [Next]_vars => CapacityBound'
<1> SUFFICES ASSUME IInv, CapacityBound, [Next]_vars PROVE CapacityBound'
  OBVIOUS
<1> DEFINE W == UserWaiting  F == UserInFlight
<1>0. /\ IsFiniteSet(W) /\ IsFiniteSet(F) /\ Cardinality(W) \in Nat /\ Cardinality(F) \in Nat
      /\ Cardinality(W) + Cardinality(F) <= messages
      /\ Cardinality(W) + Cardinality(F) <= Capacity
      /\ Capacity \in Nat /\ messages \in Nat /\ Len(log) \in Nat /\ tail \in Nat
  BY UsersCounted, CapacityAssumption DEF CapacityBound, IInv, TypeOK
<1>1. TypeOK /\ QueueShape
  BY DEF IInv
<1>2. ASSUME W' = W, F' = F PROVE CapacityBound'
  BY <1>2 DEF CapacityBound
<1>3. ASSUME NEW p \in Producer, PushUser(p) PROVE CapacityBound'
  <2>1. W' = W
    BY <1>3 DEF PushUser, Count, queueVars, UserWaiting
  <2>2. CASE messages + 1 > Capacity
    <3>1. F' = F
      BY <1>1, <1>3, <2>2 DEF PushUser, Count, TypeOK, UserInFlight
    <3> QED BY <2>1, <3>1, <1>2
  <2>3. CASE messages + 1 <= Capacity
    <3>1. F' = F \cup {p} /\ p \notin F
      <4>1. ~(messages + 1 > Capacity)
        BY <1>0, <2>3
      <4>2. pc' = [pc EXCEPT ![p] = "swap"] /\ kind' = [kind EXCEPT ![p] = "user"] /\ pc[p] = "ready"
        BY <1>3, <4>1 DEF PushUser, Count
      <4> QED
        BY <1>1, <4>2 DEF TypeOK, UserInFlight
    <3>2. Cardinality(F') = Cardinality(F) + 1
      BY <1>0, <3>1, FS_AddElement
    <3> QED BY <1>0, <2>1, <2>3, <3>2 DEF CapacityBound
  <2> QED BY <1>0, <2>2, <2>3
<1>4. ASSUME NEW p \in Producer, PushSystem(p) PROVE CapacityBound'
  <2>1. W' = W /\ F' = F
    BY <1>1, <1>4 DEF PushSystem, Count, queueVars, TypeOK, UserWaiting, UserInFlight
  <2> QED BY <2>1, <1>2
<1>5. ASSUME NEW p \in Producer, Undo(p) \/ Link(p) \/ Schedule(p) PROVE CapacityBound'
  <2>1. UNCHANGED <<log, tail, kind>> /\ pc[p] # "swap"
        /\ \E s \in {"ready", "schedule"} : pc' = [pc EXCEPT ![p] = s]
    BY <1>5 DEF Undo, Link, Schedule, queueVars
  <2>2. W' = W /\ F' = F
    BY <1>1, <2>1 DEF TypeOK, UserWaiting, UserInFlight
  <2> QED BY <2>2, <1>2
<1>6. ASSUME NEW p \in Producer, Swap(p) PROVE CapacityBound'
  <2> DEFINE n == Len(log) + 1
  <2>1. /\ Len(log') = n /\ log'[n] = kind[p] /\ \A i \in 1..Len(log) : log'[i] = log[i]
        /\ tail' = tail /\ kind' = kind /\ pc' = [pc EXCEPT ![p] = "link"] /\ pc[p] = "swap"
    BY <1>1, <1>6 DEF Swap, TypeOK
  <2>2. (tail + 1)..Len(log') = ((tail + 1)..Len(log)) \cup {n}
    BY <1>0, <1>1, <2>1 DEF QueueShape
  <2>3. CASE kind[p] = "user"
    <3>1. W' = W \cup {n} /\ n \notin W
      BY <1>0, <2>1, <2>2, <2>3 DEF UserWaiting
    <3>2. F' = F \ {p} /\ p \in F
      BY <1>1, <2>1, <2>3 DEF TypeOK, UserInFlight
    <3>3. Cardinality(W') = Cardinality(W) + 1 /\ Cardinality(F') = Cardinality(F) - 1
      BY <1>0, <3>1, <3>2, FS_AddElement, FS_RemoveElement
    <3> QED BY <1>0, <3>3 DEF CapacityBound
  <2>4. CASE kind[p] # "user"
    <3>1. W' = W
      BY <1>0, <2>1, <2>2, <2>4 DEF UserWaiting
    <3>2. F' = F
      BY <1>1, <2>1, <2>4 DEF TypeOK, UserInFlight
    <3> QED BY <3>1, <3>2, <1>2
  <2> QED BY <2>3, <2>4
<1>7. ASSUME NEW r \in Runner, Pop(r) PROVE CapacityBound'
  <2>1. F' = F
    BY <1>7 DEF Pop, producerVars, UserInFlight
  <2>2. tail' \in {tail, tail + 1} /\ log' = log
    BY <1>7 DEF Pop
  <2>3. W' \in SUBSET W
    BY <1>0, <2>2 DEF UserWaiting
  <2>4. IsFiniteSet(W') /\ Cardinality(W') <= Cardinality(W)
    BY <1>0, <2>3, FS_Subset
  <2>5. Cardinality(W') \in Nat
    BY <2>4, FS_CardinalityType
  <2> QED BY <1>0, <2>1, <2>4, <2>5 DEF CapacityBound
<1>8. ASSUME NEW r \in Runner,
             \/ Decrement(r) \/ StoreIdle(r) \/ Recheck(r) \/ Reacquire(r)
             \/ \E exit \in BOOLEAN : Invoke(r, exit)
      PROVE CapacityBound'
  <2>1. UNCHANGED <<log, tail, kind, pc>>
    BY <1>8 DEF Decrement, StoreIdle, Recheck, Reacquire, Invoke, queueVars, producerVars
  <2>2. W' = W /\ F' = F
    BY <2>1 DEF UserWaiting, UserInFlight
  <2> QED BY <2>2, <1>2
<1>9. CASE UNCHANGED vars
  <2>1. W' = W /\ F' = F
    BY <1>9 DEF vars, queueVars, producerVars, UserWaiting, UserInFlight
  <2> QED BY <2>1, <1>2
<1> QED
  BY <1>3, <1>4, <1>5, <1>6, <1>7, <1>8, <1>9
  DEF Next, ProducerNext, RunnerNext, Quiescent

\* At most Capacity user messages ever wait in a mailbox.
THEOREM CapacityRespected == Spec => []CapacityBound
<1>1. Init => CapacityBound
  <2> SUFFICES ASSUME Init PROVE CapacityBound
    OBVIOUS
  <2>1. UserWaiting = {} /\ UserInFlight = {}
    BY DEF Init, UserWaiting, UserInFlight
  <2> QED BY <2>1, FS_EmptySet, CapacityAssumption DEF CapacityBound
<1> QED BY <1>1, NextCapacity, Invariance, PTL DEF Spec

-----------------------------------------------------------------------------
(* Order.                                                                  *)

\* invoked lags tail by the message a runner has popped and not yet handled.
InvokedLag ==
  invoked = IF \E r \in Runner : rpc[r] \in {"dec", "invoke"} THEN tail - 1 ELSE tail

\* Every step keeps the lag, and invoked moves by one message at a time.
LEMMA NextInvoked ==
  IInv /\ InvokedLag /\ [Next]_vars => InvokedLag' /\ [invoked' = invoked + 1]_invoked
<1> SUFFICES ASSUME IInv, InvokedLag, [Next]_vars
             PROVE  InvokedLag' /\ [invoked' = invoked + 1]_invoked
  OBVIOUS
<1>0. TypeOK /\ SingleRunner /\ StatusAgrees /\ tail \in Nat /\ invoked \in Nat
  BY DEF IInv, TypeOK
<1>1. ASSUME NEW p \in Producer, ProducerNext(p)
      PROVE InvokedLag' /\ invoked' = invoked
  <2>1. UNCHANGED <<tail, invoked>>
    BY <1>1 DEF ProducerNext, PushUser, PushSystem, Count, Undo, Swap, Link, Schedule, queueVars
  <2>2. (\E r \in Runner : rpc'[r] \in {"dec", "invoke"})
          <=> \E r \in Runner : rpc[r] \in {"dec", "invoke"}
    BY <1>0, <1>1 DEF ProducerNext, PushUser, PushSystem, Count, Undo, Swap, Link, Schedule, TypeOK
  <2> QED BY <2>1, <2>2 DEF InvokedLag
<1>2. ASSUME NEW r \in Runner, Pop(r) PROVE InvokedLag' /\ invoked' = invoked
  <2>1. \A s \in Runner : rpc[s] \notin {"dec", "invoke"}
    BY <1>0, <1>2 DEF Pop, Goto, SingleRunner, Active
  <2> QED
    BY <1>0, <1>2, <2>1 DEF Pop, Goto, InvokedLag, TypeOK
<1>3. ASSUME NEW r \in Runner, Decrement(r) PROVE InvokedLag' /\ invoked' = invoked
  BY <1>0, <1>3 DEF Decrement, Goto, queueVars, InvokedLag, TypeOK
<1>4. ASSUME NEW r \in Runner, NEW exit \in BOOLEAN, Invoke(r, exit)
      PROVE InvokedLag' /\ invoked' = invoked + 1
  <2>1. \A s \in Runner : s # r => rpc[s] \notin {"dec", "invoke"}
    BY <1>0, <1>4 DEF Invoke, Goto, SingleRunner, Active
  <2>2. \A s \in Runner : rpc'[s] \notin {"dec", "invoke"}
    BY <1>0, <1>4, <2>1 DEF Invoke, Goto, TypeOK
  <2>3. invoked = tail - 1 /\ invoked' = tail /\ tail' = tail
    BY <1>4 DEF Invoke, Goto, queueVars, InvokedLag
  <2> QED BY <1>0, <2>2, <2>3 DEF InvokedLag
<1>5. ASSUME NEW r \in Runner, StoreIdle(r) \/ Recheck(r) \/ Reacquire(r)
      PROVE InvokedLag' /\ invoked' = invoked
  BY <1>0, <1>5 DEF StoreIdle, Recheck, Reacquire, Goto, queueVars, InvokedLag, TypeOK
<1>6. CASE UNCHANGED vars
  BY <1>6 DEF vars, queueVars, InvokedLag
<1> QED
  BY <1>1, <1>2, <1>3, <1>4, <1>5, <1>6 DEF Next, RunnerNext, Quiescent

\* Messages are handled in queue order, none skipped and none twice.
THEOREM HandledInOrder == Spec => InvokedInOrder
<1>1. Init => InvokedLag
  BY DEF Init, InvokedLag
<1> QED BY <1>1, NextInvoked, Invariance, PTL DEF Spec, InvokedInOrder

-----------------------------------------------------------------------------
(* The abstract inbox.                                                     *)

\* A step that leaves log, tail and the handling of a message alone is none
\* of the inbox.
LEMMA Unseen ==
  ASSUME UNCHANGED <<log, tail>>, Handling' = Handling
  PROVE  [Promise!Next]_<<SubSeq(log, tail + 1, Len(log)), Handling>>
OBVIOUS

\* The user messages of the inbox are those that wait in the queue.
LEMMA UsersWaiting ==
  ASSUME IInv
  PROVE  Cardinality(Promise!Users(SubSeq(log, tail + 1, Len(log)))) = Cardinality(UserWaiting)
<1> DEFINE s == SubSeq(log, tail + 1, Len(log))
           U == Promise!Users(s)
           f == [i \in U |-> i + tail]
<1>1. log \in Seq(Kind) /\ Len(log) \in Nat /\ tail \in Nat /\ tail <= Len(log)
  BY DEF IInv, TypeOK, QueueShape
<1>2. /\ DOMAIN s = 1..(Len(log) - tail)
      /\ \A i \in 1..(Len(log) - tail) : s[i] = log[i + tail]
  BY <1>1
<1> HIDE DEF s
<1>3. U = {i \in 1..(Len(log) - tail) : log[i + tail] = "user"}
  BY <1>2 DEF Promise!Users
<1>4. \A i \in U : f[i] \in UserWaiting
  BY <1>1, <1>3 DEF UserWaiting
<1>5. \A i, j \in U : f[i] = f[j] => i = j
  BY <1>1, <1>3
<1>6. \A k \in UserWaiting : \E i \in U : f[i] = k
  <2> SUFFICES ASSUME NEW k \in UserWaiting PROVE k - tail \in U /\ f[k - tail] = k
    OBVIOUS
  <2>1. k \in (tail + 1)..Len(log) /\ log[k] = "user"
    BY DEF UserWaiting
  <2>2. k - tail \in 1..(Len(log) - tail) /\ (k - tail) + tail = k
    BY <1>1, <2>1
  <2>3. k - tail \in U
    BY <1>3, <2>1, <2>2
  <2> QED
    BY <2>2, <2>3
<1>7. f \in Bijection(U, UserWaiting)
  <2>1. f \in [U -> UserWaiting]
    BY <1>4
  <2> QED
    BY <1>5, <1>6, <2>1 DEF Bijection, Injection, Surjection, IsInjective
<1>8. ExistsBijection(U, UserWaiting)
  BY <1>7 DEF ExistsBijection
<1>9. IsFiniteSet(U)
  <2>1. IsFiniteSet(1..(Len(log) - tail))
    BY <1>1, FS_Interval
  <2>2. U \in SUBSET (1..(Len(log) - tail))
    BY <1>3
  <2> QED
    BY <2>1, <2>2, FS_Subset
<1>10. Cardinality(UserWaiting) = Cardinality(U)
  BY <1>8, <1>9, FS_Bijection
<1> QED
  BY <1>10 DEF s

\* Swap puts the message in the inbox, and a user message only into one with
\* room: the pushing producer is one of those CapacityBound counts.
LEMMA SwapPuts ==
  ASSUME IInv, CapacityBound, NEW p \in Producer, Swap(p)
  PROVE  \E k \in Promise!Kinds : Promise!Put(k)
<1> DEFINE s == SubSeq(log, tail + 1, Len(log))
<1>1. /\ log \in Seq(Kind) /\ Len(log) \in Nat /\ tail \in Nat /\ tail <= Len(log)
      /\ kind[p] \in Kind
  BY DEF IInv, TypeOK, QueueShape
<1>2. pc[p] = "swap" /\ log' = Append(log, kind[p]) /\ tail' = tail /\ rpc' = rpc
  BY DEF Swap
<1>3. SubSeq(log', tail' + 1, Len(log')) = Append(s, kind[p])
  <2> DEFINE t == SubSeq(log', tail' + 1, Len(log'))
             n == Len(log) - tail
  <2>1. n \in Nat /\ log' \in Seq(Kind) /\ Len(log') = Len(log) + 1 /\ log'[Len(log) + 1] = kind[p]
        /\ \A i \in 1..Len(log) : log'[i] = log[i]
    BY <1>1, <1>2
  <2>2. s \in Seq(Kind) /\ Len(s) = n /\ \A i \in 1..n : s[i] = log[tail + i]
    BY <1>1
  <2>3. t \in Seq(Kind) /\ Len(t) = n + 1 /\ \A i \in 1..(n + 1) : t[i] = log'[tail + i]
    BY <1>1, <1>2, <2>1
  <2> HIDE DEF s, t, n
  <2>4. /\ Append(s, kind[p]) \in Seq(Kind) /\ Len(Append(s, kind[p])) = n + 1
        /\ Append(s, kind[p])[n + 1] = kind[p] /\ \A i \in 1..n : Append(s, kind[p])[i] = s[i]
    BY <1>1, <2>1, <2>2
  <2>5. ASSUME NEW i \in 1..(n + 1) PROVE t[i] = Append(s, kind[p])[i]
    <3>1. CASE i \in 1..n
      <4>1. tail + i \in 1..Len(log)
        BY <3>1, <1>1 DEF n
      <4> QED
        BY <3>1, <4>1, <2>1, <2>2, <2>3, <2>4
    <3>2. CASE i = n + 1
      <4>1. tail + i = Len(log) + 1
        BY <3>2, <1>1 DEF n
      <4> QED
        BY <3>2, <4>1, <2>1, <2>3, <2>4
    <3>3. n \in Nat
      BY <2>1
    <3>4. i \in 1..n \/ i = n + 1
      BY <3>3
    <3> QED
      BY <3>1, <3>2, <3>4
  <2> QED
    BY <2>3, <2>4, <2>5, SeqEqual DEF t
<1>4. Handling' = Handling
  BY <1>2 DEF Handling
<1>5. kind[p] = "user" => Cardinality(Promise!Users(s)) < Capacity
  <2> SUFFICES ASSUME kind[p] = "user" PROVE Cardinality(UserWaiting) < Capacity
    BY UsersWaiting
  <2>1. p \in UserInFlight
    BY <1>2 DEF UserInFlight
  <2>2. IsFiniteSet(UserInFlight) /\ Cardinality(UserInFlight) \in Nat /\ Cardinality(UserWaiting) \in Nat
    BY UsersCounted
  <2>3. Cardinality(UserInFlight) # 0
    BY <2>1, <2>2, FS_EmptySet
  <2> QED
    BY <2>2, <2>3, CapacityAssumption DEF CapacityBound
<1>6. Promise!Put(kind[p])
  <2>1. Promise!Cardinality(Promise!Users(s)) = Cardinality(Promise!Users(s))
    BY DEF Promise!Cardinality, Cardinality
  <2>2. kind[p] = "user" => Promise!Cardinality(Promise!Users(s)) < Capacity
    BY <1>5, <2>1
  <2> QED
    BY <1>3, <1>4, <2>2 DEF Promise!Put
<1> QED
  BY <1>1, <1>6 DEF Promise!Kinds, Kind

\* Pop takes the oldest message of the inbox, or finds none it can reach.
LEMMA PopTakes ==
  ASSUME IInv, NEW r \in Runner, Pop(r)
  PROVE  [Promise!Next]_<<SubSeq(log, tail + 1, Len(log)), Handling>>
<1> DEFINE s == SubSeq(log, tail + 1, Len(log))
<1>1. /\ TypeOK /\ log \in Seq(Kind) /\ Len(log) \in Nat /\ tail \in Nat /\ tail <= Len(log)
      /\ linked \subseteq 1..Len(log)
  BY DEF IInv, TypeOK, QueueShape
<1>2. rpc[r] = "pop" /\ log' = log /\ ~Handling
  BY DEF Pop, Goto, IInv, SingleRunner, Active, Handling
<1>3. CASE tail + 1 \in linked
  <2>1. tail' = tail + 1 /\ rpc' = [rpc EXCEPT ![r] = "dec"]
    BY <1>3 DEF Pop, Goto
  <2>2. Handling'
    BY <1>1, <2>1 DEF Handling, TypeOK
  <2>3. tail + 1 <= Len(log)
    BY <1>1, <1>3
  <2>4. s # <<>> /\ SubSeq(log', tail' + 1, Len(log')) = Tail(s)
    <3>1. s \in Seq(Kind) /\ Len(s) = Len(log) - tail /\ Len(s) > 0
      BY <1>1, <2>3
    <3>2. Tail(s) = SubSeq(log, tail + 1 + 1, Len(log))
      BY <1>1, <2>3, HeadTailOfSubSeq
    <3>3. SubSeq(log', tail' + 1, Len(log')) = Tail(s)
      BY <1>2, <2>1, <3>2
    <3>4. s # <<>>
      <4> HIDE DEF s
      <4> QED
        BY <3>1
    <3> QED
      BY <3>3, <3>4
  <2>5. Promise!Take
    BY <1>2, <2>2, <2>4 DEF Promise!Take
  <2> QED
    BY <2>5 DEF Promise!Next
<1>4. CASE tail + 1 \notin linked
  <2>1. tail' = tail /\ rpc' = [rpc EXCEPT ![r] = "store"]
    BY <1>4 DEF Pop, Goto
  <2>2. Handling' = Handling
    BY <1>1, <1>2, <2>1 DEF Handling, TypeOK
  <2> QED
    BY <1>2, <2>1, <2>2, Unseen
<1> QED
  BY <1>3, <1>4

\* InvokerMessage returns: the mailbox is done with the message.
LEMMA InvokeEnds ==
  ASSUME IInv, NEW r \in Runner, NEW exit \in BOOLEAN, Invoke(r, exit)
  PROVE  Promise!Done
<1>1. UNCHANGED <<log, tail>> /\ rpc[r] = "invoke"
  BY DEF Invoke, Goto, queueVars
<1>2. \A s \in Runner : s # r => rpc[s] \notin {"dec", "invoke"}
  BY <1>1 DEF IInv, SingleRunner, Active
<1>3. Handling /\ ~Handling'
  BY <1>1, <1>2 DEF Invoke, Goto, Handling, IInv, TypeOK
<1> QED
  BY <1>1, <1>3 DEF Promise!Done

\* The mailbox keeps the promises of Inbox: order, one message at a time and
\* the capacity.  That a waiting message is taken is left to model checking.
THEOREM KeepsInbox == Spec => Promise!Safety
<1> DEFINE Step == [Promise!Next]_<<SubSeq(log, tail + 1, Len(log)), Handling>>
<1>1. Init => Promise!Init
  BY DEF Init, Promise!Init, Handling
<1>2. IInv /\ CapacityBound /\ [Next]_vars => Step
  <2> SUFFICES ASSUME IInv, CapacityBound, [Next]_vars PROVE Step
    OBVIOUS
  <2>1. TypeOK
    BY DEF IInv
  <2>2. ASSUME NEW p \in Producer, Swap(p) PROVE Step
    BY <2>2, SwapPuts DEF Promise!Next
  <2>3. ASSUME NEW p \in Producer, PushUser(p) \/ PushSystem(p) \/ Undo(p) \/ Link(p)
        PROVE  Step
    <3>1. UNCHANGED <<log, tail, rpc>>
      BY <2>3 DEF PushUser, PushSystem, Count, Undo, Link, queueVars
    <3>2. Handling' = Handling
      BY <3>1 DEF Handling
    <3> QED BY <3>1, <3>2, Unseen
  <2>4. ASSUME NEW p \in Producer, Schedule(p) PROVE Step
    <3>1. UNCHANGED <<log, tail>>
      BY <2>4 DEF Schedule, queueVars
    <3>2. Handling' = Handling
      BY <2>1, <2>4 DEF Schedule, Handling, TypeOK
    <3> QED BY <3>1, <3>2, Unseen
  <2>5. ASSUME NEW r \in Runner, Pop(r) PROVE Step
    BY <2>5, PopTakes
  <2>6. ASSUME NEW r \in Runner, NEW exit \in BOOLEAN, Invoke(r, exit) PROVE Step
    BY <2>6, InvokeEnds DEF Promise!Next
  <2>7. ASSUME NEW r \in Runner, Decrement(r) \/ StoreIdle(r) \/ Recheck(r) \/ Reacquire(r)
        PROVE  Step
    <3>1. UNCHANGED <<log, tail>>
      BY <2>7 DEF Decrement, StoreIdle, Recheck, Reacquire, queueVars
    <3>2. Handling' = Handling
      BY <2>1, <2>7 DEF Decrement, StoreIdle, Recheck, Reacquire, Goto, Handling, TypeOK
    <3> QED BY <3>1, <3>2, Unseen
  <2>8. CASE UNCHANGED vars
    <3>1. UNCHANGED <<log, tail>> /\ Handling' = Handling
      BY <2>8 DEF vars, queueVars, Handling
    <3> QED BY <3>1, Unseen
  <2> QED
    BY <2>2, <2>3, <2>4, <2>5, <2>6, <2>7, <2>8 DEF Next, ProducerNext, RunnerNext, Quiescent
<1> QED
  BY <1>1, <1>2, Invariance, CapacityRespected, PTL DEF Spec, Promise!Safety

=============================================================================
