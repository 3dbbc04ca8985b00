--------------------------- MODULE RequestsProofs ---------------------------
(***************************************************************************)
(* Proofs about Requests, for any finite set of requests, any limit on the *)
(* pending table and any number of forwards.  The inductive invariant is   *)
(* IInv: its parts say what may be true of a request at each stage of its  *)
(* life.                                                                   *)
(***************************************************************************)
EXTENDS Requests, TLAPS, FiniteSetTheorems

\* Before it is added, a request is in no table, no completion is due and no
\* message carries it; until it is sent, nobody can answer it.
Unstarted ==
  \A r \in Req :
    /\ pc[r] = "new" => r \notin pending /\ calls[r] = 0 /\ completers[r] = {}
    /\ pc[r] \in {"new", "added"} => copies[r] = {} /\ answers[r] = 0

\* A pending request was not completed; one that left the table was taken by
\* one completer, which calls the completion once.
OneCompletion ==
  \A r \in Req :
    /\ r \in pending => calls[r] = 0 /\ completers[r] = {}
    /\ calls[r] <= 1
    /\ completers[r] = {} \/ (calls[r] = 0 /\ \E o \in Outcome : completers[r] = {o})
    /\ result[r] # "none" => calls[r] = 1

\* A caller that has not given up is pending or its result is on the way.
Attended ==
  \A r \in Req : pc[r] \in {"added", "waiting"} =>
    r \in pending \/ completers[r] # {} \/ result[r] # "none"

Unanswered(r) == {m \in copies[r] : m.at # "answered"}

\* One message at most may still be answered, none if one was.
OneAnswer ==
  \A r \in Req :
    /\ answers[r] <= 1
    /\ answers[r] = 1 => Unanswered(r) = {}
    /\ \A m, n \in Unanswered(r) : m = n

IInv ==
  /\ TypeOK
  /\ Unstarted
  /\ OneCompletion
  /\ PendingIsOwned
  /\ Attended
  /\ OneAnswer

-----------------------------------------------------------------------------

\* The initial state satisfies the invariant.
LEMMA InitIInv == Init => IInv
<1> SUFFICES ASSUME Init PROVE IInv
  OBVIOUS
<1>0. Width > 0
  BY FS_CardinalityType, ReqAssumption, WidthAssumption
<1>1. TypeOK
  <2>1. 0 \in 0..(Width - 1) /\ 0 \in 0..MaxForward
    BY <1>0, WidthAssumption, BoundAssumption
  <2>2. /\ id \in [Req -> 0..(Width - 1)] /\ forwards \in [Req -> 0..MaxForward]
        /\ nextId \in 0..(Width - 1)
    BY <2>1 DEF Init
  <2> QED BY <2>2 DEF Init, TypeOK
<1>2. Unstarted /\ OneCompletion /\ Attended /\ OneAnswer
  BY DEF Init, Unstarted, OneCompletion, Attended, OneAnswer, Unanswered
<1>3. PendingIsOwned
  BY FS_EmptySet, BoundAssumption DEF Init, PendingIsOwned
<1> QED BY <1>1, <1>2, <1>3 DEF IInv

\* Every step keeps the types: counters stay naturals, ids stay below Width.
LEMMA NextTypeOK == TypeOK /\ [Next]_vars => TypeOK'
<1> SUFFICES ASSUME TypeOK, [Next]_vars PROVE TypeOK'
  OBVIOUS
<1> USE DEF TypeOK, vars, managerVars, journeyVars, callerVars
<1>1. ASSUME NEW r \in Req, Add(r) PROVE TypeOK'
  <2>1. (nextId + 1) % Width \in 0..(Width - 1)
    BY WidthAssumption
  <2> QED BY <1>1, <2>1 DEF Add
<1>2. ASSUME NEW r \in Req, CallerNext(r) PROVE TypeOK'
  <2>1. ASSUME NEW n \in Node PROVE Route("home", n, 0) \in Copy
    BY BoundAssumption DEF Route, Copy, Node
  <2>2. CASE SendOK(r)
    BY <2>1, <2>2 DEF SendOK
  <2>3. CASE SendFail(r)
    BY <2>3 DEF SendFail
  <2>4. CASE Undo(r)
    BY <2>4 DEF Undo, Disarm
  <2>5. CASE Return(r)
    BY <2>5 DEF Return
  <2> QED BY <1>2, <2>2, <2>3, <2>4, <2>5 DEF CallerNext
<1>3. ASSUME NEW r \in Req, CompletionNext(r) PROVE TypeOK'
  <2>1. CASE TimerFires(r)
    BY <2>1 DEF TimerFires
  <2>2. CASE TimerCompletes(r)
    BY <2>2 DEF TimerCompletes, Complete, Outcome
  <2>3. ASSUME NEW o \in Outcome, Call(r, o) PROVE TypeOK'
    BY <2>3 DEF Call
  <2> QED BY <1>3, <2>1, <2>2, <2>3 DEF CompletionNext
<1>4. ASSUME Stop PROVE TypeOK'
  BY <1>4 DEF Stop, Outcome
<1>5. ASSUME NEW r \in Req, LoseReply(r) \/ ReplyArrives(r) PROVE TypeOK'
  BY <1>5 DEF LoseReply, ReplyArrives, Complete, Disarm, Outcome
<1>6. ASSUME NEW r \in Req, NEW m \in copies[r],
             LoseRequest(r, m) \/ Arrive(r, m) \/ Reject(r, m) \/ Handle(r, m)
               \/ Respond(r, m) \/ Forward(r, m) \/ HandlerReturns(r, m)
      PROVE TypeOK'
  <2>0. m \in Copy
    OBVIOUS
  <2>1. \A place \in {"mailbox", "open", "answered"} : [m EXCEPT !.at = place] \in Copy
    BY <2>0 DEF Copy
  <2>2. CASE LoseRequest(r, m) \/ HandlerReturns(r, m)
    BY <2>2 DEF LoseRequest, HandlerReturns, Drop
  <2>3. CASE Arrive(r, m) \/ Handle(r, m)
    BY <2>1, <2>3 DEF Arrive, Handle, Become
  <2>4. CASE Reject(r, m)
    BY <2>4 DEF Reject, SendReply, Drop
  <2>5. CASE Respond(r, m)
    BY <2>1, <2>5 DEF Respond, SendReply, Become, Complete, Disarm, Outcome
  <2>6. CASE Forward(r, m)
    <3>1. forwards[r] + 1 \in 0..MaxForward
      BY <2>6, BoundAssumption DEF Forward
    <3>2. \A n \in Node : Route(m.node, n, forwards[r] + 1) \in Copy
      BY <3>1 DEF Route, Copy, Node
    <3> QED BY <2>1, <2>6, <3>1, <3>2 DEF Forward
  <2> QED BY <1>6, <2>2, <2>3, <2>4, <2>5, <2>6
<1>7. ASSUME UNCHANGED vars PROVE TypeOK'
  BY <1>7
<1> QED
  BY <1>1, <1>2, <1>3, <1>4, <1>5, <1>6, <1>7 DEF Next, JourneyNext, Quiescent

\* The steps of a request's messages and handlers.
MessageNext(r, m) ==
  \/ LoseRequest(r, m) \/ Arrive(r, m) \/ Reject(r, m) \/ Handle(r, m)
  \/ Respond(r, m) \/ Forward(r, m) \/ HandlerReturns(r, m)

\* What the steps of messages, replies and handlers do to the rest: a request
\* is completed at most by who finds it pending, and the caller is left alone.
LEMMA JourneyEffect ==
  ASSUME TypeOK, NEW r \in Req,
         LoseReply(r) \/ ReplyArrives(r) \/ \E m \in copies[r] : MessageNext(r, m)
  PROVE  /\ UNCHANGED <<callerVars, nextId, id, closed>>
         /\ \/ UNCHANGED <<pending, completers, timer>>
            \/ Complete(r, "reply") /\ Disarm(r)
         /\ \A q \in Req \ {r} : copies'[q] = copies[q] /\ answers'[q] = answers[q]
BY DEF TypeOK, LoseReply, ReplyArrives, MessageNext, LoseRequest, Arrive, Reject, Handle,
       Respond, Forward, HandlerReturns, SendReply, Become, Drop, Complete, managerVars,
       callerVars

\* No step gives an unsent request a message, an answer or a completion.
LEMMA NextUnstarted == IInv /\ [Next]_vars => Unstarted'
<1> SUFFICES ASSUME IInv, [Next]_vars PROVE Unstarted'
  OBVIOUS
<1> TypeOK /\ Unstarted /\ OneCompletion /\ PendingIsOwned
  BY DEF IInv
<1> USE DEF TypeOK, Unstarted, managerVars, journeyVars, callerVars
<1>1. ASSUME NEW r \in Req, Add(r) PROVE Unstarted'
  BY <1>1 DEF Add
<1>2. ASSUME NEW r \in Req, CallerNext(r) PROVE Unstarted'
  BY <1>2 DEF CallerNext, SendOK, SendFail, Undo, Return
<1>3. ASSUME NEW r \in Req, CompletionNext(r) PROVE Unstarted'
  BY <1>3 DEF CompletionNext, TimerFires, TimerCompletes, Complete, Call
<1>4. ASSUME Stop PROVE Unstarted'
  BY <1>4 DEF Stop
<1>5. ASSUME NEW r \in Req, LoseReply(r) \/ ReplyArrives(r) PROVE Unstarted'
  BY <1>5 DEF LoseReply, ReplyArrives, Complete
<1>6. ASSUME NEW r \in Req, NEW m \in copies[r], MessageNext(r, m) PROVE Unstarted'
  <2>1. pc[r] \notin {"new", "added"}
    BY <1>6
  <2> QED BY <1>6, <2>1, JourneyEffect DEF Complete
<1>7. ASSUME UNCHANGED vars PROVE Unstarted'
  BY <1>7 DEF vars
<1> QED
  BY <1>1, <1>2, <1>3, <1>4, <1>5, <1>6, <1>7 DEF Next, JourneyNext, Quiescent, MessageNext

\* Taking a request out of the table and noting a completer keeps
\* OneCompletion: only who finds it pending goes on.
LEMMA CompleteOnce ==
  ASSUME TypeOK, OneCompletion, NEW r \in Req, NEW o \in Outcome,
         Complete(r, o), UNCHANGED <<calls, result>>
  PROVE  OneCompletion'
BY DEF TypeOK, OneCompletion, Complete

\* Every step keeps OneCompletion.
LEMMA NextOneCompletion == IInv /\ [Next]_vars => OneCompletion'
<1> SUFFICES ASSUME IInv, [Next]_vars PROVE OneCompletion'
  OBVIOUS
<1> TypeOK /\ Unstarted /\ OneCompletion
  BY DEF IInv
<1> USE DEF TypeOK, managerVars, journeyVars, callerVars
<1>1. ASSUME NEW r \in Req, Add(r) PROVE OneCompletion'
  BY <1>1 DEF Add, Unstarted, OneCompletion
<1>2. ASSUME NEW r \in Req, CallerNext(r) PROVE OneCompletion'
  BY <1>2 DEF CallerNext, SendOK, SendFail, Undo, Return, OneCompletion
<1>3. ASSUME NEW r \in Req, TimerFires(r) \/ TimerCompletes(r) PROVE OneCompletion'
  <2>1. CASE TimerFires(r)
    BY <2>1 DEF TimerFires, OneCompletion
  <2>2. CASE TimerCompletes(r)
    BY <2>2, CompleteOnce DEF TimerCompletes, Outcome
  <2> QED BY <1>3, <2>1, <2>2
<1>4. ASSUME NEW r \in Req, NEW o \in Outcome, Call(r, o) PROVE OneCompletion'
  <2>1. calls[r] = 0 /\ completers[r] = {o} /\ r \notin pending
    BY <1>4 DEF Call, OneCompletion
  <2> QED BY <1>4, <2>1 DEF Call, OneCompletion, Outcome
<1>5. ASSUME Stop PROVE OneCompletion'
  BY <1>5 DEF Stop, OneCompletion, Outcome
<1>6. ASSUME NEW r \in Req,
             LoseReply(r) \/ ReplyArrives(r) \/ \E m \in copies[r] : MessageNext(r, m)
      PROVE OneCompletion'
  <2>1. CASE UNCHANGED <<pending, completers, timer>>
    BY <1>6, <2>1, JourneyEffect DEF OneCompletion
  <2>2. CASE Complete(r, "reply")
    BY <1>6, <2>2, JourneyEffect, CompleteOnce DEF Outcome
  <2> QED BY <1>6, <2>1, <2>2, JourneyEffect
<1>7. ASSUME UNCHANGED vars PROVE OneCompletion'
  BY <1>7 DEF vars, OneCompletion
<1> QED
  BY <1>1, <1>2, <1>3, <1>4, <1>5, <1>6, <1>7
  DEF Next, CompletionNext, JourneyNext, Quiescent, MessageNext

\* Every step keeps Attended: whoever takes a request out of the table becomes
\* its completer, unless the caller itself gives up.
LEMMA NextAttended == IInv /\ [Next]_vars => Attended'
<1> SUFFICES ASSUME IInv, [Next]_vars PROVE Attended'
  OBVIOUS
<1> TypeOK /\ Unstarted /\ Attended
  BY DEF IInv
<1> USE DEF TypeOK, Attended, managerVars, journeyVars, callerVars
<1>1. ASSUME NEW r \in Req, Add(r) PROVE Attended'
  BY <1>1 DEF Add
<1>2. ASSUME NEW r \in Req, CallerNext(r) PROVE Attended'
  BY <1>2 DEF CallerNext, SendOK, SendFail, Undo, Return
<1>3. ASSUME NEW r \in Req, TimerFires(r) \/ TimerCompletes(r) PROVE Attended'
  <2>1. CASE TimerFires(r)
    BY <2>1 DEF TimerFires
  <2>2. CASE TimerCompletes(r)
    <3>1. pc' = pc /\ result' = result /\ Complete(r, "timeout")
      BY <2>2 DEF TimerCompletes
    <3> QED BY <3>1 DEF Complete
  <2> QED BY <1>3, <2>1, <2>2
<1>4. ASSUME NEW r \in Req, NEW o \in Outcome, Call(r, o) PROVE Attended'
  <2>1. result'[r] # "none"
    BY <1>4 DEF Call, Outcome
  <2>2. \A q \in Req \ {r} : completers'[q] = completers[q] /\ result'[q] = result[q]
    BY <1>4 DEF Call
  <2>3. pending' = pending /\ pc' = pc
    BY <1>4 DEF Call
  <2> QED BY <2>1, <2>2, <2>3
<1>5. ASSUME Stop PROVE Attended'
  BY <1>5 DEF Stop
<1>6. ASSUME NEW r \in Req,
             LoseReply(r) \/ ReplyArrives(r) \/ \E m \in copies[r] : MessageNext(r, m)
      PROVE Attended'
  <2>0. pc' = pc /\ result' = result
    BY <1>6, JourneyEffect
  <2>1. CASE UNCHANGED <<pending, completers, timer>>
    BY <2>0, <2>1
  <2>2. CASE Complete(r, "reply")
    BY <2>0, <2>2 DEF Complete
  <2> QED BY <1>6, <2>1, <2>2, JourneyEffect
<1>7. ASSUME UNCHANGED vars PROVE Attended'
  BY <1>7 DEF vars
<1> QED
  BY <1>1, <1>2, <1>3, <1>4, <1>5, <1>6, <1>7
  DEF Next, CompletionNext, JourneyNext, Quiescent, MessageNext

\* Every step keeps PendingIsOwned: the limit is checked under the lock, and
\* whoever stops waiting or disarms the timer takes the request out.
LEMMA NextOwned == IInv /\ [Next]_vars => PendingIsOwned'
<1> SUFFICES ASSUME IInv, [Next]_vars PROVE PendingIsOwned'
  OBVIOUS
<1> TypeOK /\ OneCompletion /\ PendingIsOwned
  BY DEF IInv
<1>0. IsFiniteSet(pending)
  BY ReqAssumption, FS_Subset DEF TypeOK
<1>a. ASSUME NEW S, S \subseteq pending PROVE Cardinality(S) <= MaxPending
  <2>1. IsFiniteSet(S) /\ Cardinality(S) <= Cardinality(pending)
    BY <1>0, <1>a, FS_Subset
  <2> QED BY <1>0, <2>1, FS_CardinalityType, BoundAssumption DEF PendingIsOwned
<1> USE DEF TypeOK, managerVars, journeyVars, callerVars
<1>1. ASSUME NEW r \in Req, Add(r) PROVE PendingIsOwned'
  <2>1. CASE closed \/ Cardinality(pending) >= MaxPending
    BY <1>1, <2>1 DEF Add, PendingIsOwned
  <2>2. CASE ~(closed \/ Cardinality(pending) >= MaxPending)
    <3>1. pending' = pending \cup {r} /\ closed' = FALSE
      BY <1>1, <2>2 DEF Add
    <3>2. Cardinality(pending') <= MaxPending
      <4>1. Cardinality(pending) \in Nat /\ Cardinality(pending) < MaxPending
        BY <1>0, <2>2, FS_CardinalityType, BoundAssumption
      <4>2. Cardinality(pending') \in {Cardinality(pending), Cardinality(pending) + 1}
        BY <1>0, <3>1, FS_AddElement
      <4> QED BY <4>1, <4>2, BoundAssumption
    <3> QED BY <1>1, <2>2, <3>1, <3>2 DEF Add, PendingIsOwned
  <2> QED BY <2>1, <2>2
<1>2. ASSUME NEW r \in Req, CallerNext(r) PROVE PendingIsOwned'
  <2>1. pending' \subseteq pending
    BY <1>2 DEF CallerNext, SendOK, SendFail, Undo, Return
  <2>2. Cardinality(pending') <= MaxPending
    BY <1>a, <2>1
  <2>3. CASE SendOK(r) \/ SendFail(r)
    BY <2>2, <2>3 DEF SendOK, SendFail, PendingIsOwned
  <2>4. CASE Undo(r)
    BY <2>2, <2>4 DEF Undo, Disarm, PendingIsOwned
  <2>5. CASE Return(r)
    <3>1. r \notin pending
      BY <2>5 DEF Return, OneCompletion
    <3> QED BY <2>2, <2>5, <3>1 DEF Return, PendingIsOwned
  <2> QED BY <1>2, <2>3, <2>4, <2>5 DEF CallerNext
<1>3. ASSUME NEW r \in Req, TimerFires(r) \/ TimerCompletes(r) PROVE PendingIsOwned'
  <2>1. pending' \subseteq pending
    BY <1>3 DEF TimerFires, TimerCompletes, Complete
  <2>2. Cardinality(pending') <= MaxPending
    BY <1>a, <2>1
  <2> QED BY <1>3, <2>2 DEF TimerFires, TimerCompletes, Complete, PendingIsOwned
<1>4. ASSUME NEW r \in Req, NEW o \in Outcome, Call(r, o) PROVE PendingIsOwned'
  BY <1>4 DEF Call, PendingIsOwned
<1>5. ASSUME Stop PROVE PendingIsOwned'
  BY <1>5, FS_EmptySet, BoundAssumption DEF Stop, PendingIsOwned
<1>6. ASSUME NEW r \in Req,
             LoseReply(r) \/ ReplyArrives(r) \/ \E m \in copies[r] : MessageNext(r, m)
      PROVE PendingIsOwned'
  <2>1. CASE UNCHANGED <<pending, completers, timer>>
    BY <1>6, <2>1, JourneyEffect DEF PendingIsOwned
  <2>2. CASE Complete(r, "reply") /\ Disarm(r)
    <3>1. pending' = pending \ {r}
      BY <2>2 DEF Complete
    <3>2. Cardinality(pending') <= MaxPending
      BY <1>a, <3>1
    <3>3. pc' = pc
      BY <1>6, JourneyEffect
    <3> QED BY <2>2, <3>1, <3>2, <3>3 DEF Complete, Disarm, PendingIsOwned
  <2> QED BY <1>6, <2>1, <2>2, JourneyEffect
<1>7. ASSUME UNCHANGED vars PROVE PendingIsOwned'
  BY <1>7 DEF vars, PendingIsOwned
<1> QED
  BY <1>1, <1>2, <1>3, <1>4, <1>5, <1>6, <1>7
  DEF Next, CompletionNext, JourneyNext, Quiescent, MessageNext

\* Every step keeps OneAnswer: a message moves as a whole, and who answers or
\* passes it on may not answer it again.
LEMMA NextOneAnswer == IInv /\ [Next]_vars => OneAnswer'
<1> SUFFICES ASSUME IInv, [Next]_vars PROVE OneAnswer'
  OBVIOUS
<1> TypeOK /\ Unstarted /\ OneAnswer
  BY DEF IInv
<1> USE DEF TypeOK, managerVars, journeyVars, callerVars
<1>1. ASSUME UNCHANGED <<copies, answers>> PROVE OneAnswer'
  BY <1>1 DEF OneAnswer, Unanswered
<1>2. ASSUME NEW r \in Req, SendOK(r) PROVE OneAnswer'
  BY <1>2 DEF SendOK, Unstarted, OneAnswer, Unanswered
<1>3. ASSUME NEW r \in Req, NEW m \in copies[r], MessageNext(r, m) PROVE OneAnswer'
  <2>0. m \in Copy /\ \A q \in Req \ {r} : copies'[q] = copies[q] /\ answers'[q] = answers[q]
    BY <1>3, JourneyEffect
  <2>1. SUFFICES /\ answers'[r] <= 1
                 /\ answers'[r] = 1 => Unanswered(r)' = {}
                 /\ \A k, n \in Unanswered(r)' : k = n
    BY <2>0 DEF OneAnswer, Unanswered
  <2>2. CASE HandlerReturns(r, m) \/ LoseRequest(r, m)
    BY <2>2 DEF HandlerReturns, LoseRequest, Drop, OneAnswer, Unanswered
  <2>3. CASE m.at # "answered"
    <3>1. answers[r] = 0 /\ Unanswered(r) = {m}
      BY <2>3 DEF OneAnswer, Unanswered
    <3>2. \A place \in {"mailbox", "open", "answered"} : [m EXCEPT !.at = place].at = place
      BY <2>0 DEF Copy
    <3>3. CASE Reject(r, m)
      BY <3>1, <3>3 DEF Reject, Drop, SendReply, Unanswered
    <3>4. CASE Arrive(r, m) \/ Handle(r, m)
      BY <3>1, <3>2, <3>4 DEF Arrive, Handle, Become, Unanswered
    <3>5. CASE Respond(r, m)
      <4>1. answers'[r] = 1 /\ copies'[r] = (copies[r] \ {m}) \cup {[m EXCEPT !.at = "answered"]}
        BY <3>1, <3>5 DEF Respond, Become, SendReply
      <4>2. Unanswered(r)' = {}
        BY <3>1, <3>2, <4>1 DEF Unanswered
      <4> QED BY <4>1, <4>2
    <3>6. CASE Forward(r, m)
      <4>1. answers'[r] = 0
        BY <3>1, <3>6 DEF Forward
      <4>2. PICK k : copies'[r] = (copies[r] \ {m}) \cup {[m EXCEPT !.at = "answered"], k}
        BY <3>6 DEF Forward
      <4>3. Unanswered(r)' \subseteq {k}
        BY <3>1, <3>2, <4>2 DEF Unanswered
      <4> QED BY <4>1, <4>3
    <3> QED BY <1>3, <2>2, <3>3, <3>4, <3>5, <3>6 DEF MessageNext
  <2> QED
    BY <1>3, <2>2, <2>3 DEF MessageNext, Reject, Arrive, Handle, Respond, Forward
<1> QED
  BY <1>1, <1>2, <1>3
  DEF Next, CallerNext, CompletionNext, JourneyNext, Quiescent, MessageNext, vars, Add,
      SendFail, Undo, Return, TimerFires, TimerCompletes, Call, Stop, LoseReply, ReplyArrives

-----------------------------------------------------------------------------

\* The invariant holds in every reachable state.
THEOREM Invariance == Spec => []IInv
<1>1. IInv /\ [Next]_vars => IInv'
  BY NextTypeOK, NextUnstarted, NextOneCompletion, NextOwned, NextAttended, NextOneAnswer
  DEF IInv
<1> QED BY <1>1, InitIInv, PTL DEF Spec

\* Every variable keeps its type: the id counter stays within its width.
THEOREM TypeCorrect == Spec => []TypeOK
<1>1. IInv => TypeOK
  BY DEF IInv
<1> QED BY <1>1, Invariance, PTL

\* No completion is ever called twice, whatever races for the request.
THEOREM SingleCompletion == Spec => []CompletedAtMostOnce
<1>1. IInv => CompletedAtMostOnce
  <2> SUFFICES ASSUME IInv, NEW r \in Req
               PROVE  calls[r] + Cardinality(completers[r]) <= 1
    BY DEF CompletedAtMostOnce
  <2>1. calls[r] \in Nat
    BY DEF IInv, TypeOK
  <2>2. CASE completers[r] = {}
    BY <2>1, <2>2, FS_EmptySet DEF IInv, OneCompletion
  <2>3. CASE calls[r] = 0 /\ \E o \in Outcome : completers[r] = {o}
    BY <2>3, FS_Singleton
  <2> QED BY <2>2, <2>3 DEF IInv, OneCompletion
<1> QED BY <1>1, Invariance, PTL

\* No request leaks: what is pending has a caller, a timer and a place under
\* the limit.
THEOREM NoLeak == Spec => []PendingIsOwned
<1>1. IInv => PendingIsOwned
  BY DEF IInv
<1> QED BY <1>1, Invariance, PTL

\* Nobody waits for a completion that no one is left to call.
THEOREM NoOrphanedWaiter == Spec => []WaiterHasCompleter
<1>1. IInv => WaiterHasCompleter
  BY DEF IInv, Attended, WaiterHasCompleter
<1> QED BY <1>1, Invariance, PTL

\* A request is answered at most once over all its forwards.
THEOREM SingleAnswer == Spec => []AnsweredAtMostOnce
<1>1. IInv => AnsweredAtMostOnce
  <2> SUFFICES ASSUME IInv, NEW r \in Req
               PROVE  answers[r] + Cardinality(Unanswered(r)) <= 1
    BY DEF AnsweredAtMostOnce, Unanswered
  <2>1. answers[r] \in Nat
    BY DEF IInv, TypeOK
  <2>2. CASE Unanswered(r) = {}
    BY <2>1, <2>2, FS_EmptySet DEF IInv, OneAnswer
  <2>3. CASE Unanswered(r) # {}
    <3>1. PICK m : m \in Unanswered(r)
      BY <2>3
    <3>2. Unanswered(r) = {m}
      <4>1. \A k, n \in Unanswered(r) : k = n
        BY DEF IInv, OneAnswer
      <4> HIDE DEF Unanswered
      <4> QED BY <3>1, <4>1
    <3>3. answers[r] = 0
      BY <2>1, <2>3 DEF IInv, OneAnswer
    <3>4. Cardinality(Unanswered(r)) = 1
      BY <3>2, FS_Singleton
    <3> QED BY <3>3, <3>4
  <2> QED BY <2>2, <2>3
<1> QED BY <1>1, Invariance, PTL

=============================================================================
