------------------------------ MODULE Requests ------------------------------
(***************************************************************************)
(* Ask and AskAsync: the request manager of actor/request_manager.go, the  *)
(* sending side of actor/sender.go, the replying side of actor/process.go  *)
(* and the journey of a request and its reply between nodes                *)
(* (actor/remote.go).                                                      *)
(*                                                                         *)
(* The module follows the requests of one node, "home".  Every section     *)
(* under requestManager.mu is one step; calling the completion is another, *)
(* made by whoever removed the request: the replier, the timer's goroutine *)
(* or System.Stop.  Between nodes messages may be lost (a connection       *)
(* closes) but not duplicated.                                             *)
(***************************************************************************)
EXTENDS Integers, FiniteSets

CONSTANTS
  Req,          \* calls of Ask and AskAsync made on the home node
  Width,        \* request ids are counted modulo Width (2^64 in the code)
  MaxPending,   \* requestManager.max
  MaxForward    \* bound: how often a request is forwarded

ASSUME ReqAssumption == IsFiniteSet(Req)
ASSUME WidthAssumption == Width \in Nat /\ Width > Cardinality(Req)
ASSUME BoundAssumption == MaxPending \in Nat \ {0} /\ MaxForward \in Nat

VARIABLES
  nextId,      \* requestManager.nextRequestId
  id,          \* per request: its id (0 before add, and once by wrap-around)
  pending,     \* requests in requestManager.pending
  closed,      \* requestManager.closed
  timer,       \* per request: pendingRequest.timer
  pc,          \* per request: its caller
  copies,      \* per request: the messages that carry it, and their handlers
  forwards,    \* per request: forwards so far
  reply,       \* per request: reply messages in flight to home
  answers,     \* history, per request: responses that were given
  completers,  \* per request: outcomes about to be passed to the completion
  calls,       \* per request: calls of the completion
  result       \* per request: what the Ask returned

managerVars == <<nextId, id, pending, closed, timer, completers>>
journeyVars == <<copies, forwards, reply, answers>>
callerVars == <<pc, calls, result>>
vars == <<managerVars, journeyVars, callerVars>>

Node == {"home", "away"}
Outcome == {"reply", "timeout", "closed"}

\* A message that carries a request: on its way to a node, in a mailbox there,
\* or current in a handler that may still answer it ("open") or has set
\* Process.responded ("answered").  It is told from others by its hop.
Copy == [at : {"transit", "mailbox", "open", "answered"}, node : Node, hop : 0..MaxForward]

TypeOK ==
  /\ nextId \in 0..(Width - 1) /\ id \in [Req -> 0..(Width - 1)]
  /\ pending \subseteq Req /\ closed \in BOOLEAN
  /\ timer \in [Req -> {"off", "armed", "firing"}]
  /\ pc \in [Req -> {"new", "added", "undo", "waiting", "returned", "failed"}]
  /\ copies \in [Req -> SUBSET Copy]
  /\ forwards \in [Req -> 0..MaxForward]
  /\ reply \in [Req -> Nat] /\ answers \in [Req -> Nat]
  /\ completers \in [Req -> SUBSET Outcome]
  /\ calls \in [Req -> Nat]
  /\ result \in [Req -> Outcome \cup {"none"}]

Init ==
  /\ nextId \in 0..(Width - 1)         \* the seed is random
  /\ id = [r \in Req |-> 0]
  /\ pending = {} /\ closed = FALSE
  /\ timer = [r \in Req |-> "off"]
  /\ pc = [r \in Req |-> "new"]
  /\ copies = [r \in Req |-> {}]
  /\ forwards = [r \in Req |-> 0]
  /\ reply = [r \in Req |-> 0] /\ answers = [r \in Req |-> 0]
  /\ completers = [r \in Req |-> {}]
  /\ calls = [r \in Req |-> 0]
  /\ result = [r \in Req |-> "none"]

-----------------------------------------------------------------------------
(* The caller: sendAsk.                                                    *)

\* Mutant of Add: no timer is armed.
AddNoTimer(r) ==
  /\ pc[r] = "new" /\ ~closed /\ Cardinality(pending) < MaxPending
  /\ nextId' = (nextId + 1) % Width
  /\ id' = [id EXCEPT ![r] = nextId']
  /\ pending' = pending \cup {r}
  /\ pc' = [pc EXCEPT ![r] = "added"]
  /\ UNCHANGED <<closed, timer, completers, journeyVars, calls, result>>

\* requestManager.add: refuses when closed or full, else registers the
\* request and arms its timer.
Add(r) ==
  /\ pc[r] = "new"
  /\ IF closed \/ Cardinality(pending) >= MaxPending
     THEN pc' = [pc EXCEPT ![r] = "failed"] /\ UNCHANGED <<nextId, id, pending, timer>>
     ELSE /\ nextId' = (nextId + 1) % Width
          /\ id' = [id EXCEPT ![r] = nextId']
          /\ pending' = pending \cup {r}
          /\ timer' = [timer EXCEPT ![r] = "armed"]
          /\ pc' = [pc EXCEPT ![r] = "added"]
  /\ UNCHANGED <<closed, completers, journeyVars, calls, result>>

\* SendEnvelope accepts the request: into a local mailbox, or on its way to
\* another node.  A request whose id came out as 0 is refused.
Route(from, to, hop) ==
  [at |-> IF from = to THEN "mailbox" ELSE "transit", node |-> to, hop |-> hop]

SendOK(r) ==
  /\ pc[r] = "added" /\ id[r] # 0
  /\ pc' = [pc EXCEPT ![r] = "waiting"]
  /\ \E n \in Node : copies' = [copies EXCEPT ![r] = {Route("home", n, 0)}]
  /\ UNCHANGED <<managerVars, forwards, reply, answers, calls, result>>

\* No such actor, a full or closing mailbox, no connection, or id 0.
SendFail(r) ==
  /\ pc[r] = "added"
  /\ pc' = [pc EXCEPT ![r] = "undo"]
  /\ UNCHANGED <<managerVars, journeyVars, calls, result>>

\* requestManager.remove: Stop on a timer that already fired does nothing.
Disarm(r) == timer' = [timer EXCEPT ![r] = IF @ = "armed" THEN "off" ELSE @]

\* Mutant of Undo: the failed request stays in the table.
UndoForgotten(r) ==
  /\ pc[r] = "undo"
  /\ pc' = [pc EXCEPT ![r] = "failed"]
  /\ UNCHANGED <<managerVars, journeyVars, calls, result>>

\* sendAsk takes the request back and returns the error.
Undo(r) ==
  /\ pc[r] = "undo"
  /\ pending' = pending \ {r}
  /\ Disarm(r)
  /\ pc' = [pc EXCEPT ![r] = "failed"]
  /\ UNCHANGED <<nextId, id, closed, completers, journeyVars, calls, result>>

\* Ask receives from its channel.  AskAsync has returned before.
Return(r) ==
  /\ pc[r] = "waiting" /\ result[r] # "none"
  /\ pc' = [pc EXCEPT ![r] = "returned"]
  /\ UNCHANGED <<managerVars, journeyVars, calls, result>>

-----------------------------------------------------------------------------
(* Completion.                                                             *)

\* Mutant of Complete: whoever comes calls the completion.
CompleteUnchecked(r, outcome) ==
  /\ pending' = pending \ {r}
  /\ completers' = [completers EXCEPT ![r] = @ \cup {outcome}]
  /\ UNCHANGED <<nextId, id, closed>>

\* requestManager.complete, up to the call of the completion: only who finds
\* the request pending goes on (the others get ErrRequestNotExist).
Complete(r, outcome) ==
  /\ pending' = pending \ {r}
  /\ completers' = IF r \in pending THEN [completers EXCEPT ![r] = @ \cup {outcome}]
                   ELSE completers
  /\ UNCHANGED <<nextId, id, closed>>

\* The completion: a send on the buffered channel of Ask, a task pushed to the
\* asking actor for AskAsync.
Call(r, outcome) ==
  /\ outcome \in completers[r]
  /\ completers' = [completers EXCEPT ![r] = @ \ {outcome}]
  /\ calls' = [calls EXCEPT ![r] = @ + 1]
  /\ result' = [result EXCEPT ![r] = IF @ = "none" THEN outcome ELSE @]
  /\ UNCHANGED <<nextId, id, pending, closed, timer, journeyVars, pc>>

\* The timer's goroutine starts, and then completes the request.
TimerFires(r) ==
  /\ timer[r] = "armed"
  /\ timer' = [timer EXCEPT ![r] = "firing"]
  /\ UNCHANGED <<nextId, id, pending, closed, completers, journeyVars, callerVars>>

TimerCompletes(r) ==
  /\ timer[r] = "firing"
  /\ Complete(r, "timeout")
  /\ timer' = [timer EXCEPT ![r] = "off"]
  /\ UNCHANGED <<journeyVars, callerVars>>

\* Mutant of Stop: the pending requests are dropped.
StopDrops ==
  /\ ~closed /\ closed' = TRUE
  /\ timer' = [r \in Req |-> IF r \in pending /\ timer[r] = "armed" THEN "off" ELSE timer[r]]
  /\ pending' = {}
  /\ UNCHANGED <<nextId, id, completers, journeyVars, callerVars>>

\* requestManager.stop: closes, takes every pending request and completes it
\* outside the lock.
Stop ==
  /\ ~closed /\ closed' = TRUE
  /\ completers' = [r \in Req |-> IF r \in pending THEN completers[r] \cup {"closed"}
                                 ELSE completers[r]]
  /\ timer' = [r \in Req |-> IF r \in pending /\ timer[r] = "armed" THEN "off" ELSE timer[r]]
  /\ pending' = {}
  /\ UNCHANGED <<nextId, id, journeyVars, callerVars>>

-----------------------------------------------------------------------------
(* The request's journey.                                                  *)

Become(r, m, place) ==
  copies' = [copies EXCEPT ![r] = (@ \ {m}) \cup {[m EXCEPT !.at = place]}]
Drop(r, m) == copies' = [copies EXCEPT ![r] = @ \ {m}]

\* The connection closes under a message, or the payload cannot be decoded.
LoseRequest(r, m) ==
  /\ m.at = "transit"
  /\ Drop(r, m)
  /\ UNCHANGED <<managerVars, forwards, reply, answers, callerVars>>

LoseReply(r) ==
  /\ reply[r] > 0
  /\ reply' = [reply EXCEPT ![r] = @ - 1]
  /\ UNCHANGED <<managerVars, copies, forwards, answers, callerVars>>

\* onRemoteEnvelopeHandler: the mailbox takes the request.
Arrive(r, m) ==
  /\ m.at = "transit"
  /\ Become(r, m, "mailbox")
  /\ UNCHANGED <<managerVars, forwards, reply, answers, callerVars>>

\* A reply is handed to the transport.
SendReply(r) ==
  /\ reply' = [reply EXCEPT ![r] = @ + 1]
  /\ answers' = [answers EXCEPT ![r] = @ + 1]

\* rejectRemoteRequest: an error goes to the asking node through the
\* transport, which has no connection to the node itself.
Reject(r, m) ==
  /\ m.at = "transit"
  /\ Drop(r, m)
  /\ IF m.node = "away" THEN SendReply(r) ELSE UNCHANGED <<reply, answers>>
  /\ UNCHANGED <<managerVars, forwards, callerVars>>

\* InvokerMessage makes the message current and clears responded.
Handle(r, m) ==
  /\ m.at = "mailbox"
  /\ Become(r, m, "open")
  /\ UNCHANGED <<managerVars, forwards, reply, answers, callerVars>>

\* ctx.Respond, ctx.RespondError and handleAsk with what HandleAsk returned:
\* away from home a reply is sent; at home the request is completed at once,
\* and responded stays clear if it was not pending.
Respond(r, m) ==
  /\ m.at = "open"
  /\ \/ m.node = "away" /\ SendReply(r) /\ Become(r, m, "answered")
        /\ UNCHANGED managerVars
     \/ m.node = "home" /\ r \in pending /\ Become(r, m, "answered")
        /\ answers' = [answers EXCEPT ![r] = @ + 1]
        /\ Complete(r, "reply") /\ Disarm(r) /\ UNCHANGED reply
  /\ UNCHANGED <<forwards, callerVars>>

\* Mutant of Forward: responded is not set.
ForwardStaysOpen(r, m) ==
  /\ m.at = "open" /\ forwards[r] < MaxForward
  /\ forwards' = [forwards EXCEPT ![r] = @ + 1]
  /\ \E n \in Node :
       copies' = [copies EXCEPT ![r] = @ \cup {Route(m.node, n, forwards'[r])}]
  /\ UNCHANGED <<managerVars, reply, answers, callerVars>>

\* ctx.Forward passes the request on, and the duty to answer with it.
Forward(r, m) ==
  /\ m.at = "open" /\ forwards[r] < MaxForward
  /\ forwards' = [forwards EXCEPT ![r] = @ + 1]
  /\ \E n \in Node :
       copies' = [copies EXCEPT ![r] = (@ \ {m}) \cup
                    {[m EXCEPT !.at = "answered"], Route(m.node, n, forwards'[r])}]
  /\ UNCHANGED <<managerVars, reply, answers, callerVars>>

\* HandleAsk is over.  It may have answered, failed to, returned (nil, nil) or
\* panicked.
HandlerReturns(r, m) ==
  /\ m.at \in {"open", "answered"}
  /\ Drop(r, m)
  /\ UNCHANGED <<managerVars, forwards, reply, answers, callerVars>>

\* onRemoteResponseHandler.
ReplyArrives(r) ==
  /\ reply[r] > 0
  /\ reply' = [reply EXCEPT ![r] = @ - 1]
  /\ Complete(r, "reply") /\ Disarm(r)
  /\ UNCHANGED <<copies, forwards, answers, callerVars>>

-----------------------------------------------------------------------------
CallerNext(r) == SendOK(r) \/ SendFail(r) \/ Undo(r) \/ Return(r)
CompletionNext(r) ==
  TimerFires(r) \/ TimerCompletes(r) \/ \E o \in Outcome : Call(r, o)
JourneyNext(r) ==
  \/ LoseReply(r) \/ ReplyArrives(r)
  \/ \E m \in copies[r] :
       \/ LoseRequest(r, m) \/ Arrive(r, m) \/ Reject(r, m)
       \/ Handle(r, m) \/ Respond(r, m) \/ Forward(r, m) \/ HandlerReturns(r, m)

\* Every call has returned and nothing is left that could still happen.
Quiescent ==
  /\ \A r \in Req :
       /\ pc[r] \in {"returned", "failed"} /\ copies[r] = {} /\ reply[r] = 0
       /\ timer[r] = "off" /\ completers[r] = {}
  /\ closed
  /\ UNCHANGED vars

Next ==
  \/ \E r \in Req : Add(r) \/ CallerNext(r) \/ CompletionNext(r) \/ JourneyNext(r)
  \/ Stop
  \/ Quiescent

Spec == Init /\ [][Next]_vars

\* Timers fire and goroutines run; neither the network nor the target's
\* handler owes anything.
Fairness == \A r \in Req : WF_vars(CallerNext(r)) /\ WF_vars(CompletionNext(r))

FairSpec == Spec /\ Fairness

-----------------------------------------------------------------------------
(* Properties.                                                             *)

\* A reply, a timeout, a failed send and System.Stop may all race for a
\* request: its completion is called at most once, so the buffered channel
\* never blocks a replier and an AskAsync callback never runs twice.
CompletedAtMostOnce ==
  \A r \in Req : calls[r] + Cardinality(completers[r]) <= 1

\* A pending request has a caller that still waits and a timer that will end
\* it; once closed nothing is pending.  No request leaks.
PendingIsOwned ==
  /\ Cardinality(pending) <= MaxPending
  /\ closed => pending = {}
  /\ \A r \in pending :
       timer[r] \in {"armed", "firing"} /\ pc[r] \in {"added", "undo", "waiting"}

\* A call that waits is still pending, or its result is on the way.
WaiterHasCompleter ==
  \A r \in Req : pc[r] = "waiting" => r \in pending \/ completers[r] # {} \/ result[r] # "none"

\* However often a request is forwarded, answered late or rejected, at most
\* one message is left that can still be answered, and only while none was:
\* "the same request can be answered once" (docs/actor.md).
AnsweredAtMostOnce ==
  \A r \in Req :
    answers[r] + Cardinality({m \in copies[r] : m.at # "answered"}) <= 1

\* Ask returns even if the request or its reply is lost, the handler panics,
\* or the asker is the target.
AskReturns == \A r \in Req : pc[r] = "added" ~> pc[r] \in {"returned", "failed"}

=============================================================================
