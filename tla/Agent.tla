-------------------------------- MODULE Agent --------------------------------
(***************************************************************************)
(* The agent actor of one client connection (gateway/agent.go): it routes  *)
(* client requests to the business handlers, which answer them with Reply  *)
(* or ReplyError or forward them with Forward; the result of a forwarded   *)
(* request comes back later, as a task in the agent's mailbox, when other  *)
(* requests may have been handled in between.                              *)
(*                                                                         *)
(* A request is known to the client by the Index of its frame.  The agent  *)
(* is an actor: its messages are handled one by one.                       *)
(***************************************************************************)
EXTENDS Naturals, Sequences

CONSTANTS
  Request,     \* requests of the client
  Unrouted,    \* those without a handler, or whose body does not decode
  None,        \* nil
  Capacity,    \* of the agent's mailbox
  MaxCalls,    \* bound: calls of Reply, ReplyError and Forward per handler
  MaxTells     \* bound: messages of other actors

ASSUME RequestAssumption == Unrouted \subseteq Request /\ None \notin Request
ASSUME BoundAssumption == Capacity \in Nat /\ MaxCalls \in Nat /\ MaxTells \in Nat

VARIABLES
  delivered,        \* requests the connection has delivered
  mailbox,          \* the agent's mailbox
  hand,             \* the message being handled
  currentRequest,   \* clientAgent.currentRequest
  made,             \* calls the handler has made
  tells,            \* messages of other actors so far
  asking,           \* per request: forwarded and not yet completed
  closing,          \* the agent was stopped: it takes no more messages
  connected,        \* the connection is open
  responses,        \* per request: response frames sent
  lost              \* requests whose response SendMessage or the mailbox refused

messageVars == <<delivered, mailbox, tells, closing>>
handlerVars == <<hand, currentRequest, made>>
clientVars == <<connected, responses, lost>>
vars == <<messageVars, handlerVars, asking, clientVars>>

\* What the mailbox holds: a client's frame, the completion of a forwarded
\* request, a Tell of another actor to the business actor, a PushToClient.
Message == [kind : {"frame", "result"}, of : Request] \cup [kind : {"tell", "push"}, of : {None}]
Idle == [kind |-> "idle", of |-> None]

TypeOK ==
  /\ delivered \subseteq Request /\ mailbox \in Seq(Message)
  /\ hand \in Message \cup {Idle} /\ currentRequest \in Request \cup {None}
  /\ made \in 0..MaxCalls /\ tells \in 0..MaxTells
  /\ asking \in [Request -> Nat] /\ closing \in BOOLEAN /\ connected \in BOOLEAN
  /\ responses \in [Request -> Nat] /\ lost \subseteq Request

Init ==
  /\ delivered = {} /\ mailbox = <<>> /\ tells = 0 /\ closing = FALSE
  /\ hand = Idle /\ currentRequest = None /\ made = 0
  /\ asking = [q \in Request |-> 0]
  /\ connected = TRUE /\ responses = [q \in Request |-> 0] /\ lost = {}

-----------------------------------------------------------------------------
\* SendEnvelope to the agent: its process takes the message, or is stopping or full.
Accepts == ~closing /\ Len(mailbox) < Capacity
Put(kind, of) ==
  mailbox' = IF Accepts THEN Append(mailbox, [kind |-> kind, of |-> of]) ELSE mailbox

\* The bridge passes a request on; if it cannot, OnMessage fails and the read
\* loop closes the connection.
FrameArrives(q) ==
  /\ connected /\ q \notin delivered
  /\ delivered' = delivered \cup {q} /\ Put("frame", q)
  /\ connected' = Accepts
  /\ UNCHANGED <<tells, closing, handlerVars, asking, responses, lost>>

\* Another actor sends a message.
Tell ==
  /\ tells < MaxTells /\ tells' = tells + 1
  /\ \E kind \in {"tell", "push"} : Put(kind, None)
  /\ UNCHANGED <<delivered, closing, handlerVars, asking, clientVars>>

ConnectionCloses ==
  /\ connected /\ connected' = FALSE
  /\ UNCHANGED <<messageVars, handlerVars, asking, responses, lost>>

\* The agent is stopped, by the bridge or by itself; when it has handled what it
\* had, Destroy closes the connection.
Stop ==
  /\ ~closing /\ closing' = TRUE
  /\ UNCHANGED <<delivered, mailbox, tells, handlerVars, asking, clientVars>>

Destroy ==
  /\ closing /\ hand = Idle /\ mailbox = <<>> /\ connected
  /\ connected' = FALSE
  /\ UNCHANGED <<messageVars, handlerVars, asking, responses, lost>>

\* reply: the response is sent, or SendMessage refuses it (closed, queue full).
Respond(q) ==
  \/ connected /\ responses' = [responses EXCEPT ![q] = @ + 1] /\ UNCHANGED lost
  \/ lost' = lost \cup {q} /\ UNCHANGED responses

-----------------------------------------------------------------------------
(* Handling a message.                                                     *)

Take(kind) ==
  /\ hand = Idle /\ mailbox # <<>> /\ Head(mailbox).kind = kind
  /\ mailbox' = Tail(mailbox)

\* Registered, and Dispatch up to the call of the handler.
Routed(q) == q \notin Unrouted

\* HandleTell and handleInbound up to the handler.
HandleInbound ==
  /\ Take("frame")
  /\ IF Routed(Head(mailbox).of)
       THEN hand' = Head(mailbox) /\ currentRequest' = Head(mailbox).of
       ELSE UNCHANGED <<hand, currentRequest>>
  /\ made' = 0
  /\ UNCHANGED <<delivered, tells, closing, asking, clientVars>>

\* A message for the business actor.
HandleTell ==
  /\ Take("tell")
  /\ hand' = Head(mailbox) /\ made' = 0
  /\ UNCHANGED <<delivered, tells, closing, currentRequest, asking, clientVars>>

\* PushToClient: a frame that answers no request is sent, or refused.
HandlePush ==
  /\ Take("push")
  /\ UNCHANGED <<delivered, tells, closing, handlerVars, asking, clientVars>>

\* Reply and ReplyError, called by a business handler.
Reply ==
  /\ hand.kind \in {"frame", "tell"} /\ currentRequest # None
  /\ made < MaxCalls /\ made' = made + 1
  /\ Respond(currentRequest)
  /\ UNCHANGED <<messageVars, hand, currentRequest, asking, connected>>

\* Forward, if AskAsync accepts the request.
Forward ==
  /\ hand.kind \in {"frame", "tell"} /\ currentRequest # None
  /\ made < MaxCalls /\ made' = made + 1
  /\ asking' = [asking EXCEPT ![currentRequest] = @ + 1]
  /\ UNCHANGED <<messageVars, hand, currentRequest, clientVars>>

\* Mutant of HandlerReturns: the handler's request is kept.
HandlerReturnsKeeps ==
  /\ hand.kind \in {"frame", "tell"}
  /\ hand' = Idle
  /\ UNCHANGED <<messageVars, currentRequest, made, asking, clientVars>>

\* The handler returns or panics: handleInbound resets currentRequest.
HandlerReturns ==
  /\ hand.kind \in {"frame", "tell"}
  /\ hand' = Idle
  /\ currentRequest' = IF hand.kind = "frame" THEN None ELSE currentRequest
  /\ UNCHANGED <<messageVars, made, asking, clientVars>>

\* AskAsync completes, by a response, an error or its timeout: the callback is
\* put into the mailbox as a user message, or dropped if that is full.
AskCompletes(q) ==
  /\ asking[q] > 0
  /\ asking' = [asking EXCEPT ![q] = @ - 1]
  /\ Put("result", q)
  /\ lost' = IF Accepts THEN lost ELSE lost \cup {q}
  /\ UNCHANGED <<delivered, tells, closing, handlerVars, connected, responses>>

\* Mutant of Callback: the callback answers the agent's current request.
CallbackCurrent ==
  /\ Take("result")
  /\ IF currentRequest = None THEN UNCHANGED <<responses, lost>> ELSE Respond(currentRequest)
  /\ UNCHANGED <<delivered, tells, closing, handlerVars, asking, connected>>

\* The callback answers the request that was current when Forward was called.
Callback ==
  /\ Take("result")
  /\ Respond(Head(mailbox).of)
  /\ UNCHANGED <<delivered, tells, closing, handlerVars, asking, connected>>

-----------------------------------------------------------------------------
Handling == HandleInbound \/ HandleTell \/ HandlePush \/ HandlerReturns \/ Callback

Next ==
  \/ \E q \in Request : FrameArrives(q) \/ AskCompletes(q)
  \/ Tell \/ ConnectionCloses \/ Stop \/ Destroy \/ Handling \/ Reply \/ Forward

\* The actor handles its messages, handlers return, and every AskAsync completes
\* (AskReturns of module Requests).
Fairness == WF_vars(Handling) /\ \A q \in Request : WF_vars(AskCompletes(q))

Spec == Init /\ [][Next]_vars /\ Fairness

-----------------------------------------------------------------------------
(* Properties.                                                             *)

\* A response is sent only by the handler of its own request or by the callback
\* of its own Forward: never for a request handled earlier, whose frame would
\* still be in currentRequest.
AnswersItsOwn ==
  [][\A q \in Request :
       responses'[q] # responses[q] =>
         \/ hand.kind = "frame" /\ hand.of = q
         \/ hand = Idle /\ Head(mailbox) = [kind |-> "result", of |-> q]]_vars

\* A forwarded request is answered, however many others were handled in the
\* meantime, unless its result or its response is refused (the mailbox or the
\* send queue is full, the connection closed) or the agent is stopped.
ForwardAnswered ==
  \A q \in Request : asking[q] > 0 ~> responses[q] > 0 \/ q \in lost \/ closing

\* docs/gateway.md: a request is answered at most once.
RespondedOnce == \A q \in Request : responses[q] <= 1
=============================================================================
