------------------------------- MODULE Gateway -------------------------------
(***************************************************************************)
(* The gateway (gateway/gateway.go, gateway/bridge.go): every connection   *)
(* gets an agent actor when it is ready and loses it when it closes, and   *)
(* Gateway.Stop stops all agents.                                          *)
(*                                                                         *)
(* The bridge is the TransportHandler of its connections: the module       *)
(* extends Callbacks, whose actions say when a callback may be called, and *)
(* which module Connection is shown to implement.  OnConnected and OnClose *)
(* of one connection may run at the same time.                             *)
(***************************************************************************)
EXTENDS Callbacks, Integers, FiniteSets

CONSTANT MaxMessage    \* bound: calls of OnMessage per connection

ASSUME ConnAssumption == IsFiniteSet(Conn)
ASSUME MessageAssumption == MaxMessage \in Nat

VARIABLES
  opening,     \* per connection: where OnConnected is; it holds mu.RLock meanwhile
  closer,      \* per connection: where OnClose is
  userData,    \* connections whose UserData is their agent's PID
  pids,        \* Bridge.pids
  group,       \* Bridge.group
  closing,     \* Bridge.closing
  stopper,     \* Gateway.Stop
  toStop,      \* connections Range has still to visit
  agent,       \* per connection: its agent actor
  inbox        \* per connection: requests in its agent's mailbox

bridgeVars == <<userData, pids, group>>
stopVars == <<closing, stopper, toStop>>
agentVars == <<agent, inbox>>
vars == <<callbackVars, opening, closer, bridgeVars, stopVars, agentVars>>

TypeOK ==
  /\ closed \subseteq Conn /\ notified \subseteq Conn
  /\ connected \in [Conn -> {"no", "running", "ok", "error"}]
  /\ messages \in [Conn -> 0..MaxMessage]
  /\ opening \in [Conn -> {"none", "refuse", "spawn", "bind", "add", "track", "done"}]
  /\ closer \in [Conn -> {"none", "lookup", "stop", "leave", "done"}]
  /\ userData \subseteq Conn /\ pids \subseteq Conn
  /\ group \in Nat                     \* WaitGroup panics when it is negative
  /\ closing \in BOOLEAN
  /\ stopper \in {"none", "range", "wait", "ok", "timeout"} /\ toStop \subseteq Conn
  /\ agent \in [Conn -> {"none", "running", "stopping", "destroyed", "panicked"}]
  /\ inbox \in [Conn -> 0..MaxMessage]

Init ==
  /\ CallbacksInit
  /\ opening = [c \in Conn |-> "none"] /\ closer = [c \in Conn |-> "none"]
  /\ userData = {} /\ pids = {} /\ group = 0
  /\ closing = FALSE /\ stopper = "none" /\ toStop = {}
  /\ agent = [c \in Conn |-> "none"] /\ inbox = [c \in Conn |-> 0]

-----------------------------------------------------------------------------
(* OnConnected.                                                            *)

Open(c, pc) == opening' = [opening EXCEPT ![c] = pc]

\* RLock and the look at closing.
OnConnected(c) ==
  /\ Connects(c)
  /\ Open(c, IF closing THEN "refuse" ELSE "spawn")
  /\ UNCHANGED <<closer, bridgeVars, stopVars, agentVars>>

Refuse(c) ==
  /\ opening[c] = "refuse" /\ Open(c, "done") /\ Connected(c, "error")
  /\ UNCHANGED <<closer, bridgeVars, stopVars, agentVars>>

\* SpawnActor; it fails when the actor system is stopping.
Spawn(c) ==
  /\ opening[c] = "spawn"
  /\ \/ /\ Open(c, "bind") /\ UNCHANGED callbackVars
        /\ agent' = [agent EXCEPT ![c] = "running"]
     \/ Open(c, "done") /\ Connected(c, "error") /\ UNCHANGED agent
  /\ UNCHANGED <<closer, bridgeVars, stopVars, inbox>>

SetUserData(c) ==
  /\ opening[c] = "bind" /\ Open(c, "add")
  /\ userData' = userData \cup {c}
  /\ UNCHANGED <<callbackVars, closer, pids, group, stopVars, agentVars>>

GroupAdd(c) ==
  /\ opening[c] = "add" /\ Open(c, "track")
  /\ group' = group + 1
  /\ UNCHANGED <<callbackVars, closer, userData, pids, stopVars, agentVars>>

\* pids.Set, and OnConnected returns.
Track(c) ==
  /\ opening[c] = "track" /\ Open(c, "done") /\ Connected(c, "ok")
  /\ pids' = pids \cup {c}
  /\ UNCHANGED <<closer, userData, group, stopVars, agentVars>>

-----------------------------------------------------------------------------
(* OnMessage, OnClose and the agents.                                      *)

\* A request goes to the agent, unless the gateway is closing or the agent has
\* stopped.
OnMessage(c) ==
  /\ messages[c] < MaxMessage /\ Delivers(c)
  /\ inbox' = [inbox EXCEPT ![c] = IF ~closing /\ agent[c] = "running" THEN @ + 1 ELSE @]
  /\ UNCHANGED <<opening, closer, bridgeVars, stopVars, agent>>

StopProcess(c) == agent' = [agent EXCEPT ![c] = IF @ = "running" THEN "stopping" ELSE @]

Closer(c, pc) == closer' = [closer EXCEPT ![c] = pc]

OnClose(c) ==
  /\ Notifies(c)
  /\ Closer(c, IF c \in userData THEN "lookup" ELSE "done")
  /\ UNCHANGED <<opening, bridgeVars, stopVars, agentVars>>

\* pids.GetAndDelete.
GetAndDelete(c) ==
  /\ closer[c] = "lookup"
  /\ Closer(c, IF c \in pids THEN "stop" ELSE "done")
  /\ pids' = pids \ {c}
  /\ UNCHANGED <<callbackVars, opening, userData, group, stopVars, agentVars>>

\* Mutant of CloseStops: the agent is left running.
CloseStopsNot(c) ==
  /\ closer[c] = "stop" /\ Closer(c, "leave")
  /\ UNCHANGED <<callbackVars, opening, bridgeVars, stopVars, agentVars>>

CloseStops(c) ==
  /\ closer[c] = "stop" /\ Closer(c, "leave")
  /\ StopProcess(c)
  /\ UNCHANGED <<callbackVars, opening, bridgeVars, stopVars, inbox>>

\* Mutant of GroupDone: the agent is not uncounted.
GroupDoneNot(c) ==
  /\ closer[c] = "leave" /\ Closer(c, "done")
  /\ UNCHANGED <<callbackVars, opening, bridgeVars, stopVars, agentVars>>

GroupDone(c) ==
  /\ closer[c] = "leave" /\ Closer(c, "done")
  /\ group' = group - 1
  /\ UNCHANGED <<callbackVars, opening, userData, pids, stopVars, agentVars>>

\* The agent handles a request; it may stop itself, from Init on.
AgentHandles(c) ==
  /\ agent[c] \in {"running", "stopping"} /\ inbox[c] > 0
  /\ inbox' = [inbox EXCEPT ![c] = @ - 1]
  /\ UNCHANGED <<callbackVars, opening, closer, bridgeVars, stopVars, agent>>

AgentStops(c) ==
  /\ agent[c] = "running" /\ StopProcess(c)
  /\ UNCHANGED <<callbackVars, opening, closer, bridgeVars, stopVars, inbox>>

\* Mutant of AgentDestroy: the connection stays open.
AgentDestroyOpen(c) ==
  /\ agent[c] = "stopping" /\ inbox[c] = 0
  /\ agent' = [agent EXCEPT ![c] = "destroyed"]
  /\ UNCHANGED <<callbackVars, opening, closer, bridgeVars, stopVars, inbox>>

\* clientAgent.Destroy: the business actor's Destroy, then Close of the connection
\* (which may be closed already).  A panic of the former is recovered by
\* InvokerMessage: the process is removed all the same, but Close is skipped.
AgentDestroy(c) ==
  /\ agent[c] = "stopping" /\ inbox[c] = 0
  /\ \/ agent' = [agent EXCEPT ![c] = "destroyed"] /\ closed' = closed \cup {c}
     \/ agent' = [agent EXCEPT ![c] = "panicked"] /\ UNCHANGED closed
  /\ UNCHANGED <<connected, messages, notified, opening, closer, bridgeVars, stopVars, inbox>>

\* Client, network or read loop close the connection.
ConnectionCloses(c) ==
  /\ Closes(c)
  /\ UNCHANGED <<opening, closer, bridgeVars, stopVars, agentVars>>

-----------------------------------------------------------------------------
(* Gateway.Stop.                                                           *)

InOnConnected(c) == opening[c] \notin {"none", "done"}

\* Mutant of RejectNew: closing is set without the lock.
RejectNewUnlocked ==
  /\ stopper = "none"
  /\ closing' = TRUE /\ stopper' = "range" /\ toStop' = pids
  /\ UNCHANGED <<callbackVars, opening, closer, bridgeVars, agentVars>>

\* rejectNewConnections: the lock waits for every OnConnected.  Range begins.
RejectNew ==
  /\ stopper = "none" /\ \A c \in Conn : ~InOnConnected(c)
  /\ closing' = TRUE /\ stopper' = "range" /\ toStop' = pids
  /\ UNCHANGED <<callbackVars, opening, closer, bridgeVars, agentVars>>

\* Range calls StopProcess for the entries that are still there.
StopAgent(c) ==
  /\ stopper = "range" /\ c \in toStop
  /\ toStop' = toStop \ {c}
  /\ IF c \in pids THEN StopProcess(c) ELSE UNCHANGED agent
  /\ UNCHANGED <<callbackVars, opening, closer, bridgeVars, closing, stopper, inbox>>

StopWaits ==
  /\ stopper = "range" /\ toStop = {}
  /\ stopper' = "wait"
  /\ UNCHANGED <<callbackVars, opening, closer, bridgeVars, closing, toStop, agentVars>>

\* WaitWithTimeout: the group is empty, or ten seconds have passed.
StopReturns ==
  /\ stopper = "wait"
  /\ stopper' \in {"timeout"} \cup (IF group = 0 THEN {"ok"} ELSE {})
  /\ UNCHANGED <<callbackVars, opening, closer, bridgeVars, closing, toStop, agentVars>>

-----------------------------------------------------------------------------
OpenStep(c) == Refuse(c) \/ Spawn(c) \/ SetUserData(c) \/ GroupAdd(c) \/ Track(c)
CloseStep(c) == OnClose(c) \/ GetAndDelete(c) \/ CloseStops(c) \/ GroupDone(c)
AgentStep(c) == AgentHandles(c) \/ AgentDestroy(c)
StopStep == RejectNew \/ (\E c \in Conn : StopAgent(c)) \/ StopWaits

Next ==
  \/ \E c \in Conn :
       \/ OnConnected(c) \/ OpenStep(c) \/ OnMessage(c) \/ CloseStep(c)
       \/ AgentStep(c) \/ AgentStops(c) \/ ConnectionCloses(c)
  \/ StopStep \/ StopReturns

\* Callbacks under way go on, OnClose follows a close (ClosesTogether of module
\* Connection), agents handle their messages and a Stop that began goes on.
\* Nothing makes a client connect, send or close, or the time limit expire.
Fairness ==
  /\ \A c \in Conn : WF_vars(OpenStep(c)) /\ WF_vars(CloseStep(c)) /\ WF_vars(AgentStep(c))
  /\ WF_vars(closing /\ StopStep)

Spec == Init /\ [][Next]_vars /\ Fairness

-----------------------------------------------------------------------------
(* Properties.                                                             *)

\* OnConnected has spawned the agent and not returned.
Spawned == {"bind", "add", "track"}
Entering == {c \in Conn : opening[c] = "track"}
Leaving == {c \in Conn : closer[c] \in {"stop", "leave"}}

\* The wait group counts every agent in the table, on its way into it or being
\* taken out: it never goes negative, which would panic in OnClose, and Wait
\* never returns early.
GroupAccounting ==
  group = Cardinality(Entering) + Cardinality(pids) + Cardinality(Leaving)

\* When Gateway.Stop has returned nil, every agent was told to stop (it may still
\* be emptying its mailbox), none is in the table and none will be: a connection
\* that becomes ready later is refused.
StopComplete ==
  stopper = "ok" =>
    pids = {} /\ \A c \in Conn : agent[c] # "running" /\ opening[c] \notin Spawned

\* OnClose overtook OnConnected: it came before pids.Set and found no agent.
Overtaken(c) == closer[c] = "done" /\ c \in pids

\* Destroy panicked before it closed the connection, and nobody else has closed it.
Abandoned(c) == agent[c] = "panicked" /\ c \notin closed

\* An agent outlives its connection only if OnClose overtook OnConnected (see
\* Overtaken): otherwise it is stopped and its Destroy called.
AgentFollows ==
  \A c \in Conn :
    c \in notified ~> agent[c] \in {"none", "destroyed", "panicked"} \/ Overtaken(c)

\* Gateway.Stop waits in vain only for a connection whose OnClose overtook
\* OnConnected, or whose agent panicked in Destroy: all others close and leave the
\* group before any time limit is needed.
StopDrains ==
  stopper = "wait" ~>
    group = 0 \/ stopper = "timeout" \/ \E c \in Conn : Overtaken(c) \/ Abandoned(c)
=============================================================================
