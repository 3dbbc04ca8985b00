# Verification of actormesh

TLA+ models of actormesh, a distributed actor framework in Go, with TLC
configurations that check them on small instances and TLAPS proofs of the
properties that matter most. `PROJECT.json` maps every definition to the source
lines it stands for.

## 1. The system

| Component | State | Operations | Talks to |
|---|---|---|---|
| mpsc queue, mailbox (`pkg/mpsc`, `actor/mailbox.go`) | linked list, message counter, idle/running word | PushUser, PushSystem, schedule, processMessages, run | its process (InvokerMessage), the dispatcher's goroutines |
| process (`actor/process.go`, `context.go`) | closing, closed, timers, current message, responded | Push, Stop, ForceStop, timers, Respond, Forward, Destroy | mailbox, manager, request manager |
| manager, System (`actor/manager.go`, `system.go`) | id table, name table, wait group, stopping | SpawnActor, lookup, StopProcess, System.Stop | processes |
| request manager (`actor/request_manager.go`, `sender.go`, `remote.go`) | pending table, id counter, closed | Ask, AskAsync, complete, timeout, stop, remote requests and replies | processes, remote sender |
| logical actors (`logicalactor`) | owner leases in Redis, owner cache, owned actors | resolve, acquire, renew, delete, route, activate | actor system, Redis, cluster |
| connections (`network`) | connection state, send queue, keys, UDP table | handshake, ready, send, read loop, write loop, close | transport handler (gateway, cluster) |
| gateway (`gateway`) | agent per connection, current request | connect, inbound, reply, forward, push, close | connections, actor system |
| cluster transport (`cluster/transport`) | peer table, connection per peer | connect, hello, data, broadcast, close | connections, actor system (OnMessage) |
| membership (`cluster`, `cluster/member/consul`) | services, watchers, cache | join, keep-alive, watch, leave, connector loop | Consul, cluster transport |
| node, components (`node`, `pkg/component`) | lifecycle state per component, order | Init, Start, Stop, Shutdown | every component |
| buffer, codec, cipher, snowflake (`pkg`, `network/...`) | indices, sequence, last time | encode, decode, grow, GenId | connections, actor system |

How they interact. A `Tell` looks a process up in the manager and pushes an
envelope to its mailbox; the first message into an idle mailbox starts a
goroutine that drains it and calls the actor. An `Ask` registers a request
first; whoever removes it from the pending table (a local reply, a reply
message from another node, the timer, `System.Stop`) calls its completion.
`Stop` closes the process to pushes and queues a stop message, so that `Destroy`
comes after everything accepted before. `System.Stop` holds the lock
`SpawnActor` needs, stops everyone and waits for the wait group, ten seconds at
most.

What is hard, and what makes each part correct:

* mailbox: lost wake-ups, two consumers, a producer that pauses between its
  swap and its link, the capacity under racing producers. Correct: one
  consumer, order kept, every accepted message handled, never more than the
  capacity.
* lifecycle: pushes and timers against Stop, Stop from several sides, Stop
  against ForceStop, removal in two critical sections, SpawnActor inside a
  handler against `System.Stop`. Correct: Destroy once and last, tables that
  agree, unique names, `System.Stop` complete and finite.
* requests: a reply, a timeout, a failed send and `System.Stop` for one request;
  forwards between nodes; lost messages; an id counter that wraps; a full
  table. Correct: one completion, one answer, no leak, every Ask returns.
* logical actors: leases that run out under a busy owner, stale caches, events
  that get lost, nodes that restart, wrong verdicts that a node is dead. Correct:
  epochs order what is known of an owner, a live owner loses its lease only by
  those causes, every request ends.
* connections and gateway: close against connect callbacks, sends after the
  drain, two answers to a client request.
* cluster: an old connection's callbacks against a new connection, a hello after
  the close, Close against a dial in progress, watchers that replace each other.
  Correct: no data before the hello, one tracked connection, the nodes connect
  again after every failure, every observer comes to see the members.
* node: partial failure of Init, Start and Stop. Correct: whatever was
  initialised is stopped, once and in reverse.
* UDP, stream, ids: a Close that comes after its successor; frames cut anywhere
  by the stream, the buffer at its limit; a clock that is set back.

The hazards, with their lines, are in `PROJECT.json`.

## 2. Modules

| Module | Models | Status |
|---|---|---|
| `Inbox` | abstract: what a mailbox promises | done |
| `Mailbox` | queue and mailbox, one step per atomic operation | done |
| `MailboxProofs` | theorems about `Mailbox`, the safety of its refinement of `Inbox` | done |
| `ActorSystem` | processes, registry, timers, System.Stop, over inboxes | done |
| `ActorSystemProofs` | theorems about `ActorSystem` | done |
| `Requests` | request manager, replies, forwards, remote messages | done |
| `RequestsProofs` | theorems about `Requests` | done |
| `Callbacks` | abstract: what a connection promises its `TransportHandler` | done |
| `Connection` | both ends of a TCP connection | done |
| `ConnectionProofs` | theorems about `Connection`, the refinement of `Callbacks` | done |
| `Gateway` | bridge, agents' life, Gateway.Stop, over `Callbacks` | done |
| `GatewayProofs` | theorems about `Gateway` | done |
| `Agent` | one client's agent: route, reply, forward, push | done |
| `Directory` | the owner directory: Redis scripts, caches, events | done |
| `LogicalRouter` | resolution, router actors, activations, over `Directory` | done |
| `LogicalRouterProofs` | theorems about `LogicalRouter` and `Directory` | done |
| `Transport` | the cluster transport between two nodes, over `Callbacks` | done |
| `TransportProofs` | theorems about `Transport` | done |
| `Membership` | Consul registration, watchers and their caches | done |
| `UdpServer` | the connection tables of the UDP server | done |
| `Stream` | frames, layers, chunks, read buffer, decoding loop | done |
| `NodeRuntime` | a node's Start and Shutdown, component controllers | done |
| `Snowflake` | the id generator | done |
| `PartsProofs` | theorems about `UdpServer`, `Snowflake`, `Stream`, `NodeRuntime` and `Agent` | done |
| `MCMailbox`, `MCActorSystem`, `MCRequests`, `MCConnection`, `MCGateway`, `MCAgent`, `MCLogicalRouter`, `MCTransport`, `MCParts` | instances for TLC | done |

`ActorSystem` and `Agent` rest on the contract `Inbox`, which `Mailbox` is shown
to implement; `Gateway` and `Transport` rest on `Callbacks`, which `Connection`
is shown to implement; `LogicalRouter` composes with `Directory`. The last five
components (from `Membership` to `Snowflake`) share nothing, so `MCParts` checks them in one run in which a
behaviour picks one of them.

### Mailbox

`log` is every node ever swapped into `Mpsc.head`, `tail` the last node popped,
`linked` the nodes whose predecessor already points to them. `PushUser` and
`PushSystem` count the message and, for a user message, compare the count with
the capacity; `Undo` is the rejected push; `Swap` and `Link` are the two halves
of `Mpsc.Push`; `Schedule` is the CAS that starts a goroutine. A runner goes
through `Pop`, `Decrement`, `Invoke`, `StoreIdle`, `Recheck`, `Reacquire`, the
atomic operations of `run` and `processMessages`. `Runner` bounds how many
goroutines are alive at once: a runner that has stored idle may linger before it
rechecks while a new one works. The throughput pause of `run` changes no state.

`Inbox` is the contract the other modules use: a FIFO with room for `Capacity`
user messages, emptied one message at a time. `ImplementsInbox` in `Mailbox`
is the refinement, with `Swap` as the moment a message is accepted and `Pop` the
moment it is taken.

### ActorSystem

A mailbox is an inbox. A process is spawned once; two processes may carry the
same name one after the other. `phase` is what the mailbox goroutine is doing:
idle, in a handler, waiting in `SpawnActor`, or in the steps of `handleDestroy`
and `manager.remove` (`destroy`, `name`, `id`). Clients and timer goroutines
push in two steps because `closingMu` is held between them: `PushBegin` checks
`closing` and the mailbox's counter (`Messages`), which counts system messages and
pushes in progress too, and `PushEnd` queues. Pushes that are about to be refused
count for a moment, so one that would have had room may be refused as well.
`System.Stop` runs through `locked`, `stopall`, `wait` and ends `done` or
`timedout`.

Simplifications: one `AfterFunc` timer per process, and a `Ticker` counts as its
first tick; a handler's `ForceStop` is the last thing it does; `closed` steers
nothing, because `processMessages` calls `run` again while messages remain.
`Spawner`, `Timed` and `Forcer` say whose handlers use the respective calls;
`Forcer` matters, because `DestroyIsFinal` (Destroy comes last, and once) is not
promised to actors that force their own stop.

### Requests

The requests of one node, `home`. Every critical section of the request manager
is a step, and calling the completion is another step made by whoever removed
the request. `copies` holds the messages that carry a request, on their way to a
node, in a mailbox or current in a handler; `responded` is the difference
between `open` and `answered`. A handler may forward the request and still be
running while the next one handles it. Messages between nodes may be lost, not
duplicated. A rejection of a request that was forwarded back to `home` goes
through the transport, which has no connection to the node itself, and is lost.
Request ids wrap at `Width` and start anywhere; the id 0 is refused by
`SendEnvelope`. A handler whose reply could not be sent leaves `responded`
clear, as the code does. `retarget` writes a field nothing reads.

### Connection

The two ends of one TCP connection, `client` (DialTCP) and `server`
(TCPServer.Run), each with the goroutines the code starts: `main` is `runStart`
followed by `readLoop`, `writer` is `runWriteLoop`, `sender` a caller of
`SendMessage`; the handshake timer, `Close` and the goroutine that calls
`OnClose` come on top. Every access to an atomic or a channel is a step: `Close`
swaps the state and only then cancels the context (`Cancel`), and in between
everything else may happen. `wire` holds frames; a write that fails may leave the
start of a frame (`Torn`), after which the reader's checksum fails.
`drainMessages` goes on after a failed write as the code does, so a frame can be
missing from the middle of the stream; `DeliveredInOrder` says that a failed
write is the only cause.

`DrainComplete` compares what was accepted before `Close` (`owed`) with what was
taken from the queue and written. One loss without a failed write remains, and the
property counts it (`late`): after a heartbeat timeout the write loop drains the
queue first and closes the connection afterwards, and a frame that `SendMessage`
accepts in between is written by nobody.

`Callbacks` is the contract towards the handler: `OnConnected` at most once,
`OnMessage` only after it returned nil, `OnClose` at most once and only after the
close. It does not order `OnClose` with `OnConnected`, because the code does not:
the timer, a heartbeat or a close can make the writer call `OnClose` while
`OnConnected` runs. `ImplementsCallbacks` is the refinement; that `OnClose` comes
eventually is `ClosesTogether`.

Bounds: `Sending` says which end sends business frames, `MaxPush` how many frames
an end queues, `Failing` where reads, writes, key derivation and `OnConnected`
fail, the owner closes, and the heartbeat times out although the peer is there.
The other causes of a close (timer, end of stream, DialTCP's caller giving up, a
refused push, `OnMessage` failing) are possible at both ends. UDP and WebSocket
connections share `baseConn`; what differs is in `UdpServer` and `Stream`.

### Gateway and Agent

`Gateway` extends `Callbacks`: the bridge's handler methods happen when the
contract allows it, and each of their accesses to shared state is a step.
`OnConnected` holds the read lock from its check of `closing` to its return
(`opening`), `OnClose` takes no lock (`closer`). `RejectNew` is the write lock
taken by `rejectNewConnections`, followed by Range, `StopAgent` per entry and
`WaitWithTimeout`. An agent stops by its own decision, by `OnClose` or by Range,
empties its mailbox and closes its connection in `Destroy`, unless
`business.Destroy` panics: the panic is recovered in `InvokerMessage`, the process is
removed, and the `Connection.Close` behind it is skipped (`panicked`).

Two weaknesses show, and the properties except them. `Overtaken` names the first:
when `OnClose` comes before `pids.Set`, it finds no agent. The entry then stays in the
table for good, and the agent outlives its connection unless it stops by itself;
`Gateway.Stop` stops it but waits for the group in vain and returns the timeout
error. `Abandoned` names the second: a connection whose agent panicked in its
Destroy stays open without an agent, until its peer or the heartbeat closes it, and
`Gateway.Stop` waits for it meanwhile. `AgentFollows` and `StopDrains` say that there
is no third way. A successful Stop means that every agent has been told to stop; one
that was may still be emptying its mailbox.

`Agent` is one agent with its mailbox. `currentRequest` is set while a client's
frame is handled; a handler calls `Reply`, `ReplyError` and `Forward` in any
number and order; the completion of a `Forward` comes back through the mailbox
as a user message when other requests may have been handled. It can be refused
there (`lost`), because `AskAsync` delivers it with the same limit as any user
message. The fairness of `AskCompletes` is `AskReturns`, checked for `Requests`.

### Directory and LogicalRouter

`owner` and `epoch` are the two Redis keys of one actor id; the other ids have
keys and cache entries of their own. A call of the directory is up to three
steps, `look` at the cache, `script`, and `finish`, where the reply is put in
the cache and the event is published; anything may happen between them, and
`RedisFails` loses the call before or the reply after the script. Of the events
that wait for a node the newest is kept, because an older one removes nothing
the newest would not; none need ever arrive.

Each node has a client (`resolveOwner`, `prepareRoute`, `placementFor`, at most
`maxOwnerResolveAttempts`), a router actor (`routeMessage`: deliver, acquire and
activate, or forward to the owner found, at most `maxRouteForwards`) and an
activation (`ownedActor`: renewal ticker, `DeleteOwner` in Destroy). A crash
takes everything in the node's memory, and the node comes back as a new
instance (`StartedAt`). `view` is what discovery tells a node; it lags
(`Discover`) or is wrong (`Forget`). A placement strategy may pick any member of
the view. A client may go on while a router still works on its request (a
Tell, or an Ask that timed out); the request's id keeps the late answer apart. A
client has one request on its way between nodes at a time, an older one that is
forwarded behind a newer one counts as lost.

The code does not promise one activation: an actor whose lease has run out goes
on, and its ticker only stops renewing. `lost` records the three ways to lose
a lease (it lapsed; a client whose view is behind deleted it as a dead node's; a
client placed the actor on an old instance of the same node), and
`SingleActivation` says that there is no fourth.

### Transport

Two nodes; the connector dials from the smaller id only. An end of a
connection is a pair of node and dial, `table` is `remoteToConn`, `handling` a
frame between the call of `OnMessage` and the lock `handleHello` takes, so that
a close can come in between. `late` records such hellos. Two weaknesses show,
and the properties name them: a hello handled after `OnClose` enters a closed
connection as Connected, where nobody removes it and the connector takes it for
a connection (`Zombie`); and such an entry hides an open connection from
`Transport.Close` (`Displaced`). A listener may accept a connection after its
transport was cancelled, a dialler does not dial then. `Close` also does not reach accepted connections that have no
entry yet; `CloseComplete` speaks of the dialled ones.

### Membership

Consul is external: registrations with a TTL check, long polls that return the
content of the moment. `Join`, `KeepAlive`, `Leave` and `Deregister` are
`registration.go`; `CatalogPolls`, `ReconcileServices` and the steps of a service
watcher are `watcher.go`. A watcher that was cancelled deletes the cache entry of
its service at its end, whoever wrote it; the successor's next poll repairs that.
`KeepAliveFails` shows a weakness: when Consul has removed the registration after
a long failure, `keepAlive` only logs the error and the node is not a member
again until it joins anew, so `MembersConverge` speaks of the keepers that are
still registered.

### UdpServer, Stream, NodeRuntime, Snowflake

`UdpServer`: `Lookup`, `ResetCloses`, `ResetRemoves` and `Insert` are `transmit`
in the reading goroutine, `CloseBase` and `CloseRemoves` a `Close` by any other. A
late `Close` can remove the successor's entry under address and session; the
next datagram then resets the connection, which the address table still finds.

`Stream`: a byte is its position in the stream, so a buffer that loses or moves
bytes shows, and a frame records where it ends; `Shift`, `Grown` and `EnsureSpace` are the buffer's, `SendFrame`,
`ReadChunk`, `ProcessFrame`, `ProcessFails` and `PrepareFails` the two ends'. `Grown` is the
capacity the doubling ends at: the smallest of the doubled ones that fits, or the
limit. A body is given by its lengths, before each transform and after the last, so
that a transform may shorten or lengthen it; encryption keeps the length. A layer
(transform or encryption) is the number of the step that put it on; `LayersLeft` says
which layers are still there when those the flags name were undone in
`prepareMessageFrame`'s order. A connection is closed for its data when the next
frame exceeds `MaxInboundSize`, or when a transform decodes it to more than its
`MaxDecodedSize` (`Exceeds`, `PrepareFails`), and `LegalFits` says that there is no
other reason. Both ends have the same pipeline and the key of the handshake, and TCP
delivers the bytes that were written: so unknown flags, a failed decryption and
corrupt compressed data, on which `prepareMessageFrame` fails too, do not arise.

`NodeRuntime`: every hook and every component may fail; `Start` and `Shutdown` are
called one after the other, in any order and number. The stable sort of
`orderedComponents` is given by what it returns, the arrangement in which every
component precedes those behind it. `docs/node.md:25` says that
`Shutdown` may lose errors of the components, as it does.

`Snowflake`: one action per pass of `GenId`'s loop under its mutex; the clock
ticks or is set back, never before the start time.

## 3. Runs

| Run | Instance | Shows |
|---|---|---|
| `mailbox` | 2 producers, 2 runners, capacity 1, 2 pushes each | one consumer, no lost wake-up, order; under fairness every accepted message is handled and `Inbox`, with its capacity, is implemented |
| `actors` | 3 processes (2 share a name), 1 client, capacity 1 | Destroy is last and happens once, the tables agree and names are unique, `System.Stop` complete; under fairness a stopped actor is removed and `System.Stop` returns |
| `requests` | 2 requests, 3 ids, room for 1 pending, 1 forward | one completion, one answer, no leak, every Ask returns |
| `force_stop_name` | 3 processes with one name, one of which force-stops itself | violation: two live actors with one name |
| `connection` | plain and encrypted, queue of 1, 2 frames, the server sends and fails | no data ahead of the key, order, drain complete but for late frames, `Callbacks` is implemented |
| `connection_live` | encrypted, key frames only, the client fails | no handshake hangs; when one end closes both end completely |
| `gateway` | 2 connections, 1 message each | exact wait group, complete Stop, agents follow their connections, Stop drains, each with the exceptions named |
| `agent` | 3 requests (1 unrouted), mailbox of 2, 2 calls per handler, 1 message of another actor | each response answers its own request; forwarded requests are answered |
| `agent_once` | the same | violation: two responses to one request |
| `logical` | 2 nodes, 1 caller with 2 requests, 2 instances, 1 fault, 1 stop | epochs fence the caches, a live owner loses its lease in known ways only, every request ends |
| `cluster` | 2 dials, 2 data messages, 1 fault | no data before the hello, an open connection is the tracked one, Close against Connect, the nodes reconnect |
| `parts` | UDP: 1 address, 2 sessions, 4 connections; ids: 2 goroutines, 2 ids per millisecond; node: 4 components, 2 priorities; stream: 3 frames, chunks of up to 3, bodies below and above each limit; membership: 2 nodes, 3 changes, 1 error | one open connection per address, increasing ids, Stop mirrors Init, frames intact in any chunking, exactly their layers undone, only frames beyond a limit refused, observers converge |

Bounds. Capacity 1 is where the mailbox is full most often and both outcomes of
the check race; two producers are enough for a swap without a link in front of
another message; two runners for one that lingers and one that works (three give
the same result). In `actors` one of the two actors with the same name spawns,
sets a timer and may be stopped by itself, by the client and by the system while
its successor appears; the client's one operation races each of these. In `requests` one place in the table makes the
limit bite; the ids 0, 1, 2 with any start make every run wrap somewhere, 0
included; one forward leads away, home or back. In `connection` a queue of one
frame is full as soon as the key is in it, so that both outcomes of every push
occur, and two frames of the server are its key and one business frame, or two
business frames without encryption: enough for a key that is overtaken, a gap
and a wrong order. In `connection_live` the frames are keys only, since data
neither starts nor prevents a close. Two connections in `gateway` let one be in
`OnConnected` while Stop visits the other; in `agent` two requests are routed,
so that one is handled between another's Forward and its completion, and two
calls per handler give every pair of Reply and Forward. In `logical` a second
request meets what the first left in caches and Redis, a second instance is a
restart, and a fault is any one of a crash, a wrong view, a lapse, a failed
activation or a failed call of Redis; what follows from it (expiry of an
abandoned lease, lagging views, lost requests) is free. In `cluster` the second
dial is the connection that replaces the first; two faults with one data message
pass as well (1.5 million states). In `parts` two ids exhaust a millisecond, four
UDP connections are a predecessor, its successor and one more on either side, the
stream's limits are such that a largest frame and a chunk just fill the buffer, its
bodies are one too short to compress, one that grows and one that shrinks, and one
beyond each of the decoded, inbound and outbound sizes,
and three changes are a join, a leave and a join, with a watcher for each; four
changes and four watchers pass as well (1.1 million states).

The findings. `docs/actor.md:90` says a non-empty actor name is unique within an
actor system. `forceStop` does not set `closing` and leaves a queued stop message
where it is, and `removeName` deletes the name whoever holds it. An actor that is
stopped (by itself or by anyone) and then calls `ForceStop` is destroyed a second
time when the stop message comes up; if a successor took the name in between, the
second removal takes the name away from the successor, and a third actor can be
spawned under it while the successor lives.

`docs/gateway.md:95` says that a client request can be answered once, that a
second answer returns `ErrClientAlreadyResponded` and that a forwarded request
cannot be answered directly. There is no such error in the code: `reply` sends a
frame each time it is called and `Forward` records nothing, so that a handler
that calls Reply twice, or Reply and Forward, sends two responses with the same
index.

Fairness. Goroutines that can go on do so (Go schedules them preemptively), a
handler returns, armed request timers fire, the ten-second timer fires and an
RWMutex does not starve its writer. Nothing is assumed of callers (nobody has to
push, ask or stop), of the network, or of the handler that should answer. On a
connection bytes and the peer's end of stream need not arrive; a read fails once
this end has closed its own socket, and the heartbeat, which needs the peer's
frames, times out once the peer is gone. Calls of Redis return, a request for a
router arrives or is lost, a dial ends, the connector ticks, TCP reports the end of the other end, keepers tick, a TTL that
nobody renews expires, and a poll of Consul returns after `WaitTime` at the
latest. Events of the directory need not arrive, leases need not expire and
discovery need not catch up.
Liveness does not use strong fairness.

Deadlock is checked for the mailbox, the actors and the requests: these models
only rest in `Quiescent`, where all work is done. A closed connection, a stopped
gateway, an idle agent, a logical actor nobody calls, two connected nodes and the
components of `parts` may rest for good, and the liveness properties say what must
have happened by then.

## 4. Proofs

`MailboxProofs`, for any finite set of producers, any set of runners, any
capacity. `SingleRunner` alone is not inductive; the invariant `IInv` adds that
the status word says running exactly when a runner is between its CAS and its
Store (`StatusAgrees`), and the shape of the queue (popped nodes were linked,
linked nodes were swapped in). The wake-up argument needs the counter:
`CountAccounting` says what the counter counts, so that a runner that loads 0
after storing idle knows nothing is queued, and a push that is still counted but
not linked has its own `Schedule` ahead. From `IInv` follow `TypeOK`,
`SingleRunner`, `CountAccounting`, `NoLostWakeup`; `CapacityBound` is proved on
top by comparing the user messages with the counter, and `InvokedInOrder` from
the lag between the last message popped and the last one handled.

`RequestsProofs`, for any finite set of requests, any limit, width and number of
forwards. `IInv` follows a request through its life: an unsent request has no
message and no completer (`Unstarted`); a pending one has not been completed, and
one that left the table has one completer with one call (`OneCompletion`); what
is pending has a caller and a running timer (`PendingIsOwned`); who has not given
up is pending or about to be completed (`Attended`); at most one message can
still be answered, and none after an answer (`OneAnswer`). Hence
`CompletedAtMostOnce`, `WaiterHasCompleter`, `AnsweredAtMostOnce` as theorems.
The only assumptions are the named ones of the modules: finite sets, a positive
capacity and limit, an id width larger than the number of requests.

`GatewayProofs`, for any finite set of connections and any number of messages.
`GroupAccounting` speaks of three sets of connections and is not inductive: that
Track adds a connection that is not in the table, and GetAndDelete one that is
not leaving, follows from `Phases` (an entry in the table or on its way out means
that OnConnected has returned). `AgentKnown` says who will stop a running agent,
and `StopPhases` that no OnConnected is past its check once `closing` is set,
which is what the write lock is for; when the group is zero, nobody is entering,
in the table or leaving, so no agent runs that was not told to stop. Hence `GroupAccounting`, `TypeOK` (the
group does not go below zero) and `StopComplete`.

`KeepsInbox` in `MailboxProofs` is the safety half of the refinement:
`Spec => Promise!Safety`. The inbox is the part of `log` behind `tail`. A user
message is swapped in only if the counter left room for it, and `CapacityBound`
says what that is worth when several producers race; a `Pop` takes the head
because `SingleRunner` leaves nobody else to take it, and no message is popped
before the last one has been handled for the same reason.

`ActorSystemProofs`, for any finite set of processes, any clients, capacity and
names. `DestroyIsFinal` needs that the stop message is the last of its mailbox:
whoever queues it has set `closing`, and under `closingMu` no push is in progress
then (`StopMessage`); nobody holds a process that was not spawned (`Targets`,
`Unborn`). The tables need that a process on its way through `manager.remove` is
still registered and that the wait group counts the registered ones
(`Registered`, `NamesAgree`). `StopIsComplete` follows: a wait group at zero
leaves no id. `RegistryExact` has the hypothesis that no process with a name
forces its own stop: without it the statement is false, as `force_stop_name`
shows. The others have no such hypothesis; `DestroyIsFinal` itself excepts the
processes that force their own stop.

`ConnectionProofs`, for any queue, any number of frames, any ends that send or
fail, with and without encryption. None of the properties is inductive. The
frames of an end are numbered without a gap, with the key as number 0
(`Gapless`), the phase of the main goroutine says what was called and what the
state is (`Phase`), and how many frames the peer has consumed says how far its
handshake is (`Reads`): so no business frame meets an end without a key. A failed
write leaves a gap, and then only the order of all frames on their way is left
(`InOrder`), which gives `DeliveredInOrder`. `DrainComplete` rests on what the
writer has done before it closes (`Ends`): a frame that is still queued after the
drain of a loop nobody had closed is one of the late ones. `KeepsCallbacks` proves the refinement
of `Callbacks` completely, since that contract has no fairness.

`TransportProofs`, for any number of dials, messages and faults. Data meets a
Connected peer because the one hello is on the wire ahead of it, being handled, or
done, and at no other place (`HelloFirst`). An entry of the table is never taken
from an open peer because `OnConnected` and the end of the dial have an order
(`Callback`), and `Transport.Close` finds every dial in the table unless its
connection has closed, or the late hello of another dial took the entry (`DialTracked`,
`Displaced`).
`UsesCallbacks` shows that the transport's connections keep to the contract
`Callbacks`, which is what `Connection` provides.

`LogicalRouterProofs`, over `LogicalRouter` and `Directory` together, for any nodes,
instances, callers, requests and faults. `CacheFenced` compares caches and events
with Redis; a reply that is not yet in a cache must not be ahead of Redis either
(`Calls`). `SingleActivation` needs that the lease is held from the moment the
script granted it, through the rest of the call and the activation (`Holds`), and
that a node's router and its activation do not work at the same time, both in the
name of the current instance (`Work`).

`PartsProofs` has the components that stand alone.

* UDP, for any addresses and sessions and any number of connections and Close
  calls. `OneOpenPerAddr` is not inductive: a removal spares an open connection
  because whoever removes has closed it before (`ClosedFirst`), and transmit
  inserts under an address that leads nowhere, because since its lookup nobody
  else could make it lead to another connection (`TransmitKnows`).
* Ids, for any field widths (`LayoutAssumption`), goroutines and clock. GenId only
  knows the last time and sequence; `LastIsLargest` says that no id exceeds
  theirs, and two lemmas about `Id` that a later millisecond, or a higher sequence
  number within one, makes a larger id.
* Stream, for any sizes that satisfy `SizeAssumption` (a frame with an empty body is
  allowed in), and any pipeline and bodies that satisfy `PipelineAssumption` (flags
  differ, which `codec.New` checks, and a transform that is not applied changes no
  length). What is decoded next depends on the unread part of the buffer:
  it is the stream from the end of the last decoded frame to the last byte that
  arrived (`Unread`). Frames abut and have a header, so no two start with the same
  byte (`FramesAbut`, `OffsetsGrow`), and the frame found in front is the next one.
  A read happens only when half a legal frame is left; that and a chunk fit in
  `MaxCap`, so `ensureSpace` succeeds, only a frame beyond a limit ends the loop
  (`Fits`), and no byte is moved to a wrong place (`Intact`). The flags of a frame
  name exactly the transforms applied to it, so no
  layer is left (`Undoable`). That `Grown` has enough room needs a least element of a set of
  numbers, which the library's well-founded induction gives without an operator
  parameter.
* Node, for any components, priorities and failures; the code always registers
  the core components (`ComponentAssumption`). Start passes the registration once,
  for the second time it finds its own components there (`StartsOnce`); hence all
  Init hooks belong to one traversal and ran in its order (`InitsOrdered`), which
  components added later do not change. During a Shutdown the Stop hooks ran for
  the last of `inits`, and the others are still to be visited, in the reverse
  order (`StopsMirror`).
* Agent, for any requests, mailbox and number of calls. `AnswersItsOwn` is about
  steps; it holds because `currentRequest` is the request of the frame being
  handled and nothing otherwise (`OwnRequest`).

The type invariants, `CountAccounting` and `CapacityBound` are theorems only: no run
lists them again.

Every safety property that a passing run checks is a theorem. Only model-checked are
all liveness properties (`AcceptedHandled`, `StopLeadsToRemoval`, `StopReturns`,
`AskReturns`, `HandshakeEnds`, `ClosesTogether`, `AgentFollows`, `StopDrains`,
`ForwardAnswered`, `RequestsEnd`, `Reconnects`, `MembersConverge`) and the fairness
half of `ImplementsInbox`: liveness under fairness is out of the proof system's
reach. Where a proof needed induction over data, the definition was stated by what
it returns (`Grown`, `OrderedComponents`, `LayersLeft`) instead of by recursion.
`Membership` makes a liveness promise only.

## 5. Plan

Modelling is complete as far as section 6 says, and the planned proofs are done.
What could still be shown:

1. Safety facts behind the liveness properties, as far as they are of interest of
   their own: that a client of the logical router always waits for a call that is
   on its way, and that every watcher of `Membership` but the newest is cancelled.

## 6. Not modelled

Generated Protobuf code, logging, files, configuration and error texts carry no
state. Compression, encryption, Redis, Consul and the timing wheel are libraries
and services; where the models need them they appear as what the code relies on.

Left out of modelled components: `Router.Stop` and the registration of factories
and placements, which happen outside routing; `RedisOwnerDirectory.Close` and
`Registry.Run` and its stop, which start and end with the process; `Manager.Remove`,
which the runtime does not call; checksums, what compression does to bytes and the
buffer's `Read`, `Peek` and `WriteReader`, which no connection uses; the accept
loops and the WebSocket upgrade; the `Parse` functions of snowflake and the
overflow of its timestamp. A `Ticker` of a process is represented by its first
tick.
