----------------------------- MODULE Transport -----------------------------
(***************************************************************************)
(* The cluster transport (cluster/transport/nettransport) between two      *)
(* nodes: the one with the smaller id, "dialer", whose connector           *)
(* (cluster/cluster.go) dials, and the "acceptor".  A peer object belongs  *)
(* to one end of one connection; the peer table of a node names the end    *)
(* that is used for the other node.  Both ends exchange a hello before     *)
(* data.                                                                   *)
(*                                                                         *)
(* The transport is the TransportHandler of its connections: the module    *)
(* extends Callbacks, which module Connection is shown to implement.       *)
(***************************************************************************)
EXTENDS Callbacks, Sequences

CONSTANTS
  MaxDials,      \* bound: connections the dialer opens
  MaxData,       \* bound: data messages sent
  MaxFaults      \* bound: failed dials, broken connections, Disconnects

Node == {"dialer", "acceptor"}
Dial == 1..MaxDials
ASSUME EndsAssumption == Conn = Node \X Dial     \* an end of a connection
ASSUME BoundAssumption == MaxDials \in Nat /\ MaxData \in Nat /\ MaxFaults \in Nat

VARIABLES
  table,         \* per node: peerManager.remoteToConn, the dial its entry is of, 0 none
  state,         \* per end: peer.state
  wire,          \* per end: frames on their way to it
  handling,      \* per end: the frame OnMessage was called with
  dial,          \* per dial: where Transport.Connect is
  stop,          \* per node: where Transport.Close is
  late,          \* ends whose hello was handled after they were closed
  sent, faults   \* counters of the bounds

peerVars == <<table, state>>
vars == <<callbackVars, peerVars, wire, handling, dial, stop, late, sent, faults>>

NodeOf(c) == c[1]
Other(n) == IF n = "dialer" THEN "acceptor" ELSE "dialer"
Peer(c) == <<Other(c[1]), c[2]>>
Entry(n) == <<n, table[n]>>
Exists(c) == dial[c[2]] \in {"waiting", "returned", "failed"}   \* the TCP connection was made

TypeOK ==
  /\ closed \subseteq Conn /\ notified \subseteq closed /\ late \subseteq closed
  /\ connected \in [Conn -> {"no", "running", "ok", "error"}]
  /\ messages \in [Conn -> Nat]
  /\ table \in [Node -> Dial \cup {0}]
  /\ state \in [Conn -> {"Idle", "Handshaking", "Connected"}]
  /\ wire \in [Conn -> Seq({"hello", "data"})]
  /\ handling \in [Conn -> {"none", "hello", "data"}]
  /\ dial \in [Dial -> {"none", "dialing", "waiting", "returned", "failed", "refused"}]
  /\ stop \in [Node -> {"no", "cancelled", "closed"}]
  /\ sent \in 0..MaxData /\ faults \in 0..MaxFaults

Init ==
  /\ CallbacksInit
  /\ table = [n \in Node |-> 0]
  /\ state = [c \in Conn |-> "Idle"]
  /\ wire = [c \in Conn |-> <<>>]
  /\ handling = [c \in Conn |-> "none"]
  /\ dial = [k \in Dial |-> "none"]
  /\ stop = [n \in Node |-> "no"]
  /\ late = {} /\ sent = 0 /\ faults = 0

Fault == faults < MaxFaults /\ faults' = faults + 1

\* Mutant of Remove: the entry is removed whatever peer it is.
RemoveAny(n, k) == table' = [table EXCEPT ![n] = 0]

\* peerManager.remove: only this peer's own entry.
Remove(n, k) == table' = IF table[n] = k THEN [table EXCEPT ![n] = 0] ELSE table

-----------------------------------------------------------------------------
(* The dialer: the connector and Transport.Connect.                        *)

\* connectMember finds no peer and Connect enters one before it dials.  An
\* entry, whatever its state, makes both return.  A goroutine the connector
\* started may get here when the transport is already closed.
Connect(k) ==
  /\ table["dialer"] = 0
  /\ dial[k] = "none" /\ \A j \in 1..(k - 1) : dial[j] # "none"
  /\ table' = [table EXCEPT !["dialer"] = k]
  /\ dial' = [dial EXCEPT ![k] = "dialing"]
  /\ UNCHANGED <<callbackVars, state, wire, handling, stop, sent, faults, late>>

\* The TCP connection is made; both ends start.  The acceptor's listener is closed
\* some time after its context, so it may still accept when Close has returned.
Established(k) ==
  /\ dial[k] = "dialing" /\ stop["dialer"] = "no"
  /\ dial' = [dial EXCEPT ![k] = "waiting"]
  /\ UNCHANGED <<callbackVars, peerVars, wire, handling, stop, sent, faults, late>>

\* No TCP connection: by a fault, or because one of the transports is closed.
DialFails(k) ==
  /\ dial[k] = "dialing"
  /\ IF stop = [n \in Node |-> "no"] THEN Fault ELSE UNCHANGED faults
  /\ dial' = [dial EXCEPT ![k] = "refused"]
  /\ Remove("dialer", k)
  /\ UNCHANGED <<callbackVars, state, wire, handling, stop, sent, late>>

\* DialTCP ends without a ready connection: it was closed, or the transport's
\* context is done and waitReady closes it.
DialGivesUp(k) ==
  LET c == <<"dialer", k>> IN
  /\ dial[k] = "waiting"
  /\ c \in closed \/ stop["dialer"] # "no"
  /\ dial' = [dial EXCEPT ![k] = "failed"]
  /\ closed' = closed \cup {c}
  /\ Remove("dialer", k)
  /\ UNCHANGED <<connected, messages, notified, state, wire, handling, stop, sent, faults, late>>

\* Mutant of DialReturns: the context is not looked at again.
DialReturnsUnchecked(k) ==
  /\ dial[k] = "waiting" /\ connected[<<"dialer", k>>] = "ok"
  /\ dial' = [dial EXCEPT ![k] = "returned"]
  /\ UNCHANGED <<callbackVars, peerVars, wire, handling, stop, sent, faults, late>>

\* DialTCP returns a ready connection; Connect closes it if the transport was
\* closed meanwhile.
DialReturns(k) ==
  LET c == <<"dialer", k>> IN
  /\ dial[k] = "waiting" /\ connected[c] = "ok"
  /\ dial' = [dial EXCEPT ![k] = "returned"]
  /\ IF stop["dialer"] = "no" THEN UNCHANGED <<closed, table>>
     ELSE closed' = closed \cup {c} /\ Remove("dialer", k)
  /\ UNCHANGED <<connected, messages, notified, state, wire, handling, stop, sent, faults, late>>

-----------------------------------------------------------------------------
(* The callbacks.                                                          *)

\* OnConnected: the peer gets its connection and starts the handshake.
OnConnected(c) ==
  /\ Exists(c) /\ Connects(c)
  /\ state' = [state EXCEPT ![c] = "Handshaking"]
  /\ UNCHANGED <<table, wire, handling, dial, stop, sent, faults, late>>

\* ... and sends the hello; SendMessage fails on a closed connection.
SendHello(c) ==
  /\ \/ c \notin closed /\ Connected(c, "ok") /\ wire' = [wire EXCEPT ![Peer(c)] = Append(@, "hello")]
     \/ c \in closed /\ Connected(c, "error") /\ UNCHANGED wire
  /\ UNCHANGED <<peerVars, handling, dial, stop, sent, faults, late>>

\* OnMessage is called with the next frame of a Ready connection.
OnMessage(c) ==
  /\ wire[c] # <<>> /\ handling[c] = "none" /\ c \notin closed
  /\ Delivers(c)
  /\ handling' = [handling EXCEPT ![c] = Head(wire[c])]
  /\ wire' = [wire EXCEPT ![c] = Tail(@)]
  /\ UNCHANGED <<peerVars, dial, stop, sent, faults, late>>

\* peer.close: a peer without a connection is left alone.
PeerClose(c) == IF connected[c] = "no" THEN {} ELSE {c}

\* handleHello: under the lock of the table the peer becomes Connected, the
\* connection of another peer of that node is closed, and the entry replaced.
HandleHello(c) ==
  LET n == NodeOf(c)
      old == IF table[n] \in {0, c[2]} THEN {} ELSE PeerClose(Entry(n)) IN
  /\ handling[c] = "hello"
  /\ handling' = [handling EXCEPT ![c] = "none"]
  /\ IF state[c] = "Handshaking"
     THEN /\ state' = [state EXCEPT ![c] = "Connected"]
          /\ table' = [table EXCEPT ![n] = c[2]]
          /\ closed' = closed \cup old
          /\ late' = IF c \in closed THEN late \cup {c} ELSE late
     ELSE closed' = closed \cup {c} /\ UNCHANGED <<peerVars, late>>
  /\ UNCHANGED <<connected, messages, notified, wire, dial, stop, sent, faults>>

\* handleData, handleHeartbeat: an error, which closes the connection, unless
\* the peer is Connected.
HandleData(c) ==
  /\ handling[c] = "data"
  /\ handling' = [handling EXCEPT ![c] = "none"]
  /\ closed' = IF state[c] = "Connected" THEN closed ELSE closed \cup {c}
  /\ UNCHANGED <<connected, messages, notified, peerVars, wire, dial, stop, sent, faults, late>>

\* Mutant of OnClose: before the hello a dialled peer is nameless, too.
OnCloseNameless(c) ==
  /\ Exists(c) /\ Notifies(c)
  /\ IF state[c] = "Connected" THEN Remove(NodeOf(c), c[2]) ELSE UNCHANGED table
  /\ UNCHANGED <<state, wire, handling, dial, stop, sent, faults, late>>

\* OnClose: the peer's entry goes.  An accepted peer is unknown to it before
\* OnConnected, and nameless before its hello.
OnClose(c) ==
  /\ Exists(c) /\ Notifies(c)
  /\ IF NodeOf(c) = "dialer" \/ state[c] = "Connected" THEN Remove(NodeOf(c), c[2]) ELSE UNCHANGED table
  /\ UNCHANGED <<state, wire, handling, dial, stop, sent, faults, late>>

-----------------------------------------------------------------------------
(* The other operations of Transport, and the connections themselves.      *)

\* Mutant of CanSend: Handshaking will do.
CanSendEarly(n) == table[n] # 0 /\ state[Entry(n)] # "Idle"

\* Send, Broadcast, runHeartbeatLoop: only to a Connected peer.
CanSend(n) == table[n] # 0 /\ state[Entry(n)] = "Connected"

Send(n) ==
  LET c == Entry(n) IN
  /\ CanSend(n) /\ c \notin closed
  /\ sent < MaxData /\ sent' = sent + 1
  /\ wire' = [wire EXCEPT ![Peer(c)] = Append(@, "data")]
  /\ UNCHANGED <<callbackVars, peerVars, handling, dial, stop, faults, late>>

Disconnect(n) ==
  /\ table[n] # 0 /\ PeerClose(Entry(n)) \ closed # {}
  /\ Fault
  /\ closed' = closed \cup PeerClose(Entry(n))
  /\ UNCHANGED <<connected, messages, notified, peerVars, wire, handling, dial, stop, sent, late>>

\* Transport.Close: the context is cancelled, then the peers are closed.
CloseBegins(n) ==
  /\ stop[n] = "no" /\ Fault
  /\ stop' = [stop EXCEPT ![n] = "cancelled"]
  /\ UNCHANGED <<callbackVars, peerVars, wire, handling, dial, sent, late>>
CloseEnds(n) ==
  /\ stop[n] = "cancelled"
  /\ stop' = [stop EXCEPT ![n] = "closed"]
  /\ closed' = IF table[n] = 0 THEN closed ELSE closed \cup PeerClose(Entry(n))
  /\ UNCHANGED <<connected, messages, notified, peerVars, wire, handling, dial, sent, faults, late>>

\* The connection breaks.
Breaks(c) ==
  /\ Exists(c) /\ Closes(c) /\ Fault
  /\ UNCHANGED <<peerVars, wire, handling, dial, stop, sent, late>>

\* The error of OnConnected, or the end of the other end, closes a connection.
Follows(c) ==
  /\ Exists(c) /\ (connected[c] = "error" \/ Peer(c) \in closed) /\ Closes(c)
  /\ UNCHANGED <<peerVars, wire, handling, dial, stop, sent, faults, late>>

-----------------------------------------------------------------------------
EndStep(c) ==
  \/ OnConnected(c) \/ SendHello(c) \/ OnMessage(c) \/ HandleHello(c) \/ HandleData(c)
DialStep(k) == Established(k) \/ DialFails(k) \/ DialGivesUp(k) \/ DialReturns(k)

Next ==
  \/ \E k \in Dial : Connect(k) \/ DialStep(k)
  \/ \E c \in Conn : EndStep(c) \/ OnClose(c) \/ Breaks(c) \/ Follows(c)
  \/ \E n \in Node : Send(n) \/ Disconnect(n) \/ CloseBegins(n) \/ CloseEnds(n)

\* The connector ticks, goroutines run, a dial ends, and OnClose is called
\* (Callbacks); TCP reports the end of the other end.
Fairness ==
  /\ \A k \in Dial : WF_vars(Connect(k)) /\ WF_vars(DialStep(k))
  /\ \A c \in Conn : WF_vars(EndStep(c)) /\ WF_vars(OnClose(c)) /\ WF_vars(Follows(c))

Spec == Init /\ [][Next]_vars /\ Fairness

-----------------------------------------------------------------------------
\* A data message or a heartbeat never meets a peer that is not Connected, which
\* would close the connection: a node sends only after the other's hello, and
\* its own hello is ahead of its data (OnConnected, handleHello, handleData).
DataAfterHello == \A c \in Conn : handling[c] = "data" => state[c] = "Connected"

\* An open connection whose peer is Connected is the one in the table of its
\* node: a replaced one was closed, and the late OnClose or the failed Connect
\* of an old connection does not take away the entry of a new one.
OpenIsTracked == \A c \in Conn : state[c] = "Connected" /\ c \notin closed => Entry(NodeOf(c)) = c

\* When Transport.Close of the dialer and its calls of Connect have returned,
\* every connection it dialled is closed, however the two raced; unless the
\* dialer handled a late hello of another, closed connection, which then took
\* the table entry Close would have found it by.
Displaced(k) == \E j \in Dial : j # k /\ <<"dialer", j>> \in late
CloseComplete ==
  stop["dialer"] = "closed" =>
    \A k \in Dial : dial[k] = "returned" => <<"dialer", k>> \in closed \/ Displaced(k)

\* The hello was handled after OnClose had removed the peer: the entry of a
\* closed connection says Connected, and nobody will remove it.
Zombie == table["dialer"] # 0 /\ Entry("dialer") \in late \cap notified
Linked == \A n \in Node : table[n] # 0 /\ table[n] = table[Other(n)] /\ CanSend(n) /\ Entry(n) \notin closed

\* The nodes get connected again after every failure: an entry of the dialer
\* that is not a connection both nodes use does not stay, and without an entry
\* the connector dials (runConnector, Connect, OnClose).  Excused are a closed
\* transport and a Zombie, which the connector takes for a connection.
Reconnects == []<>(Linked \/ table["dialer"] = 0 \/ Zombie \/ stop # [n \in Node |-> "no"])
=============================================================================
