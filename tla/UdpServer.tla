----------------------------- MODULE UdpServer -----------------------------
(***************************************************************************)
(* The two connection tables of network/udp_server.go.  One goroutine      *)
(* reads datagrams and runs transmit; the read loop, the write loop, the   *)
(* timers and the owner of a connection may each call its Close, which     *)
(* closes the baseConn and then, every time, removes the table entries.    *)
(* What a datagram carries beyond its session is left out, and so are the  *)
(* queues it goes through: recv and trySend drop it when they are full.    *)
(***************************************************************************)
EXTENDS Naturals, Sequences

CONSTANTS
  Addr,      \* remote addresses
  Session,   \* session ids of the UDP header
  MaxConns,  \* bound on the connections created
  MaxCloses  \* bound on the Close calls per connection

UdpConn == 1..MaxConns
NoConn == 0

VARIABLES
  connections,     \* (address, session) -> connection
  remoteAddrDict,  \* address -> connection
  created,         \* connections created so far
  key,             \* address and session of a connection
  open,            \* connections whose baseConn is not closed
  calls,           \* Close calls begun, per connection
  removing,        \* Close calls between baseConn.Close and removeConnection
  transmitting     \* the transmit call of the read loop

udpTables == <<connections, remoteAddrDict>>
udpVars == <<connections, remoteAddrDict, created, key, open, calls, removing, transmitting>>

Reading == [step |-> "read", current |-> NoConn, key |-> <<>>]

UdpTypeOK ==
  /\ connections \in [Addr \X Session -> UdpConn \cup {NoConn}]
  /\ remoteAddrDict \in [Addr -> UdpConn \cup {NoConn}]
  /\ created \in 0..MaxConns
  /\ key \in [1..created -> Addr \X Session]
  /\ open \subseteq 1..created
  /\ calls \in [UdpConn -> 0..MaxCloses]
  /\ \A c \in UdpConn : removing[c] \in 0..calls[c]
  /\ transmitting.step \in {"read", "reset", "remove", "insert"}

UdpInit ==
  /\ connections = [k \in Addr \X Session |-> NoConn]
  /\ remoteAddrDict = [a \in Addr |-> NoConn]
  /\ created = 0 /\ key = <<>> /\ open = {}
  /\ calls = [c \in UdpConn |-> 0] /\ removing = [c \in UdpConn |-> 0]
  /\ transmitting = Reading

\* Mutant of RemoveConnection: the address is removed whoever holds it.
RemoveConnectionAny(c) ==
  /\ connections' = [connections EXCEPT ![key[c]] = NoConn]
  /\ remoteAddrDict' = [remoteAddrDict EXCEPT ![key[c][1]] = NoConn]

\* The entry under address and session is deleted whoever holds it, the entry
\* under the address only if it is still this connection's.
RemoveConnection(c) ==
  /\ connections' = [connections EXCEPT ![key[c]] = NoConn]
  /\ remoteAddrDict' = [remoteAddrDict EXCEPT ![key[c][1]] = IF @ = c THEN NoConn ELSE @]

-----------------------------------------------------------------------------
(* transmit, in the goroutine that reads the socket.                       *)

\* A datagram of a known connection goes to its queue, whether it is open or
\* not; otherwise the address's current connection is reset first.
Lookup(k) ==
  /\ transmitting = Reading /\ connections[k] = NoConn /\ created < MaxConns
  /\ transmitting' = [current |-> remoteAddrDict[k[1]], key |-> k,
                      step |-> IF remoteAddrDict[k[1]] = NoConn THEN "insert" ELSE "reset"]
  /\ UNCHANGED <<udpTables, created, key, open, calls, removing>>

ResetCloses ==
  /\ transmitting.step = "reset"
  /\ open' = open \ {transmitting.current}
  /\ transmitting' = [transmitting EXCEPT !.step = "remove"]
  /\ UNCHANGED <<udpTables, created, key, calls, removing>>

ResetRemoves ==
  /\ transmitting.step = "remove"
  /\ RemoveConnection(transmitting.current)
  /\ transmitting' = [transmitting EXCEPT !.step = "insert"]
  /\ UNCHANGED <<created, key, open, calls, removing>>

Insert ==
  /\ transmitting.step = "insert"
  /\ created' = created + 1
  /\ key' = Append(key, transmitting.key)
  /\ connections' = [connections EXCEPT ![transmitting.key] = created']
  /\ remoteAddrDict' = [remoteAddrDict EXCEPT ![transmitting.key[1]] = created']
  /\ open' = open \cup {created'}
  /\ transmitting' = Reading
  /\ UNCHANGED <<calls, removing>>

-----------------------------------------------------------------------------
(* UDPConnection.Close, called by any of the connection's goroutines.      *)

CloseBase(c) ==
  /\ c <= created /\ calls[c] < MaxCloses
  /\ open' = open \ {c}
  /\ calls' = [calls EXCEPT ![c] = @ + 1]
  /\ removing' = [removing EXCEPT ![c] = @ + 1]
  /\ UNCHANGED <<udpTables, created, key, transmitting>>

CloseRemoves(c) ==
  /\ removing[c] > 0
  /\ RemoveConnection(c)
  /\ removing' = [removing EXCEPT ![c] = @ - 1]
  /\ UNCHANGED <<created, key, open, calls, transmitting>>

UdpNext ==
  \/ \E k \in Addr \X Session : Lookup(k)
  \/ ResetCloses \/ ResetRemoves \/ Insert
  \/ \E c \in UdpConn : CloseBase(c) \/ CloseRemoves(c)

UdpSpec == UdpInit /\ [][UdpNext]_udpVars

-----------------------------------------------------------------------------
\* The address table always leads to the open connection of an address, so no
\* address ever has two ("avoid several connections of one source address",
\* transmit), although a Close that comes late may already have removed the
\* entry under address and session of the connection's successor.
OneOpenPerAddr == \A c \in open : remoteAddrDict[key[c][1]] = c

=============================================================================
