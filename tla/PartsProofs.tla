---------------------------- MODULE PartsProofs ----------------------------
(***************************************************************************)
(* Theorems about five components that stand alone: the tables of the UDP  *)
(* server, the id generator, the byte stream, a node's components and the  *)
(* agent of a client.                                                      *)
(*                                                                         *)
(* One open UDP connection per address, for any addresses and sessions and *)
(* any number of connections and Close calls.  OneOpenPerAddr alone is not *)
(* inductive.  A removal spares an open connection because whoever removes *)
(* has closed it before (ClosedFirst), and transmit inserts under an       *)
(* address that leads nowhere, because only transmit itself could have     *)
(* made the address lead to another connection since it looked             *)
(* (TransmitKnows).                                                        *)
(*                                                                         *)
(* GenId's ids increase, for any layout of the fields, any number of       *)
(* goroutines and any course of the clock.  IdsIncrease compares ids with  *)
(* each other and is not inductive: GenId knows only lastTime and lastSeq. *)
(* LastIsLargest says that these two make up an id that none handed out    *)
(* exceeds.                                                                *)
(*                                                                         *)
(* Frames come out of the stream as they went in, for any sizes, chunks    *)
(* and buffer limits that satisfy SizeAssumption.  FramesIntact speaks of  *)
(* what was decoded; what is decoded next depends on the unread part of    *)
(* the buffer, of which Unread says that it is the stream from the end of  *)
(* the last decoded frame to the last byte that arrived.  That no layer is *)
(* left follows from what the flags of a sent frame say (Undoable).        *)
(*                                                                         *)
(* Stop mirrors Init, for any components, priorities and failures.         *)
(* StopMirrorsInit speaks of the end of a Shutdown.  It rests on two       *)
(* facts: the Init hooks ran in the order of one traversal, because Start  *)
(* gets past its registration once (StartsOnce, InitsOrdered), and at any  *)
(* moment of a Shutdown the Stop hooks ran for the last of them and the    *)
(* rest is still to be visited (StopsMirror).                              *)
(*                                                                         *)
(* A response of the agent answers the request whose frame is handled, or  *)
(* whose Forward completed, for any requests, peers and mailbox.  The      *)
(* agent reads the request from currentRequest, and OwnRequest says that   *)
(* it is the one at hand.                                                  *)
(***************************************************************************)
EXTENDS UdpServer, Snowflake, Stream, NodeRuntime, Agent, TLAPS, SequenceTheorems, WellFoundedInduction

-----------------------------------------------------------------------------
(* The tables of the UDP server.                                           *)

UdpTypes ==
  /\ created \in Nat
  /\ key \in Seq(Addr \X Session) /\ Len(key) = created
  /\ open \subseteq 1..created
  /\ remoteAddrDict \in [Addr -> Nat]
  /\ removing \in [UdpConn -> Int]
  /\ \/ transmitting = Reading
     \/ transmitting \in [step : {"reset", "remove", "insert"}, current : Nat, key : Addr \X Session]

\* An entry of the address table is a connection of that address.
EntryFits ==
  \A a \in Addr : remoteAddrDict[a] # NoConn =>
    remoteAddrDict[a] \in 1..created /\ key[remoteAddrDict[a]][1] = a

\* Who is about to remove a connection from the tables has closed it.
ClosedFirst == \A c \in UdpConn : removing[c] > 0 => c \in (1..created) \ open

\* What transmit knows of the address it works on, step by step.
TransmitKnows ==
  LET addr == transmitting.key[1]
      current == transmitting.current IN
  /\ transmitting.step \in {"reset", "remove"} =>
       /\ current \in 1..created /\ key[current][1] = addr
       /\ remoteAddrDict[addr] \in {current, NoConn}
  /\ transmitting.step = "remove" => current \notin open
  /\ transmitting.step = "insert" => remoteAddrDict[addr] = NoConn

UdpIInv == UdpTypes /\ EntryFits /\ ClosedFirst /\ TransmitKnows /\ OneOpenPerAddr

-----------------------------------------------------------------------------
\* RemoveConnection changes the address table at most at the connection's own
\* address, and only from this connection to none.
LEMMA Removal ==
  ASSUME UdpTypes, EntryFits, NEW c \in 1..created, RemoveConnection(c)
  PROVE  /\ remoteAddrDict' \in [Addr -> Nat]
         /\ key[c][1] \in Addr
         /\ \A a \in Addr : remoteAddrDict'[a] = IF remoteAddrDict[a] = c THEN NoConn ELSE remoteAddrDict[a]
<1>1. key[c] \in Addr \X Session
  BY DEF UdpTypes
<1>2. key[c][1] \in Addr
  BY <1>1
<1>3. remoteAddrDict' = [remoteAddrDict EXCEPT ![key[c][1]] =
                          IF remoteAddrDict[key[c][1]] = c THEN NoConn ELSE remoteAddrDict[key[c][1]]]
  BY DEF RemoveConnection
<1>4. remoteAddrDict' \in [Addr -> Nat]
  BY <1>2, <1>3 DEF UdpTypes, NoConn
<1>5. ASSUME NEW a \in Addr
      PROVE  remoteAddrDict'[a] = IF remoteAddrDict[a] = c THEN NoConn ELSE remoteAddrDict[a]
  <2>1. CASE a = key[c][1]
    BY <2>1, <1>2, <1>3 DEF UdpTypes
  <2>2. CASE a # key[c][1]
    <3>1. remoteAddrDict[a] # c
      BY <2>2 DEF EntryFits, NoConn, UdpTypes
    <3>2. QED
      BY <3>1, <2>2, <1>2, <1>3 DEF UdpTypes
  <2>3. QED
    BY <2>1, <2>2
<1>6. QED
  BY <1>2, <1>4, <1>5

\* Empty tables.
LEMMA UdpInitially == UdpInit => UdpIInv
BY DEF UdpInit, UdpIInv, UdpTypes, EntryFits, ClosedFirst, TransmitKnows, OneOpenPerAddr, Reading, NoConn

\* A datagram of an unknown key: transmit notes what the address leads to.
LEMMA LookupKeeps ==
  ASSUME UdpIInv, NEW k \in Addr \X Session, Lookup(k)
  PROVE  UdpIInv'
<1>1. k[1] \in Addr
  OBVIOUS
<1>2. transmitting' \in [step : {"reset", "remove", "insert"}, current : Nat, key : Addr \X Session]
  BY <1>1 DEF Lookup, UdpIInv, UdpTypes
<1>3. UdpTypes' /\ EntryFits' /\ ClosedFirst' /\ OneOpenPerAddr'
  BY <1>2 DEF Lookup, udpTables, UdpIInv, UdpTypes, EntryFits, ClosedFirst, OneOpenPerAddr
<1>4. TransmitKnows'
  BY <1>1 DEF Lookup, udpTables, UdpIInv, UdpTypes, EntryFits, TransmitKnows, NoConn
<1>5. QED
  BY <1>3, <1>4 DEF UdpIInv

\* reset closes the connection the address led to.
LEMMA ResetClosesKeeps ==
  ASSUME UdpIInv, ResetCloses
  PROVE  UdpIInv'
<1>1. transmitting \in [step : {"reset", "remove", "insert"}, current : Nat, key : Addr \X Session]
  BY DEF ResetCloses, UdpIInv, UdpTypes, Reading
<1>2. UdpTypes' /\ EntryFits' /\ ClosedFirst' /\ OneOpenPerAddr'
  BY <1>1 DEF ResetCloses, udpTables, UdpIInv, UdpTypes, EntryFits, ClosedFirst, OneOpenPerAddr
<1>3. TransmitKnows'
  BY <1>1 DEF ResetCloses, udpTables, UdpIInv, TransmitKnows
<1>4. QED
  BY <1>2, <1>3 DEF UdpIInv

\* ... and removes it; then the address leads nowhere.
LEMMA ResetRemovesKeeps ==
  ASSUME UdpIInv, ResetRemoves
  PROVE  UdpIInv'
<1> DEFINE current == transmitting.current
           addr == transmitting.key[1]
<1>1. /\ transmitting \in [step : {"reset", "remove", "insert"}, current : Nat, key : Addr \X Session]
      /\ transmitting' = [transmitting EXCEPT !.step = "insert"]
      /\ UNCHANGED <<created, key, open, removing>>
      /\ RemoveConnection(current)
  BY DEF ResetRemoves, UdpIInv, UdpTypes, Reading
<1>2. /\ current \in (1..created) \ open /\ addr \in Addr /\ key[current][1] = addr
      /\ remoteAddrDict[addr] \in {current, NoConn}
  BY <1>1 DEF ResetRemoves, UdpIInv, TransmitKnows
<1>3. /\ remoteAddrDict' \in [Addr -> Nat]
      /\ \A a \in Addr : remoteAddrDict'[a] =
           IF remoteAddrDict[a] = current THEN NoConn ELSE remoteAddrDict[a]
  BY <1>1, <1>2, Removal DEF UdpIInv
<1>4. UdpTypes'
  BY <1>1, <1>3 DEF UdpIInv, UdpTypes
<1>5. EntryFits' /\ ClosedFirst'
  BY <1>1, <1>3 DEF UdpIInv, EntryFits, ClosedFirst
<1>6. TransmitKnows'
  BY <1>1, <1>2, <1>3 DEF TransmitKnows
<1>7. OneOpenPerAddr'
  <2> SUFFICES ASSUME NEW c \in open PROVE remoteAddrDict'[key[c][1]] = c
    BY <1>1 DEF OneOpenPerAddr
  <2>1. key[c] \in Addr \X Session
    BY DEF UdpIInv, UdpTypes
  <2>2. QED
    BY <2>1, <1>2, <1>3 DEF UdpIInv, OneOpenPerAddr
<1>8. QED
  BY <1>4, <1>5, <1>6, <1>7 DEF UdpIInv

\* The new connection: no open one has its address.
LEMMA InsertKeeps ==
  ASSUME UdpIInv, Insert
  PROVE  UdpIInv'
<1> DEFINE new == created + 1
           addr == transmitting.key[1]
<1>1. /\ transmitting \in [step : {"reset", "remove", "insert"}, current : Nat, key : Addr \X Session]
      /\ addr \in Addr
      /\ created' = new /\ key' = Append(key, transmitting.key)
      /\ remoteAddrDict' = [remoteAddrDict EXCEPT ![addr] = new]
      /\ open' = open \cup {new}
      /\ removing' = removing /\ transmitting' = Reading
  BY DEF Insert, UdpIInv, UdpTypes, Reading
<1>2. remoteAddrDict[addr] = NoConn
  BY DEF Insert, UdpIInv, TransmitKnows
<1>3. /\ new \in Nat /\ key' \in Seq(Addr \X Session) /\ Len(key') = new
      /\ key'[new] = transmitting.key
      /\ \A c \in 1..created : key'[c] = key[c] /\ c # new
  BY <1>1 DEF UdpIInv, UdpTypes
<1>4. UdpTypes'
  BY <1>1, <1>3 DEF UdpIInv, UdpTypes
<1>5. EntryFits'
  BY <1>1, <1>3 DEF UdpIInv, UdpTypes, EntryFits
<1>6. ClosedFirst' /\ TransmitKnows'
  BY <1>1, <1>3 DEF UdpIInv, UdpTypes, ClosedFirst, TransmitKnows, Reading
<1>7. OneOpenPerAddr'
  <2> SUFFICES ASSUME NEW c \in open' PROVE remoteAddrDict'[key'[c][1]] = c
    BY DEF OneOpenPerAddr
  <2>1. CASE c = new
    BY <2>1, <1>1, <1>3 DEF UdpIInv, UdpTypes
  <2>2. CASE c # new
    <3>1. c \in open /\ c \in 1..created /\ key'[c] = key[c] /\ key[c] \in Addr \X Session
      BY <2>2, <1>1, <1>3 DEF UdpIInv, UdpTypes
    <3>2. remoteAddrDict[key[c][1]] = c /\ c # NoConn
      BY <3>1 DEF UdpIInv, OneOpenPerAddr, NoConn
    <3>3. key[c][1] # addr
      BY <3>2, <1>2
    <3>4. QED
      BY <3>1, <3>2, <3>3, <1>1 DEF UdpIInv, UdpTypes
  <2>3. QED
    BY <2>1, <2>2
<1>8. QED
  BY <1>4, <1>5, <1>6, <1>7 DEF UdpIInv

\* A Close by another goroutine: the baseConn first ...
LEMMA CloseBaseKeeps ==
  ASSUME UdpIInv, NEW c \in UdpConn, CloseBase(c)
  PROVE  UdpIInv'
<1>1. /\ c \in 1..created /\ open' = open \ {c}
      /\ removing' = [removing EXCEPT ![c] = @ + 1]
      /\ UNCHANGED <<remoteAddrDict, created, key, transmitting>>
  BY DEF CloseBase, udpTables, UdpConn, UdpIInv, UdpTypes
<1>2. UdpTypes' /\ EntryFits' /\ TransmitKnows' /\ OneOpenPerAddr'
  BY <1>1 DEF UdpIInv, UdpTypes, EntryFits, TransmitKnows, OneOpenPerAddr
<1>3. ClosedFirst'
  BY <1>1 DEF UdpIInv, UdpTypes, ClosedFirst
<1>4. QED
  BY <1>2, <1>3 DEF UdpIInv

\* ... then the tables, when a successor may already be there.
LEMMA CloseRemovesKeeps ==
  ASSUME UdpIInv, NEW c \in UdpConn, CloseRemoves(c)
  PROVE  UdpIInv'
<1>1. /\ c \in (1..created) \ open /\ RemoveConnection(c)
      /\ removing' = [removing EXCEPT ![c] = @ - 1]
      /\ UNCHANGED <<created, key, open, transmitting>>
  BY DEF CloseRemoves, UdpIInv, ClosedFirst
<1>2. /\ remoteAddrDict' \in [Addr -> Nat]
      /\ \A a \in Addr : remoteAddrDict'[a] = IF remoteAddrDict[a] = c THEN NoConn ELSE remoteAddrDict[a]
  BY <1>1, Removal DEF UdpIInv
<1>3. UdpTypes'
  BY <1>1, <1>2 DEF UdpIInv, UdpTypes
<1>4. EntryFits'
  BY <1>1, <1>2 DEF UdpIInv, EntryFits
<1>5. ClosedFirst'
  BY <1>1 DEF UdpIInv, UdpTypes, ClosedFirst
<1>6. TransmitKnows'
  <2>1. CASE transmitting = Reading
    BY <2>1, <1>1 DEF TransmitKnows, Reading
  <2>2. CASE transmitting # Reading
    <3>1. transmitting.key[1] \in Addr
      BY <2>2 DEF UdpIInv, UdpTypes
    <3>2. QED
      BY <3>1, <1>1, <1>2 DEF UdpIInv, TransmitKnows
  <2>3. QED
    BY <2>1, <2>2
<1>7. OneOpenPerAddr'
  <2> SUFFICES ASSUME NEW d \in open PROVE remoteAddrDict'[key[d][1]] = d
    BY <1>1 DEF OneOpenPerAddr
  <2>1. key[d] \in Addr \X Session
    <3>1. key \in Seq(Addr \X Session) /\ d \in 1..Len(key)
      BY DEF UdpIInv, UdpTypes
    <3> QED
      BY <3>1
  <2>2. QED
    BY <2>1, <1>1, <1>2 DEF UdpIInv, OneOpenPerAddr
<1>8. QED
  BY <1>3, <1>4, <1>5, <1>6, <1>7 DEF UdpIInv

-----------------------------------------------------------------------------
\* UdpIInv holds in every state of the UDP server's tables.
THEOREM UdpInvariance == UdpSpec => []UdpIInv
<1>1. UdpIInv /\ [UdpNext]_udpVars => UdpIInv'
  <2> SUFFICES ASSUME UdpIInv, [UdpNext]_udpVars PROVE UdpIInv'
    OBVIOUS
  <2>1. ASSUME NEW k \in Addr \X Session, Lookup(k) PROVE UdpIInv'
    BY <2>1, LookupKeeps
  <2>2. CASE ResetCloses
    BY <2>2, ResetClosesKeeps
  <2>3. CASE ResetRemoves
    BY <2>3, ResetRemovesKeeps
  <2>4. CASE Insert
    BY <2>4, InsertKeeps
  <2>5. ASSUME NEW c \in UdpConn, CloseBase(c) PROVE UdpIInv'
    BY <2>5, CloseBaseKeeps
  <2>6. ASSUME NEW c \in UdpConn, CloseRemoves(c) PROVE UdpIInv'
    BY <2>6, CloseRemovesKeeps
  <2>7. CASE UNCHANGED udpVars
    BY <2>7 DEF udpVars, UdpIInv, UdpTypes, EntryFits, ClosedFirst, TransmitKnows, OneOpenPerAddr
  <2>8. QED
    BY <2>1, <2>2, <2>3, <2>4, <2>5, <2>6, <2>7 DEF UdpNext
<1>2. QED
  BY UdpInitially, <1>1, PTL DEF UdpSpec

\* No address ever has two open connections, and the address table leads to the
\* one it has, however Close calls race with transmit.
THEOREM OneOpen == UdpSpec => []OneOpenPerAddr
<1>1. UdpIInv => OneOpenPerAddr
  BY DEF UdpIInv
<1>2. QED
  BY UdpInvariance, <1>1, PTL

-----------------------------------------------------------------------------
(* The id generator.                                                       *)

SnowTypes ==
  /\ clock \in Nat /\ lastTime \in Nat /\ lastSeq \in 0..maxSequence
  /\ ids \in Seq(Int)

\* No id is larger than the one of the last time and sequence.
LastIsLargest == \A i \in 1..Len(ids) : ids[i] <= Id(lastTime, lastSeq)

SnowIInv == SnowTypes /\ LastIsLargest /\ IdsIncrease

-----------------------------------------------------------------------------
\* Multiplication by the weight of a field.
LEMMA StepsAddUp ==
  ASSUME NEW a \in Int, NEW b \in Int, NEW k \in Nat, a < b
  PROVE  a * k + k <= b * k
<1> DEFINE d == b - a - 1
<1>1. d \in Nat /\ b = a + 1 + d
  OBVIOUS
<1>2. d * k \in Nat
  BY <1>1
<1>3. (a + 1 + d) * k = a * k + k + d * k
  BY <1>1
<1>4. QED
  BY <1>1, <1>2, <1>3

\* The layout: a later millisecond outweighs any sequence number.
LEMMA LaterIsLarger ==
  ASSUME NEW t \in Nat, NEW u \in Nat, t < u,
         NEW s \in 0..maxSequence, NEW v \in 0..maxSequence
  PROVE  Id(t, s) < Id(u, v)
<1> DEFINE k == (maxMachineID + 1) * (maxSequence + 1)
           m == machineID * (maxSequence + 1)
<1>1. maxSequence \in Nat /\ maxMachineID \in Nat /\ machineID \in Nat /\ offsetTime \in Nat
  BY LayoutAssumption
<1>2. maxMachineID * (maxSequence + 1) \in Nat
  BY <1>1
<1>3. k = maxMachineID * (maxSequence + 1) + (maxSequence + 1)
  BY <1>1
<1>4. k \in Nat /\ maxSequence < k
  BY <1>1, <1>2, <1>3
<1>5. m \in Nat
  BY <1>1
<1> HIDE DEF k, m
<1>6. (t - offsetTime) * k + k <= (u - offsetTime) * k
  BY <1>1, <1>4, StepsAddUp
<1>7. (t - offsetTime) * k \in Int /\ (u - offsetTime) * k \in Int
  BY <1>1, <1>4
<1>8. Id(t, s) = (t - offsetTime) * k + m + s /\ Id(u, v) = (u - offsetTime) * k + m + v
  BY DEF Id, k, m
<1>9. QED
  BY <1>1, <1>4, <1>5, <1>6, <1>7, <1>8

\* Ids are integers.
LEMMA IdIsInt ==
  ASSUME NEW t \in Nat, NEW s \in 0..maxSequence
  PROVE  Id(t, s) \in Int
BY LayoutAssumption DEF Id

\* Within a millisecond the sequence number decides.
LEMMA NextIsLarger ==
  ASSUME NEW t \in Nat, NEW s \in 0..maxSequence, s + 1 \in 0..maxSequence
  PROVE  Id(t, s) < Id(t, s + 1)
<1> DEFINE base == (t - offsetTime) * ((maxMachineID + 1) * (maxSequence + 1))
                   + machineID * (maxSequence + 1)
<1>1. base \in Int
  BY LayoutAssumption
<1>2. Id(t, s) = base + s /\ Id(t, s + 1) = base + (s + 1)
  BY DEF Id
<1> HIDE DEF base
<1>3. QED
  BY <1>1, <1>2

-----------------------------------------------------------------------------
\* A pass of GenId that draws an id: it exceeds the last one.
LEMMA GenIdKeeps ==
  ASSUME SnowIInv, NEW g \in Goroutine, GenId(g)
  PROVE  SnowIInv'
<1> DEFINE new == Id(lastTime', lastSeq')
<1>1. Now \in Nat /\ Now >= lastTime
  BY DEF SnowIInv, SnowTypes, Now
<1>2. lastTime' = Now /\ lastSeq' = IF Now = lastTime THEN lastSeq + 1 ELSE 0
  BY DEF GenId
<1>3. lastTime' \in Nat /\ lastSeq' \in 0..maxSequence
  BY <1>1, <1>2, LayoutAssumption DEF GenId, Exhausted, SnowIInv, SnowTypes
<1>4. Id(lastTime, lastSeq) < new
  <2>1. CASE Now = lastTime
    BY <2>1, <1>2, <1>3, NextIsLarger DEF SnowIInv, SnowTypes
  <2>2. CASE Now # lastTime
    <3>1. lastTime < lastTime'
      BY <2>2, <1>1, <1>2 DEF SnowIInv, SnowTypes
    <3>2. QED
      BY <3>1, <1>3, LaterIsLarger DEF SnowIInv, SnowTypes
  <2>3. QED
    BY <2>1, <2>2
<1>5. new \in Int /\ Id(lastTime, lastSeq) \in Int
  BY <1>3, IdIsInt DEF SnowIInv, SnowTypes
<1>6. ids' = Append(ids, new) /\ clock' = clock
  BY <1>2 DEF GenId
<1> HIDE DEF new
<1>7. /\ ids' \in Seq(Int) /\ Len(ids') = Len(ids) + 1 /\ ids'[Len(ids) + 1] = new
      /\ \A i \in 1..Len(ids) : ids'[i] = ids[i] /\ ids[i] \in Int
  BY <1>5, <1>6 DEF SnowIInv, SnowTypes
<1>8. \A i \in 1..Len(ids) : ids'[i] < new
  BY <1>4, <1>5, <1>7 DEF SnowIInv, LastIsLargest
<1>9. SnowTypes'
  BY <1>3, <1>6, <1>7 DEF SnowIInv, SnowTypes
<1>10. LastIsLargest'
  <2>1. \A i \in 1..Len(ids') : ids'[i] <= new
    <3>1. Len(ids) \in Nat
      BY DEF SnowIInv, SnowTypes
    <3>2. \A i \in 1..Len(ids') : i = Len(ids) + 1 \/ i \in 1..Len(ids)
      BY <3>1, <1>7
    <3>3. \A i \in 1..Len(ids) : ids'[i] <= new
      BY <1>5, <1>7, <1>8
    <3> QED
      BY <3>2, <3>3, <1>5, <1>7
  <2>2. QED
    BY <2>1 DEF LastIsLargest, new, Id
<1>11. IdsIncrease'
  <2> SUFFICES ASSUME NEW i \in 1..Len(ids'), NEW j \in 1..Len(ids'), i < j
               PROVE  ids'[i] < ids'[j]
    BY DEF IdsIncrease
  <2>1. Len(ids) \in Nat /\ i \in 1..Len(ids)
    BY <1>7 DEF SnowIInv, SnowTypes
  <2>2. CASE j = Len(ids) + 1
    BY <2>1, <2>2, <1>7, <1>8
  <2>3. CASE j # Len(ids) + 1
    <3>1. j \in 1..Len(ids)
      BY <2>1, <2>3, <1>7
    <3>2. QED
      BY <2>1, <3>1, <1>7 DEF SnowIInv, IdsIncrease
  <2>4. QED
    BY <2>2, <2>3
<1>12. QED
  BY <1>9, <1>10, <1>11 DEF SnowIInv

\* SnowIInv holds in every state of the generator.
THEOREM SnowInvariance == SnowSpec => []SnowIInv
<1>1. SnowInit => SnowIInv
  BY LayoutAssumption DEF SnowInit, SnowIInv, SnowTypes, LastIsLargest, IdsIncrease
<1>2. SnowIInv /\ [SnowNext]_snowVars => SnowIInv'
  <2> SUFFICES ASSUME SnowIInv, [SnowNext]_snowVars PROVE SnowIInv'
    OBVIOUS
  <2>1. ASSUME NEW g \in Goroutine, GenId(g) PROVE SnowIInv'
    BY <2>1, GenIdKeeps
  <2>2. ASSUME clock' \in Nat, UNCHANGED <<lastTime, lastSeq, ids>> PROVE SnowIInv'
    BY <2>2 DEF SnowIInv, SnowTypes, LastIsLargest, IdsIncrease, Id
  <2>3. CASE Tick
    BY <2>2, <2>3 DEF Tick, SnowIInv, SnowTypes
  <2>4. CASE SetBack
    BY <2>2, <2>4, LayoutAssumption DEF SetBack, SnowIInv, SnowTypes
  <2>5. ASSUME NEW g \in Goroutine, GenIdWaits(g) \/ WaitForMillis(g) PROVE SnowIInv'
    BY <2>2, <2>5 DEF GenIdWaits, WaitForMillis, SnowIInv, SnowTypes
  <2>6. CASE UNCHANGED snowVars
    BY <2>2, <2>6 DEF snowVars, SnowIInv, SnowTypes
  <2>7. QED
    BY <2>1, <2>3, <2>4, <2>5, <2>6 DEF SnowNext
<1>3. QED
  BY <1>1, <1>2, PTL DEF SnowSpec

\* The ids GenId hands out increase in the order of its mutex.
THEOREM Increasing == SnowSpec => []IdsIncrease
<1>1. SnowIInv => IdsIncrease
  BY DEF SnowIInv
<1>2. QED
  BY SnowInvariance, <1>1, PTL

-----------------------------------------------------------------------------
(* The byte stream.                                                        *)

\* A sequence, whatever its elements are.
IsSequence(s) == Len(s) \in Nat /\ s = [i \in 1..Len(s) |-> s[i]]

BufferTypes ==
  /\ IsSequence(sentFrames) /\ IsSequence(decoded) /\ Len(decoded) <= Len(sentFrames)
  /\ arrived \in Nat /\ r \in Nat /\ w \in Nat
  /\ buf \in Seq(Nat) /\ Len(buf) <= MaxCap
  /\ r <= w /\ w <= Len(buf)

\* Every frame has a header and ends where the frames before it and its own
\* bytes end.
FramesAbut ==
  \A k \in 1..Len(sentFrames) :
    /\ sentFrames[k].size \in Nat /\ sentFrames[k].size >= HeaderLen
    /\ sentFrames[k].end \in Nat /\ Offset(k) = Offset(k - 1) + sentFrames[k].size

\* A later frame ends later: no two frames start with the same byte.
OffsetsGrow == \A j, k \in 0..Len(sentFrames) : j < k => Offset(j) < Offset(k)

\* The unread bytes are those behind the decoded frames, up to the last arrived.
Unread ==
  /\ w - r = arrived - Offset(Len(decoded)) /\ arrived <= Wire
  /\ \A i \in 1..(w - r) : buf[r + i] = Offset(Len(decoded)) + i

Delivered ==
  \A k \in 1..Len(decoded) :
    /\ decoded[k].frame = k
    /\ decoded[k].bytes = [i \in 1..sentFrames[k].size |-> Offset(k - 1) + i]
    /\ decoded[k].layers = {}

\* What the receiver undoes by a frame's flags and kind are the layers it has.
Undoable == \A k \in 1..Len(sentFrames) : LayersLeft(sentFrames[k]) = {}

StreamIInv ==
  BufferTypes /\ FramesAbut /\ OffsetsGrow /\ Undoable /\ Unread /\ Delivered /\ LegalFits

-----------------------------------------------------------------------------
\* A set of numbers has a smallest one, and Min is it.
LEMMA MinIsMember ==
  ASSUME NEW S, S \subseteq Nat, S # {}
  PROVE  Min(S) \in S /\ \A y \in S : Min(S) <= y
<1>1. PICK x \in S : \A y \in S : ~(<<y, x>> \in OpToRel(<, Nat))
  BY NatLessThanWellFounded, WFMin
<1>2. \A y \in S : x <= y
  <2> SUFFICES ASSUME NEW y \in S, y < x PROVE FALSE
    OBVIOUS
  <2> QED
    BY <1>1 DEF OpToRel
<1> QED
  BY <1>2 DEF Min

\* Appending to a sequence whose elements have no common type.
LEMMA Appended ==
  ASSUME NEW s, IsSequence(s), NEW e
  PROVE  /\ IsSequence(Append(s, e)) /\ Len(Append(s, e)) = Len(s) + 1
         /\ Append(s, e)[Len(s) + 1] = e
         /\ \A i \in 1..Len(s) : Append(s, e)[i] = s[i]
<1> DEFINE S == {s[i] : i \in 1..Len(s)} \cup {e}
<1>1. s \in [1..Len(s) -> S] /\ Len(s) \in Nat
  BY DEF IsSequence
<1>2. s \in Seq(S)
  BY <1>1
<1>3. e \in S
  OBVIOUS
<1> HIDE DEF S
<1>4. /\ Append(s, e) \in Seq(S) /\ Len(Append(s, e)) = Len(s) + 1
      /\ \A i \in 1..Len(s) : Append(s, e)[i] = s[i]
      /\ Append(s, e)[Len(s) + 1] = e
  BY <1>2, <1>3, AppendProperties
<1>5. ASSUME NEW t \in Seq(S) PROVE t = [i \in 1..Len(t) |-> t[i]]
  OBVIOUS
<1>6. Append(s, e) = [i \in 1..Len(Append(s, e)) |-> Append(s, e)[i]]
  BY <1>4, <1>5
<1>7. Len(Append(s, e)) \in Nat
  BY <1>1, <1>4
<1> QED
  BY <1>4, <1>6, <1>7 DEF IsSequence

\* newCap is large enough and not too large.
LEMMA GrownFits ==
  ASSUME NEW cap \in Nat, NEW need \in 0..MaxCap
  PROVE  Grown(cap, need) \in need..MaxCap
<1> DEFINE S == {MaxCap} \cup {c \in need..MaxCap : \E k \in 1..MaxCap : c = cap * 2^k}
<1>1. MaxCap \in Nat
  BY SizeAssumption DEF MaxCap, ReadBufferCap
<1>2. S \subseteq need..MaxCap /\ S # {}
  BY <1>1
<1>3. S \subseteq Nat
  BY <1>2
<1>4. Grown(cap, need) = Min(S)
  BY DEF Grown
<1> HIDE DEF S
<1>5. Min(S) \in S
  BY <1>2, <1>3, MinIsMember
<1> QED
  BY <1>2, <1>4, <1>5

-----------------------------------------------------------------------------
\* ensureSpace, when half a frame and the chunk fit in MaxCap: the unread bytes
\* are where they belong and there is room behind them.
LEMMA SpaceEnsured ==
  ASSUME BufferTypes, NEW n \in 1..ChunkSize, (w - r) + n <= MaxCap
  PROVE  \E b \in Seq(Nat), start \in Nat :
           /\ EnsureSpace(n) = [ok |-> TRUE, b |-> b, i |-> start, j |-> start + (w - r)]
           /\ Len(b) <= MaxCap /\ start + (w - r) + n <= Len(b)
           /\ \A i \in 1..(w - r) : b[start + i] = buf[r + i]
<1> DEFINE j == w - r
           shifted == Shift(buf, r, w)
           new == Grown(Len(buf), j + n)
           grown == Resize(shifted, new)
<1>1. /\ buf \in Seq(Nat) /\ Len(buf) \in Nat /\ Len(buf) <= MaxCap /\ MaxCap \in Nat
      /\ r \in Nat /\ w \in Nat /\ r <= w /\ w <= Len(buf) /\ n \in Nat /\ j \in Nat
  BY SizeAssumption DEF BufferTypes, MaxCap, ReadBufferCap
<1>2. CASE Len(buf) - w >= n
  <2>1. EnsureSpace(n) = [ok |-> TRUE, b |-> buf, i |-> r, j |-> w]
    BY <1>2 DEF EnsureSpace
  <2>2. r + (w - r) = w /\ r + (w - r) + n <= Len(buf)
    BY <1>1, <1>2
  <2>3. EnsureSpace(n) = [ok |-> TRUE, b |-> buf, i |-> r, j |-> r + (w - r)]
    BY <2>1, <2>2
  <2> buf \in Seq(Nat) /\ r \in Nat
    BY <1>1
  <2> WITNESS buf \in Seq(Nat), r \in Nat
  <2> QED
    BY <1>1, <2>2, <2>3
<1>3. /\ shifted \in Seq(Nat) /\ Len(shifted) = Len(buf)
      /\ \A i \in 1..j : shifted[i] = buf[r + i]
  <2>1. DOMAIN buf = 1..Len(buf)
    BY <1>1
  <2>2. shifted = [k \in 1..Len(buf) |-> IF k <= j THEN buf[r + k] ELSE buf[k]]
    BY <2>1 DEF Shift
  <2>3. \A k \in 1..Len(buf) : (IF k <= j THEN buf[r + k] ELSE buf[k]) \in Nat
    <3>1. \A k \in 1..Len(buf) : buf[k] \in Nat
      BY <1>1
    <3>2. \A k \in 1..Len(buf) : k <= j => r + k \in 1..Len(buf)
      BY <1>1
    <3> QED
      BY <3>1, <3>2
  <2>4. shifted \in [1..Len(buf) -> Nat]
    BY <2>2, <2>3
  <2> HIDE DEF shifted
  <2>5. shifted \in Seq(Nat) /\ Len(shifted) = Len(buf)
    BY <1>1, <2>4, SMTT(20)
  <2> QED
    BY <1>1, <2>2, <2>5
<1>4. CASE ~(Len(buf) - w >= n) /\ Len(buf) - j >= n
  <2>1. EnsureSpace(n) = [ok |-> TRUE, b |-> shifted, i |-> 0, j |-> j]
    BY <1>4 DEF EnsureSpace
  <2> HIDE DEF shifted
  <2>2. Len(shifted) = Len(buf) /\ shifted \in Seq(Nat)
    BY <1>3
  <2>3. 0 + (w - r) = j /\ 0 + (w - r) + n <= Len(buf)
    BY <1>1, <1>4
  <2>4. \A i \in 1..(w - r) : shifted[0 + i] = buf[r + i]
    BY <1>1, <1>3
  <2>5. EnsureSpace(n) = [ok |-> TRUE, b |-> shifted, i |-> 0, j |-> 0 + (w - r)]
    BY <2>1, <2>3
  <2> shifted \in Seq(Nat)
    BY <2>2
  <2> WITNESS shifted \in Seq(Nat), 0 \in Nat
  <2> QED
    BY <1>1, <2>2, <2>3, <2>4, <2>5
<1>5. CASE ~(Len(buf) - w >= n) /\ ~(Len(buf) - j >= n)
  <2>1. EnsureSpace(n) = [ok |-> TRUE, b |-> grown, i |-> 0, j |-> j]
    BY <1>1, <1>5 DEF EnsureSpace
  <2>2. new \in (j + n)..MaxCap
    <3>1. j + n \in 0..MaxCap
      BY <1>1
    <3> HIDE DEF j
    <3> QED
      BY <1>1, <3>1, GrownFits
  <2>3. DOMAIN shifted = 1..Len(buf)
    BY <1>3
  <2> HIDE DEF shifted, new
  <2>4. grown = [k \in 1..new |-> IF k \in 1..Len(buf) THEN shifted[k] ELSE 0]
    BY <2>3 DEF Resize
  <2>5. grown \in [1..new -> Nat]
    BY <1>3, <2>4
  <2>6. grown \in Seq(Nat) /\ Len(grown) = new
    BY <1>1, <2>2, <2>5
  <2>7. \A i \in 1..j : grown[i] = buf[r + i]
    BY <1>1, <1>3, <2>2, <2>4
  <2> HIDE DEF grown
  <2>8. 0 + (w - r) = j /\ 0 + (w - r) + n <= Len(grown) /\ Len(grown) <= MaxCap
    BY <1>1, <2>2, <2>6
  <2>9. \A i \in 1..(w - r) : grown[0 + i] = buf[r + i]
    BY <1>1, <2>7
  <2>10. EnsureSpace(n) = [ok |-> TRUE, b |-> grown, i |-> 0, j |-> 0 + (w - r)]
    BY <2>1, <2>8
  <2> grown \in Seq(Nat)
    BY <2>6
  <2> WITNESS grown \in Seq(Nat), 0 \in Nat
  <2> QED
    BY <2>8, <2>9, <2>10
<1> QED
  BY <1>2, <1>4, <1>5

\* What the unread bytes look like to processReadBuffer.
LEMMA BytesAre ==
  ASSUME StreamIInv
  PROVE  /\ Len(Bytes) = w - r
         /\ Bytes = [i \in 1..(w - r) |-> Offset(Len(decoded)) + i]
<1>1. buf \in Seq(Nat) /\ r \in Nat /\ w \in Nat /\ r <= w /\ w <= Len(buf) /\ Len(buf) \in Nat
  BY DEF StreamIInv, BufferTypes
<1>2. /\ Bytes \in Seq(Nat) /\ Len(Bytes) = w - r
      /\ \A i \in 1..(w - r) : Bytes[i] = buf[r + i]
  <2>1. /\ SubSeq(buf, r + 1, w) \in Seq(Nat) /\ Len(SubSeq(buf, r + 1, w)) = w - r
    BY <1>1
  <2>2. ASSUME NEW i \in 1..(w - r) PROVE SubSeq(buf, r + 1, w)[i] = buf[r + i]
    BY <1>1
  <2> QED
    BY <2>1, <2>2 DEF Bytes
<1>3. Bytes = [i \in 1..(w - r) |-> Bytes[i]]
  BY <1>2
<1>4. \A i \in 1..(w - r) : Bytes[i] = Offset(Len(decoded)) + i
  BY <1>2 DEF StreamIInv, Unread
<1> QED
  BY <1>2, <1>3, <1>4

\* Offsets are numbers.
LEMMA OffsetType ==
  ASSUME FramesAbut, IsSequence(sentFrames), NEW k \in 0..Len(sentFrames)
  PROVE  Offset(k) \in Nat
BY DEF FramesAbut, IsSequence, Offset

\* A header at the front of the buffer is that of the first frame not decoded.
LEMMA FrontFrame ==
  ASSUME StreamIInv, HasHeader
  PROVE  /\ Len(decoded) + 1 \in 1..Len(sentFrames)
         /\ FrameAt(Bytes) = Len(decoded) + 1
<1> DEFINE d == Len(decoded)
<1>1. /\ Len(sentFrames) \in Nat /\ d \in Nat /\ d <= Len(sentFrames) /\ w \in Nat /\ r \in Nat
      /\ r <= w /\ IsSequence(sentFrames) /\ arrived \in Nat /\ HeaderLen \in Nat \ {0}
  BY SizeAssumption DEF StreamIInv, BufferTypes, IsSequence
<1>2. w - r >= HeaderLen /\ Bytes[1] = Offset(d) + 1
  BY <1>1, BytesAre DEF HasHeader
<1>3. \A k \in 0..Len(sentFrames) : Offset(k) \in Nat
  BY <1>1, OffsetType DEF StreamIInv
<1>4. d # Len(sentFrames)
  BY <1>1, <1>2, <1>3 DEF StreamIInv, Unread, Wire
<1>5. {k \in 1..Len(sentFrames) : Bytes[1] = Offset(k - 1) + 1} = {d + 1}
  <2>1. ASSUME NEW k \in 1..Len(sentFrames), Offset(k - 1) = Offset(d) PROVE k = d + 1
    <3>1. k - 1 \in 0..Len(sentFrames) /\ d \in 0..Len(sentFrames)
      BY <1>1
    <3>2. ~(k - 1 < d) /\ ~(d < k - 1)
      BY <1>3, <2>1, <3>1 DEF StreamIInv, OffsetsGrow
    <3> QED
      BY <1>1, <3>1, <3>2
  <2>2. d + 1 \in 1..Len(sentFrames) /\ (d + 1) - 1 = d
    BY <1>1, <1>4
  <2>3. ASSUME NEW k \in 1..Len(sentFrames), Bytes[1] = Offset(k - 1) + 1 PROVE Offset(k - 1) = Offset(d)
    <3>1. k - 1 \in 0..Len(sentFrames) /\ d \in 0..Len(sentFrames)
      BY <1>1
    <3> QED
      BY <1>2, <1>3, <2>3, <3>1
  <2> QED
    BY <1>2, <2>1, <2>2, <2>3
<1>6. FrameAt(Bytes) = Min({d + 1})
  BY <1>5 DEF FrameAt
<1>7. Min({d + 1}) = d + 1
  BY <1>1 DEF Min
<1> QED
  BY <1>1, <1>4, <1>6, <1>7

-----------------------------------------------------------------------------
\* Nothing sent, an empty buffer.
LEMMA StreamInitially == StreamInit => StreamIInv
<1> SUFFICES ASSUME StreamInit PROVE StreamIInv
  OBVIOUS
<1>1. PICK cap \in {InitialCap, MaxCap} : buf = [i \in 1..cap |-> 0]
  BY DEF StreamInit
<1>2. cap \in Nat /\ cap <= MaxCap
  BY <1>1, SizeAssumption DEF MaxCap, ReadBufferCap
<1>3. buf \in [1..cap -> Nat]
  BY <1>1
<1>4. buf \in Seq(Nat) /\ Len(buf) = cap
  BY <1>2, <1>3
<1>5. sentFrames = <<>> /\ decoded = <<>> /\ arrived = 0 /\ r = 0 /\ w = 0 /\ readErr = "none"
  BY DEF StreamInit
<1>6. Len(sentFrames) = 0 /\ Len(decoded) = 0 /\ IsSequence(sentFrames) /\ IsSequence(decoded)
  BY <1>5 DEF IsSequence
<1>7. BufferTypes
  BY <1>2, <1>4, <1>5, <1>6 DEF BufferTypes
<1>8. Offset(0) = 0
  BY DEF Offset
<1>9. FramesAbut /\ OffsetsGrow /\ Undoable /\ Delivered
  BY <1>6 DEF FramesAbut, OffsetsGrow, Undoable, Delivered
<1>10. Unread
  BY <1>5, <1>6, <1>8 DEF Unread, Wire
<1>11. LegalFits
  BY <1>5 DEF LegalFits
<1> QED
  BY <1>7, <1>9, <1>10, <1>11 DEF StreamIInv

\* The receiver undoes exactly the layers sendFrame put on a frame, each after
\* the layers around it.
LEMMA NothingLeft ==
  ASSUME NEW body, NEW internal \in BOOLEAN, NEW f, f.internal = internal,
         f.flags = {transforms[i] : i \in Applied(body)},
         f.layers = Applied(body) \cup Encryption(internal)
  PROVE  LayersLeft(f) = {}
<1>1. Len(transforms) \in Nat /\ f.layers \subseteq Int
  BY PipelineAssumption DEF Applied, Encryption, Pipeline
<1>2. {i \in Pipeline : transforms[i] \in f.flags} = Applied(body)
  <2>1. \A i \in Pipeline : i \in Applied(body) => transforms[i] \in f.flags
    OBVIOUS
  <2>2. ASSUME NEW i \in Pipeline, transforms[i] \in f.flags PROVE i \in Applied(body)
    <3>1. PICK j \in Applied(body) : transforms[i] = transforms[j]
      BY <2>2
    <3>2. i = j
      BY <3>1, PipelineAssumption DEF Applied, Pipeline
    <3> QED
      BY <3>1, <3>2
  <2>3. Applied(body) \subseteq Pipeline
    BY DEF Applied
  <2> QED
    BY <2>1, <2>2, <2>3
<1>3. Undone(f) = f.layers
  BY <1>2 DEF Undone
<1>4. \A j, k \in f.layers : j > k => ~(UndoneAt(j) >= UndoneAt(k))
  BY <1>1 DEF UndoneAt
<1> QED
  BY <1>3, <1>4 DEF LayersLeft

\* A frame more on the wire: the others stay where they are.
LEMMA SendFrameKeeps ==
  ASSUME StreamIInv, NEW body \in Bodies, NEW internal \in BOOLEAN, SendFrame(body, internal)
  PROVE  StreamIInv'
<1> PICK n : n = Len(sentFrames)
  OBVIOUS
<1>1. PICK f : /\ sentFrames' = Append(sentFrames, f)
               /\ f.size = Size(body) /\ f.end = Wire + Size(body)
               /\ f.internal = internal /\ f.flags = {transforms[i] : i \in Applied(body)}
               /\ f.layers = Applied(body) \cup Encryption(internal)
  BY DEF SendFrame
<1>2. UNCHANGED <<arrived, buf, r, w, decoded, readErr>>
  BY DEF SendFrame
<1>3. /\ IsSequence(sentFrames) /\ IsSequence(decoded) /\ n \in Nat /\ Len(decoded) \in Nat
      /\ Len(decoded) <= n /\ HeaderLen \in Nat \ {0}
      /\ Size(body) \in Nat /\ Size(body) >= HeaderLen
  <2>1. Size(body) \in Nat /\ Size(body) >= HeaderLen
    <3>1. Len(transforms) \in Nat
      BY PipelineAssumption
    <3>2. body \in [1..(Len(transforms) + 1) -> Nat] /\ Len(transforms) + 1 \in 1..(Len(transforms) + 1)
      BY <3>1, PipelineAssumption
    <3>3. body[Len(transforms) + 1] \in Nat
      BY <3>2
    <3> QED
      BY <3>3, SizeAssumption DEF Size
  <2> QED
    BY <2>1, SizeAssumption DEF StreamIInv, BufferTypes, IsSequence
<1>4. /\ IsSequence(sentFrames)' /\ Len(sentFrames') = n + 1 /\ sentFrames'[n + 1] = f
      /\ \A k \in 1..n : sentFrames'[k] = sentFrames[k]
  BY <1>1, <1>3, Appended DEF IsSequence
<1>5. \A k \in 0..n : Offset(k)' = Offset(k) /\ Offset(k) \in Nat
  <2> SUFFICES ASSUME NEW k \in 0..n PROVE Offset(k)' = Offset(k) /\ Offset(k) \in Nat
    OBVIOUS
  <2>1. Offset(k) \in Nat
    BY <1>3, OffsetType DEF StreamIInv
  <2>2. Offset(k)' = Offset(k)
    BY <1>3, <1>4 DEF Offset
  <2> QED
    BY <2>1, <2>2
<1>6. /\ Offset(n + 1)' = Offset(n) + Size(body) /\ f.end \in Nat
      /\ Offset(n) \in Nat /\ Offset(n + 1)' > Offset(n)
  <2>1. Offset(n + 1)' = sentFrames'[n + 1].end
    BY <1>3 DEF Offset
  <2>2. Wire = Offset(n) /\ Offset(n) \in Nat
    BY <1>3, <1>5 DEF Wire
  <2> QED
    BY <1>1, <1>3, <1>4, <2>1, <2>2
<1>7. BufferTypes'
  BY <1>2, <1>3, <1>4 DEF StreamIInv, BufferTypes, IsSequence
<1>8. FramesAbut'
  <2> SUFFICES ASSUME NEW k \in 1..(n + 1)
               PROVE  /\ sentFrames'[k].size \in Nat /\ sentFrames'[k].size >= HeaderLen
                      /\ sentFrames'[k].end \in Nat
                      /\ Offset(k)' = Offset(k - 1)' + sentFrames'[k].size
    BY <1>4 DEF FramesAbut
  <2>1. CASE k = n + 1
    <3>1. Offset(k - 1)' = Offset(n) /\ sentFrames'[k] = f /\ Offset(k)' = Offset(n + 1)'
      BY <1>3, <1>4, <1>5, <2>1
    <3> QED
      BY <1>1, <1>3, <1>6, <3>1
  <2>2. CASE k # n + 1
    <3>1. k \in 1..n /\ k \in 0..n /\ k - 1 \in 0..n
      BY <1>3, <2>2
    <3> QED
      BY <1>4, <1>5, <3>1 DEF StreamIInv, FramesAbut
  <2> QED
    BY <2>1, <2>2
<1>9. OffsetsGrow'
  <2> SUFFICES ASSUME NEW j \in 0..(n + 1), NEW k \in 0..(n + 1), j < k PROVE Offset(j)' < Offset(k)'
    BY <1>4 DEF OffsetsGrow
  <2>1. j \in 0..n /\ Offset(j)' = Offset(j) /\ Offset(j) \in Nat
    BY <1>3, <1>5
  <2>2. CASE k = n + 1
    <3>1. Offset(j) <= Offset(n)
      BY <1>3, <1>5, <2>1 DEF StreamIInv, OffsetsGrow
    <3>2. Offset(k)' = Offset(n + 1)' /\ Offset(n + 1)' \in Nat
      BY <1>3, <1>6, <2>2
    <3> QED
      BY <1>6, <2>1, <3>1, <3>2
  <2>3. CASE k # n + 1
    BY <1>3, <1>5, <2>1, <2>3 DEF StreamIInv, OffsetsGrow
  <2> QED
    BY <2>2, <2>3
<1>10. Len(decoded) \in 0..n /\ Offset(Len(decoded))' = Offset(Len(decoded))
  BY <1>2, <1>3, <1>5
<1>11. Unread'
  <2>1. Wire' >= Wire /\ Wire \in Nat /\ Wire' \in Nat
    BY <1>3, <1>4, <1>5, <1>6 DEF Wire
  <2>2. arrived' <= Wire'
    BY <1>2, <2>1 DEF StreamIInv, Unread, BufferTypes
  <2> QED
    BY <1>2, <1>10, <2>2 DEF StreamIInv, Unread
<1>12. Delivered'
  <2> SUFFICES ASSUME NEW k \in 1..Len(decoded)
               PROVE  /\ decoded[k].frame = k
                      /\ decoded[k].bytes = [i \in 1..sentFrames'[k].size |-> Offset(k - 1)' + i]
                      /\ decoded[k].layers = {}
    BY <1>2 DEF Delivered
  <2>1. k \in 1..n /\ k - 1 \in 0..n
    BY <1>3
  <2>2. sentFrames'[k] = sentFrames[k] /\ Offset(k - 1)' = Offset(k - 1)
    BY <1>4, <1>5, <2>1
  <2> QED
    BY <2>2 DEF StreamIInv, Delivered
<1>13. LegalFits'
  <2>1. CASE readErr = "none"
    BY <1>2, <2>1 DEF LegalFits
  <2>2. CASE readErr # "none"
    <3>1. Len(decoded) + 1 <= Len(sentFrames) /\ n = Len(sentFrames)
      BY <2>2 DEF StreamIInv, LegalFits
    <3>3. Len(decoded) + 1 \in 1..n
      BY <1>3, <3>1
    <3>2. sentFrames'[Len(decoded) + 1] = sentFrames[Len(decoded) + 1] /\ Len(decoded) + 1 <= n + 1
      BY <1>3, <1>4, <3>3
    <3> QED
      BY <1>2, <1>4, <3>2 DEF StreamIInv, LegalFits, Exceeds, Undone
  <2> QED
    BY <2>1, <2>2
<1>14. Undoable'
  <2> SUFFICES ASSUME NEW k \in 1..(n + 1) PROVE LayersLeft(sentFrames'[k]) = {}
    BY <1>4 DEF Undoable
  <2>1. CASE k = n + 1
    <3>1. LayersLeft(f) = {}
      BY <1>1, <1>3, NothingLeft
    <3> QED
      BY <1>4, <2>1, <3>1
  <2>2. CASE k # n + 1
    <3>1. k \in 1..Len(sentFrames) /\ sentFrames'[k] = sentFrames[k]
      BY <1>3, <1>4, <2>2
    <3> QED
      BY <3>1 DEF StreamIInv, Undoable
  <2> QED
    BY <2>1, <2>2
<1> QED
  BY <1>7, <1>8, <1>9, <1>11, <1>12, <1>13, <1>14 DEF StreamIInv

\* Half a frame is left when the next chunk is read: less than a header, or less
\* than a frame that is not too large.  So the chunk fits.
LEMMA ChunkFits ==
  ASSUME StreamIInv, readErr = "none", ~Decodable, ~TooLarge, NEW n \in 1..ChunkSize
  PROVE  (w - r) + n <= MaxCap
<1>1. w - r \in Nat /\ w - r < MaxInboundSize
  <2>1. w \in Nat /\ r \in Nat /\ r <= w
    BY DEF StreamIInv, BufferTypes
  <2>2. CASE ~HasHeader
    BY <2>1, <2>2, BytesAre, SizeAssumption DEF HasHeader
  <2>3. CASE HasHeader
    <3> DEFINE f == FrameAt(Bytes)
    <3>1. f > 0 /\ f \in 1..Len(sentFrames)
      BY <2>3, FrontFrame DEF StreamIInv, BufferTypes, IsSequence
    <3>2. sentFrames[f].size \in Nat
      BY <3>1 DEF StreamIInv, FramesAbut
    <3>3. ~(sentFrames[f].size > MaxInboundSize)
      BY <2>3, <3>1 DEF TooLarge
    <3>4. ~(Len(Bytes) >= sentFrames[f].size)
      BY <2>3, <3>1 DEF Decodable, Complete
    <3> HIDE DEF f
    <3> QED
      BY <2>1, <3>2, <3>3, <3>4, BytesAre, SizeAssumption
  <2> QED
    BY <2>2, <2>3
<1> QED
  BY <1>1, SizeAssumption DEF MaxCap, ReadBufferCap

\* A chunk is read: it goes behind the unread bytes.
LEMMA ReadChunkKeeps ==
  ASSUME StreamIInv, ~Decodable, ~TooLarge, NEW n \in 1..ChunkSize, ReadChunk(n)
  PROVE  StreamIInv'
<1> DEFINE off == Offset(Len(decoded))
<1>1. /\ readErr = "none" /\ arrived + n <= Wire /\ UNCHANGED <<sentFrames, decoded>>
      /\ BufferTypes
  BY DEF ReadChunk, StreamIInv
<1>2. (w - r) + n <= MaxCap
  BY <1>1, ChunkFits
<1>3. PICK b \in Seq(Nat), start \in Nat :
        /\ EnsureSpace(n) = [ok |-> TRUE, b |-> b, i |-> start, j |-> start + (w - r)]
        /\ Len(b) <= MaxCap /\ start + (w - r) + n <= Len(b)
        /\ \A i \in 1..(w - r) : b[start + i] = buf[r + i]
  BY <1>1, <1>2, SpaceEnsured
<1>5. /\ w \in Nat /\ r \in Nat /\ r <= w /\ arrived \in Nat /\ n \in Nat /\ Len(b) \in Nat
      /\ w - r \in Nat /\ off \in Nat /\ Wire \in Nat
  <2>1. /\ w \in Nat /\ r \in Nat /\ r <= w /\ arrived \in Nat /\ n \in Nat
        /\ Len(decoded) \in 0..Len(sentFrames) /\ Len(sentFrames) \in 0..Len(sentFrames)
        /\ IsSequence(sentFrames)
    BY <1>1 DEF BufferTypes, IsSequence
  <2>2. off \in Nat /\ Wire \in Nat
    BY <2>1, OffsetType DEF StreamIInv, Wire
  <2> QED
    BY <2>1, <2>2
<1>10. PICK j \in Nat : j = start + (w - r)
  BY <1>5
<1>4. /\ r' = start /\ w' = j + n /\ arrived' = arrived + n /\ readErr' = readErr
      /\ buf' = Write([ok |-> TRUE, b |-> b, i |-> start, j |-> j], n)
  BY <1>3, <1>10 DEF ReadChunk
<1>6. /\ buf' \in Seq(Nat) /\ Len(buf') = Len(b)
      /\ \A k \in 1..Len(b) : buf'[k] = IF k \in (j + 1)..(j + n) THEN arrived + k - j ELSE b[k]
  <2> DEFINE at(k) == IF k \in (j + 1)..(j + n) THEN arrived + k - j ELSE b[k]
             new == [k \in 1..Len(b) |-> at(k)]
  <2>1. DOMAIN b = 1..Len(b)
    OBVIOUS
  <2>2. buf' = new
    BY <1>4, <2>1 DEF Write
  <2>3. ASSUME NEW k \in 1..Len(b) PROVE at(k) \in Nat
    <3>1. b[k] \in Nat
      OBVIOUS
    <3>2. k \in (j + 1)..(j + n) => arrived + k - j \in Nat
      BY <1>5
    <3> QED
      BY <3>1, <3>2
  <2>4. new \in [1..Len(b) -> Nat]
    BY <2>3
  <2>5. \A k \in 1..Len(b) : new[k] = at(k)
    OBVIOUS
  <2> HIDE DEF new
  <2>6. new \in Seq(Nat) /\ Len(new) = Len(b)
    BY <1>5, <2>4
  <2> QED
    BY <2>2, <2>5, <2>6
<1>7. BufferTypes'
  <2>1. r' \in Nat /\ w' \in Nat /\ r' <= w' /\ w' <= Len(buf') /\ arrived' \in Nat
    BY <1>3, <1>4, <1>5, <1>6, <1>10
  <2>2. buf' \in Seq(Nat) /\ Len(buf') <= MaxCap' /\ MaxCap' = MaxCap
    BY <1>3, <1>6 DEF MaxCap, ReadBufferCap
  <2> QED
    BY <1>1, <2>1, <2>2 DEF BufferTypes, IsSequence
<1>8. \A k : Offset(k)' = Offset(k)
  BY <1>1 DEF Offset
<1>9. Wire' = Wire
  BY <1>1 DEF Wire, Offset
<1>13. Unread'
  <2>1. \A i \in 1..(w - r) : buf[r + i] = off + i
    BY DEF StreamIInv, Unread
  <2>6. w - r = arrived - off
    BY DEF StreamIInv, Unread
  <2>2. w' - r' = (w - r) + n /\ w' - r' = arrived' - off
    BY <1>4, <1>5, <1>10, <2>6, SMTT(20)
  <2>3. arrived' <= Wire'
    BY <1>1, <1>4, <1>9
  <2>4. ASSUME NEW i \in 1..((w - r) + n) PROVE buf'[start + i] = off + i
    <3>1. start + i \in 1..Len(b)
      BY <1>3, <1>5
    <3>2. CASE i <= w - r
      <4>1. i \in 1..(w - r) /\ start + i \notin (j + 1)..(j + n)
        BY <1>5, <1>10, <3>2
      <4> QED
        BY <1>3, <1>6, <2>1, <3>1, <4>1
    <3>3. CASE i > w - r
      <4>1. start + i \in (j + 1)..(j + n)
        BY <1>5, <1>10, <3>3
      <4>2. buf'[start + i] = arrived + (start + i) - j
        BY <1>6, <3>1, <4>1
      <4>3. i \in Nat
        BY <1>5
      <4> HIDE DEF off
      <4>4. arrived + (start + i) - j = off + i
        BY <1>5, <1>10, <2>6, <4>3
      <4> QED
        BY <4>2, <4>4
    <3> QED
      BY <1>5, <3>2, <3>3
  <2>5. Offset(Len(decoded))' = off
    BY <1>1, <1>8
  <2> HIDE DEF off
  <2> QED
    BY <1>4, <2>2, <2>3, <2>4, <2>5 DEF Unread
<1>11. FramesAbut' /\ OffsetsGrow' /\ Undoable' /\ Delivered'
  <2>1. FramesAbut' /\ OffsetsGrow'
    BY <1>1, <1>8 DEF StreamIInv, FramesAbut, OffsetsGrow
  <2>2. Undoable'
    BY <1>1 DEF StreamIInv, Undoable
  <2>3. Delivered'
    BY <1>1, <1>8 DEF StreamIInv, Delivered
  <2> QED
    BY <2>1, <2>2, <2>3
<1>12. LegalFits'
  BY <1>1, <1>4 DEF LegalFits
<1> QED
  BY <1>7, <1>11, <1>12, <1>13 DEF StreamIInv

\* A frame is decoded: it is the next one, with its bytes, and the rest of the
\* buffer begins with the frame after it.
LEMMA ProcessFrameKeeps ==
  ASSUME StreamIInv, ProcessFrame
  PROVE  StreamIInv'
<1>0. PICK d, off, size : d = Len(decoded) /\ off = Offset(d) /\ size = sentFrames[d + 1].size
  OBVIOUS
<1>1. /\ d \in Nat /\ Len(sentFrames) \in Nat /\ IsSequence(sentFrames) /\ IsSequence(decoded)
      /\ r \in Nat /\ w \in Nat /\ r <= w /\ w <= Len(buf) /\ buf \in Seq(Nat) /\ arrived \in Nat
  BY <1>0 DEF StreamIInv, BufferTypes, IsSequence
<1>2. d + 1 \in 1..Len(sentFrames) /\ FrameAt(Bytes) = d + 1
  BY <1>0, FrontFrame DEF ProcessFrame, Decodable
<1>3. UNCHANGED <<sentFrames, arrived, buf, w, readErr>> /\ r' = r + size
  BY <1>0, <1>2 DEF ProcessFrame
<1>4. PICK e : /\ decoded' = Append(decoded, e)
               /\ e.frame = d + 1 /\ e.bytes = SubSeq(Bytes, 1, size)
               /\ e.layers = LayersLeft(sentFrames[d + 1])
  BY <1>0, <1>2 DEF ProcessFrame
<1>5. /\ size \in Nat /\ off \in Nat /\ Offset(d + 1) = off + size
  <2>1. d \in 0..Len(sentFrames) /\ (d + 1) - 1 = d
    BY <1>1, <1>2
  <2>2. off \in Nat
    BY <1>0, <1>1, <2>1, OffsetType DEF StreamIInv
  <2> QED
    BY <1>0, <1>2, <2>1, <2>2 DEF StreamIInv, FramesAbut
<1>6. size <= w - r
  BY <1>0, <1>2, BytesAre DEF ProcessFrame, Decodable, Complete
<1>7. /\ IsSequence(decoded)' /\ Len(decoded') = d + 1 /\ decoded'[d + 1] = e
      /\ \A k \in 1..d : decoded'[k] = decoded[k]
  <2>1. IsSequence(decoded)'
    <3>1. IsSequence(Append(decoded, e))
      BY <1>1, Appended
    <3>2. decoded' = Append(decoded, e)
      BY <1>4
    <3> QED
      BY <3>1, <3>2 DEF IsSequence
  <2>2. /\ Len(decoded') = d + 1 /\ decoded'[d + 1] = e
        /\ \A k \in 1..d : decoded'[k] = decoded[k]
    BY <1>0, <1>1, <1>4, Appended
  <2> QED
    BY <2>1, <2>2
<1>8. \A k : Offset(k)' = Offset(k)
  BY <1>3 DEF Offset
<1>9. Wire' = Wire
  BY <1>3 DEF Wire, Offset
<1>10. BufferTypes'
  <2>1. r' \in Nat /\ r' <= w'
    BY <1>1, <1>3, <1>5, <1>6
  <2>2. IsSequence(sentFrames)' /\ Len(decoded') <= Len(sentFrames') /\ MaxCap' = MaxCap
    BY <1>1, <1>2, <1>3, <1>7 DEF IsSequence, MaxCap, ReadBufferCap
  <2> QED
    BY <1>1, <1>3, <1>7, <2>1, <2>2 DEF StreamIInv, BufferTypes
<1>11. FramesAbut' /\ OffsetsGrow' /\ Undoable' /\ LegalFits'
  <2>1. FramesAbut' /\ OffsetsGrow'
    BY <1>3, <1>8 DEF StreamIInv, FramesAbut, OffsetsGrow
  <2>2. Undoable'
    BY <1>3 DEF StreamIInv, Undoable
  <2>3. readErr' = "none"
    BY <1>3 DEF ProcessFrame, Decodable, HasHeader
  <2>4. LegalFits'
    BY <2>3 DEF LegalFits
  <2> QED
    BY <2>1, <2>2, <2>4
<1>12. Unread'
  <2>1. w - r = arrived - off /\ arrived <= Wire
    BY <1>0 DEF StreamIInv, Unread
  <2>2. \A i \in 1..(w - r) : buf[r + i] = off + i
    BY <1>0 DEF StreamIInv, Unread
  <2>3. Offset(Len(decoded))' = off + size
    BY <1>5, <1>7, <1>8
  <2>4. w' - r' = arrived' - (off + size) /\ arrived' <= Wire'
    BY <1>1, <1>3, <1>5, <1>9, <2>1
  <2>5. ASSUME NEW i \in 1..(w' - r') PROVE buf'[r' + i] = (off + size) + i
    <3>1. size + i \in 1..(w - r) /\ r' + i = r + (size + i) /\ off + (size + i) = (off + size) + i
      BY <1>1, <1>3, <1>5
    <3> QED
      BY <1>3, <2>2, <3>1
  <2> QED
    BY <2>3, <2>4, <2>5 DEF Unread
<1>13. e.bytes = [i \in 1..size |-> off + i]
  <2>1. Bytes = [i \in 1..(w - r) |-> off + i] /\ Len(Bytes) = w - r
    BY <1>0, BytesAre
  <2>2. Bytes \in Seq(Nat)
    BY <1>1, <1>5, <2>1
  <2>3. SubSeq(Bytes, 1, size) \in Seq(Nat) /\ Len(SubSeq(Bytes, 1, size)) = size
    BY <1>5, <1>6, <1>1, <2>1, <2>2
  <2>4. ASSUME NEW i \in 1..size PROVE SubSeq(Bytes, 1, size)[i] = Bytes[i]
    <3>1. Len(Bytes) \in Nat /\ size <= Len(Bytes)
      BY <1>1, <1>6, <2>1
    <3> QED
      BY <1>5, <2>2, <3>1
  <2>5. \A i \in 1..size : Bytes[i] = off + i
    BY <1>1, <1>5, <1>6, <2>1
  <2>6. SubSeq(Bytes, 1, size) = [i \in 1..size |-> SubSeq(Bytes, 1, size)[i]]
    BY <2>3
  <2> QED
    BY <1>4, <2>4, <2>5, <2>6
<1>14. Delivered'
  <2> SUFFICES ASSUME NEW k \in 1..(d + 1)
               PROVE  /\ decoded'[k].frame = k
                      /\ decoded'[k].bytes = [i \in 1..sentFrames[k].size |-> Offset(k - 1) + i]
                      /\ decoded'[k].layers = {}
    BY <1>3, <1>7, <1>8 DEF Delivered
  <2>1. CASE k = d + 1
    <3>1. k - 1 = d
      BY <1>1, <2>1
    <3>2. e.layers = {}
      BY <1>2, <1>4 DEF StreamIInv, Undoable
    <3> QED
      BY <1>0, <1>4, <1>7, <1>13, <2>1, <3>1, <3>2
  <2>2. CASE k # d + 1
    <3>1. k \in 1..d
      BY <1>1, <2>2
    <3> QED
      BY <1>0, <1>7, <3>1 DEF StreamIInv, Delivered
  <2> QED
    BY <2>1, <2>2
<1> QED
  BY <1>10, <1>11, <1>12, <1>14 DEF StreamIInv

\* A step that leaves frames and buffer alone.
LEMMA Untouched ==
  ASSUME BufferTypes, FramesAbut, OffsetsGrow, Undoable, Unread, Delivered,
         UNCHANGED <<sentFrames, arrived, buf, r, w, decoded>>
  PROVE  BufferTypes' /\ FramesAbut' /\ OffsetsGrow' /\ Undoable' /\ Unread' /\ Delivered'
<1>1. /\ sentFrames' = sentFrames /\ arrived' = arrived /\ buf' = buf /\ r' = r /\ w' = w
      /\ decoded' = decoded
  OBVIOUS
<1>2. \A k : Offset(k)' = Offset(k)
  BY <1>1 DEF Offset
<1>3. Wire' = Wire
  BY <1>1 DEF Wire, Offset
<1>4. BufferTypes'
  BY <1>1 DEF BufferTypes, IsSequence, MaxCap, ReadBufferCap
<1>5. FramesAbut' /\ OffsetsGrow' /\ Undoable' /\ Delivered'
  <2>1. FramesAbut' /\ OffsetsGrow'
    BY <1>1, <1>2 DEF FramesAbut, OffsetsGrow
  <2>2. Undoable'
    BY <1>1 DEF Undoable
  <2>3. Delivered'
    BY <1>1, <1>2 DEF Delivered
  <2> QED
    BY <2>1, <2>2, <2>3
<1>6. Offset(Len(decoded))' = Offset(Len(decoded))
  BY <1>1 DEF Offset
<1>7. Unread'
  BY <1>1, <1>3, <1>6 DEF Unread
<1> QED
  BY <1>4, <1>5, <1>7

\* The loop ends with an error: the header at the front is the next frame's, and
\* that frame is too large.
LEMMA ProcessFailsKeeps ==
  ASSUME StreamIInv, ProcessFails
  PROVE  StreamIInv'
<1> DEFINE next == Len(decoded) + 1
<1>1. UNCHANGED <<sentFrames, arrived, buf, r, w, decoded>>
  BY DEF ProcessFails
<1>2. FrameAt(Bytes) = next /\ next \in 1..Len(sentFrames) /\ Len(sentFrames) \in Nat
  BY FrontFrame DEF ProcessFails, StreamIInv, BufferTypes, IsSequence
<1>3. TooLarge /\ readErr' = "too large"
  <2>1. next # 0
    BY <1>2
  <2> QED
    BY <1>2, <2>1 DEF ProcessFails
<1>4. sentFrames[next].size > MaxInboundSize
  BY <1>2, <1>3 DEF TooLarge
<1>5. next <= Len(sentFrames)
  BY <1>2
<1>6. LegalFits'
  BY <1>1, <1>3, <1>4, <1>5 DEF LegalFits
<1>7. BufferTypes' /\ FramesAbut' /\ OffsetsGrow' /\ Undoable' /\ Unread' /\ Delivered'
  BY <1>1, Untouched DEF StreamIInv
<1> QED
  BY <1>6, <1>7 DEF StreamIInv

\* The loop ends with the next frame, which decodes to too much.
LEMMA PrepareFailsKeeps ==
  ASSUME StreamIInv, PrepareFails
  PROVE  StreamIInv'
<1> DEFINE next == Len(decoded) + 1
<1>1. UNCHANGED <<sentFrames, arrived, buf, r, w, decoded>> /\ readErr' = "decoded too large"
  BY DEF PrepareFails
<1>2. FrameAt(Bytes) = next /\ next \in 1..Len(sentFrames) /\ Len(sentFrames) \in Nat
  BY FrontFrame DEF PrepareFails, Decodable, StreamIInv, BufferTypes, IsSequence
<1>3. Exceeds(sentFrames[next])
  BY <1>2 DEF PrepareFails
<1>4. next <= Len(sentFrames)
  BY <1>2
<1>5. LegalFits'
  BY <1>1, <1>3, <1>4 DEF LegalFits, Exceeds, Undone
<1>6. BufferTypes' /\ FramesAbut' /\ OffsetsGrow' /\ Undoable' /\ Unread' /\ Delivered'
  BY <1>1, Untouched DEF StreamIInv
<1> QED
  BY <1>5, <1>6 DEF StreamIInv

\* StreamIInv holds in every state of a stream and its read buffer.
THEOREM StreamInvariance == StreamSpec => []StreamIInv
<1>1. StreamIInv /\ [StreamNext]_streamVars => StreamIInv'
  <2> SUFFICES ASSUME StreamIInv, [StreamNext]_streamVars PROVE StreamIInv'
    OBVIOUS
  <2>1. ASSUME NEW body \in Bodies, NEW internal \in BOOLEAN, SendFrame(body, internal)
        PROVE  StreamIInv'
    BY <2>1, SendFrameKeeps
  <2>2. ASSUME ~Decodable, ~TooLarge, NEW n \in 1..ChunkSize, ReadChunk(n) PROVE StreamIInv'
    BY <2>2, ReadChunkKeeps
  <2>3. CASE ProcessFrame
    BY <2>3, ProcessFrameKeeps
  <2>4. CASE ProcessFails
    BY <2>4, ProcessFailsKeeps
  <2>5. CASE UNCHANGED streamVars
    <3>1. UNCHANGED <<sentFrames, arrived, buf, r, w, decoded, readErr>>
      BY <2>5 DEF streamVars
    <3>2. LegalFits'
      BY <3>1 DEF StreamIInv, LegalFits, Exceeds, Undone
    <3> QED
      BY <3>1, <3>2, Untouched DEF StreamIInv
  <2>6. CASE PrepareFails
    BY <2>6, PrepareFailsKeeps
  <2> QED
    BY <2>1, <2>2, <2>3, <2>4, <2>5, <2>6 DEF StreamNext
<1> QED
  BY StreamInitially, <1>1, PTL DEF StreamSpec

\* In whatever chunks the stream arrives, the handler gets every frame in order
\* and with its own bytes and content, and the buffer holds the bytes after them.
THEOREM Intact == StreamSpec => []FramesIntact
<1>1. StreamIInv => FramesIntact
  <2> SUFFICES ASSUME StreamIInv PROVE FramesIntact
    OBVIOUS
  <2>1. w - r = arrived - Offset(Len(decoded))
    BY DEF StreamIInv, Unread
  <2>2. Bytes = [i \in 1..(arrived - Offset(Len(decoded))) |-> Offset(Len(decoded)) + i]
    BY <2>1, BytesAre
  <2> QED
    BY <2>2 DEF StreamIInv, Delivered, FramesIntact
<1> QED
  BY <1>1, StreamInvariance, PTL

\* The read buffer has room for half a legal frame and a chunk, and a connection
\* ends for its data only with a next frame that is above MaxInboundSize or that
\* decodes to more than its transform's MaxDecodedSize.
THEOREM Fits == StreamSpec => []LegalFits
<1>1. StreamIInv => LegalFits
  BY DEF StreamIInv
<1> QED
  BY <1>1, StreamInvariance, PTL

-----------------------------------------------------------------------------
(* A node's components.                                                    *)

StartList == OptionComponents \o CoreComponents

\* In the order of the traversal, and in its reverse.
Ascending(s) == \A i, j \in 1..Len(s) : i < j => Precedes(s[i], s[j])
Descending(s) == \A i, j \in 1..Len(s) : i < j => Precedes(s[j], s[i])

\* Start gets past the registration only once: something it registers is there.
StartsOnce ==
  /\ running \in {"onInit", "init", "onStart", "start"} \/ inits # <<>> =>
       \E i \in 1..Len(StartList) : StartList[i] \in ToSet(order)
  /\ running = "onInit" => inits = <<>>
  /\ running \in {"onInit", "init"} => stops = <<>>

\* The Init hooks ran in the order of the traversal, each for a registered
\* component, and the traversal in progress continues this order.
InitsOrdered ==
  /\ ToSet(inits) = {c \in Component : "init" \in called[c]}
  /\ ToSet(inits) \subseteq ToSet(order) /\ Ascending(inits)
  /\ running = "init" =>
       /\ Ascending(todo) /\ ToSet(todo) \subseteq ToSet(order)
       /\ \A i \in 1..Len(inits), j \in 1..Len(todo) : Precedes(inits[i], todo[j])

\* How many of the Init hooks have no Stop hook yet.
Left == Len(inits) - Len(stops)

\* The Stop hooks ran for the last of inits, and the rest is still to visit.
StopsMirror ==
  /\ ToSet(stops) = {c \in Component : "stop" \in called[c]}
  /\ Len(stops) <= Len(inits)
  /\ \A k \in 1..Len(stops) : stops[k] = inits[Len(inits) - k + 1]
  /\ running = "stop" =>
       /\ Descending(todo)
       /\ \A k \in 1..Left : inits[k] \in ToSet(todo)

NodeIInv == NodeTypeOK /\ StartsOnce /\ InitsOrdered /\ StopsMirror

-----------------------------------------------------------------------------
\* The elements of a sequence.
LEMMA Elements ==
  ASSUME NEW S, NEW s \in Seq(S)
  PROVE  \A x : x \in ToSet(s) <=> \E i \in 1..Len(s) : s[i] = x
BY DEF ToSet

\* Appending adds one element.
LEMMA ElementsAppended ==
  ASSUME NEW S, NEW s \in Seq(S), NEW e \in S
  PROVE  ToSet(Append(s, e)) = ToSet(s) \cup {e}
<1> DEFINE t == Append(s, e)
<1>1. /\ t \in Seq(S) /\ Len(s) \in Nat /\ Len(t) = Len(s) + 1 /\ t[Len(s) + 1] = e
      /\ \A i \in 1..Len(s) : t[i] = s[i]
  OBVIOUS
<1>2. ASSUME NEW x \in ToSet(t) PROVE x \in ToSet(s) \cup {e}
  <2>1. PICK i \in 1..Len(t) : t[i] = x
    BY <1>1, <1>2, Elements
  <2>2. CASE i \in 1..Len(s)
    BY <1>1, <2>1, <2>2, Elements
  <2>3. CASE i = Len(s) + 1
    BY <1>1, <2>1, <2>3
  <2> QED
    BY <1>1, <2>2, <2>3
<1>3. ASSUME NEW x \in ToSet(s) PROVE x \in ToSet(t)
  <2>1. PICK i \in 1..Len(s) : s[i] = x
    BY <1>3, Elements
  <2>2. i \in 1..Len(t) /\ t[i] = x
    BY <1>1, <2>1
  <2> QED
    BY <1>1, <2>2, Elements
<1>4. e \in ToSet(t)
  <2>1. Len(s) + 1 \in 1..Len(t) /\ t[Len(s) + 1] = e
    BY <1>1
  <2> QED
    BY <1>1, <2>1, Elements
<1> QED
  BY <1>2, <1>3, <1>4

\* A component does not precede itself or what precedes it.
LEMMA Asymmetric ==
  ASSUME NodeTypeOK, NEW a \in Component, NEW b \in Component, Precedes(a, b)
  PROVE  ~Precedes(b, a) /\ a # b
<1>1. Priority[a] \in Int /\ Priority[b] \in Int
  BY ComponentAssumption
<1>2. Registered(a, b) => a # b /\ ~Registered(b, a)
  BY DEF Registered, NodeTypeOK, IsInjective
<1>3. Registered(a, b) \/ Priority[a] < Priority[b]
  BY DEF Precedes
<1>4. CASE Priority[a] < Priority[b]
  BY <1>1, <1>4 DEF Precedes
<1>5. CASE Priority[a] = Priority[b] /\ Registered(a, b)
  BY <1>1, <1>2, <1>5 DEF Precedes
<1> QED
  BY <1>4, <1>5 DEF Precedes

\* Hence no component comes twice in an ascending sequence.
LEMMA AscendingInjective ==
  ASSUME NodeTypeOK, NEW s \in Seq(Component), Ascending(s), NEW i \in 1..Len(s), NEW j \in 1..Len(s),
         s[i] = s[j]
  PROVE  i = j
<1>1. s[i] \in Component /\ s[j] \in Component
  OBVIOUS
<1>2. i < j \/ j < i => Precedes(s[i], s[j])
  BY DEF Ascending
<1> QED
  BY <1>1, <1>2, Asymmetric

\* Registering more leaves the order of the registered as it is.
LEMMA OrderGrows ==
  ASSUME NodeTypeOK, NEW more \in Seq(Component), order' = order \o more
  PROVE  /\ ToSet(order) \subseteq ToSet(order')
         /\ \A a, b : Precedes(a, b) => Precedes(a, b)'
<1>1. /\ order \in Seq(Component) /\ order' \in Seq(Component) /\ Len(order) <= Len(order')
      /\ \A i \in 1..Len(order) : order'[i] = order[i]
  BY DEF NodeTypeOK
<1>2. ToSet(order) \subseteq ToSet(order')
  BY <1>1 DEF ToSet
<1>3. ASSUME NEW a, NEW b, Registered(a, b) PROVE Registered(a, b)'
  BY <1>1, <1>3 DEF Registered
<1> QED
  BY <1>2, <1>3 DEF Precedes

\* What the traversals visit.
LEMMA Traversal ==
  ASSUME NodeTypeOK
  PROVE  /\ \A s \in OrderedComponents :
              s \in Seq(Component) /\ Ascending(s) /\ ToSet(s) = ToSet(order)
         /\ \A s \in ReverseOrder :
              s \in Seq(Component) /\ Descending(s) /\ ToSet(s) = ToSet(order)
<1>1. ToSet(order) \subseteq Component /\ Len(order) \in Nat
  BY DEF NodeTypeOK, ToSet
<1>2. ASSUME NEW s \in OrderedComponents
      PROVE  s \in Seq(Component) /\ Ascending(s) /\ ToSet(s) = ToSet(order)
  <2>1. s \in [1..Len(order) -> ToSet(order)] /\ ToSet(order) \subseteq ToSet(s) /\ Ascending(s)
    BY DEF OrderedComponents, Arrangement, Ascending
  <2>2. s \in Seq(Component)
    BY <2>1, <1>1
  <2> QED
    BY <2>1, <2>2 DEF ToSet
<1>3. ASSUME NEW s \in Seq(Component), Ascending(s)
      PROVE  /\ Reverse(s) \in Seq(Component) /\ Descending(Reverse(s))
             /\ ToSet(Reverse(s)) = ToSet(s)
  <2> DEFINE n == Len(s)
  <2>1. /\ Reverse(s) \in Seq(Component) /\ Len(Reverse(s)) = n
        /\ \A i \in 1..n : Reverse(s)[i] = s[n - i + 1]
    BY DEF Reverse
  <2>2. Descending(Reverse(s))
    <3> SUFFICES ASSUME NEW i \in 1..n, NEW j \in 1..n, i < j
                 PROVE  Precedes(s[n - j + 1], s[n - i + 1])
      BY <2>1 DEF Descending
    <3>1. n - j + 1 \in 1..n /\ n - i + 1 \in 1..n /\ n - j + 1 < n - i + 1
      OBVIOUS
    <3> QED
      BY <3>1, <1>3 DEF Ascending
  <2>3. \A i \in 1..n : s[i] = Reverse(s)[n - i + 1] /\ n - i + 1 \in 1..n
    BY <2>1
  <2>4. ToSet(Reverse(s)) \subseteq ToSet(s)
    <3> SUFFICES ASSUME NEW i \in 1..n PROVE Reverse(s)[i] \in ToSet(s)
      BY <2>1, Elements
    <3>1. n - i + 1 \in 1..n
      OBVIOUS
    <3> QED
      BY <3>1, <2>1, Elements
  <2>5. ToSet(s) \subseteq ToSet(Reverse(s))
    BY <2>1, <2>3 DEF ToSet
  <2> QED
    BY <2>1, <2>2, <2>4, <2>5
<1>4. ASSUME NEW s \in ReverseOrder
      PROVE  s \in Seq(Component) /\ Descending(s) /\ ToSet(s) = ToSet(order)
  <2>1. PICK o \in OrderedComponents : s = Reverse(o)
    BY DEF ReverseOrder
  <2> QED
    BY <2>1, <1>2, <1>3
<1> QED
  BY <1>2, <1>4

\* Registering what is not registered leaves every component registered once.
LEMMA RegisteredOnce ==
  ASSUME NodeTypeOK, NEW more \in Seq(Component),
         \A i \in 1..Len(more) : more[i] \notin ToSet(order) \cup {more[j] : j \in 1..(i - 1)}
  PROVE  order \o more \in Seq(Component) /\ IsInjective(order \o more)
<1> DEFINE n == Len(order)
           all == order \o more
<1>1. /\ order \in Seq(Component) /\ all \in Seq(Component) /\ Len(all) = n + Len(more)
      /\ n \in Nat /\ Len(more) \in Nat
  BY DEF NodeTypeOK
<1>2. \A i \in 1..Len(all) : all[i] = IF i <= n THEN order[i] ELSE more[i - n]
  BY <1>1
<1>3. ASSUME NEW i \in 1..Len(all), NEW j \in 1..Len(all), i < j PROVE all[i] # all[j]
  <2>1. CASE j <= n
    <3>1. i \in 1..n /\ j \in 1..n /\ i # j
      BY <2>1, <1>1, <1>3
    <3> QED
      BY <2>1, <3>1, <1>2 DEF NodeTypeOK, IsInjective
  <2>2. CASE n < j /\ i <= n
    <3>1. j - n \in 1..Len(more) /\ i \in 1..n
      BY <2>2, <1>1
    <3>2. order[i] \in ToSet(order)
      BY <3>1, <1>1 DEF ToSet
    <3>3. all[i] = order[i] /\ all[j] = more[j - n]
      BY <2>2, <1>1, <1>2
    <3> QED
      BY <3>1, <3>2, <3>3
  <2>3. CASE n < i
    <3>1. j - n \in 1..Len(more) /\ i - n \in 1..((j - n) - 1)
      BY <2>3, <1>1, <1>3
    <3>2. all[i] = more[i - n] /\ all[j] = more[j - n]
      BY <2>3, <1>1, <1>2, <1>3
    <3> QED
      BY <3>1, <3>2
  <2> QED
    BY <2>1, <2>2, <2>3, <1>1
<1>4. ASSUME NEW i \in 1..Len(all), NEW j \in 1..Len(all), all[i] = all[j] PROVE i = j
  <2>1. i = j \/ i < j \/ j < i
    BY <1>1
  <2> QED
    BY <2>1, <1>3, <1>4
<1> QED
  BY <1>1, <1>4 DEF IsInjective

\* A step that registers or leaves a traversal, and runs no Init or Stop hook.
LEMMA Remains ==
  ASSUME NodeIInv, NEW more \in Seq(Component), order' = order \o more,
         UNCHANGED <<inits, stops>>,
         {c \in Component : "init" \in called'[c]} = {c \in Component : "init" \in called[c]},
         {c \in Component : "stop" \in called'[c]} = {c \in Component : "stop" \in called[c]},
         UNCHANGED <<running, todo>> \/ running' \notin {"init", "stop"}
  PROVE  InitsOrdered' /\ StopsMirror'
<1>1. /\ ToSet(order) \subseteq ToSet(order')
      /\ \A a, b : Precedes(a, b) => Precedes(a, b)'
  BY OrderGrows DEF NodeIInv
<1>2. \A s : (Ascending(s) => Ascending(s)') /\ (Descending(s) => Descending(s)')
  BY <1>1 DEF Ascending, Descending
<1>3. InitsOrdered'
  <2>1. ToSet(inits)' = {c \in Component : "init" \in called'[c]} /\ ToSet(inits)' \subseteq ToSet(order)'
    <3>1. ToSet(inits)' = ToSet(inits)
      BY DEF ToSet
    <3> QED
      BY <3>1, <1>1 DEF NodeIInv, InitsOrdered
  <2>2. Ascending(inits)'
    BY <1>1 DEF NodeIInv, InitsOrdered, Ascending
  <2>3. ASSUME running' = "init"
        PROVE  /\ Ascending(todo)' /\ ToSet(todo)' \subseteq ToSet(order)'
               /\ \A i \in 1..Len(inits'), j \in 1..Len(todo') : Precedes(inits[i], todo[j])'
    <3>1. running = "init" /\ todo' = todo /\ inits' = inits
      BY <2>3
    <3>2. /\ Ascending(todo) /\ ToSet(todo) \subseteq ToSet(order)
          /\ \A i \in 1..Len(inits), j \in 1..Len(todo) : Precedes(inits[i], todo[j])
      BY <3>1 DEF NodeIInv, InitsOrdered
    <3>3. Ascending(todo)'
      BY <3>1, <3>2, <1>1 DEF Ascending
    <3>4. ToSet(todo)' = ToSet(todo)
      BY <3>1 DEF ToSet
    <3> QED
      BY <3>1, <3>2, <3>3, <3>4, <1>1
  <2> QED
    BY <2>1, <2>2, <2>3 DEF InitsOrdered
<1>4. StopsMirror'
  <2>1. ASSUME running' = "stop"
        PROVE  Descending(todo)' /\ \A k \in 1..Left' : inits'[k] \in ToSet(todo)'
    <3>1. running = "stop" /\ todo' = todo /\ inits' = inits /\ Left' = Left
      BY <2>1 DEF Left
    <3>2. Descending(todo) /\ \A k \in 1..Left : inits[k] \in ToSet(todo)
      BY <3>1 DEF NodeIInv, StopsMirror
    <3> QED
      BY <3>1, <3>2, <1>1 DEF Descending, ToSet
  <2> QED
    BY <2>1 DEF NodeIInv, StopsMirror, ToSet
<1> QED
  BY <1>3, <1>4

\* Manager.Add of a component that is not registered.
LEMMA RegisterKeeps ==
  ASSUME NodeIInv, NEW c \in Added, AddComponent(c)
  PROVE  NodeIInv'
<1>1. <<c>> \in Seq(Component) /\ order' = order \o <<c>>
  BY DEF AddComponent, NodeIInv, NodeTypeOK, Component
<1>2. InitsOrdered' /\ StopsMirror'
  BY <1>1, Remains DEF AddComponent
<1>3. order' \in Seq(Component) /\ IsInjective(order')
  <2>1. \A i \in 1..Len(<<c>>) : <<c>>[i] \notin ToSet(order) \cup {<<c>>[j] : j \in 1..(i - 1)}
    BY DEF AddComponent
  <2> QED
    BY <1>1, <2>1, RegisteredOnce DEF NodeIInv
<1>4. NodeTypeOK'
  BY <1>3 DEF NodeIInv, NodeTypeOK, AddComponent
<1>5. StartsOnce'
  <2>1. ToSet(order) \subseteq ToSet(order')
    BY <1>1, OrderGrows DEF NodeIInv
  <2> QED
    BY <2>1 DEF NodeIInv, StartsOnce, AddComponent, StartList
<1> QED
  BY <1>2, <1>4, <1>5 DEF NodeIInv

\* Start gets past the registration only if nothing was initialised before.
LEMMA StartKeeps ==
  ASSUME NodeIInv, Start
  PROVE  NodeIInv'
<1> DEFINE list == StartList
           taken == Duplicates(list)
<1>1. list \in Seq(Component) /\ Len(list) \in Nat /\ Len(list) > 0
  <2>1. CoreComponents \in Seq(Component) /\ OptionComponents \in Seq(Component)
    BY ComponentAssumption DEF Component
  <2> QED
    BY <2>1, ComponentAssumption DEF StartList
<1>2. running = "none" /\ UNCHANGED <<state, called, nodePhase, todo, inits, stops>>
  BY DEF Start
<1>3. \A i \in 1..Len(list) : list[i] \in ToSet(order) => i \in taken
  BY DEF Duplicates
<1>4. CASE taken = {}
  <2>1. order' = order \o list /\ running' = "onInit"
    BY <1>4 DEF Start, StartList
  <2>2. InitsOrdered' /\ StopsMirror'
    BY <1>1, <1>2, <2>1, Remains
  <2>3. order' \in Seq(Component) /\ IsInjective(order')
    <3>1. \A i \in 1..Len(list) : list[i] \notin ToSet(order) \cup {list[j] : j \in 1..(i - 1)}
      BY <1>4 DEF Duplicates
    <3> QED
      BY <1>1, <2>1, <3>1, RegisteredOnce DEF NodeIInv
  <2>4. NodeTypeOK'
    BY <1>2, <2>1, <2>3 DEF NodeIInv, NodeTypeOK
  <2>5. inits = <<>> /\ stops = <<>>
    <3>1. inits = <<>>
      BY <1>3, <1>4 DEF NodeIInv, StartsOnce
    <3> QED
      BY <3>1 DEF NodeIInv, StopsMirror, NodeTypeOK
  <2>6. list[1] \in ToSet(order') /\ 1 \in 1..Len(list)
    <3>1. /\ Len(order) \in Nat /\ Len(order') = Len(order) + Len(list)
          /\ order'[Len(order) + 1] = list[1] /\ order' \in Seq(Component)
      BY <1>1, <2>1, <2>3 DEF NodeIInv, NodeTypeOK
    <3>2. Len(order) + 1 \in 1..Len(order') /\ 1 \in 1..Len(list)
      BY <1>1, <3>1
    <3> QED
      BY <3>1, <3>2, Elements
  <2>7. StartsOnce'
    <3>1. \E i \in 1..Len(StartList) : StartList[i] \in ToSet(order')
      BY <2>6
    <3> QED
      BY <1>2, <2>1, <2>5, <3>1 DEF StartsOnce, StartList
  <2> QED
    BY <2>2, <2>4, <2>7 DEF NodeIInv
<1>5. CASE taken # {}
  <2> DEFINE m == Min(taken)
             more == SubSeq(list, 1, m - 1)
  <2>1. m \in 1..Len(list) /\ \A i \in 1..(m - 1) : i \notin taken
    <3>1. taken \subseteq 1..Len(list)
      BY DEF Duplicates
    <3>2. m \in taken /\ \A y \in taken : m <= y
      BY <1>5, <3>1, MinIsMember
    <3> QED
      BY <3>1, <3>2
  <2>2. order' = order \o more /\ running' = "none"
    BY <1>5 DEF Start, StartList
  <2>3. more \in Seq(Component) /\ Len(more) = m - 1 /\ \A i \in 1..(m - 1) : more[i] = list[i]
    BY <1>1, <2>1
  <2>4. InitsOrdered' /\ StopsMirror'
    BY <1>2, <2>2, <2>3, Remains
  <2>5. order' \in Seq(Component) /\ IsInjective(order')
    <3>1. ASSUME NEW i \in 1..(m - 1)
          PROVE  more[i] \notin ToSet(order) \cup {more[j] : j \in 1..(i - 1)}
      <4>1. i \in 1..Len(list) /\ i \notin taken /\ more[i] = list[i]
        BY <2>1, <2>3
      <4>2. list[i] \notin ToSet(order) \cup {list[j] : j \in 1..(i - 1)}
        BY <4>1 DEF Duplicates
      <4>3. \A j \in 1..(i - 1) : more[j] = list[j]
        BY <2>1, <2>3
      <4> QED
        BY <4>1, <4>2, <4>3
    <3> QED
      BY <2>2, <2>3, <3>1, RegisteredOnce DEF NodeIInv
  <2>6. NodeTypeOK'
    BY <1>2, <2>2, <2>5 DEF NodeIInv, NodeTypeOK
  <2>7. StartsOnce'
    <3>1. ToSet(order) \subseteq ToSet(order')
      BY <2>2, <2>3, OrderGrows DEF NodeIInv
    <3> QED
      BY <1>2, <2>2, <3>1 DEF NodeIInv, StartsOnce, StartList
  <2> QED
    BY <2>4, <2>6, <2>7 DEF NodeIInv
<1> QED
  BY <1>4, <1>5

\* A step that registers nothing and runs no Init or Stop hook.
LEMMA RestKeeps ==
  ASSUME NodeIInv, NodeTypeOK', UNCHANGED <<order, inits, stops>>,
         {c \in Component : "init" \in called'[c]} = {c \in Component : "init" \in called[c]},
         {c \in Component : "stop" \in called'[c]} = {c \in Component : "stop" \in called[c]},
         \/ UNCHANGED <<running, todo>>
         \/ running' = "none"
         \/ running \in {"init", "onStart", "start"} /\ running' \in {"onStart", "start"}
  PROVE  NodeIInv'
<1>1. <<>> \in Seq(Component) /\ order' = order \o <<>>
  BY DEF NodeIInv, NodeTypeOK
<1>2. InitsOrdered' /\ StopsMirror'
  BY <1>1, Remains
<1>3. StartsOnce'
  BY DEF NodeIInv, StartsOnce, StartList, ToSet
<1> QED
  BY <1>2, <1>3 DEF NodeIInv

\* OnInit or OnStart, and what the traversal behind it will visit.
LEMMA HookKeeps ==
  ASSUME NodeIInv, Hook("onInit", "init") \/ Hook("onStart", "start")
  PROVE  NodeIInv'
<1>1. /\ UNCHANGED <<order, state, called, nodePhase, inits, stops>>
      /\ running \in {"onInit", "onStart"}
  BY DEF Hook
<1>2. NodeTypeOK'
  <2>1. todo' \in Seq(Component)
    BY Traversal DEF Hook, NodeIInv, NodeTypeOK
  <2> QED
    BY <2>1, <1>1 DEF Hook, NodeIInv, NodeTypeOK
<1>3. CASE running' = "init"
  <2>1. running = "onInit" /\ todo' \in OrderedComponents /\ inits = <<>>
    BY <1>3 DEF Hook, NodeIInv, StartsOnce
  <2>2. Ascending(todo') /\ ToSet(todo') = ToSet(order)
    BY <2>1, Traversal DEF NodeIInv
  <2>3. InitsOrdered'
    <3>1. Ascending(todo)' /\ ToSet(todo)' \subseteq ToSet(order)'
      <4>1. \A a, b : Precedes(a, b)' <=> Precedes(a, b)
        BY <1>1 DEF Precedes, Registered
      <4>2. ToSet(order)' = ToSet(order)
        BY <1>1 DEF ToSet
      <4>3. Ascending(todo)'
        BY <2>2, <4>1 DEF Ascending
      <4> QED
        BY <2>2, <4>2, <4>3
    <3>2. ToSet(inits)' = ToSet(inits) /\ ToSet(order)' = ToSet(order) /\ Ascending(inits)'
      BY <1>1, <2>1 DEF ToSet, Ascending
    <3>3. \A i \in 1..Len(inits'), j \in 1..Len(todo') : Precedes(inits[i], todo[j])'
      BY <1>1, <2>1
    <3>4. called' = called /\ inits' = inits /\ order' = order
      BY <1>1
    <3> QED
      BY <3>1, <3>2, <3>3, <3>4 DEF NodeIInv, InitsOrdered
  <2>4. StartsOnce' /\ StopsMirror'
    <3>1. StartsOnce'
      BY <1>1, <1>3, <2>1 DEF NodeIInv, StartsOnce, StartList, ToSet
    <3>2. StopsMirror'
      BY <1>1, <1>3 DEF NodeIInv, StopsMirror, ToSet
    <3> QED
      BY <3>1, <3>2
  <2> QED
    BY <1>2, <2>3, <2>4 DEF NodeIInv
<1>4. CASE running' # "init"
  <2>1. running' = "none" \/ (running = "onStart" /\ running' = "start")
    BY <1>4 DEF Hook
  <2> QED
    BY <1>1, <1>2, <2>1, RestKeeps
<1> QED
  BY <1>3, <1>4

\* Controller.Init runs the hook of the next component behind all before it.
LEMMA InitNextKeeps ==
  ASSUME NodeIInv, InitNext
  PROVE  NodeIInv'
<1> DEFINE c == Head(todo)
<1>1. /\ running = "init" /\ todo \in Seq(Component) /\ todo # <<>>
      /\ c \in Component /\ Tail(todo) \in Seq(Component)
      /\ Len(Tail(todo)) = Len(todo) - 1 /\ Len(todo) \in Nat /\ Len(todo) >= 1 /\ todo[1] = c
      /\ \A i \in 1..(Len(todo) - 1) : Tail(todo)[i] = todo[i + 1]
      /\ UNCHANGED <<order, nodePhase, stops>>
  BY DEF InitNext, NodeIInv, NodeTypeOK
<1>2. CASE running' = "none" /\ UNCHANGED <<state, called, todo, inits>>
  <2>1. NodeTypeOK'
    BY <1>1, <1>2 DEF NodeIInv, NodeTypeOK
  <2> QED
    BY <1>1, <1>2, <2>1, RestKeeps
<1>3. CASE /\ called' = [called EXCEPT ![c] = @ \cup {"init"}] /\ inits' = Append(inits, c)
           /\ \/ /\ state' = [state EXCEPT ![c] = "inited"]
                 /\ todo' = Tail(todo) /\ UNCHANGED running
              \/ running' = "none" /\ UNCHANGED <<state, todo>>
  <2> DEFINE n == Len(inits)
  <2>1. NodeTypeOK'
    <3>1. called' \in [Component -> SUBSET {"init", "start", "stop"}]
      <4>1. called[c] \cup {"init"} \in SUBSET {"init", "start", "stop"}
        BY <1>1 DEF NodeIInv, NodeTypeOK
      <4> QED
        BY <1>1, <1>3, <4>1 DEF NodeIInv, NodeTypeOK
    <3>2. state' \in [Component -> {"new", "inited", "started", "stopped"}]
      BY <1>1, <1>3 DEF NodeIInv, NodeTypeOK
    <3>3. inits' \in Seq(Component)
      BY <1>1, <1>3 DEF NodeIInv, NodeTypeOK
    <3>4. todo' \in Seq(Component) /\ running' \in {"init", "none"}
      BY <1>1, <1>3
    <3> QED
      BY <1>1, <3>1, <3>2, <3>3, <3>4 DEF NodeIInv, NodeTypeOK
  <2>2. /\ inits \in Seq(Component) /\ inits' \in Seq(Component) /\ n \in Nat /\ Len(inits') = n + 1
        /\ \A i \in 1..n : inits'[i] = inits[i]
        /\ inits'[n + 1] = c
    BY <1>1, <1>3 DEF NodeIInv, NodeTypeOK
  <2>3. stops = <<>> /\ stops' = <<>>
    BY <1>1 DEF NodeIInv, StartsOnce
  <2>4. /\ Ascending(todo) /\ ToSet(todo) \subseteq ToSet(order)
        /\ \A i \in 1..n, j \in 1..Len(todo) : Precedes(inits[i], todo[j])
        /\ Ascending(inits) /\ ToSet(inits) = {x \in Component : "init" \in called[x]}
        /\ ToSet(inits) \subseteq ToSet(order)
    BY <1>1 DEF NodeIInv, InitsOrdered
  <2>5. ToSet(inits') = ToSet(inits) \cup {c}
    BY <1>1, <1>3, <2>2, ElementsAppended
  <2>6. \A i, j \in 1..(n + 1) : i < j => Precedes(inits'[i], inits'[j])
    <3> SUFFICES ASSUME NEW i \in 1..(n + 1), NEW j \in 1..(n + 1), i < j
                 PROVE  Precedes(inits'[i], inits'[j])
      OBVIOUS
    <3>1. i \in 1..n /\ inits'[i] = inits[i]
      BY <2>2
    <3>2. CASE j \in 1..n
      BY <2>2, <2>4, <3>1, <3>2 DEF Ascending
    <3>3. CASE j = n + 1
      BY <1>1, <2>2, <2>4, <3>1, <3>3
    <3> QED
      BY <2>2, <3>2, <3>3
  <2>7. \A a, b : Precedes(a, b)' <=> Precedes(a, b)
    BY <1>1 DEF Precedes, Registered
  <2>8. InitsOrdered'
    <3>1. ToSet(inits)' = {x \in Component : "init" \in called'[x]}
      <4>1. \A x \in Component : "init" \in called'[x] <=> x = c \/ "init" \in called[x]
        BY <1>1, <1>3 DEF NodeIInv, NodeTypeOK
      <4> QED
        BY <2>4, <2>5, <4>1, <1>1
    <3>2. ToSet(inits)' \subseteq ToSet(order)'
      <4>1. c \in ToSet(order)
        BY <1>1, <2>4, Elements
      <4> QED
        BY <1>1, <2>4, <2>5, <4>1
    <3>3. Ascending(inits)'
      BY <2>2, <2>6, <2>7 DEF Ascending
    <3>4. ASSUME running' = "init"
          PROVE  /\ Ascending(todo)' /\ ToSet(todo)' \subseteq ToSet(order)'
                 /\ \A i \in 1..Len(inits'), j \in 1..Len(todo') : Precedes(inits[i], todo[j])'
      <4>1. todo' = Tail(todo)
        BY <1>3, <3>4, <1>1
      <4>2. /\ Len(todo') = Len(todo) - 1 /\ todo' \in Seq(Component)
            /\ \A j \in 1..Len(todo') : j + 1 \in 1..Len(todo) /\ todo'[j] = todo[j + 1]
        BY <1>1, <4>1
      <4>3. Ascending(todo)'
        <5> SUFFICES ASSUME NEW i \in 1..Len(todo'), NEW j \in 1..Len(todo'), i < j
                     PROVE  Precedes(todo'[i], todo'[j])
          BY <2>7 DEF Ascending
        <5> QED
          BY <4>2, <2>4 DEF Ascending
      <4>4. ToSet(todo') \subseteq ToSet(order)
        <5> SUFFICES ASSUME NEW j \in 1..Len(todo') PROVE todo'[j] \in ToSet(order)
          BY <4>2, Elements
        <5> QED
          BY <1>1, <2>4, <4>2, Elements
      <4>5. ASSUME NEW i \in 1..(n + 1), NEW j \in 1..Len(todo') PROVE Precedes(inits'[i], todo'[j])
        <5>1. j + 1 \in 1..Len(todo) /\ todo'[j] = todo[j + 1] /\ 1 < j + 1 /\ 1 \in 1..Len(todo)
          BY <4>2, <1>1
        <5>2. CASE i \in 1..n
          BY <2>2, <2>4, <5>1, <5>2
        <5>3. CASE i = n + 1
          BY <1>1, <2>2, <2>4, <5>1, <5>3 DEF Ascending
        <5> QED
          BY <2>2, <5>2, <5>3
      <4>6. \A i \in 1..Len(inits'), j \in 1..Len(todo') : Precedes(inits[i], todo[j])'
        BY <2>2, <2>7, <4>5
      <4> QED
        BY <1>1, <4>3, <4>4, <4>6 DEF ToSet
    <3> QED
      BY <3>1, <3>2, <3>3, <3>4 DEF InitsOrdered
  <2>9. StopsMirror'
    <3>1. {x \in Component : "stop" \in called'[x]} = {x \in Component : "stop" \in called[x]}
      BY <1>1, <1>3 DEF NodeIInv, NodeTypeOK
    <3>2. running' # "stop"
      BY <1>1, <1>3
    <3>3. ToSet(stops)' = ToSet(stops) /\ Len(stops') = 0
      BY <2>3 DEF ToSet
    <3> QED
      BY <2>2, <3>1, <3>2, <3>3 DEF NodeIInv, StopsMirror
  <2>10. StartsOnce'
    BY <1>1, <1>3, <2>3 DEF NodeIInv, StartsOnce, StartList, ToSet
  <2> QED
    BY <2>1, <2>8, <2>9, <2>10 DEF NodeIInv
<1> QED
  BY <1>2, <1>3 DEF InitNext

\* Controller.Start, and the ends of the traversals.
LEMMA StartNextKeeps ==
  ASSUME NodeIInv, InitDone \/ StartNext \/ StartDone \/ StopDone
  PROVE  NodeIInv'
<1>1. CASE InitDone \/ StartDone \/ StopDone
  <2>1. /\ UNCHANGED <<order, state, called, todo, inits, stops>>
        /\ running' = "none" \/ (running = "init" /\ running' = "onStart")
        /\ nodePhase' \in {nodePhase, "running", "stopped"}
    BY <1>1 DEF InitDone, StartDone, StopDone
  <2>2. NodeTypeOK'
    BY <2>1 DEF NodeIInv, NodeTypeOK
  <2> QED
    BY <2>1, <2>2, RestKeeps
<1>2. CASE StartNext
  <2> DEFINE c == Head(todo)
  <2>1. /\ c \in Component /\ Tail(todo) \in Seq(Component) /\ running = "start"
        /\ UNCHANGED <<order, nodePhase, inits, stops>>
        /\ running' \in {"start", "none"} /\ todo' \in {todo, Tail(todo)}
        /\ called' = called \/ called' = [called EXCEPT ![c] = @ \cup {"start"}]
        /\ state' = state \/ state' = [state EXCEPT ![c] = "started"]
    BY <1>2 DEF StartNext, NodeIInv, NodeTypeOK
  <2>2. /\ called' \in [Component -> SUBSET {"init", "start", "stop"}]
        /\ \A x \in Component : called'[x] \in {called[x], called[x] \cup {"start"}}
    <3>1. called[c] \cup {"start"} \in SUBSET {"init", "start", "stop"}
      BY <2>1 DEF NodeIInv, NodeTypeOK
    <3> QED
      BY <2>1, <3>1 DEF NodeIInv, NodeTypeOK
  <2>3. state' \in [Component -> {"new", "inited", "started", "stopped"}]
    BY <2>1 DEF NodeIInv, NodeTypeOK
  <2>4. NodeTypeOK'
    BY <2>1, <2>2, <2>3 DEF NodeIInv, NodeTypeOK
  <2>5. /\ {x \in Component : "init" \in called'[x]} = {x \in Component : "init" \in called[x]}
        /\ {x \in Component : "stop" \in called'[x]} = {x \in Component : "stop" \in called[x]}
    BY <2>2
  <2> QED
    BY <2>1, <2>4, <2>5, RestKeeps
<1> QED
  BY <1>1, <1>2

\* Shutdown visits all that is registered, hence all that was initialised.
LEMMA ShutdownKeeps ==
  ASSUME NodeIInv, Shutdown
  PROVE  NodeIInv'
<1>1. /\ running = "none" /\ running' = "stop" /\ todo' \in ReverseOrder
      /\ UNCHANGED <<order, state, called, nodePhase, inits, stops>>
  BY DEF Shutdown
<1>2. todo' \in Seq(Component) /\ Descending(todo') /\ ToSet(todo') = ToSet(order)
  BY <1>1, Traversal DEF NodeIInv
<1>3. NodeTypeOK'
  BY <1>1, <1>2 DEF NodeIInv, NodeTypeOK
<1>4. InitsOrdered' /\ StartsOnce'
  <2>1. \A a, b : Precedes(a, b)' <=> Precedes(a, b)
    BY <1>1 DEF Precedes, Registered
  <2>2. Ascending(inits)'
    BY <1>1, <2>1 DEF NodeIInv, InitsOrdered, Ascending
  <2>3. ToSet(inits)' = ToSet(inits) /\ ToSet(order)' = ToSet(order)
    BY <1>1 DEF ToSet
  <2> QED
    BY <1>1, <2>2, <2>3 DEF NodeIInv, InitsOrdered, StartsOnce, StartList
<1>5. StopsMirror'
  <2>1. Descending(todo)'
    <3>1. \A a, b : Precedes(a, b)' <=> Precedes(a, b)
      BY <1>1 DEF Precedes, Registered
    <3> QED
      BY <1>2, <3>1 DEF Descending
  <2>2. \A k \in 1..Left' : inits'[k] \in ToSet(todo')
    <3> SUFFICES ASSUME NEW k \in 1..Left PROVE inits[k] \in ToSet(order)
      BY <1>1, <1>2 DEF Left
    <3>1. k \in 1..Len(inits) /\ inits \in Seq(Component)
      BY DEF Left, NodeIInv, NodeTypeOK
    <3> QED
      BY <3>1, Elements DEF NodeIInv, InitsOrdered
  <2>3. ToSet(todo)' = ToSet(todo') /\ ToSet(stops)' = ToSet(stops)
    BY <1>1 DEF ToSet
  <2> QED
    BY <1>1, <2>1, <2>2, <2>3 DEF NodeIInv, StopsMirror
<1> QED
  BY <1>3, <1>4, <1>5 DEF NodeIInv

\* Controller.Stop runs the hook of a component that is the last initialised one
\* without a Stop hook, or none.
LEMMA StopNextKeeps ==
  ASSUME NodeIInv, StopNext
  PROVE  NodeIInv'
<1> DEFINE c == Head(todo)
           n == Len(inits)
           m == Len(stops)
<1>1. /\ running = "stop" /\ todo \in Seq(Component) /\ todo # <<>>
      /\ c \in Component /\ todo' = Tail(todo) /\ Tail(todo) \in Seq(Component)
      /\ Len(Tail(todo)) = Len(todo) - 1 /\ Len(todo) \in Nat /\ Len(todo) >= 1 /\ todo[1] = c
      /\ \A i \in 1..(Len(todo) - 1) : Tail(todo)[i] = todo[i + 1]
      /\ UNCHANGED <<order, nodePhase, running, inits>>
  BY DEF StopNext, NodeIInv, NodeTypeOK
<1>2. /\ inits \in Seq(Component) /\ stops \in Seq(Component) /\ n \in Nat /\ m \in Nat /\ m <= n
      /\ \A k \in 1..m : stops[k] = inits[n - k + 1]
      /\ ToSet(stops) = {x \in Component : "stop" \in called[x]}
      /\ Descending(todo) /\ \A k \in 1..(n - m) : inits[k] \in ToSet(todo)
  BY <1>1 DEF NodeIInv, NodeTypeOK, StopsMirror, Left
<1>3. /\ ToSet(inits) = {x \in Component : "init" \in called[x]}
      /\ Ascending(inits) /\ ToSet(inits) \subseteq ToSet(order)
  BY DEF NodeIInv, InitsOrdered
<1>4. \A a, b : Precedes(a, b)' <=> Precedes(a, b)
  BY <1>1 DEF Precedes, Registered
<1>5. ASSUME NEW k \in 1..n PROVE "stop" \in called[inits[k]] <=> k > n - m
  <2>1. inits[k] \in Component
    BY <1>2
  <2>2. ASSUME k > n - m PROVE inits[k] \in ToSet(stops)
    <3>1. n - k + 1 \in 1..m /\ n - (n - k + 1) + 1 = k
      BY <1>2, <2>2
    <3> QED
      BY <1>2, <3>1, Elements
  <2>3. ASSUME inits[k] \in ToSet(stops) PROVE k > n - m
    <3>1. PICK l \in 1..m : stops[l] = inits[k]
      BY <1>2, <2>3, Elements
    <3>2. n - l + 1 \in 1..n /\ inits[n - l + 1] = inits[k]
      BY <1>2, <3>1
    <3>3. n - l + 1 = k
      BY <1>2, <1>3, <3>2, AscendingInjective DEF NodeIInv
    <3> QED
      BY <1>2, <3>3
  <2> QED
    BY <1>2, <2>1, <2>2, <2>3
<1>6. ASSUME NEW k \in 1..(n - m), inits[k] # c PROVE inits[k] \in ToSet(todo')
  <2>1. inits[k] \in ToSet(todo) /\ todo \in Seq(Component)
    BY <1>1, <1>2
  <2>2. PICK j \in 1..Len(todo) : todo[j] = inits[k]
    BY <2>1, Elements
  <2>3. j - 1 \in 1..Len(todo') /\ todo'[j - 1] = todo[j]
    BY <1>1, <1>6, <2>2
  <2> QED
    BY <1>1, <2>2, <2>3, Elements
<1>7. Descending(todo)'
  <2>1. \A j \in 1..Len(todo') : j + 1 \in 1..Len(todo) /\ todo'[j] = todo[j + 1]
    BY <1>1
  <2> SUFFICES ASSUME NEW i \in 1..Len(todo'), NEW j \in 1..Len(todo'), i < j
               PROVE  Precedes(todo'[j], todo'[i])
    BY <1>4 DEF Descending
  <2> QED
    BY <1>1, <1>2, <2>1 DEF Descending
<1>8. Ascending(inits)' /\ ToSet(inits)' = ToSet(inits) /\ ToSet(order)' = ToSet(order)
  BY <1>1, <1>3, <1>4 DEF Ascending, ToSet
<1>9. CASE ("stop" \in called[c] \/ "init" \notin called[c]) /\ UNCHANGED <<state, called, stops>>
  <2>1. \A k \in 1..(n - m) : inits[k] # c
    <3> SUFFICES ASSUME NEW k \in 1..(n - m), inits[k] = c PROVE FALSE
      OBVIOUS
    <3>1. k \in 1..n /\ ~(k > n - m)
      BY <1>2
    <3>2. "init" \in called[c] /\ "stop" \notin called[c]
      BY <1>2, <1>3, <1>5, <3>1, Elements
    <3> QED
      BY <3>2, <1>9
  <2>2. Left' = n - m /\ \A k \in 1..(n - m) : inits[k] \in ToSet(todo')
    BY <1>1, <1>6, <1>9, <2>1 DEF Left
  <2>3. NodeTypeOK'
    BY <1>1, <1>9 DEF NodeIInv, NodeTypeOK
  <2>4. StopsMirror'
    <3>1. ToSet(stops)' = ToSet(stops) /\ ToSet(todo)' = ToSet(todo')
      BY <1>9 DEF ToSet
    <3> QED
      BY <1>1, <1>2, <1>7, <1>9, <2>2, <3>1 DEF StopsMirror
  <2>5. InitsOrdered' /\ StartsOnce'
    BY <1>1, <1>3, <1>8, <1>9 DEF NodeIInv, InitsOrdered, StartsOnce, StartList
  <2> QED
    BY <2>3, <2>4, <2>5 DEF NodeIInv
<1>10. CASE /\ ~("stop" \in called[c] \/ "init" \notin called[c])
            /\ called' = [called EXCEPT ![c] = @ \cup {"stop"}]
            /\ stops' = Append(stops, c)
            /\ state' = [state EXCEPT ![c] = "stopped"] \/ UNCHANGED state
  <2>1. PICK k \in 1..n : inits[k] = c
    BY <1>1, <1>2, <1>3, <1>10, Elements
  <2>2. k \in 1..(n - m)
    BY <1>2, <1>5, <1>10, <2>1
  <2>3. k = n - m
    <3> SUFFICES ASSUME k < n - m PROVE FALSE
      BY <1>2, <2>2
    <3>1. n - m \in 1..n /\ n - m \in 1..(n - m) /\ k \in 1..n
      BY <1>2, <2>2
    <3>2. Precedes(c, inits[n - m]) /\ inits[n - m] \in Component
      BY <1>2, <1>3, <2>1, <3>1 DEF Ascending
    <3>3. inits[n - m] \in ToSet(todo) /\ todo \in Seq(Component)
      BY <1>1, <1>2, <3>1
    <3>4. PICK j \in 1..Len(todo) : todo[j] = inits[n - m]
      BY <3>3, Elements
    <3>5. c # inits[n - m] /\ ~Precedes(inits[n - m], c)
      BY <1>1, <3>2, Asymmetric DEF NodeIInv
    <3>6. j > 1 /\ 1 \in 1..Len(todo)
      BY <1>1, <3>4, <3>5
    <3> QED
      BY <1>1, <1>2, <3>4, <3>5, <3>6 DEF Descending
  <2>4. /\ Len(stops') = m + 1 /\ stops' \in Seq(Component) /\ stops'[m + 1] = c
        /\ \A l \in 1..m : stops'[l] = stops[l]
    BY <1>1, <1>2, <1>10
  <2>5. NodeTypeOK'
    <3>1. called' \in [Component -> SUBSET {"init", "start", "stop"}]
      <4>1. called[c] \cup {"stop"} \in SUBSET {"init", "start", "stop"}
        BY <1>1 DEF NodeIInv, NodeTypeOK
      <4> QED
        BY <1>1, <1>10, <4>1 DEF NodeIInv, NodeTypeOK
    <3>2. state' \in [Component -> {"new", "inited", "started", "stopped"}]
      BY <1>1, <1>10 DEF NodeIInv, NodeTypeOK
    <3> QED
      BY <1>1, <2>4, <3>1, <3>2 DEF NodeIInv, NodeTypeOK
  <2>6. \A x \in Component :
          /\ "init" \in called'[x] <=> "init" \in called[x]
          /\ "stop" \in called'[x] <=> x = c \/ "stop" \in called[x]
    BY <1>1, <1>10 DEF NodeIInv, NodeTypeOK
  <2>7. ToSet(stops') = ToSet(stops) \cup {c}
    BY <1>1, <1>2, <1>10, ElementsAppended
  <2>8. ASSUME NEW l \in 1..(n - (m + 1)) PROVE inits[l] \in ToSet(todo')
    <3>1. l \in 1..(n - m) /\ l \in 1..n /\ n - m \in 1..n /\ l # n - m
      BY <1>2, <2>2
    <3>2. inits[l] # c
      BY <1>2, <1>3, <2>1, <2>3, <3>1, AscendingInjective DEF NodeIInv
    <3> QED
      BY <1>6, <3>1, <3>2
  <2>9. StopsMirror'
    <3>1. ToSet(stops)' = {x \in Component : "stop" \in called'[x]}
      BY <1>1, <1>2, <2>6, <2>7
    <3>2. Len(stops') <= Len(inits') /\ Left' = n - (m + 1)
      BY <1>1, <1>2, <2>2, <2>4 DEF Left
    <3>3. ASSUME NEW l \in 1..Len(stops') PROVE stops'[l] = inits'[Len(inits') - l + 1]
      <4>1. CASE l \in 1..m
        BY <1>1, <1>2, <2>4, <4>1
      <4>2. CASE l = m + 1
        <5>1. n - l + 1 = n - m
          BY <1>2, <4>2
        <5> QED
          BY <1>1, <2>1, <2>3, <2>4, <4>2, <5>1
      <4> QED
        BY <1>2, <2>4, <4>1, <4>2
    <3>4. \A l \in 1..Left' : inits'[l] \in ToSet(todo)'
      BY <1>1, <2>8, <3>2
    <3> QED
      BY <1>7, <3>1, <3>2, <3>3, <3>4 DEF StopsMirror
  <2>10. InitsOrdered' /\ StartsOnce'
    <3>1. ToSet(inits)' = {x \in Component : "init" \in called'[x]}
      BY <1>3, <1>8, <2>6
    <3> QED
      BY <1>1, <1>3, <1>8, <3>1 DEF NodeIInv, InitsOrdered, StartsOnce, StartList
  <2> QED
    BY <2>5, <2>9, <2>10 DEF NodeIInv
<1> QED
  BY <1>9, <1>10 DEF StopNext

\* The inductive invariant of a node's life: a Start that gets past the
\* registration happens once, Init hooks follow the traversal's order and Stop
\* hooks mirror them, wherever hooks of Start and Shutdown fail.
THEOREM NodeInvariance == NodeSpec => []NodeIInv
<1>1. NodeInit => NodeIInv
  <2> SUFFICES ASSUME NodeInit PROVE NodeIInv
    OBVIOUS
  <2>1. NodeTypeOK
    BY DEF NodeInit, NodeTypeOK, IsInjective
  <2>2. ToSet(<<>>) = {}
    BY DEF ToSet
  <2>3. StartsOnce /\ InitsOrdered /\ StopsMirror
    BY <2>2 DEF NodeInit, StartsOnce, InitsOrdered, StopsMirror, Ascending
  <2> QED
    BY <2>1, <2>3 DEF NodeIInv
<1>2. NodeIInv /\ [NodeNext]_nodeVars => NodeIInv'
  <2> SUFFICES ASSUME NodeIInv, [NodeNext]_nodeVars PROVE NodeIInv'
    OBVIOUS
  <2>1. CASE UNCHANGED nodeVars
    <3>1. NodeTypeOK'
      BY <2>1 DEF NodeIInv, NodeTypeOK, nodeVars
    <3> QED
      BY <2>1, <3>1, RestKeeps DEF nodeVars
  <2>2. CASE \E c \in Added : AddComponent(c)
    BY <2>2, RegisterKeeps
  <2>3. CASE Start
    BY <2>3, StartKeeps
  <2>4. CASE Hook("onInit", "init") \/ Hook("onStart", "start")
    BY <2>4, HookKeeps
  <2>5. CASE InitNext
    BY <2>5, InitNextKeeps
  <2>6. CASE InitDone \/ StartNext \/ StartDone \/ StopDone
    BY <2>6, StartNextKeeps
  <2>7. CASE Shutdown
    BY <2>7, ShutdownKeeps
  <2>8. CASE StopNext
    BY <2>8, StopNextKeeps
  <2> QED
    BY <2>1, <2>2, <2>3, <2>4, <2>5, <2>6, <2>7, <2>8 DEF NodeNext
<1> QED
  BY <1>1, <1>2, PTL DEF NodeSpec

\* Shutdown runs the Stop hook of exactly the components whose Init hook ran,
\* once each and in reverse, for any components, priorities and failures.
THEOREM Mirrors == NodeSpec => []StopMirrorsInit
<1>1. NodeIInv => StopMirrorsInit
  <2> SUFFICES ASSUME NodeIInv, running = "stop", todo = <<>>
               PROVE  stops = Reverse(inits)
    BY DEF StopMirrorsInit
  <2>1. /\ inits \in Seq(Component) /\ stops \in Seq(Component)
        /\ Len(stops) <= Len(inits)
        /\ \A k \in 1..Len(stops) : stops[k] = inits[Len(inits) - k + 1]
    BY DEF NodeIInv, NodeTypeOK, StopsMirror
  <2>2. \A k \in 1..Left : inits[k] \in {}
    BY DEF NodeIInv, StopsMirror, ToSet
  <2>3. Len(stops) = Len(inits)
    <3> SUFFICES ASSUME Len(stops) < Len(inits) PROVE FALSE
      BY <2>1
    <3>1. 1 \in 1..Left
      BY <2>1 DEF Left
    <3> QED
      BY <2>2, <3>1
  <2>4. stops = [k \in 1..Len(inits) |-> inits[Len(inits) - k + 1]]
    BY <2>1, <2>3
  <2> QED
    BY <2>4 DEF Reverse
<1> QED
  BY <1>1, NodeInvariance, PTL

-----------------------------------------------------------------------------
(* The agent of a client.                                                  *)

\* currentRequest is set while the handler of a frame runs, to that frame's
\* request, and at no other time.
OwnRequest == currentRequest = IF hand.kind = "frame" THEN hand.of ELSE None

AgentIInv == TypeOK /\ OwnRequest

\* What an accepted or refused message makes of the mailbox.
LEMMA PutTyped ==
  ASSUME TypeOK, NEW k, NEW o, [kind |-> k, of |-> o] \in Message, Put(k, o)
  PROVE  mailbox' \in Seq(Message)
BY DEF TypeOK, Put

\* Taking the next message: a message of that kind, and the rest.
LEMMA TakeTyped ==
  ASSUME TypeOK, NEW k, Take(k)
  PROVE  /\ Head(mailbox) \in Message /\ Head(mailbox).kind = k
         /\ mailbox' \in Seq(Message)
<1>1. mailbox \in Seq(Message) /\ mailbox # <<>>
  BY DEF TypeOK, Take
<1>2. Head(mailbox) \in Message /\ Tail(mailbox) \in Seq(Message)
  BY <1>1, HeadTailProperties
<1> QED
  BY <1>2 DEF Take

\* What reply does to the counts of responses.
LEMMA RespondTyped ==
  ASSUME TypeOK, NEW q \in Request, Respond(q)
  PROVE  /\ responses' \in [Request -> Nat] /\ lost' \subseteq Request
         /\ \A p \in Request : p # q => responses'[p] = responses[p]
<1>1. CASE responses' = [responses EXCEPT ![q] = @ + 1] /\ lost' = lost
  BY <1>1 DEF TypeOK
<1>2. CASE lost' = lost \cup {q} /\ responses' = responses
  BY <1>2 DEF TypeOK
<1> QED
  BY <1>1, <1>2 DEF Respond

\* Every step of the agent, of its client and of its peers preserves the
\* invariant and answers no request but the one at hand.
LEMMA AgentStep ==
  ASSUME AgentIInv, [Next]_vars
  PROVE  /\ AgentIInv'
         /\ \A q \in Request :
              responses'[q] # responses[q] =>
                \/ hand.kind = "frame" /\ hand.of = q
                \/ hand = Idle /\ Head(mailbox) = [kind |-> "result", of |-> q]
<1> DEFINE Own(q) ==
      \/ hand.kind = "frame" /\ hand.of = q
      \/ hand = Idle /\ Head(mailbox) = [kind |-> "result", of |-> q]
<1> DEFINE Goal == AgentIInv' /\ \A q \in Request : responses'[q] # responses[q] => Own(q)
<1> SUFFICES Goal
  OBVIOUS
<1> TypeOK /\ OwnRequest
  BY DEF AgentIInv
<1> USE DEF AgentIInv
<1>0. Idle.kind = "idle" /\ None \notin Request
  BY RequestAssumption DEF Idle
<1>1. ASSUME NEW q \in Request, FrameArrives(q) PROVE Goal
  <2>1. [kind |-> "frame", of |-> q] \in Message
    BY DEF Message
  <2>2. mailbox' \in Seq(Message)
    BY <1>1, <2>1, PutTyped DEF FrameArrives
  <2> QED
    BY <1>1, <2>2 DEF FrameArrives, Accepts, handlerVars, TypeOK, OwnRequest
<1>2. ASSUME NEW q \in Request, AskCompletes(q) PROVE Goal
  <2>1. [kind |-> "result", of |-> q] \in Message
    BY DEF Message
  <2>2. mailbox' \in Seq(Message)
    BY <1>2, <2>1, PutTyped DEF AskCompletes
  <2>3. asking' \in [Request -> Nat]
    BY <1>2 DEF AskCompletes, TypeOK
  <2> QED
    BY <1>2, <2>2, <2>3 DEF AskCompletes, handlerVars, TypeOK, OwnRequest
<1>3. CASE Tell
  <2>1. \A k \in {"tell", "push"} : [kind |-> k, of |-> None] \in Message
    BY DEF Message
  <2>2. mailbox' \in Seq(Message)
    BY <1>3, <2>1, PutTyped DEF Tell
  <2>3. tells' \in 0..MaxTells
    BY <1>3, BoundAssumption DEF Tell, TypeOK
  <2> QED
    BY <1>3, <2>2, <2>3 DEF Tell, handlerVars, clientVars, TypeOK, OwnRequest
<1>4. CASE ConnectionCloses \/ Stop \/ Destroy
  BY <1>4 DEF ConnectionCloses, Stop, Destroy, messageVars, handlerVars, clientVars, TypeOK, OwnRequest
<1>5. CASE HandleInbound
  <2>1. /\ Head(mailbox) \in Message /\ Head(mailbox).kind = "frame" /\ mailbox' \in Seq(Message)
        /\ hand = Idle /\ made' = 0 /\ UNCHANGED <<delivered, tells, closing, asking, clientVars>>
    BY <1>5, TakeTyped DEF HandleInbound, Take
  <2>2. Head(mailbox).of \in Request
    BY <2>1 DEF Message
  <2>3. \/ hand' = Head(mailbox) /\ currentRequest' = Head(mailbox).of
        \/ UNCHANGED <<hand, currentRequest>>
    BY <1>5 DEF HandleInbound
  <2>4. OwnRequest'
    BY <2>1, <2>3 DEF OwnRequest
  <2> QED
    BY <2>1, <2>2, <2>3, <2>4, BoundAssumption DEF clientVars, TypeOK
<1>6. CASE HandleTell
  <2>1. /\ Head(mailbox) \in Message /\ Head(mailbox).kind = "tell" /\ mailbox' \in Seq(Message)
        /\ hand = Idle /\ hand' = Head(mailbox)
    BY <1>6, TakeTyped DEF HandleTell, Take
  <2>2. OwnRequest'
    BY <1>0, <1>6, <2>1 DEF HandleTell, OwnRequest
  <2> QED
    BY <1>6, <2>1, <2>2, BoundAssumption DEF HandleTell, clientVars, TypeOK
<1>7. CASE HandlePush
  <2>1. mailbox' \in Seq(Message)
    BY <1>7, TakeTyped DEF HandlePush
  <2> QED
    BY <1>7, <2>1 DEF HandlePush, handlerVars, clientVars, TypeOK, OwnRequest
<1>8. CASE HandlerReturns
  <2>1. OwnRequest'
    BY <1>0, <1>8 DEF HandlerReturns, OwnRequest
  <2> QED
    BY <1>8, <2>1 DEF HandlerReturns, messageVars, clientVars, TypeOK
<1>9. CASE Callback
  <2>1. /\ Head(mailbox) \in Message /\ Head(mailbox).kind = "result" /\ mailbox' \in Seq(Message)
        /\ hand = Idle
    BY <1>9, TakeTyped DEF Callback, Take
  <2>2. PICK q \in Request : Head(mailbox) = [kind |-> "result", of |-> q]
    BY <2>1 DEF Message
  <2>3. Respond(q)
    BY <1>9, <2>2 DEF Callback
  <2>4. /\ responses' \in [Request -> Nat] /\ lost' \subseteq Request
        /\ \A p \in Request : p # q => responses'[p] = responses[p]
    BY <2>3, RespondTyped
  <2> QED
    BY <1>9, <2>1, <2>2, <2>4 DEF Callback, handlerVars, TypeOK, OwnRequest
<1>10. CASE Reply
  <2>1. currentRequest \in Request /\ hand.kind = "frame" /\ hand.of = currentRequest
    BY <1>10 DEF Reply, TypeOK, OwnRequest
  <2>2. /\ responses' \in [Request -> Nat] /\ lost' \subseteq Request
        /\ \A p \in Request : p # currentRequest => responses'[p] = responses[p]
    BY <1>10, <2>1, RespondTyped DEF Reply
  <2>3. made' \in 0..MaxCalls
    BY <1>10, BoundAssumption DEF Reply, TypeOK
  <2> QED
    BY <1>10, <2>1, <2>2, <2>3 DEF Reply, messageVars, TypeOK, OwnRequest
<1>11. CASE Forward
  <2>1. currentRequest \in Request /\ asking' \in [Request -> Nat]
    BY <1>11 DEF Forward, TypeOK
  <2>2. made' \in 0..MaxCalls
    BY <1>11, BoundAssumption DEF Forward, TypeOK
  <2> QED
    BY <1>11, <2>1, <2>2 DEF Forward, messageVars, clientVars, TypeOK, OwnRequest
<1>12. CASE UNCHANGED vars
  BY <1>12 DEF vars, messageVars, handlerVars, clientVars, TypeOK, OwnRequest
<1> QED
  BY <1>1, <1>2, <1>3, <1>4, <1>5, <1>6, <1>7, <1>8, <1>9, <1>10, <1>11, <1>12 DEF Next, Handling

\* AgentIInv holds in every state of an agent.
THEOREM AgentInvariance == Spec => []AgentIInv
<1>1. Init => AgentIInv
  <2> SUFFICES ASSUME Init PROVE TypeOK /\ OwnRequest
    BY DEF AgentIInv
  <2>1. mailbox \in Seq(Message)
    BY DEF Init
  <2>2. made \in 0..MaxCalls /\ tells \in 0..MaxTells
    BY BoundAssumption DEF Init
  <2>3. asking \in [Request -> Nat] /\ responses \in [Request -> Nat]
    BY DEF Init
  <2>4. TypeOK
    BY <2>1, <2>2, <2>3 DEF Init, TypeOK
  <2>5. OwnRequest
    BY DEF Init, OwnRequest, Idle
  <2> QED
    BY <2>4, <2>5
<1>2. AgentIInv /\ [Next]_vars => AgentIInv'
  BY AgentStep
<1> QED
  BY <1>1, <1>2, PTL DEF Spec

\* Type correctness of an agent.
THEOREM AgentTypes == Spec => []TypeOK
<1>1. AgentIInv => TypeOK
  BY DEF AgentIInv
<1> QED
  BY <1>1, AgentInvariance, PTL

\* A response answers the request whose handler runs, or the one whose Forward
\* has completed: Reply never meets the request of an earlier frame.
THEOREM OwnAnswers == Spec => AnswersItsOwn
<1> DEFINE A == \A q \in Request :
       responses'[q] # responses[q] =>
         \/ hand.kind = "frame" /\ hand.of = q
         \/ hand = Idle /\ Head(mailbox) = [kind |-> "result", of |-> q]
<1>1. AgentIInv /\ [Next]_vars => [A]_vars
  BY AgentStep
<1> QED
  BY <1>1, AgentInvariance, PTL DEF Spec, AnswersItsOwn

=============================================================================
