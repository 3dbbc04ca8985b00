-------------------------- MODULE TransportProofs --------------------------
(***************************************************************************)
(* Theorems about module Transport, for any number of dials, data messages *)
(* and faults.                                                             *)
(*                                                                         *)
(* Nothing that is to be shown is inductive: that data meets a Connected   *)
(* peer depends on where the hello is, at both ends (HelloFirst); that a   *)
(* removal never takes the entry of an open peer depends on the order of   *)
(* OnConnected and the dial (Callback); and what Transport.Close closes    *)
(* depends on what the table says of dials in progress (DialTracked).      *)
(***************************************************************************)
EXTENDS Transport, SequenceTheorems, TLAPS

\* OnConnected is what takes a peer from Idle to Handshaking; only a connection
\* that was made has callbacks, and only one whose OnConnected returned nil gets
\* frames.
Callback ==
  \A c \in Conn :
    /\ state[c] = "Idle" <=> connected[c] = "no"
    /\ connected[c] # "no" => Exists(c)
    /\ state[c] = "Connected" \/ handling[c] # "none" => connected[c] = "ok"

\* One hello, before all data: it is on the wire, at its head, or being handled,
\* or the peer is Connected; before it was sent there is none of them.
HelloFirst ==
  \A c \in Conn :
    /\ connected[Peer(c)] # "ok" =>
         wire[c] = <<>> /\ handling[c] = "none" /\ state[c] # "Connected"
    /\ \A i \in 1..Len(wire[c]) :
         wire[c][i] = "hello" => i = 1 /\ handling[c] = "none" /\ state[c] # "Connected"
    /\ connected[Peer(c)] = "ok" /\ (wire[c] = <<>> \/ wire[c][1] = "data") =>
         state[c] = "Connected" \/ handling[c] = "hello"
    /\ handling[c] = "hello" => state[c] = "Handshaking"

\* A dial that has not failed is in the table or its connection closed, unless
\* the late hello of another connection replaced its entry; Connect closes what
\* it gives up.
DialTracked ==
  \A k \in Dial :
    /\ dial[k] \in {"dialing", "waiting", "returned"} =>
         table["dialer"] = k \/ <<"dialer", k>> \in closed \/ Displaced(k)
    /\ dial[k] = "failed" => <<"dialer", k>> \in closed
    /\ dial[k] = "returned" => connected[<<"dialer", k>>] = "ok"

IInv ==
  /\ TypeOK /\ Callback /\ HelloFirst /\ DataAfterHello
  /\ OpenIsTracked /\ DialTracked /\ CloseComplete

-----------------------------------------------------------------------------
\* The two ends of a connection.
LEMMA Ends ==
  /\ \A c \in Conn :
       /\ Peer(c) \in Conn /\ Peer(Peer(c)) = c /\ Peer(c) # c
       /\ NodeOf(c) \in Node /\ c[2] \in Dial /\ c = <<NodeOf(c), c[2]>>
  /\ \A n \in Node, k \in Dial :
       <<n, k>> \in Conn /\ NodeOf(<<n, k>>) = n /\ <<n, k>>[2] = k
  /\ 0 \notin Dial /\ {"dialer", "acceptor"} = Node
<1>1. 0 \notin Dial
  BY BoundAssumption DEF Dial
<1> QED
  BY <1>1, EndsAssumption DEF Node, Peer, Other, NodeOf

\* peerManager.remove leaves every entry but the one of the peer in question.
LEMMA Removal ==
  ASSUME TypeOK, NEW n \in Node, NEW k \in Dial, Remove(n, k)
  PROVE  /\ table' \in [Node -> Dial \cup {0}]
         /\ \A m \in Node : table'[m] # table[m] => m = n /\ table[m] = k
BY DEF TypeOK, Remove

\* peer.close, called for the entry of a node, closes at most that end.
LEMMA ClosesEntry ==
  ASSUME TypeOK, NEW n \in Node, table[n] # 0
  PROVE  /\ Entry(n) \in Conn /\ NodeOf(Entry(n)) = n /\ Entry(n)[2] = table[n]
         /\ PeerClose(Entry(n)) = {} \/ PeerClose(Entry(n)) = {Entry(n)}
         /\ PeerClose(Entry(n)) \subseteq Conn
         /\ connected[Entry(n)] # "no" => PeerClose(Entry(n)) = {Entry(n)}
<1>1. table[n] \in Dial
  BY DEF TypeOK
<1>2. Entry(n) \in Conn /\ NodeOf(Entry(n)) = n /\ Entry(n)[2] = table[n]
  BY <1>1, Ends DEF Entry
<1> QED
  BY <1>2 DEF PeerClose

\* Closing what is closed already is no step.
LEMMA Absorb ==
  ASSUME NEW S, NEW x
  PROVE  S \cup {} = S /\ (S \cup {x} = S \/ x \notin S)
OBVIOUS

\* What Append and Tail do to a wire, index by index.
Frame == {"hello", "data"}
\* Append, index by index.
LEMMA AppendFacts ==
  ASSUME NEW s \in Seq(Frame), NEW e \in Frame
  PROVE  /\ Append(s, e) \in Seq(Frame) /\ Append(s, e) # <<>>
         /\ Len(s) \in Nat /\ Len(Append(s, e)) = Len(s) + 1
         /\ Append(s, e)[Len(s) + 1] = e
         /\ \A i \in 1..Len(s) : Append(s, e)[i] = s[i]
<1>1. Append(s, e) \in Seq(Frame) /\ Len(s) \in Nat /\ Len(Append(s, e)) = Len(s) + 1
  OBVIOUS
<1>2. Append(s, e)[Len(s) + 1] = e /\ \A i \in 1..Len(s) : Append(s, e)[i] = s[i]
  OBVIOUS
<1>3. Append(s, e) # <<>>
  BY <1>1
<1> QED
  BY <1>1, <1>2, <1>3

\* Head and Tail, index by index.
LEMMA TailFacts ==
  ASSUME NEW s \in Seq(Frame), s # <<>>
  PROVE  /\ Head(s) \in Frame /\ Head(s) = s[1] /\ Tail(s) \in Seq(Frame)
         /\ Len(s) \in Nat \ {0} /\ Len(Tail(s)) = Len(s) - 1
         /\ \A i \in 1..(Len(s) - 1) : Tail(s)[i] = s[i + 1] /\ i + 1 \in 1..Len(s)
<1>1. Len(s) \in Nat \ {0} /\ Tail(s) \in Seq(Frame) /\ Len(Tail(s)) = Len(s) - 1
  OBVIOUS
<1>2. Head(s) \in Frame /\ Head(s) = s[1]
  OBVIOUS
<1>3. \A i \in 1..(Len(s) - 1) : Tail(s)[i] = s[i + 1] /\ i + 1 \in 1..Len(s)
  BY <1>1
<1> QED
  BY <1>1, <1>2, <1>3

-----------------------------------------------------------------------------
\* Every step keeps the types.
LEMMA StepTypeOK ==
  ASSUME IInv, [Next]_vars
  PROVE  TypeOK'
<1> USE Ends DEF IInv, TypeOK, callbackVars, peerVars
<1>1. ASSUME NEW k \in Dial, Connect(k) PROVE TypeOK'
  BY <1>1, BoundAssumption DEF Connect
<1>2. ASSUME NEW k \in Dial, Established(k) PROVE TypeOK'
  BY <1>2, BoundAssumption DEF Established
<1>3. ASSUME NEW k \in Dial, DialFails(k) PROVE TypeOK'
  <2>1. "dialer" \in Node /\ Remove("dialer", k)
    BY <1>3 DEF DialFails, Fault
  <2> QED
    BY <1>3, <2>1, Removal, BoundAssumption DEF DialFails, Fault
<1>4. ASSUME NEW k \in Dial, DialGivesUp(k) PROVE TypeOK'
  <2>1. <<"dialer", k>> \in Conn /\ "dialer" \in Node /\ Remove("dialer", k)
    BY <1>4 DEF DialGivesUp
  <2> QED
    BY <1>4, <2>1, Removal DEF DialGivesUp
<1>5. ASSUME NEW k \in Dial, DialReturns(k) PROVE TypeOK'
  <2>1. CASE stop["dialer"] = "no"
    BY <1>5, <2>1 DEF DialReturns
  <2>2. CASE stop["dialer"] # "no"
    <3>1. <<"dialer", k>> \in Conn /\ "dialer" \in Node /\ Remove("dialer", k)
      BY <1>5, <2>2 DEF DialReturns
    <3> QED
      BY <1>5, <2>2, <3>1, Removal DEF DialReturns
  <2> QED
    BY <2>1, <2>2
<1>6. ASSUME NEW c \in Conn, OnConnected(c) PROVE TypeOK'
  BY <1>6, BoundAssumption DEF OnConnected, Connects, Exists
<1>7. ASSUME NEW c \in Conn, SendHello(c) PROVE TypeOK'
  <2>1. Peer(c) \in Conn /\ Append(wire[Peer(c)], "hello") \in Seq(Frame)
    BY AppendFacts DEF Frame
  <2>2. wire' \in [Conn -> Seq(Frame)]
    <3>1. CASE wire' = wire
      BY <3>1 DEF Frame
    <3>2. CASE wire' = [wire EXCEPT ![Peer(c)] = Append(@, "hello")]
      BY <2>1, <3>2 DEF Frame
    <3> QED
      BY <1>7, <3>1, <3>2 DEF SendHello, Connected
  <2>3. /\ connected' \in [Conn -> {"no", "running", "ok", "error"}]
        /\ UNCHANGED <<closed, messages, notified, peerVars, handling, dial, stop, sent, faults, late>>
    BY <1>7 DEF SendHello, Connected
  <2> QED
    BY <2>2, <2>3 DEF Frame
<1>8. ASSUME NEW c \in Conn, OnMessage(c) PROVE TypeOK'
  <2>1. Head(wire[c]) \in Frame /\ Tail(wire[c]) \in Seq(Frame)
    BY <1>8, TailFacts DEF Frame, OnMessage
  <2> QED
    BY <1>8, <2>1 DEF OnMessage, Delivers, Frame
<1>9. ASSUME NEW c \in Conn, HandleHello(c) PROVE TypeOK'
  <2>1. /\ closed' \subseteq Conn /\ closed \subseteq closed'
    <3>1. NodeOf(c) \in Node
      OBVIOUS
    <3>2. table[NodeOf(c)] # 0 => PeerClose(Entry(NodeOf(c))) \subseteq Conn
      BY <3>1, ClosesEntry
    <3> QED
      BY <1>9, <3>2 DEF HandleHello
  <2>2. late' \subseteq closed'
    BY <1>9, <2>1 DEF HandleHello
  <2>3. /\ table' \in [Node -> Dial \cup {0}]
        /\ state' \in [Conn -> {"Idle", "Handshaking", "Connected"}]
        /\ handling' \in [Conn -> {"none", "hello", "data"}]
    <3>1. CASE UNCHANGED peerVars
      BY <1>9, <3>1 DEF HandleHello
    <3>2. CASE table' = [table EXCEPT ![NodeOf(c)] = c[2]] /\ state' = [state EXCEPT ![c] = "Connected"]
      BY <1>9, <3>2 DEF HandleHello
    <3> QED
      BY <1>9, <3>1, <3>2 DEF HandleHello
  <2> QED
    BY <1>9, <2>1, <2>2, <2>3 DEF HandleHello
<1>10. ASSUME NEW c \in Conn, HandleData(c) PROVE TypeOK'
  BY <1>10, BoundAssumption DEF HandleData
<1>11. ASSUME NEW c \in Conn, OnClose(c) PROVE TypeOK'
  <2>1. CASE UNCHANGED table
    BY <1>11, <2>1 DEF OnClose, Notifies
  <2>2. CASE Remove(NodeOf(c), c[2])
    <3>1. NodeOf(c) \in Node /\ c[2] \in Dial
      OBVIOUS
    <3> QED
      BY <1>11, <2>2, <3>1, Removal DEF OnClose, Notifies
  <2> QED
    BY <1>11, <2>1, <2>2 DEF OnClose
<1>12. ASSUME NEW c \in Conn, Breaks(c) PROVE TypeOK'
  BY <1>12, BoundAssumption DEF Breaks, Closes, Fault
<1>13. ASSUME NEW c \in Conn, Follows(c) PROVE TypeOK'
  BY <1>13, BoundAssumption DEF Follows, Closes
<1>14. ASSUME NEW n \in Node, Send(n) PROVE TypeOK'
  <2>1. Entry(n) \in Conn
    BY <1>14 DEF Send, CanSend, Entry
  <2>2. Append(wire[Peer(Entry(n))], "data") \in Seq(Frame)
    BY <2>1, AppendFacts DEF Frame
  <2> QED
    BY <1>14, <2>1, <2>2, BoundAssumption DEF Send, Frame
<1>15. ASSUME NEW n \in Node, Disconnect(n) PROVE TypeOK'
  <2>1. closed' \subseteq Conn /\ closed \subseteq closed'
    <3>1. CASE table[n] = 0
      BY <1>15, <3>1 DEF Disconnect, Fault
    <3>2. CASE table[n] # 0
      <4>1. PeerClose(Entry(n)) \subseteq Conn
        BY <3>2, ClosesEntry
      <4> QED
        BY <1>15, <3>2, <4>1 DEF Disconnect, Fault
    <3> QED
      BY <3>1, <3>2
  <2> QED
    BY <1>15, <2>1, BoundAssumption DEF Disconnect, Fault
<1>16. ASSUME NEW n \in Node, CloseBegins(n) PROVE TypeOK'
  BY <1>16, BoundAssumption DEF CloseBegins, Fault
<1>17. ASSUME NEW n \in Node, CloseEnds(n) PROVE TypeOK'
  <2>1. closed' \subseteq Conn /\ closed \subseteq closed'
    <3>1. CASE table[n] = 0
      BY <1>17, <3>1 DEF CloseEnds
    <3>2. CASE table[n] # 0
      <4>1. PeerClose(Entry(n)) \subseteq Conn
        BY <3>2, ClosesEntry
      <4> QED
        BY <1>17, <3>2, <4>1 DEF CloseEnds
    <3> QED
      BY <3>1, <3>2
  <2> QED
    BY <1>17, <2>1, BoundAssumption DEF CloseEnds
<1>18. CASE UNCHANGED vars
  BY <1>18, BoundAssumption DEF vars
<1> QED
  BY <1>1, <1>2, <1>3, <1>4, <1>5, <1>6, <1>7, <1>8, <1>9, <1>10, <1>11, <1>12, <1>13, <1>14, <1>15, <1>16, <1>17, <1>18
     DEF Next, DialStep, EndStep

\* Every step keeps Callback.
LEMMA StepCallback ==
  ASSUME IInv, [Next]_vars
  PROVE  Callback'
<1> USE Ends DEF IInv, TypeOK, Callback, Exists, callbackVars, peerVars
<1>1. ASSUME NEW k \in Dial, Connect(k) PROVE Callback'
  BY <1>1 DEF Connect
<1>2. ASSUME NEW k \in Dial, Established(k) PROVE Callback'
  BY <1>2 DEF Established
<1>3. ASSUME NEW k \in Dial, DialFails(k) PROVE Callback'
  BY <1>3 DEF DialFails, Fault
<1>4. ASSUME NEW k \in Dial, DialGivesUp(k) PROVE Callback'
  BY <1>4 DEF DialGivesUp
<1>5. ASSUME NEW k \in Dial, DialReturns(k) PROVE Callback'
  BY <1>5 DEF DialReturns
<1>6. ASSUME NEW c \in Conn, OnConnected(c) PROVE Callback'
  BY <1>6 DEF OnConnected, Connects, Exists
<1>7. ASSUME NEW c \in Conn, SendHello(c) PROVE Callback'
  BY <1>7 DEF SendHello, Connected
<1>8. ASSUME NEW c \in Conn, OnMessage(c) PROVE Callback'
  BY <1>8 DEF OnMessage, Delivers
<1>9. ASSUME NEW c \in Conn, HandleHello(c) PROVE Callback'
  BY <1>9 DEF HandleHello
<1>10. ASSUME NEW c \in Conn, HandleData(c) PROVE Callback'
  BY <1>10 DEF HandleData
<1>11. ASSUME NEW c \in Conn, OnClose(c) PROVE Callback'
  BY <1>11 DEF OnClose, Notifies
<1>12. ASSUME NEW c \in Conn, Breaks(c) PROVE Callback'
  BY <1>12 DEF Breaks, Closes, Fault
<1>13. ASSUME NEW c \in Conn, Follows(c) PROVE Callback'
  BY <1>13 DEF Follows, Closes
<1>14. ASSUME NEW n \in Node, Send(n) PROVE Callback'
  BY <1>14 DEF Send, CanSend, Entry
<1>15. ASSUME NEW n \in Node, Disconnect(n) PROVE Callback'
  BY <1>15 DEF Disconnect, Fault
<1>16. ASSUME NEW n \in Node, CloseBegins(n) PROVE Callback'
  BY <1>16 DEF CloseBegins, Fault
<1>17. ASSUME NEW n \in Node, CloseEnds(n) PROVE Callback'
  BY <1>17 DEF CloseEnds
<1>18. CASE UNCHANGED vars
  BY <1>18 DEF vars
<1> QED
  BY <1>1, <1>2, <1>3, <1>4, <1>5, <1>6, <1>7, <1>8, <1>9, <1>10, <1>11, <1>12, <1>13, <1>14, <1>15, <1>16, <1>17, <1>18
     DEF Next, DialStep, EndStep

\* Every step keeps HelloFirst.
LEMMA StepHelloFirst ==
  ASSUME IInv, [Next]_vars
  PROVE  HelloFirst'
<1> USE Ends DEF IInv, TypeOK, Callback, HelloFirst, callbackVars, peerVars
<1>1. ASSUME NEW k \in Dial, Connect(k) PROVE HelloFirst'
  BY <1>1 DEF Connect
<1>2. ASSUME NEW k \in Dial, Established(k) PROVE HelloFirst'
  BY <1>2 DEF Established
<1>3. ASSUME NEW k \in Dial, DialFails(k) PROVE HelloFirst'
  BY <1>3 DEF DialFails, Fault
<1>4. ASSUME NEW k \in Dial, DialGivesUp(k) PROVE HelloFirst'
  BY <1>4 DEF DialGivesUp
<1>5. ASSUME NEW k \in Dial, DialReturns(k) PROVE HelloFirst'
  BY <1>5 DEF DialReturns
<1>6. ASSUME NEW c \in Conn, OnConnected(c) PROVE HelloFirst'
  BY <1>6 DEF OnConnected, Connects, Exists
<1>7. ASSUME NEW c \in Conn, SendHello(c) PROVE HelloFirst'
  <2>1. CASE wire' = wire /\ connected' = [connected EXCEPT ![c] = "error"]
    BY <1>7, <2>1 DEF SendHello, Connected
  <2>2. CASE connected' = [connected EXCEPT ![c] = "ok"] /\ wire' = [wire EXCEPT ![Peer(c)] = Append(@, "hello")]
    <3> DEFINE p == Peer(c)
    <3>1. p \in Conn /\ Peer(p) = c
      OBVIOUS
    <3>2. wire[p] = <<>> /\ handling[p] = "none" /\ state[p] # "Connected"
      BY <1>7, <3>1 DEF SendHello, Connected
    <3>3. wire'[p] = <<"hello">> /\ \A d \in Conn : d # p => wire'[d] = wire[d]
      BY <2>2, <3>1, <3>2
    <3>4. connected'[c] = "ok" /\ \A d \in Conn : d # c => connected'[d] = connected[d]
      BY <2>2
    <3>5. UNCHANGED <<state, handling>>
      BY <1>7 DEF SendHello
    <3>6. \A d \in Conn : d # p => Peer(d) # c
      BY <3>1
    <3> HIDE DEF p
    <3>7. ASSUME NEW d \in Conn
          PROVE  /\ connected'[Peer(d)] # "ok" =>
                      wire'[d] = <<>> /\ handling'[d] = "none" /\ state'[d] # "Connected"
                 /\ \A i \in 1..Len(wire'[d]) :
                      wire'[d][i] = "hello" => i = 1 /\ handling'[d] = "none" /\ state'[d] # "Connected"
                 /\ connected'[Peer(d)] = "ok" /\ (wire'[d] = <<>> \/ wire'[d][1] = "data") =>
                      state'[d] = "Connected" \/ handling'[d] = "hello"
                 /\ handling'[d] = "hello" => state'[d] = "Handshaking"
      <4>1. CASE d = p
        <5>1. Len(<<"hello">>) = 1 /\ <<"hello">>[1] = "hello" /\ <<"hello">> # <<>>
          OBVIOUS
        <5>2. connected'[Peer(d)] = "ok"
          BY <3>1, <3>4, <4>1
        <5>3. \A i \in 1..Len(wire'[d]) : i = 1
          <6>1. Len(wire'[d]) = 1
            BY <3>3, <4>1, <5>1
          <6> QED
            BY <6>1
        <5> QED
          BY <3>2, <3>3, <3>5, <4>1, <5>1, <5>2, <5>3
      <4>2. CASE d # p
        BY <3>3, <3>4, <3>5, <3>6, <4>2
      <4> QED
        BY <4>1, <4>2
    <3> QED
      BY <3>7
  <2> QED
    BY <1>7, <2>1, <2>2 DEF SendHello, Connected
<1>8. ASSUME NEW c \in Conn, OnMessage(c) PROVE HelloFirst'
  BY <1>8 DEF OnMessage, Delivers
<1>9. ASSUME NEW c \in Conn, HandleHello(c) PROVE HelloFirst'
  BY <1>9 DEF HandleHello
<1>10. ASSUME NEW c \in Conn, HandleData(c) PROVE HelloFirst'
  BY <1>10 DEF HandleData
<1>11. ASSUME NEW c \in Conn, OnClose(c) PROVE HelloFirst'
  BY <1>11 DEF OnClose, Notifies
<1>12. ASSUME NEW c \in Conn, Breaks(c) PROVE HelloFirst'
  BY <1>12 DEF Breaks, Closes, Fault
<1>13. ASSUME NEW c \in Conn, Follows(c) PROVE HelloFirst'
  BY <1>13 DEF Follows, Closes
<1>14. ASSUME NEW n \in Node, Send(n) PROVE HelloFirst'
  <2> DEFINE e == Entry(n)
             p == Peer(e)
  <2>1. e \in Conn /\ p \in Conn /\ Peer(p) = e
    BY <1>14 DEF Send, CanSend, Entry
  <2>2. connected[e] = "ok" /\ UNCHANGED <<connected, state, handling>>
    BY <1>14, <2>1 DEF Send, CanSend
  <2>3. wire[p] \in Seq(Frame)
    BY <2>1 DEF Frame
  <2>4. wire'[p] = Append(wire[p], "data") /\ \A d \in Conn : d # p => wire'[d] = wire[d]
    BY <1>14, <2>1 DEF Send
  <2>5. /\ Len(wire[p]) \in Nat /\ Len(wire'[p]) = Len(wire[p]) + 1 /\ wire'[p] # <<>>
        /\ \A i \in 1..Len(wire[p]) : wire'[p][i] = wire[p][i]
        /\ wire'[p][Len(wire[p]) + 1] = "data"
    <3>1. "data" \in Frame
      BY DEF Frame
    <3> QED
      BY <2>3, <2>4, <3>1, AppendFacts
  <2> HIDE DEF p, e
  <2>6. \A i \in 1..Len(wire'[p]) : wire'[p][i] = "hello" => i \in 1..Len(wire[p]) /\ wire[p][i] = "hello"
    <3>1. \A i \in 1..Len(wire'[p]) : i = Len(wire[p]) + 1 \/ i \in 1..Len(wire[p])
      BY <2>5
    <3> QED
      BY <3>1, <2>5
  <2>7. wire'[p][1] = "data" => wire[p] = <<>> \/ wire[p][1] = "data"
    <3>1. wire[p] # <<>> => 1 \in 1..Len(wire[p])
      <4>1. wire[p] # <<>> => Len(wire[p]) # 0
        BY <2>3, EmptySeq
      <4>2. Len(wire[p]) \in Nat
        BY <2>5
      <4> QED
        BY <4>1, <4>2
    <3> QED
      BY <3>1, <2>5
  <2>8. ASSUME NEW d \in Conn
        PROVE  /\ connected'[Peer(d)] # "ok" =>
                    wire'[d] = <<>> /\ handling'[d] = "none" /\ state'[d] # "Connected"
               /\ \A i \in 1..Len(wire'[d]) :
                    wire'[d][i] = "hello" => i = 1 /\ handling'[d] = "none" /\ state'[d] # "Connected"
               /\ connected'[Peer(d)] = "ok" /\ (wire'[d] = <<>> \/ wire'[d][1] = "data") =>
                    state'[d] = "Connected" \/ handling'[d] = "hello"
               /\ handling'[d] = "hello" => state'[d] = "Handshaking"
    <3>1. CASE d = p
      <4>1. connected'[Peer(d)] = "ok" /\ wire'[d] # <<>>
        BY <2>1, <2>2, <2>5, <3>1
      <4>2. \A i \in 1..Len(wire'[d]) : wire'[d][i] = "hello" =>
               i = 1 /\ handling'[d] = "none" /\ state'[d] # "Connected"
        BY <2>1, <2>2, <2>6, <3>1
      <4>3. wire'[d][1] = "data" => state'[d] = "Connected" \/ handling'[d] = "hello"
        BY <2>1, <2>2, <2>7, <3>1
      <4> QED
        BY <2>1, <2>2, <3>1, <4>1, <4>2, <4>3
    <3>2. CASE d # p
      BY <2>2, <2>4, <3>2
    <3> QED
      BY <3>1, <3>2
  <2> QED
    BY <2>8
<1>15. ASSUME NEW n \in Node, Disconnect(n) PROVE HelloFirst'
  BY <1>15 DEF Disconnect, Fault
<1>16. ASSUME NEW n \in Node, CloseBegins(n) PROVE HelloFirst'
  BY <1>16 DEF CloseBegins, Fault
<1>17. ASSUME NEW n \in Node, CloseEnds(n) PROVE HelloFirst'
  BY <1>17 DEF CloseEnds
<1>18. CASE UNCHANGED vars
  BY <1>18 DEF vars
<1> QED
  BY <1>1, <1>2, <1>3, <1>4, <1>5, <1>6, <1>7, <1>8, <1>9, <1>10, <1>11, <1>12, <1>13, <1>14, <1>15, <1>16, <1>17, <1>18
     DEF Next, DialStep, EndStep

\* Every step keeps DataAfterHello.
LEMMA StepDataAfterHello ==
  ASSUME IInv, [Next]_vars
  PROVE  DataAfterHello'
<1> USE Ends DEF IInv, TypeOK, Callback, HelloFirst, DataAfterHello, callbackVars, peerVars
<1>1. ASSUME NEW k \in Dial, Connect(k) PROVE DataAfterHello'
  BY <1>1 DEF Connect
<1>2. ASSUME NEW k \in Dial, Established(k) PROVE DataAfterHello'
  BY <1>2 DEF Established
<1>3. ASSUME NEW k \in Dial, DialFails(k) PROVE DataAfterHello'
  BY <1>3 DEF DialFails, Fault
<1>4. ASSUME NEW k \in Dial, DialGivesUp(k) PROVE DataAfterHello'
  BY <1>4 DEF DialGivesUp
<1>5. ASSUME NEW k \in Dial, DialReturns(k) PROVE DataAfterHello'
  BY <1>5 DEF DialReturns
<1>6. ASSUME NEW c \in Conn, OnConnected(c) PROVE DataAfterHello'
  BY <1>6 DEF OnConnected, Connects, Exists
<1>7. ASSUME NEW c \in Conn, SendHello(c) PROVE DataAfterHello'
  BY <1>7 DEF SendHello, Connected
<1>8. ASSUME NEW c \in Conn, OnMessage(c) PROVE DataAfterHello'
  BY <1>8 DEF OnMessage, Delivers
<1>9. ASSUME NEW c \in Conn, HandleHello(c) PROVE DataAfterHello'
  BY <1>9 DEF HandleHello
<1>10. ASSUME NEW c \in Conn, HandleData(c) PROVE DataAfterHello'
  BY <1>10 DEF HandleData
<1>11. ASSUME NEW c \in Conn, OnClose(c) PROVE DataAfterHello'
  BY <1>11 DEF OnClose, Notifies
<1>12. ASSUME NEW c \in Conn, Breaks(c) PROVE DataAfterHello'
  BY <1>12 DEF Breaks, Closes, Fault
<1>13. ASSUME NEW c \in Conn, Follows(c) PROVE DataAfterHello'
  BY <1>13 DEF Follows, Closes
<1>14. ASSUME NEW n \in Node, Send(n) PROVE DataAfterHello'
  BY <1>14 DEF Send, CanSend, Entry
<1>15. ASSUME NEW n \in Node, Disconnect(n) PROVE DataAfterHello'
  BY <1>15 DEF Disconnect, Fault
<1>16. ASSUME NEW n \in Node, CloseBegins(n) PROVE DataAfterHello'
  BY <1>16 DEF CloseBegins, Fault
<1>17. ASSUME NEW n \in Node, CloseEnds(n) PROVE DataAfterHello'
  BY <1>17 DEF CloseEnds
<1>18. CASE UNCHANGED vars
  BY <1>18 DEF vars
<1> QED
  BY <1>1, <1>2, <1>3, <1>4, <1>5, <1>6, <1>7, <1>8, <1>9, <1>10, <1>11, <1>12, <1>13, <1>14, <1>15, <1>16, <1>17, <1>18
     DEF Next, DialStep, EndStep

\* Every step keeps OpenIsTracked.
LEMMA StepOpenIsTracked ==
  ASSUME IInv, [Next]_vars
  PROVE  OpenIsTracked'
<1> USE Ends DEF IInv, TypeOK, Callback, HelloFirst, Exists, OpenIsTracked, Entry, callbackVars, peerVars
<1>1. ASSUME NEW k \in Dial, Connect(k) PROVE OpenIsTracked'
  BY <1>1 DEF Connect
<1>2. ASSUME NEW k \in Dial, Established(k) PROVE OpenIsTracked'
  BY <1>2 DEF Established
<1>3. ASSUME NEW k \in Dial, DialFails(k) PROVE OpenIsTracked'
  <2>1. "dialer" \in Node /\ Remove("dialer", k) /\ <<"dialer", k>> \in Conn
    BY <1>3 DEF DialFails, Fault
  <2>2. state[<<"dialer", k>>] = "Idle"
    BY <1>3, <2>1 DEF DialFails, Fault
  <2>3. \A m \in Node : table'[m] # table[m] => m = "dialer" /\ table[m] = k
    BY <2>1, Removal
  <2>4. ASSUME NEW d \in Conn, state'[d] = "Connected", d \notin closed'
        PROVE  <<NodeOf(d), table'[NodeOf(d)]>> = d
    <3>1. state[d] = "Connected" /\ d \notin closed
      BY <1>3, <2>4 DEF DialFails, Fault
    <3>2. <<NodeOf(d), table[NodeOf(d)]>> = d
      BY <3>1
    <3>3. d # <<"dialer", k>>
      BY <2>2, <3>1
    <3>4. table'[NodeOf(d)] = table[NodeOf(d)]
      BY <2>3, <3>2, <3>3
    <3> QED
      BY <3>2, <3>4
  <2> QED
    BY <2>4
<1>4. ASSUME NEW k \in Dial, DialGivesUp(k) PROVE OpenIsTracked'
  <2>1. <<"dialer", k>> \in Conn /\ "dialer" \in Node /\ Remove("dialer", k)
    BY <1>4 DEF DialGivesUp
  <2> QED
    BY <1>4, <2>1, Removal DEF DialGivesUp
<1>5. ASSUME NEW k \in Dial, DialReturns(k) PROVE OpenIsTracked'
  <2>1. CASE stop["dialer"] = "no"
    BY <1>5, <2>1 DEF DialReturns
  <2>2. CASE stop["dialer"] # "no"
    <3>1. <<"dialer", k>> \in Conn /\ "dialer" \in Node /\ Remove("dialer", k)
      BY <1>5, <2>2 DEF DialReturns
    <3> QED
      BY <1>5, <2>2, <3>1, Removal DEF DialReturns
  <2> QED
    BY <2>1, <2>2
<1>6. ASSUME NEW c \in Conn, OnConnected(c) PROVE OpenIsTracked'
  BY <1>6 DEF OnConnected, Connects, Exists
<1>7. ASSUME NEW c \in Conn, SendHello(c) PROVE OpenIsTracked'
  BY <1>7 DEF SendHello, Connected
<1>8. ASSUME NEW c \in Conn, OnMessage(c) PROVE OpenIsTracked'
  BY <1>8 DEF OnMessage, Delivers
<1>9. ASSUME NEW c \in Conn, HandleHello(c) PROVE OpenIsTracked'
  <2> DEFINE n == NodeOf(c)
  <2>1. n \in Node /\ c[2] \in Dial /\ c = <<n, c[2]>>
    OBVIOUS
  <2>2. /\ state[c] = "Handshaking" /\ state' = [state EXCEPT ![c] = "Connected"]
        /\ table' = [table EXCEPT ![n] = c[2]]
        /\ closed' = closed \cup (IF table[n] \in {0, c[2]} THEN {} ELSE PeerClose(Entry(n)))
    BY <1>9 DEF HandleHello
  <2>3. SUFFICES ASSUME NEW d \in Conn, state'[d] = "Connected", d \notin closed'
                 PROVE  <<NodeOf(d), table'[NodeOf(d)]>> = d
    BY DEF OpenIsTracked, Entry
  <2>4. CASE d = c
    BY <2>1, <2>2, <2>4
  <2>5. CASE d # c
    <3>1. state[d] = "Connected" /\ d \notin closed /\ connected[d] = "ok"
      BY <2>2, <2>3, <2>5
    <3>2. d = <<NodeOf(d), table[NodeOf(d)]>>
      BY <3>1 DEF OpenIsTracked, Entry
    <3>3. NodeOf(d) # n
      <4> SUFFICES ASSUME NodeOf(d) = n PROVE FALSE
        OBVIOUS
      <4>1. d = Entry(n) /\ table[n] \in Dial
        BY <3>2 DEF Entry
      <4>2. table[n] # 0 /\ table[n] # c[2]
        BY <4>1, <2>1, <2>5 DEF Entry
      <4>3. PeerClose(Entry(n)) = {Entry(n)}
        BY <2>1, <3>1, <4>1, <4>2, ClosesEntry
      <4>4. d \in closed'
        BY <2>2, <4>1, <4>2, <4>3
      <4> QED
        BY <4>4, <2>3
    <3> QED
      BY <2>1, <2>2, <3>2, <3>3
  <2> QED
    BY <2>4, <2>5
<1>10. ASSUME NEW c \in Conn, HandleData(c) PROVE OpenIsTracked'
  BY <1>10 DEF HandleData
<1>11. ASSUME NEW c \in Conn, OnClose(c) PROVE OpenIsTracked'
  <2>1. c = <<NodeOf(c), c[2]>> /\ NodeOf(c) \in Node /\ c[2] \in Dial
    OBVIOUS
  <2>2. \A m \in Node : table'[m] # table[m] => m = NodeOf(c) /\ table[m] = c[2]
    BY <1>11, <2>1, Removal DEF OnClose, Notifies
  <2>3. ASSUME NEW d \in Conn, state'[d] = "Connected", d \notin closed'
        PROVE  <<NodeOf(d), table'[NodeOf(d)]>> = d
    <3>1. state[d] = "Connected" /\ d \notin closed /\ d # c
      BY <1>11, <2>3 DEF OnClose, Notifies
    <3>2. <<NodeOf(d), table[NodeOf(d)]>> = d
      BY <3>1
    <3>3. table'[NodeOf(d)] = table[NodeOf(d)]
      <4> SUFFICES ASSUME table'[NodeOf(d)] # table[NodeOf(d)] PROVE FALSE
        OBVIOUS
      <4>1. NodeOf(d) = NodeOf(c) /\ table[NodeOf(d)] = c[2]
        BY <2>2
      <4>2. d = <<NodeOf(c), c[2]>>
        BY <3>2, <4>1
      <4> QED
        BY <2>1, <3>1, <4>2
    <3> QED
      BY <3>2, <3>3
  <2> QED
    BY <2>3
<1>12. ASSUME NEW c \in Conn, Breaks(c) PROVE OpenIsTracked'
  BY <1>12 DEF Breaks, Closes, Fault
<1>13. ASSUME NEW c \in Conn, Follows(c) PROVE OpenIsTracked'
  BY <1>13 DEF Follows, Closes
<1>14. ASSUME NEW n \in Node, Send(n) PROVE OpenIsTracked'
  BY <1>14 DEF Send, CanSend, Entry
<1>15. ASSUME NEW n \in Node, Disconnect(n) PROVE OpenIsTracked'
  BY <1>15 DEF Disconnect, Fault
<1>16. ASSUME NEW n \in Node, CloseBegins(n) PROVE OpenIsTracked'
  BY <1>16 DEF CloseBegins, Fault
<1>17. ASSUME NEW n \in Node, CloseEnds(n) PROVE OpenIsTracked'
  BY <1>17 DEF CloseEnds
<1>18. CASE UNCHANGED vars
  BY <1>18 DEF vars
<1> QED
  BY <1>1, <1>2, <1>3, <1>4, <1>5, <1>6, <1>7, <1>8, <1>9, <1>10, <1>11, <1>12, <1>13, <1>14, <1>15, <1>16, <1>17, <1>18
     DEF Next, DialStep, EndStep

\* A late hello stays one.
LEMMA DisplacedStays ==
  ASSUME late \subseteq late'
  PROVE  \A k \in Dial : Displaced(k) => Displaced(k)'
BY DEF Displaced

\* No step forgets a late hello.
LEMMA LateGrows ==
  ASSUME [Next]_vars
  PROVE  late \subseteq late'
<1>1. ASSUME NEW k \in Dial, Connect(k) \/ DialStep(k) PROVE late \subseteq late'
  BY <1>1 DEF Connect, DialStep, Established, DialFails, DialGivesUp, DialReturns
<1>2. ASSUME NEW c \in Conn, EndStep(c) PROVE late \subseteq late'
  BY <1>2 DEF EndStep, OnConnected, SendHello, OnMessage, HandleHello, HandleData
<1>3. ASSUME NEW c \in Conn, OnClose(c) \/ Breaks(c) \/ Follows(c) PROVE late \subseteq late'
  BY <1>3 DEF OnClose, Breaks, Follows
<1>4. ASSUME NEW n \in Node, Send(n) \/ Disconnect(n) \/ CloseBegins(n) \/ CloseEnds(n)
      PROVE  late \subseteq late'
  BY <1>4 DEF Send, Disconnect, CloseBegins, CloseEnds
<1>5. CASE UNCHANGED vars
  BY <1>5 DEF vars
<1> QED
  BY <1>1, <1>2, <1>3, <1>4, <1>5 DEF Next

\* A step that moves no dial forward and takes no entry away keeps DialTracked.
LEMMA DialKept ==
  ASSUME IInv, dial' = dial, closed \subseteq closed', late \subseteq late',
         \A c \in Conn : connected[c] = "ok" => connected'[c] = "ok",
         \A k \in Dial : table["dialer"] = k =>
           table'["dialer"] = k \/ <<"dialer", k>> \in closed' \/ Displaced(k)'
  PROVE  DialTracked'
<1>1. ASSUME NEW k \in Dial
      PROVE  /\ dial'[k] \in {"dialing", "waiting", "returned"} =>
                  table'["dialer"] = k \/ <<"dialer", k>> \in closed' \/ Displaced(k)'
             /\ dial'[k] = "failed" => <<"dialer", k>> \in closed'
             /\ dial'[k] = "returned" => connected'[<<"dialer", k>>] = "ok"
  <2>1. <<"dialer", k>> \in Conn
    BY Ends
  <2> QED
    BY <2>1, DisplacedStays DEF IInv, DialTracked
<1> QED
  BY <1>1 DEF DialTracked

\* Every step keeps DialTracked.
LEMMA StepDialTracked ==
  ASSUME IInv, [Next]_vars
  PROVE  DialTracked'
<1>0. \A k \in Dial : Displaced(k) => Displaced(k)'
  BY LateGrows, DisplacedStays
<1> USE Ends, <1>0 DEF IInv
<1>1. ASSUME NEW k \in Dial, Connect(k) PROVE DialTracked'
  <2>1. SUFFICES ASSUME NEW j \in Dial
                 PROVE  /\ dial'[j] \in {"dialing", "waiting", "returned"} =>
                             table'["dialer"] = j \/ <<"dialer", j>> \in closed' \/ Displaced(j)'
                        /\ dial'[j] = "failed" => <<"dialer", j>> \in closed'
                        /\ dial'[j] = "returned" => connected'[<<"dialer", j>>] = "ok"
    BY DEF DialTracked
  <2>2. <<"dialer", j>> \in Conn /\ "dialer" \in Node
    OBVIOUS
  <2> QED
    BY <1>1, <2>2 DEF Connect, TypeOK, DialTracked, callbackVars
<1>2. ASSUME NEW k \in Dial, Established(k) PROVE DialTracked'
  <2>1. SUFFICES ASSUME NEW j \in Dial
                 PROVE  /\ dial'[j] \in {"dialing", "waiting", "returned"} =>
                             table'["dialer"] = j \/ <<"dialer", j>> \in closed' \/ Displaced(j)'
                        /\ dial'[j] = "failed" => <<"dialer", j>> \in closed'
                        /\ dial'[j] = "returned" => connected'[<<"dialer", j>>] = "ok"
    BY DEF DialTracked
  <2>2. <<"dialer", j>> \in Conn /\ "dialer" \in Node
    OBVIOUS
  <2> QED
    BY <1>2, <2>2 DEF Established, TypeOK, DialTracked, callbackVars, peerVars
<1>3. ASSUME NEW k \in Dial, DialFails(k) PROVE DialTracked'
  <2>1. SUFFICES ASSUME NEW j \in Dial
                 PROVE  /\ dial'[j] \in {"dialing", "waiting", "returned"} =>
                             table'["dialer"] = j \/ <<"dialer", j>> \in closed' \/ Displaced(j)'
                        /\ dial'[j] = "failed" => <<"dialer", j>> \in closed'
                        /\ dial'[j] = "returned" => connected'[<<"dialer", j>>] = "ok"
    BY DEF DialTracked
  <2>2. <<"dialer", j>> \in Conn /\ "dialer" \in Node
    OBVIOUS
  <2>3. \A m \in Node : table'[m] # table[m] => m = "dialer" /\ table[m] = k
    BY <1>3, <2>2, Removal DEF DialFails, Fault
  <2>4. /\ dial' = [dial EXCEPT ![k] = "refused"] /\ UNCHANGED <<connected, late>> /\ closed' = closed
    BY <1>3 DEF DialFails, Fault, callbackVars
  <2> QED
    BY <2>2, <2>3, <2>4 DEF TypeOK, DialTracked
<1>4. ASSUME NEW k \in Dial, DialGivesUp(k) PROVE DialTracked'
  <2>1. SUFFICES ASSUME NEW j \in Dial
                 PROVE  /\ dial'[j] \in {"dialing", "waiting", "returned"} =>
                             table'["dialer"] = j \/ <<"dialer", j>> \in closed' \/ Displaced(j)'
                        /\ dial'[j] = "failed" => <<"dialer", j>> \in closed'
                        /\ dial'[j] = "returned" => connected'[<<"dialer", j>>] = "ok"
    BY DEF DialTracked
  <2>2. <<"dialer", j>> \in Conn /\ "dialer" \in Node
    OBVIOUS
  <2>3. \A m \in Node : table'[m] # table[m] => m = "dialer" /\ table[m] = k
    BY <1>4, <2>2, Removal DEF DialGivesUp
  <2>4. /\ dial' = [dial EXCEPT ![k] = "failed"] /\ UNCHANGED <<connected, late>> /\ closed' = closed \cup {<<"dialer", k>>}
    BY <1>4 DEF DialGivesUp, callbackVars
  <2> QED
    BY <2>2, <2>3, <2>4 DEF TypeOK, DialTracked
<1>5. ASSUME NEW k \in Dial, DialReturns(k) PROVE DialTracked'
  <2>1. SUFFICES ASSUME NEW j \in Dial
                 PROVE  /\ dial'[j] \in {"dialing", "waiting", "returned"} =>
                             table'["dialer"] = j \/ <<"dialer", j>> \in closed' \/ Displaced(j)'
                        /\ dial'[j] = "failed" => <<"dialer", j>> \in closed'
                        /\ dial'[j] = "returned" => connected'[<<"dialer", j>>] = "ok"
    BY DEF DialTracked
  <2>2. <<"dialer", j>> \in Conn /\ "dialer" \in Node
    OBVIOUS
  <2>3. \A m \in Node : table'[m] # table[m] => m = "dialer" /\ table[m] = k /\ <<"dialer", k>> \in closed'
    BY <1>5, <2>2, Removal DEF DialReturns
  <2>4. /\ dial[k] = "waiting" /\ dial' = [dial EXCEPT ![k] = "returned"] /\ UNCHANGED <<connected, late>>
        /\ closed \subseteq closed' /\ connected[<<"dialer", k>>] = "ok"
    BY <1>5 DEF DialReturns, callbackVars
  <2>5. table["dialer"] = j => table'["dialer"] = j \/ <<"dialer", j>> \in closed'
    BY <2>2, <2>3
  <2>6. CASE j = k
    BY <2>2, <2>4, <2>5, <2>6 DEF TypeOK, DialTracked
  <2>7. CASE j # k
    BY <2>2, <2>4, <2>5, <2>7 DEF TypeOK, DialTracked
  <2> QED
    BY <2>6, <2>7
<1>6. ASSUME NEW c \in Conn, OnConnected(c) PROVE DialTracked'
  <2>1. /\ dial' = dial /\ closed \subseteq closed' /\ late \subseteq late' /\ table' = table
        /\ \A d \in Conn : connected[d] = "ok" => connected'[d] = "ok"
    BY <1>6 DEF OnConnected, Connects, Exists, TypeOK, callbackVars, peerVars
  <2> QED
    BY <2>1, DialKept
<1>7. ASSUME NEW c \in Conn, SendHello(c) PROVE DialTracked'
  <2>1. /\ dial' = dial /\ closed \subseteq closed' /\ late \subseteq late' /\ table' = table
        /\ \A d \in Conn : connected[d] = "ok" => connected'[d] = "ok"
    BY <1>7 DEF SendHello, Connected, TypeOK, callbackVars, peerVars
  <2> QED
    BY <2>1, DialKept
<1>8. ASSUME NEW c \in Conn, OnMessage(c) PROVE DialTracked'
  <2>1. /\ dial' = dial /\ closed \subseteq closed' /\ late \subseteq late' /\ table' = table
        /\ \A d \in Conn : connected[d] = "ok" => connected'[d] = "ok"
    BY <1>8 DEF OnMessage, Delivers, TypeOK, callbackVars, peerVars
  <2> QED
    BY <2>1, DialKept
<1>9. ASSUME NEW c \in Conn, HandleHello(c) PROVE DialTracked'
  <2>1. c \in Conn /\ NodeOf(c) \in Node /\ c[2] \in Dial /\ c = <<NodeOf(c), c[2]>>
    OBVIOUS
  <2>2. /\ dial' = dial /\ closed \subseteq closed' /\ late \subseteq late' /\ UNCHANGED connected
        /\ table' = table \/ table' = [table EXCEPT ![NodeOf(c)] = c[2]]
        /\ table' # table /\ c \in closed => c \in late'
    BY <1>9 DEF HandleHello, peerVars
  <2>3. NodeOf(c) = "dialer" => c \in closed \/ table["dialer"] = c[2] \/ Displaced(c[2])
    <3>1. Exists(c)
      BY <1>9, <2>1 DEF HandleHello, Callback
    <3> QED
      BY <2>1, <3>1 DEF Exists, DialTracked
  <2>4. ASSUME NEW k \in Dial, table["dialer"] = k
        PROVE  table'["dialer"] = k \/ <<"dialer", k>> \in closed' \/ Displaced(k)'
    <3>1. CASE table'["dialer"] = table["dialer"]
      BY <2>4, <3>1
    <3>2. CASE table'["dialer"] # table["dialer"]
      <4>1. NodeOf(c) = "dialer" /\ c = <<"dialer", c[2]>> /\ c[2] # k /\ table' # table
        BY <2>1, <2>2, <2>4, <3>2 DEF TypeOK
      <4>2. CASE c \in closed
        <5>1. c[2] \in Dial /\ c[2] # k
          BY <2>1, <4>1
        <5>2. <<"dialer", c[2]>> \in late'
          BY <2>2, <4>1, <4>2
        <5> QED
          BY <5>1, <5>2 DEF Displaced
      <4>3. CASE Displaced(c[2])
        <5>1. PICK j \in Dial : <<"dialer", j>> \in late
          BY <4>3 DEF Displaced
        <5>2. CASE j = k
          BY <5>1, <5>2, <2>2 DEF TypeOK
        <5>3. CASE j # k
          BY <5>1, <5>3, <2>2 DEF Displaced
        <5> QED
          BY <5>2, <5>3
      <4> QED
        BY <2>3, <2>4, <4>1, <4>2, <4>3
    <3> QED
      BY <3>1, <3>2
  <2> QED
    BY <2>2, <2>4, DialKept
<1>10. ASSUME NEW c \in Conn, HandleData(c) PROVE DialTracked'
  <2>1. /\ dial' = dial /\ closed \subseteq closed' /\ late \subseteq late' /\ table' = table
        /\ \A d \in Conn : connected[d] = "ok" => connected'[d] = "ok"
    BY <1>10 DEF HandleData, TypeOK, callbackVars, peerVars
  <2> QED
    BY <2>1, DialKept
<1>11. ASSUME NEW c \in Conn, OnClose(c) PROVE DialTracked'
  <2>1. NodeOf(c) \in Node /\ c[2] \in Dial /\ c = <<NodeOf(c), c[2]>>
    OBVIOUS
  <2>2. \A m \in Node : table'[m] # table[m] => m = NodeOf(c) /\ table[m] = c[2]
    BY <1>11, <2>1, Removal DEF OnClose, Notifies
  <2>3. dial' = dial /\ closed' = closed /\ c \in closed /\ UNCHANGED <<late, connected>>
    BY <1>11 DEF OnClose, Notifies
  <2> QED
    BY <2>1, <2>2, <2>3, DialKept
<1>12. ASSUME NEW c \in Conn, Breaks(c) PROVE DialTracked'
  <2>1. /\ dial' = dial /\ closed \subseteq closed' /\ late \subseteq late' /\ table' = table
        /\ \A d \in Conn : connected[d] = "ok" => connected'[d] = "ok"
    BY <1>12 DEF Breaks, Closes, Fault, TypeOK, callbackVars, peerVars
  <2> QED
    BY <2>1, DialKept
<1>13. ASSUME NEW c \in Conn, Follows(c) PROVE DialTracked'
  <2>1. /\ dial' = dial /\ closed \subseteq closed' /\ late \subseteq late' /\ table' = table
        /\ \A d \in Conn : connected[d] = "ok" => connected'[d] = "ok"
    BY <1>13 DEF Follows, Closes, TypeOK, callbackVars, peerVars
  <2> QED
    BY <2>1, DialKept
<1>14. ASSUME NEW n \in Node, Send(n) PROVE DialTracked'
  <2>1. /\ dial' = dial /\ closed \subseteq closed' /\ late \subseteq late' /\ table' = table
        /\ \A d \in Conn : connected[d] = "ok" => connected'[d] = "ok"
    BY <1>14 DEF Send, CanSend, Entry, TypeOK, callbackVars, peerVars
  <2> QED
    BY <2>1, DialKept
<1>15. ASSUME NEW n \in Node, Disconnect(n) PROVE DialTracked'
  <2>1. /\ dial' = dial /\ closed \subseteq closed' /\ late \subseteq late' /\ table' = table
        /\ \A d \in Conn : connected[d] = "ok" => connected'[d] = "ok"
    BY <1>15 DEF Disconnect, Fault, TypeOK, callbackVars, peerVars
  <2> QED
    BY <2>1, DialKept
<1>16. ASSUME NEW n \in Node, CloseBegins(n) PROVE DialTracked'
  <2>1. /\ dial' = dial /\ closed \subseteq closed' /\ late \subseteq late' /\ table' = table
        /\ \A d \in Conn : connected[d] = "ok" => connected'[d] = "ok"
    BY <1>16 DEF CloseBegins, Fault, TypeOK, callbackVars, peerVars
  <2> QED
    BY <2>1, DialKept
<1>17. ASSUME NEW n \in Node, CloseEnds(n) PROVE DialTracked'
  <2>1. /\ dial' = dial /\ closed \subseteq closed' /\ late \subseteq late' /\ table' = table
        /\ \A d \in Conn : connected[d] = "ok" => connected'[d] = "ok"
    BY <1>17 DEF CloseEnds, TypeOK, callbackVars, peerVars
  <2> QED
    BY <2>1, DialKept
<1>18. CASE UNCHANGED vars
  BY <1>18, DialKept DEF vars, callbackVars, peerVars
<1> QED
  BY <1>1, <1>2, <1>3, <1>4, <1>5, <1>6, <1>7, <1>8, <1>9, <1>10, <1>11, <1>12, <1>13, <1>14, <1>15, <1>16, <1>17, <1>18
     DEF Next, DialStep, EndStep

\* Every step keeps CloseComplete.
LEMMA StepCloseComplete ==
  ASSUME IInv, [Next]_vars
  PROVE  CloseComplete'
<1>0. \A k \in Dial : Displaced(k) => Displaced(k)'
  BY LateGrows, DisplacedStays
<1> USE Ends, <1>0 DEF IInv, TypeOK, Callback, DialTracked, CloseComplete, callbackVars, peerVars
<1>1. ASSUME NEW k \in Dial, Connect(k) PROVE CloseComplete'
  BY <1>1 DEF Connect
<1>2. ASSUME NEW k \in Dial, Established(k) PROVE CloseComplete'
  BY <1>2 DEF Established
<1>3. ASSUME NEW k \in Dial, DialFails(k) PROVE CloseComplete'
  BY <1>3 DEF DialFails, Fault
<1>4. ASSUME NEW k \in Dial, DialGivesUp(k) PROVE CloseComplete'
  BY <1>4 DEF DialGivesUp
<1>5. ASSUME NEW k \in Dial, DialReturns(k) PROVE CloseComplete'
  BY <1>5 DEF DialReturns
<1>6. ASSUME NEW c \in Conn, OnConnected(c) PROVE CloseComplete'
  BY <1>6 DEF OnConnected, Connects, Exists
<1>7. ASSUME NEW c \in Conn, SendHello(c) PROVE CloseComplete'
  BY <1>7 DEF SendHello, Connected
<1>8. ASSUME NEW c \in Conn, OnMessage(c) PROVE CloseComplete'
  BY <1>8 DEF OnMessage, Delivers
<1>9. ASSUME NEW c \in Conn, HandleHello(c) PROVE CloseComplete'
  BY <1>9 DEF HandleHello
<1>10. ASSUME NEW c \in Conn, HandleData(c) PROVE CloseComplete'
  BY <1>10 DEF HandleData
<1>11. ASSUME NEW c \in Conn, OnClose(c) PROVE CloseComplete'
  BY <1>11 DEF OnClose, Notifies
<1>12. ASSUME NEW c \in Conn, Breaks(c) PROVE CloseComplete'
  BY <1>12 DEF Breaks, Closes, Fault
<1>13. ASSUME NEW c \in Conn, Follows(c) PROVE CloseComplete'
  BY <1>13 DEF Follows, Closes
<1>14. ASSUME NEW n \in Node, Send(n) PROVE CloseComplete'
  BY <1>14 DEF Send, CanSend, Entry
<1>15. ASSUME NEW n \in Node, Disconnect(n) PROVE CloseComplete'
  BY <1>15 DEF Disconnect, Fault
<1>16. ASSUME NEW n \in Node, CloseBegins(n) PROVE CloseComplete'
  BY <1>16 DEF CloseBegins, Fault
<1>17. ASSUME NEW n \in Node, CloseEnds(n) PROVE CloseComplete'
  <2>1. SUFFICES ASSUME stop'["dialer"] = "closed", NEW k \in Dial, dial'[k] = "returned"
                 PROVE  <<"dialer", k>> \in closed' \/ Displaced(k)'
    BY DEF CloseComplete
  <2>2. /\ dial[k] = "returned" /\ late' = late /\ closed \subseteq closed' /\ <<"dialer", k>> \in Conn
    BY <1>17, <2>1 DEF CloseEnds
  <2>3. CASE n = "acceptor"
    BY <1>17, <2>1, <2>2, <2>3 DEF CloseEnds
  <2>4. CASE n = "dialer"
    <3>1. table[n] = k => <<"dialer", k>> \in closed'
      <4> SUFFICES ASSUME table[n] = k PROVE <<"dialer", k>> \in closed'
        OBVIOUS
      <4>1. table[n] # 0 /\ Entry(n) = <<"dialer", k>>
        BY <2>4 DEF Entry
      <4>2. connected[Entry(n)] = "ok"
        BY <2>2, <4>1
      <4>3. PeerClose(Entry(n)) = {Entry(n)}
        BY <4>1, <4>2, ClosesEntry
      <4> QED
        BY <1>17, <4>1, <4>3 DEF CloseEnds
    <3> QED
      BY <2>2, <2>4, <3>1
  <2> QED
    BY <2>3, <2>4
<1>18. CASE UNCHANGED vars
  BY <1>18 DEF vars
<1> QED
  BY <1>1, <1>2, <1>3, <1>4, <1>5, <1>6, <1>7, <1>8, <1>9, <1>10, <1>11, <1>12, <1>13, <1>14, <1>15, <1>16, <1>17, <1>18
     DEF Next, DialStep, EndStep

-----------------------------------------------------------------------------
\* IInv holds in every reachable state.
THEOREM Invariance == Spec => []IInv
<1>1. Init => IInv
  BY BoundAssumption, Ends
     DEF Init, CallbacksInit, IInv, TypeOK, Callback, HelloFirst, DataAfterHello, OpenIsTracked,
         DialTracked, CloseComplete
<1>2. IInv /\ [Next]_vars => IInv'
  BY StepTypeOK, StepCallback, StepHelloFirst, StepDataAfterHello, StepOpenIsTracked,
     StepDialTracked, StepCloseComplete DEF IInv
<1> QED
  BY <1>1, <1>2, PTL DEF Spec

\* Every variable keeps its type.
THEOREM TypeCorrect == Spec => []TypeOK
<1>1. IInv => TypeOK
  BY DEF IInv
<1> QED
  BY Invariance, <1>1, PTL

\* No data message or heartbeat meets a peer before its hello (handleData,
\* handleHeartbeat never return the error that closes the connection).
THEOREM NoDataBeforeHello == Spec => []DataAfterHello
<1>1. IInv => DataAfterHello
  BY DEF IInv
<1> QED
  BY Invariance, <1>1, PTL

\* handleHello, remove and Connect together: an open peer that is Connected is
\* the one its node's table has.
THEOREM Tracked == Spec => []OpenIsTracked
<1>1. IInv => OpenIsTracked
  BY DEF IInv
<1> QED
  BY Invariance, <1>1, PTL

\* Transport.Close racing Connect leaves no dialled connection open, unless the
\* late hello of another connection replaced its entry.
THEOREM ClosedAll == Spec => []CloseComplete
<1>1. IInv => CloseComplete
  BY DEF IInv
<1> QED
  BY Invariance, <1>1, PTL

\* The transport uses a connection only as its contract allows: every step is,
\* for the callbacks, a step of module Callbacks or none.
THEOREM UsesCallbacks == Spec => CallbacksSafety
<1>1. Init => CallbacksInit
  BY DEF Init
<1>2. IInv /\ [Next]_vars => [CallbacksNext]_callbackVars
  <2> SUFFICES ASSUME IInv, [Next]_vars PROVE [CallbacksNext]_callbackVars
    OBVIOUS
  <2> USE Ends DEF IInv, TypeOK, CallbacksNext, callbackVars
  <2>1. ASSUME NEW k \in Dial, Connect(k) PROVE [CallbacksNext]_callbackVars
    BY <2>1 DEF Connect, Closes, Connects, Connected, Delivers, Notifies
  <2>2. ASSUME NEW k \in Dial, Established(k) PROVE [CallbacksNext]_callbackVars
    BY <2>2 DEF Established, Closes, Connects, Connected, Delivers, Notifies
  <2>3. ASSUME NEW k \in Dial, DialFails(k) PROVE [CallbacksNext]_callbackVars
    BY <2>3 DEF DialFails, Fault, Closes, Connects, Connected, Delivers, Notifies
  <2>4. ASSUME NEW k \in Dial, DialGivesUp(k) PROVE [CallbacksNext]_callbackVars
    <3>1. <<"dialer", k>> \in Conn
      BY <2>4 DEF DialGivesUp
    <3>2. closed' = closed \/ (<<"dialer", k>> \notin closed /\ closed' = closed \cup {<<"dialer", k>>})
      BY <2>4, <3>1, Absorb DEF DialGivesUp
    <3>3. UNCHANGED callbackVars \/ Closes(<<"dialer", k>>)
      BY <2>4, <3>2 DEF DialGivesUp, Closes
    <3> QED
      BY <3>1, <3>3
  <2>5. ASSUME NEW k \in Dial, DialReturns(k) PROVE [CallbacksNext]_callbackVars
    <3>1. <<"dialer", k>> \in Conn
      BY <2>5 DEF DialReturns
    <3>2. closed' = closed \/ (<<"dialer", k>> \notin closed /\ closed' = closed \cup {<<"dialer", k>>})
      BY <2>5, <3>1, Absorb DEF DialReturns
    <3>3. UNCHANGED callbackVars \/ Closes(<<"dialer", k>>)
      BY <2>5, <3>2 DEF DialReturns, Closes
    <3> QED
      BY <3>1, <3>3
  <2>6. ASSUME NEW c \in Conn, OnConnected(c) PROVE [CallbacksNext]_callbackVars
    BY <2>6 DEF OnConnected, Connects, Exists, Closes, Connects, Connected, Delivers, Notifies
  <2>7. ASSUME NEW c \in Conn, SendHello(c) PROVE [CallbacksNext]_callbackVars
    BY <2>7 DEF SendHello, Connected, Closes, Connects, Connected, Delivers, Notifies
  <2>8. ASSUME NEW c \in Conn, OnMessage(c) PROVE [CallbacksNext]_callbackVars
    BY <2>8 DEF OnMessage, Delivers, Closes, Connects, Connected, Delivers, Notifies
  <2>9. ASSUME NEW c \in Conn, HandleHello(c) PROVE [CallbacksNext]_callbackVars
    <3> DEFINE n == NodeOf(c)
    <3>1. n \in Node
      OBVIOUS
    <3>2. CASE closed' = closed \/ closed' = closed \cup {c}
      <4>0. closed' = closed \/ (c \notin closed /\ closed' = closed \cup {c})
        BY <3>2, Absorb
      <4>1. UNCHANGED callbackVars \/ Closes(c)
        BY <2>9, <4>0 DEF HandleHello, Closes
      <4> QED
        BY <4>1
    <3>3. CASE table[n] # 0 /\ closed' = closed \cup PeerClose(Entry(n))
      <4>1. Entry(n) \in Conn /\ (PeerClose(Entry(n)) = {} \/ PeerClose(Entry(n)) = {Entry(n)})
        BY <3>1, <3>3, ClosesEntry
      <4>2. UNCHANGED callbackVars \/ Closes(Entry(n))
        BY <2>9, <3>3, <4>1 DEF HandleHello, Closes
      <4> QED
        BY <4>1, <4>2
    <3>4. \/ closed' = closed \/ closed' = closed \cup {c}
          \/ table[n] # 0 /\ closed' = closed \cup PeerClose(Entry(n))
      <4>1. CASE state[c] # "Handshaking"
        BY <2>9, <4>1 DEF HandleHello
      <4>2. CASE state[c] = "Handshaking" /\ table[n] \in {0, c[2]}
        BY <2>9, <4>2, Absorb DEF HandleHello
      <4>3. CASE state[c] = "Handshaking" /\ table[n] \notin {0, c[2]}
        BY <2>9, <4>3 DEF HandleHello
      <4> QED
        BY <4>1, <4>2, <4>3
    <3> QED
      BY <3>2, <3>3, <3>4
  <2>10. ASSUME NEW c \in Conn, HandleData(c) PROVE [CallbacksNext]_callbackVars
    BY <2>10 DEF HandleData, Closes, Connects, Connected, Delivers, Notifies
  <2>11. ASSUME NEW c \in Conn, OnClose(c) PROVE [CallbacksNext]_callbackVars
    BY <2>11 DEF OnClose, Notifies, Closes, Connects, Connected, Delivers, Notifies
  <2>12. ASSUME NEW c \in Conn, Breaks(c) PROVE [CallbacksNext]_callbackVars
    BY <2>12 DEF Breaks, Closes, Fault, Closes, Connects, Connected, Delivers, Notifies
  <2>13. ASSUME NEW c \in Conn, Follows(c) PROVE [CallbacksNext]_callbackVars
    BY <2>13 DEF Follows, Closes, Closes, Connects, Connected, Delivers, Notifies
  <2>14. ASSUME NEW n \in Node, Send(n) PROVE [CallbacksNext]_callbackVars
    BY <2>14 DEF Send, CanSend, Entry, Closes, Connects, Connected, Delivers, Notifies
  <2>15. ASSUME NEW n \in Node, Disconnect(n) PROVE [CallbacksNext]_callbackVars
    <3>1. Entry(n) \in Conn
      BY <2>15, ClosesEntry DEF Disconnect, Fault
    <3>2. closed' = closed \/ (Entry(n) \notin closed /\ closed' = closed \cup {Entry(n)})
      BY <2>15, <3>1, Absorb, ClosesEntry DEF Disconnect, Fault
    <3>3. UNCHANGED callbackVars \/ Closes(Entry(n))
      BY <2>15, <3>2 DEF Disconnect, Fault, Closes
    <3> QED
      BY <3>1, <3>3
  <2>16. ASSUME NEW n \in Node, CloseBegins(n) PROVE [CallbacksNext]_callbackVars
    BY <2>16 DEF CloseBegins, Fault, Closes, Connects, Connected, Delivers, Notifies
  <2>17. ASSUME NEW n \in Node, CloseEnds(n) PROVE [CallbacksNext]_callbackVars
    <3>1. CASE table[n] = 0
      BY <2>17, <3>1 DEF CloseEnds
    <3>2. CASE table[n] # 0
      <4>1. Entry(n) \in Conn /\ (PeerClose(Entry(n)) = {} \/ PeerClose(Entry(n)) = {Entry(n)})
        BY <3>2, ClosesEntry
      <4>2. UNCHANGED callbackVars \/ Closes(Entry(n))
        BY <2>17, <3>2, <4>1 DEF CloseEnds, Closes
      <4> QED
        BY <4>1, <4>2
    <3> QED
      BY <3>1, <3>2
  <2>18. CASE UNCHANGED vars
    BY <2>18 DEF vars, Closes, Connects, Connected, Delivers, Notifies
  <2> QED
    BY <2>1, <2>2, <2>3, <2>4, <2>5, <2>6, <2>7, <2>8, <2>9, <2>10, <2>11, <2>12, <2>13, <2>14, <2>15, <2>16, <2>17, <2>18 DEF Next, DialStep, EndStep
<1> QED
  BY <1>1, <1>2, Invariance, PTL DEF Spec, CallbacksSafety
=============================================================================
