-------------------------- MODULE ConnectionProofs --------------------------
(***************************************************************************)
(* Theorems about module Connection, for any capacity of the send queue,   *)
(* any number of frames, any ends that send or fail, with and without      *)
(* encryption.                                                             *)
(*                                                                         *)
(* None of the properties is inductive.  That a business frame meets a     *)
(* peer that is ready (NoEarlyData) rests on the frames of an end being    *)
(* numbered without a gap, the key as number 0 (Gapless), and on how many  *)
(* of them the peer has consumed in each phase of its handshake (Reads);   *)
(* that they arrive in order, on the order of all frames on their way      *)
(* (InOrder), for a write may fail and leave a gap; and what the drain     *)
(* leaves, on what the writer has done before it closes (Ends).            *)
(***************************************************************************)
EXTENDS Connection, SequenceTheorems, TLAPS

\* Where the main goroutine is, what it has called, and what the state is then.
Phase(e) ==
  /\ state[e] = "created" => main[e] = "start"
  /\ main[e] \in {"start", "begun", "arm"} => state[e] # "ready"
  /\ main[e] \in {"start", "begun", "arm", "exchange", "derive", "opening"} => connected[e] = "no"
  /\ main[e] \in {"arm", "exchange"} => encrypted
  /\ main[e] = "exchange" => e = "server"
  /\ main[e] = "reading" =>
       connected[e] = "ok" \/ (connected[e] = "no" /\ encrypted /\ state[e] # "ready")
  /\ main[e] = "connecting" => connected[e] = "running"
  /\ main[e] = "deliver" => connected[e] = "ok"
  /\ main[e] \in {"exchange", "derive", "opening"} \/ connected[e] # "no" =>
       state[e] \in {"ready", "closed"}
  /\ main[e] = "opening" \/ connected[e] # "no" => (encrypted => key[e])

\* OnClose and the end of the socket come last, after Close; when the
\* writer closes it has written what Close owes, all but the late frames.
Ends(e) ==
  /\ onClose[e] # "none" => writer[e] = "ended"
  /\ ~socket[e] => writer[e] = "ended"
  /\ writer[e] \in {"notify", "ended"} => state[e] = "closed"
  /\ owed[e] <= pushed[e]
  /\ writer[e] \notin {"loop", "drain"} /\ ~broken[e] =>
       pushed[e] - Len(queue[e]) + late[e] >= owed[e]

\* Before an end sends its key it has queued nothing, afterwards one frame more
\* than the business frames; only who was given the connection sends those.
KeyDue(e) ==
  \/ main[e] \in {"start", "begun"}
  \/ e = "server" /\ (main[e] \in {"arm", "exchange"} \/ (main[e] = "reading" /\ connected[e] = "no"))
KeySent(e) ==
  \/ main[e] \in {"derive", "opening", "connecting"} \/ connected[e] # "no"
  \/ e = "client" /\ main[e] \in {"arm", "reading"}

Keys == IF encrypted THEN 1 ELSE 0

Counts(e) ==
  /\ ~encrypted => pushed[e] = sent[e]
  /\ encrypted /\ KeyDue(e) => pushed[e] = 0 /\ sent[e] = 0
  /\ encrypted /\ KeySent(e) => pushed[e] = sent[e] + 1
  /\ sender[e] = "checked" => connected[e] # "no" /\ pushed[e] < MaxPush

\* The frames of an end that are on their way have consecutive numbers, until a
\* write fails.
Consumed(e) == pushed[e] - Len(queue[e]) - Len(wire[e])

Gapless(e) ==
  /\ Consumed(e) >= 0 /\ \A i \in 1..Len(queue[e]) : queue[e][i] # Torn
  /\ ~broken[e] =>
       /\ \A i \in 1..Len(queue[e]) : queue[e][i] = pushed[e] - Len(queue[e]) + i - Keys
       /\ \A i \in 1..Len(wire[e]) : wire[e][i] = Consumed(e) + i - Keys

\* What an end has consumed of its peer's frames: nothing before it left its
\* handshake, afterwards the key and what it passed to OnMessage.
Reads(e) ==
  /\ ~broken[Peer(e)] /\ state[e] \in {"created", "handshaking"} => Consumed(Peer(e)) = 0
  /\ ~broken[Peer(e)] /\ (main[e] \in {"exchange", "derive", "opening"} \/ connected[e] # "no") =>
       Consumed(Peer(e)) = Len(received[e]) + Keys
  /\ Len(received[e]) > 0 => connected[e] = "ok"
  /\ main[e] = "deliver" => Len(wire[Peer(e)]) > 0 /\ wire[Peer(e)][1] > 0

\* All frames of an end, received, on the wire and queued, are in their order, a
\* torn one aside, and none is newer than what was sent.
InOrder(e) ==
  LET r == received[Peer(e)]
      w == wire[e]
      q == queue[e] IN
  /\ \A i, j \in 1..Len(r) : i < j => r[i] < r[j]
  /\ \A i, j \in 1..Len(w) : i < j => w[i] < w[j] \/ w[j] = Torn
  /\ \A i, j \in 1..Len(q) : i < j => q[i] < q[j]
  /\ \A i \in 1..Len(r), j \in 1..Len(w) : r[i] < w[j] \/ w[j] = Torn
  /\ \A i \in 1..Len(r), j \in 1..Len(q) : r[i] < q[j]
  /\ \A i \in 1..Len(w), j \in 1..Len(q) : w[i] < q[j]
  /\ \A i \in 1..Len(r) : r[i] <= sent[e]
  /\ \A i \in 1..Len(w) : w[i] <= sent[e]
  /\ \A i \in 1..Len(q) : q[i] <= sent[e]

Inv(e) == Phase(e) /\ Ends(e) /\ Counts(e) /\ Gapless(e) /\ Reads(e) /\ InOrder(e)

\* Received frames, as long as no write failed: the first, the second, ...
Numbered ==
  \A e \in End : ~broken[Peer(e)] => \A i \in 1..Len(received[e]) : received[e][i] = i

IInv == TypeOK /\ (\A e \in End : Inv(e)) /\ Numbered

-----------------------------------------------------------------------------
\* The number of the frame after those on the wire.
LEMMA Regroup ==
  ASSUME NEW p \in Nat, NEW q \in Nat, NEW w \in Nat, NEW k \in Nat
  PROVE  p - q + 1 - k = (p - q - w) + (w + 1) - k
OBVIOUS

\* The two ends.
LEMMA TwoEnds ==
  /\ End = {"client", "server"}
  /\ \A e \in End : Peer(e) \in End /\ Peer(e) # e /\ Peer(Peer(e)) = e
BY DEF End, Peer

\* The types of what the phase of an end is stated in.
Threads ==
  /\ state \in [End -> {"created", "handshaking", "ready", "closed"}]
  /\ main \in [End -> {"start", "begun", "arm", "abort", "opening", "connecting",
                       "reading", "deliver", "exchange", "derive", "failed", "ended"}]
  /\ connected \in [End -> {"no", "running", "ok", "error"}] /\ key \in [End -> BOOLEAN]

\* Typing and phases, without the rest of the invariant.
LEMMA ThreadsTyped ==
  ASSUME IInv
  PROVE  Threads /\ \A d \in End : Phase(d)
BY DEF IInv, Inv, TypeOK, Threads

\* A step of the other end does not change the phase.
LEMMA PhaseOther ==
  ASSUME NEW d \in End, Phase(d), encrypted' = encrypted, state'[d] = state[d],
         main'[d] = main[d], connected'[d] = connected[d], key'[d] = key[d]
  PROVE  Phase(d)'
BY DEF Phase

\* ... nor what it has queued.
LEMMA CountsOther ==
  ASSUME NEW d \in End, Counts(d), encrypted' = encrypted,
         pushed'[d] = pushed[d], sent'[d] = sent[d], sender'[d] = sender[d],
         main'[d] = main[d], connected'[d] = connected[d]
  PROVE  Counts(d)'
BY DEF Counts, KeyDue, KeySent

\* ... nor what it has read, if no frame moves.
LEMMA ReadsOther ==
  ASSUME NEW d \in End, Reads(d), UNCHANGED <<encrypted, broken, wire, received>>,
         Consumed(Peer(d))' = Consumed(Peer(d)),
         state'[d] = state[d], main'[d] = main[d], connected'[d] = connected[d]
  PROVE  Reads(d)'
BY DEF Reads, Keys

\* Steps that leave alone what a part of the invariant speaks of: the phase,
LEMMA PhaseStays ==
  ASSUME NEW d \in End, Phase(d), UNCHANGED <<encrypted, state, main, connected, key>>
  PROVE  Phase(d)'
BY DEF Phase

\* ... how the writer ends,
LEMMA EndsStays ==
  ASSUME NEW d \in End, Ends(d), UNCHANGED <<onClose, writer, socket, state, owed, late, pushed, broken, queue>>
  PROVE  Ends(d)'
BY DEF Ends

\* The counters the end of the writer is stated in.
LEMMA EndTyped ==
  ASSUME IInv, NEW d \in End
  PROVE  /\ Ends(d) /\ pushed[d] \in Nat /\ owed[d] \in Nat /\ late[d] \in Nat
         /\ Len(queue[d]) \in Nat
         /\ writer[d] \in {"loop", "drain", "close", "notify", "ended"}
<1>1. queue[d] \in Seq(Frame)
  BY DEF IInv, TypeOK
<1> QED
  BY <1>1 DEF IInv, Inv, TypeOK

\* What Close assigns.
LEMMA CloseFacts ==
  ASSUME IInv, NEW e \in End, Close(e)
  PROVE  /\ state' \in [End -> {"created", "handshaking", "ready", "closed"}]
         /\ owed' \in [End -> Nat] /\ late' \in [End -> Nat]
         /\ state'[e] = "closed"
         /\ state[e] = "closed" => owed'[e] = owed[e] /\ late'[e] = late[e]
         /\ state[e] # "closed" => owed'[e] = pushed[e]
         /\ state[e] # "closed" /\ writer[e] = "close" => late'[e] = Len(queue[e])
         /\ \A d \in End : d # e =>
              state'[d] = state[d] /\ owed'[d] = owed[d] /\ late'[d] = late[d]
<1>1. pushed[e] \in Nat /\ Len(queue[e]) \in Nat
  BY EndTyped
<1>2. state \in [End -> {"created", "handshaking", "ready", "closed"}] /\ owed \in [End -> Nat]
      /\ late \in [End -> Nat]
  BY DEF IInv, TypeOK
<1> QED
  BY <1>1, <1>2 DEF Close

\* A Close, the writer's own or another's: what it owes is written already when
\* the writer is past its drain, all but what was queued since.
LEMMA CloseEnds ==
  ASSUME IInv, NEW e \in End, Close(e), UNCHANGED <<onClose, socket, pushed, broken, queue>>,
         \/ writer' = writer
         \/ writer[e] = "close" /\ writer' = [writer EXCEPT ![e] = "notify"],
         NEW d \in End
  PROVE  Ends(d)'
<1>1. /\ Ends(d) /\ pushed[d] \in Nat /\ owed[d] \in Nat /\ late[d] \in Nat
      /\ Len(queue[d]) \in Nat /\ Len(queue'[d]) = Len(queue[d])
      /\ writer[d] \in {"loop", "drain", "close", "notify", "ended"}
  BY EndTyped
<1>2. writer'[d] = writer[d] \/ (d = e /\ writer[d] = "close" /\ writer'[d] = "notify")
  BY DEF IInv, TypeOK
<1>3. CASE d # e \/ state[d] = "closed"
  <2>1. owed'[d] = owed[d] /\ late'[d] = late[d] /\ (state'[d] = state[d] \/ state'[d] = "closed")
    BY <1>3, CloseFacts
  <2> QED
    BY <1>1, <1>2, <1>3, <2>1, CloseFacts DEF Ends
<1>4. CASE d = e /\ state[d] # "closed"
  <2>1. owed'[d] = pushed[d] /\ state'[d] = "closed"
    BY <1>4, CloseFacts
  <2>2. writer[d] \in {"loop", "drain", "close"}
    BY <1>1, <1>4 DEF Ends
  <2>3. writer[d] = "close" => late'[d] = Len(queue[d])
    BY <1>4, CloseFacts
  <2> QED
    BY <1>1, <1>2, <2>1, <2>2, <2>3 DEF Ends
<1> QED
  BY <1>3, <1>4

\* ... what an end has queued,
LEMMA CountsStays ==
  ASSUME NEW d \in End, Counts(d), UNCHANGED <<encrypted, pushed, sent, main, connected, sender>>
  PROVE  Counts(d)'
BY DEF Counts, KeyDue, KeySent

\* ... what it has consumed.
LEMMA ReadsStays ==
  ASSUME NEW d \in End, Reads(d),
         UNCHANGED <<encrypted, broken, state, pushed, queue, wire, main, connected, received>>
  PROVE  Reads(d)'
BY DEF Reads, Consumed, Keys

\* Steps that move no frame.
LEMMA FramesStay ==
  ASSUME IInv, UNCHANGED <<encrypted, queueVars, wire, received>>
  PROVE  /\ \A d \in End : Gapless(d)' /\ InOrder(d)' /\ Consumed(d)' = Consumed(d)
         /\ Keys' = Keys /\ Numbered'
<1>1. \A d \in End : Consumed(d)' = Consumed(d)
  BY DEF Consumed, queueVars
<1>2. Keys' = Keys
  BY DEF Keys
<1>3. ASSUME NEW d \in End PROVE Gapless(d)'
  <2>1. Gapless(d)
    BY DEF IInv, Inv
  <2> QED
    BY <2>1 DEF Gapless, Keys, Consumed, queueVars
<1>4. ASSUME NEW d \in End PROVE InOrder(d)'
  <2>1. InOrder(d)
    BY DEF IInv, Inv
  <2> QED
    BY <2>1 DEF InOrder, queueVars
<1>5. Numbered'
  BY DEF IInv, Numbered, queueVars
<1> QED
  BY <1>1, <1>2, <1>3, <1>4, <1>5

\* The rest of Close.
LEMMA CancelKeeps ==
  ASSUME IInv, NEW e \in End, Cancel(e)
  PROVE  IInv'
<1>1. UNCHANGED <<encrypted, queueVars, wire, received, dial, state, owed, late, ready, key,
                   socket, connected, onClose, main, writer, sender>>
  BY DEF Cancel, stateVars, queueVars, wireVars, handlerVars, threadVars
<1>2. TypeOK'
  BY <1>1, TwoEnds DEF Cancel, IInv, TypeOK, queueVars
<1>3. /\ \A d \in End : Gapless(d)' /\ InOrder(d)' /\ Consumed(d)' = Consumed(d)
      /\ Keys' = Keys /\ Numbered'
  BY <1>1, FramesStay
<1>4. ASSUME NEW d \in End PROVE Phase(d)' /\ Ends(d)' /\ Counts(d)' /\ Reads(d)'
  BY <1>1, PhaseStays, EndsStays, CountsStays, ReadsStays DEF IInv, Inv, queueVars
<1> QED
  BY <1>2, <1>3, <1>4 DEF IInv, Inv

\* SendMessage: the connection is ready and the handler has it.
LEMMA SendCheckKeeps ==
  ASSUME IInv, NEW e \in End, SendCheck(e)
  PROVE  IInv'
<1>1. UNCHANGED <<encrypted, queueVars, wire, received, dial, state, cancelled, timer,
                   owed, late, ready, key, socket, connected, onClose, main,
                   writer>>
  BY DEF SendCheck, stateVars, queueVars, wireVars, handlerVars, threadVars
<1>2. TypeOK'
  BY <1>1, TwoEnds DEF SendCheck, IInv, TypeOK, queueVars
<1>3. /\ \A d \in End : Gapless(d)' /\ InOrder(d)' /\ Consumed(d)' = Consumed(d)
      /\ Keys' = Keys /\ Numbered'
  BY <1>1, FramesStay
<1>4. ASSUME NEW d \in End PROVE Counts(d)'
  <2>1. Threads /\ Phase(d) /\ Counts(d)
    BY ThreadsTyped DEF IInv, Inv
  <2>2. CASE d = e
    BY <2>1, <2>2, <1>1 DEF SendCheck, IInv, TypeOK, Counts, KeyDue, KeySent, queueVars
  <2>3. CASE d # e
    <3>1. sender'[d] = sender[d]
      BY <2>1, <2>3, <1>1 DEF SendCheck, IInv, TypeOK
    <3> QED
      BY <2>1, <3>1, <1>1, CountsOther DEF queueVars
  <2> QED
    BY <2>2, <2>3
<1>5. ASSUME NEW d \in End PROVE Phase(d)' /\ Ends(d)' /\ Reads(d)'
  BY <1>1, PhaseStays, EndsStays, ReadsStays DEF IInv, Inv, queueVars
<1> QED
  BY <1>2, <1>3, <1>4, <1>5 DEF IInv, Inv

\* The owner's Close.
LEMMA OwnerClosesKeeps ==
  ASSUME IInv, NEW e \in End, OwnerCloses(e)
  PROVE  IInv'
<1>1. UNCHANGED <<encrypted, queueVars, wire, received, dial, cancelled, timer, ready,
                   key, socket, connected, onClose, main, writer,
                   sender>>
  BY DEF OwnerCloses, stateVars, queueVars, wireVars, handlerVars, threadVars
<1>2. TypeOK'
  BY <1>1, CloseFacts, TwoEnds DEF OwnerCloses, IInv, TypeOK, queueVars
<1>3. /\ \A d \in End : Gapless(d)' /\ InOrder(d)' /\ Consumed(d)' = Consumed(d)
      /\ Keys' = Keys /\ Numbered'
  BY <1>1, FramesStay
<1>4. ASSUME NEW d \in End PROVE Phase(d)'
  <2>1. CASE d = e
    BY <2>1, <1>1, <1>2 DEF OwnerCloses, Close, IInv, Inv, TypeOK, Phase
  <2>2. CASE d # e
    BY <2>2, <1>1, <1>2 DEF OwnerCloses, Close, IInv, Inv, TypeOK, Phase
  <2> QED
    BY <2>1, <2>2
<1>5. ASSUME NEW d \in End PROVE Ends(d)'
  BY <1>1, CloseEnds DEF OwnerCloses, queueVars
<1>6. ASSUME NEW d \in End PROVE Reads(d)'
  <2>1. Threads /\ Phase(d) /\ Reads(d) /\ Peer(d) \in End
    BY ThreadsTyped, TwoEnds DEF IInv, Inv
  <2>2. CASE d = e
    BY <2>1, <2>2, <1>1, <1>3 DEF OwnerCloses, Close, Threads, Phase, Reads, queueVars
  <2>3. CASE d # e
    <3>1. state'[d] = state[d] /\ main'[d] = main[d] /\ connected'[d] = connected[d]
      BY <2>1, <2>3, <1>1 DEF OwnerCloses, Close, Threads
    <3> QED
      BY <2>1, <3>1, <1>1, <1>3, ReadsOther DEF queueVars
  <2> QED
    BY <2>2, <2>3
<1>7. ASSUME NEW d \in End PROVE Counts(d)'
  BY <1>1, CountsStays DEF IInv, Inv, queueVars
<1> QED
  BY <1>2, <1>3, <1>4, <1>5, <1>6, <1>7 DEF IInv, Inv

\* runStart begins, unless the connection is closed.
LEMMA StartKeeps ==
  ASSUME IInv, NEW e \in End, Start(e)
  PROVE  IInv'
<1>1. UNCHANGED <<encrypted, queueVars, wire, received, dial, cancelled, timer, owed, late,
                   ready, key, socket, connected, onClose, writer,
                   sender>>
  BY DEF Start, stateVars, queueVars, wireVars, handlerVars, threadVars
<1>2. TypeOK'
  BY <1>1, TwoEnds DEF Start, Goto, IInv, TypeOK, queueVars
<1>3. /\ \A d \in End : Gapless(d)' /\ InOrder(d)' /\ Consumed(d)' = Consumed(d)
      /\ Keys' = Keys /\ Numbered'
  BY <1>1, FramesStay
<1>4. ASSUME NEW d \in End PROVE Phase(d)'
  <2>1. Threads /\ Phase(d)
    BY ThreadsTyped
  <2>2. CASE d = e
    BY <2>1, <2>2, <1>1 DEF Start, Goto, Threads, Phase
  <2>3. CASE d # e
    <3>1. state'[d] = state[d] /\ main'[d] = main[d] /\ connected'[d] = connected[d] /\ key'[d] = key[d]
      BY <2>1, <2>3, <1>1 DEF Start, Goto, Threads
    <3> QED
      BY <2>1, <3>1, <1>1, PhaseOther
  <2> QED
    BY <2>2, <2>3
<1>5. ASSUME NEW d \in End PROVE Ends(d)'
  BY <1>1, <1>2, <1>3, TwoEnds DEF Start, Goto, IInv, Inv, TypeOK, Ends, queueVars, Phase
<1>6. ASSUME NEW d \in End PROVE Counts(d)'
  <2>1. Threads /\ Phase(d) /\ Counts(d)
    BY ThreadsTyped DEF IInv, Inv
  <2>2. CASE d = e
    BY <2>1, <2>2, <1>1 DEF Start, Goto, Threads, Phase, Counts, KeyDue, KeySent, queueVars
  <2>3. CASE d # e
    <3>1. main'[d] = main[d] /\ connected'[d] = connected[d]
      BY <2>1, <2>3, <1>1 DEF Start, Goto, Threads
    <3> QED
      BY <2>1, <3>1, <1>1, CountsOther DEF queueVars
  <2> QED
    BY <2>2, <2>3
<1>7. ASSUME NEW d \in End PROVE Reads(d)'
  <2>1. Threads /\ Phase(d) /\ Reads(d) /\ Peer(d) \in End
    BY ThreadsTyped, TwoEnds DEF IInv, Inv
  <2>2. CASE d = e
    BY <2>1, <2>2, <1>1, <1>3 DEF Start, Goto, Threads, Phase, Reads, queueVars
  <2>3. CASE d # e
    <3>1. state'[d] = state[d] /\ main'[d] = main[d] /\ connected'[d] = connected[d]
      BY <2>1, <2>3, <1>1 DEF Start, Goto, Threads
    <3> QED
      BY <2>1, <3>1, <1>1, <1>3, ReadsOther DEF queueVars
  <2> QED
    BY <2>2, <2>3
<1> QED
  BY <1>2, <1>3, <1>4, <1>5, <1>6, <1>7 DEF IInv, Inv

\* Without encryption nothing can have arrived when the connection gets ready.
LEMMA StartPlainKeeps ==
  ASSUME IInv, NEW e \in End, StartPlain(e)
  PROVE  IInv'
<1>1. UNCHANGED <<encrypted, queueVars, wire, received, dial, cancelled, timer, owed, late,
                   ready, key, socket, connected, onClose, writer,
                   sender>>
  BY DEF StartPlain, stateVars, queueVars, wireVars, handlerVars, threadVars
<1>2. TypeOK'
  BY <1>1, TwoEnds DEF StartPlain, Goto, IInv, TypeOK, queueVars
<1>3. /\ \A d \in End : Gapless(d)' /\ InOrder(d)' /\ Consumed(d)' = Consumed(d)
      /\ Keys' = Keys /\ Numbered'
  BY <1>1, FramesStay
<1>4. ASSUME NEW d \in End PROVE Phase(d)'
  <2>1. Threads /\ Phase(d)
    BY ThreadsTyped
  <2>2. CASE d = e
    BY <2>1, <2>2, <1>1 DEF StartPlain, Goto, Threads, Phase
  <2>3. CASE d # e
    <3>1. state'[d] = state[d] /\ main'[d] = main[d] /\ connected'[d] = connected[d] /\ key'[d] = key[d]
      BY <2>1, <2>3, <1>1 DEF StartPlain, Goto, Threads
    <3> QED
      BY <2>1, <3>1, <1>1, PhaseOther
  <2> QED
    BY <2>2, <2>3
<1>5. ASSUME NEW d \in End PROVE Ends(d)'
  BY <1>1, <1>2, <1>3, TwoEnds DEF StartPlain, Goto, IInv, Inv, TypeOK, Ends, queueVars,
      Phase
<1>6. ASSUME NEW d \in End PROVE Counts(d)'
  <2>1. Threads /\ Phase(d) /\ Counts(d)
    BY ThreadsTyped DEF IInv, Inv
  <2>2. CASE d = e
    BY <2>1, <2>2, <1>1 DEF StartPlain, Goto, Threads, Phase, Counts, KeyDue, KeySent, queueVars
  <2>3. CASE d # e
    <3>1. main'[d] = main[d] /\ connected'[d] = connected[d]
      BY <2>1, <2>3, <1>1 DEF StartPlain, Goto, Threads
    <3> QED
      BY <2>1, <3>1, <1>1, CountsOther DEF queueVars
  <2> QED
    BY <2>2, <2>3
<1>7. ASSUME NEW d \in End PROVE Reads(d)'
  <2>0. connected[e] = "no" /\ Keys = 0 /\ Len(received[e]) \in Nat
    BY DEF StartPlain, IInv, Inv, TypeOK, Phase, Keys
  <2>1. Len(received[e]) = 0 /\ Keys = 0 /\ connected[e] = "no"
    BY <2>0 DEF IInv, Inv, Reads
  <2>2. CASE d = e
    <3>1. Threads /\ Reads(e) /\ Peer(e) \in End
      BY ThreadsTyped, TwoEnds DEF IInv, Inv
    <3>2. state[e] = "handshaking" => Consumed(Peer(e)) = 0 \/ broken[Peer(e)]
      BY <3>1 DEF Reads
    <3>3. \/ state[e] = "handshaking" /\ state'[e] = "ready" /\ main'[e] = "opening"
          \/ state'[e] = state[e] /\ main'[e] = "abort"
      BY <3>1 DEF StartPlain, Goto, Threads
    <3> QED
      BY <2>1, <2>2, <3>1, <3>2, <3>3, <1>1, <1>3 DEF Reads, queueVars
  <2>3. CASE d # e
    <3>1. Threads /\ Reads(d) /\ Peer(d) \in End
      BY ThreadsTyped, TwoEnds DEF IInv, Inv
    <3>2. state'[d] = state[d] /\ main'[d] = main[d] /\ connected'[d] = connected[d]
      BY <2>3, <3>1, <1>1 DEF StartPlain, Goto, Threads
    <3> QED
      BY <3>1, <3>2, <1>1, <1>3, ReadsOther DEF queueVars
  <2> QED
    BY <2>2, <2>3
<1> QED
  BY <1>2, <1>3, <1>4, <1>5, <1>6, <1>7 DEF IInv, Inv

\* The handshake waits for the peer's key.
LEMMA ArmTimerKeeps ==
  ASSUME IInv, NEW e \in End, ArmTimer(e)
  PROVE  IInv'
<1>1. UNCHANGED <<encrypted, queueVars, wire, received, dial, state, cancelled, owed, late,
                   ready, key, socket, connected, onClose, writer,
                   sender>>
  BY DEF ArmTimer, stateVars, queueVars, wireVars, handlerVars, threadVars
<1>2. TypeOK'
  BY <1>1, TwoEnds DEF ArmTimer, Goto, IInv, TypeOK, queueVars
<1>3. /\ \A d \in End : Gapless(d)' /\ InOrder(d)' /\ Consumed(d)' = Consumed(d)
      /\ Keys' = Keys /\ Numbered'
  BY <1>1, FramesStay
<1>4. ASSUME NEW d \in End PROVE Phase(d)'
  <2>1. Threads /\ Phase(d)
    BY ThreadsTyped
  <2>2. CASE d = e
    BY <2>1, <2>2, <1>1 DEF ArmTimer, Goto, Threads, Phase
  <2>3. CASE d # e
    <3>1. state'[d] = state[d] /\ main'[d] = main[d] /\ connected'[d] = connected[d] /\ key'[d] = key[d]
      BY <2>1, <2>3, <1>1 DEF ArmTimer, Goto, Threads
    <3> QED
      BY <2>1, <3>1, <1>1, PhaseOther
  <2> QED
    BY <2>2, <2>3
<1>5. ASSUME NEW d \in End PROVE Counts(d)'
  <2>1. Threads /\ Phase(d) /\ Counts(d)
    BY ThreadsTyped DEF IInv, Inv
  <2>2. CASE d = e
    BY <2>1, <2>2, <1>1 DEF ArmTimer, Goto, Threads, Phase, Counts, KeyDue, KeySent, queueVars
  <2>3. CASE d # e
    <3>1. main'[d] = main[d] /\ connected'[d] = connected[d]
      BY <2>1, <2>3, <1>1 DEF ArmTimer, Goto, Threads
    <3> QED
      BY <2>1, <3>1, <1>1, CountsOther DEF queueVars
  <2> QED
    BY <2>2, <2>3
<1>6. ASSUME NEW d \in End PROVE Reads(d)'
  <2>1. Threads /\ Phase(d) /\ Reads(d) /\ Peer(d) \in End
    BY ThreadsTyped, TwoEnds DEF IInv, Inv
  <2>2. CASE d = e
    BY <2>1, <2>2, <1>1, <1>3 DEF ArmTimer, Goto, Threads, Phase, Reads, queueVars
  <2>3. CASE d # e
    <3>1. state'[d] = state[d] /\ main'[d] = main[d] /\ connected'[d] = connected[d]
      BY <2>1, <2>3, <1>1 DEF ArmTimer, Goto, Threads
    <3> QED
      BY <2>1, <3>1, <1>1, <1>3, ReadsOther DEF queueVars
  <2> QED
    BY <2>2, <2>3
<1>7. ASSUME NEW d \in End PROVE Ends(d)'
  BY <1>1, EndsStays DEF IInv, Inv, queueVars
<1> QED
  BY <1>2, <1>3, <1>4, <1>5, <1>6, <1>7 DEF IInv, Inv

\* OnConnected is called: the key is there if one is needed.
LEMMA OpeningKeeps ==
  ASSUME IInv, NEW e \in End, Opening(e)
  PROVE  IInv'
<1>1. UNCHANGED <<encrypted, queueVars, wire, received, dial, state, cancelled, owed, late,
                   ready, key, socket, onClose, writer, sender>>
  BY DEF Opening, stateVars, queueVars, wireVars, handlerVars, threadVars
<1>2. TypeOK'
  BY <1>1, TwoEnds DEF Opening, Goto, IInv, TypeOK, queueVars
<1>3. /\ \A d \in End : Gapless(d)' /\ InOrder(d)' /\ Consumed(d)' = Consumed(d)
      /\ Keys' = Keys /\ Numbered'
  BY <1>1, FramesStay
<1>4. ASSUME NEW d \in End PROVE Phase(d)'
  <2>1. Threads /\ Phase(d)
    BY ThreadsTyped
  <2>2. CASE d = e
    BY <2>1, <2>2, <1>1 DEF Opening, Goto, Threads, Phase
  <2>3. CASE d # e
    <3>1. state'[d] = state[d] /\ main'[d] = main[d] /\ connected'[d] = connected[d] /\ key'[d] = key[d]
      BY <2>1, <2>3, <1>1 DEF Opening, Goto, Threads
    <3> QED
      BY <2>1, <3>1, <1>1, PhaseOther
  <2> QED
    BY <2>2, <2>3
<1>5. ASSUME NEW d \in End PROVE Counts(d)'
  <2>1. Threads /\ Phase(d) /\ Counts(d)
    BY ThreadsTyped DEF IInv, Inv
  <2>2. CASE d = e
    BY <2>1, <2>2, <1>1 DEF Opening, Goto, Threads, Phase, Counts, KeyDue, KeySent, queueVars
  <2>3. CASE d # e
    <3>1. main'[d] = main[d] /\ connected'[d] = connected[d]
      BY <2>1, <2>3, <1>1 DEF Opening, Goto, Threads
    <3> QED
      BY <2>1, <3>1, <1>1, CountsOther DEF queueVars
  <2> QED
    BY <2>2, <2>3
<1>6. ASSUME NEW d \in End PROVE Reads(d)'
  <2>1. Threads /\ Phase(d) /\ Reads(d) /\ Peer(d) \in End
    BY ThreadsTyped, TwoEnds DEF IInv, Inv
  <2>2. CASE d = e
    BY <2>1, <2>2, <1>1, <1>3 DEF Opening, Goto, Threads, Phase, Reads, queueVars
  <2>3. CASE d # e
    <3>1. state'[d] = state[d] /\ main'[d] = main[d] /\ connected'[d] = connected[d]
      BY <2>1, <2>3, <1>1 DEF Opening, Goto, Threads
    <3> QED
      BY <2>1, <3>1, <1>1, <1>3, ReadsOther DEF queueVars
  <2> QED
    BY <2>2, <2>3
<1>7. ASSUME NEW d \in End PROVE Ends(d)'
  BY <1>1, EndsStays DEF IInv, Inv, queueVars
<1> QED
  BY <1>2, <1>3, <1>4, <1>5, <1>6, <1>7 DEF IInv, Inv

\* OnConnected returns.
LEMMA ConnectedReturnsKeeps ==
  ASSUME IInv, NEW e \in End, ConnectedReturns(e)
  PROVE  IInv'
<1>1. UNCHANGED <<encrypted, queueVars, wire, received, dial, state, cancelled, timer,
                   owed, late, key, socket, onClose, writer, sender>>
  BY DEF ConnectedReturns, stateVars, queueVars, wireVars, handlerVars, threadVars
<1>2. TypeOK'
  <2>1. CASE /\ Goto(e, "reading") /\ connected' = [connected EXCEPT ![e] = "ok"]
             /\ ready' = [ready EXCEPT ![e] = TRUE]
    BY <2>1, <1>1 DEF Goto, IInv, TypeOK, queueVars
  <2>2. CASE /\ Goto(e, IF encrypted THEN "failed" ELSE "abort")
             /\ connected' = [connected EXCEPT ![e] = "error"] /\ ready' = ready
    BY <2>2, <1>1 DEF Goto, IInv, TypeOK, queueVars
  <2> QED
    BY <2>1, <2>2 DEF ConnectedReturns
<1>3. /\ \A d \in End : Gapless(d)' /\ InOrder(d)' /\ Consumed(d)' = Consumed(d)
      /\ Keys' = Keys /\ Numbered'
  BY <1>1, FramesStay
<1>4. ASSUME NEW d \in End PROVE Phase(d)'
  <2>1. Threads /\ Phase(d)
    BY ThreadsTyped
  <2>2. CASE d = e
    BY <2>1, <2>2, <1>1 DEF ConnectedReturns, Goto, Threads, Phase
  <2>3. CASE d # e
    <3>1. state'[d] = state[d] /\ main'[d] = main[d] /\ connected'[d] = connected[d] /\ key'[d] = key[d]
      BY <2>1, <2>3, <1>1 DEF ConnectedReturns, Goto, Threads
    <3> QED
      BY <2>1, <3>1, <1>1, PhaseOther
  <2> QED
    BY <2>2, <2>3
<1>5. ASSUME NEW d \in End PROVE Counts(d)'
  <2>1. Threads /\ Phase(d) /\ Counts(d)
    BY ThreadsTyped DEF IInv, Inv
  <2>2. CASE d = e
    BY <2>1, <2>2, <1>1 DEF ConnectedReturns, Goto, Threads, Counts, KeyDue, KeySent, queueVars
  <2>3. CASE d # e
    <3>1. main'[d] = main[d] /\ connected'[d] = connected[d]
      BY <2>1, <2>3, <1>1 DEF ConnectedReturns, Goto, Threads
    <3> QED
      BY <2>1, <3>1, <1>1, CountsOther DEF queueVars
  <2> QED
    BY <2>2, <2>3
<1>6. ASSUME NEW d \in End PROVE Reads(d)'
  <2>1. Threads /\ Phase(d) /\ Reads(d) /\ Peer(d) \in End
    BY ThreadsTyped, TwoEnds DEF IInv, Inv
  <2>2. CASE d = e
    <3>1. connected[e] = "running" /\ state[e] \in {"ready", "closed"}
      BY <2>1, <2>2 DEF ConnectedReturns, Phase
    <3>2. main'[e] \notin {"exchange", "derive", "opening", "deliver"}
      BY <2>1 DEF ConnectedReturns, Goto, Threads
    <3>3. Len(received[e]) = 0 \/ connected'[e] = "ok"
      <4>1. received \in [End -> Seq(1..MaxPush)]
        BY DEF IInv, TypeOK
      <4>2. Len(received[e]) \in Nat /\ ~(Len(received[e]) > 0)
        BY <2>1, <2>2, <3>1, <4>1 DEF Reads
      <4> QED
        BY <4>2
    <3> QED
      BY <2>1, <2>2, <3>1, <3>2, <3>3, <1>1, <1>3 DEF Reads, queueVars
  <2>3. CASE d # e
    <3>1. state'[d] = state[d] /\ main'[d] = main[d] /\ connected'[d] = connected[d]
      BY <2>1, <2>3, <1>1 DEF ConnectedReturns, Goto, Threads
    <3> QED
      BY <2>1, <3>1, <1>1, <1>3, ReadsOther DEF queueVars
  <2> QED
    BY <2>2, <2>3
<1>7. ASSUME NEW d \in End PROVE Ends(d)'
  BY <1>1, EndsStays DEF IInv, Inv, queueVars
<1> QED
  BY <1>2, <1>3, <1>4, <1>5, <1>6, <1>7 DEF IInv, Inv

\* runStart gives up.
LEMMA AbortKeeps ==
  ASSUME IInv, NEW e \in End, Abort(e)
  PROVE  IInv'
<1>1. UNCHANGED <<encrypted, queueVars, wire, received, cancelled, timer, ready, key,
                   socket, connected, onClose, writer, sender>>
  BY DEF Abort, stateVars, queueVars, wireVars, handlerVars, threadVars
<1>2. TypeOK'
  BY <1>1, CloseFacts, TwoEnds DEF Abort, Goto, IInv, TypeOK, queueVars
<1>3. /\ \A d \in End : Gapless(d)' /\ InOrder(d)' /\ Consumed(d)' = Consumed(d)
      /\ Keys' = Keys /\ Numbered'
  BY <1>1, FramesStay
<1>4. ASSUME NEW d \in End PROVE Phase(d)'
  <2>1. Threads /\ Phase(d)
    BY ThreadsTyped
  <2>2. CASE d = e
    BY <2>1, <2>2, <1>1 DEF Abort, Goto, Close, Threads, Phase
  <2>3. CASE d # e
    <3>1. state'[d] = state[d] /\ main'[d] = main[d] /\ connected'[d] = connected[d] /\ key'[d] = key[d]
      BY <2>1, <2>3, <1>1 DEF Abort, Goto, Close, Threads
    <3> QED
      BY <2>1, <3>1, <1>1, PhaseOther
  <2> QED
    BY <2>2, <2>3
<1>5. ASSUME NEW d \in End PROVE Ends(d)'
  BY <1>1, CloseEnds DEF Abort, queueVars
<1>6. ASSUME NEW d \in End PROVE Counts(d)'
  <2>1. Threads /\ Phase(d) /\ Counts(d)
    BY ThreadsTyped DEF IInv, Inv
  <2>2. CASE d = e
    BY <2>1, <2>2, <1>1 DEF Abort, Goto, Close, Threads, Phase, Counts, KeyDue, KeySent, queueVars
  <2>3. CASE d # e
    <3>1. main'[d] = main[d] /\ connected'[d] = connected[d]
      BY <2>1, <2>3, <1>1 DEF Abort, Goto, Close, Threads
    <3> QED
      BY <2>1, <3>1, <1>1, CountsOther DEF queueVars
  <2> QED
    BY <2>2, <2>3
<1>7. ASSUME NEW d \in End PROVE Reads(d)'
  <2>1. Threads /\ Phase(d) /\ Reads(d) /\ Peer(d) \in End
    BY ThreadsTyped, TwoEnds DEF IInv, Inv
  <2>2. CASE d = e
    BY <2>1, <2>2, <1>1, <1>3 DEF Abort, Goto, Close, Threads, Phase, Reads, queueVars
  <2>3. CASE d # e
    <3>1. state'[d] = state[d] /\ main'[d] = main[d] /\ connected'[d] = connected[d]
      BY <2>1, <2>3, <1>1 DEF Abort, Goto, Close, Threads
    <3> QED
      BY <2>1, <3>1, <1>1, <1>3, ReadsOther DEF queueVars
  <2> QED
    BY <2>2, <2>3
<1> QED
  BY <1>2, <1>3, <1>4, <1>5, <1>6, <1>7 DEF IInv, Inv

\* The shared key.
LEMMA DeriveKeeps ==
  ASSUME IInv, NEW e \in End, Derive(e)
  PROVE  IInv'
<1>1. UNCHANGED <<encrypted, queueVars, wire, received, dial, state, cancelled, timer,
                   owed, late, ready, socket, connected, onClose, writer,
                   sender>>
  BY DEF Derive, stateVars, queueVars, wireVars, handlerVars, threadVars
<1>2. TypeOK'
  <2>1. CASE Goto(e, "opening") /\ key' = [key EXCEPT ![e] = TRUE]
    BY <2>1, <1>1 DEF Goto, IInv, TypeOK, queueVars
  <2>2. CASE Goto(e, "failed") /\ key' = key
    BY <2>2, <1>1 DEF Goto, IInv, TypeOK, queueVars
  <2> QED
    BY <2>1, <2>2 DEF Derive
<1>3. /\ \A d \in End : Gapless(d)' /\ InOrder(d)' /\ Consumed(d)' = Consumed(d)
      /\ Keys' = Keys /\ Numbered'
  BY <1>1, FramesStay
<1>4. ASSUME NEW d \in End PROVE Phase(d)'
  <2>1. Threads /\ Phase(d)
    BY ThreadsTyped
  <2>2. CASE d = e
    BY <2>1, <2>2, <1>1 DEF Derive, Goto, Threads, Phase
  <2>3. CASE d # e
    <3>1. state'[d] = state[d] /\ main'[d] = main[d] /\ connected'[d] = connected[d] /\ key'[d] = key[d]
      BY <2>1, <2>3, <1>1 DEF Derive, Goto, Threads
    <3> QED
      BY <2>1, <3>1, <1>1, PhaseOther
  <2> QED
    BY <2>2, <2>3
<1>5. ASSUME NEW d \in End PROVE Counts(d)'
  <2>1. Threads /\ Phase(d) /\ Counts(d)
    BY ThreadsTyped DEF IInv, Inv
  <2>2. CASE d = e
    BY <2>1, <2>2, <1>1 DEF Derive, Goto, Threads, Counts, KeyDue, KeySent, queueVars
  <2>3. CASE d # e
    <3>1. main'[d] = main[d] /\ connected'[d] = connected[d]
      BY <2>1, <2>3, <1>1 DEF Derive, Goto, Threads
    <3> QED
      BY <2>1, <3>1, <1>1, CountsOther DEF queueVars
  <2> QED
    BY <2>2, <2>3
<1>6. ASSUME NEW d \in End PROVE Reads(d)'
  <2>1. Threads /\ Phase(d) /\ Reads(d) /\ Peer(d) \in End
    BY ThreadsTyped, TwoEnds DEF IInv, Inv
  <2>2. CASE d = e
    BY <2>1, <2>2, <1>1, <1>3 DEF Derive, Goto, Threads, Phase, Reads, queueVars
  <2>3. CASE d # e
    <3>1. state'[d] = state[d] /\ main'[d] = main[d] /\ connected'[d] = connected[d]
      BY <2>1, <2>3, <1>1 DEF Derive, Goto, Threads
    <3> QED
      BY <2>1, <3>1, <1>1, <1>3, ReadsOther DEF queueVars
  <2> QED
    BY <2>2, <2>3
<1>7. ASSUME NEW d \in End PROVE Ends(d)'
  BY <1>1, EndsStays DEF IInv, Inv, queueVars
<1> QED
  BY <1>2, <1>3, <1>4, <1>5, <1>6, <1>7 DEF IInv, Inv

\* A business frame is at the head of the wire.
LEMMA ReadDataKeeps ==
  ASSUME IInv, NEW e \in End, ReadData(e)
  PROVE  IInv'
<1>1. UNCHANGED <<encrypted, queueVars, wire, received, dial, state, cancelled, timer,
                   owed, late, ready, key, socket, connected, onClose,
                   writer, sender>>
  BY DEF ReadData, stateVars, queueVars, wireVars, handlerVars, threadVars
<1>2. TypeOK'
  BY <1>1, TwoEnds DEF ReadData, Goto, NextFrame, Torn, IInv, TypeOK, queueVars
<1>3. /\ \A d \in End : Gapless(d)' /\ InOrder(d)' /\ Consumed(d)' = Consumed(d)
      /\ Keys' = Keys /\ Numbered'
  BY <1>1, FramesStay
<1>4. ASSUME NEW d \in End PROVE Phase(d)'
  <2>1. Threads /\ Phase(d)
    BY ThreadsTyped
  <2>2. CASE d = e
    BY <2>1, <2>2, <1>1 DEF ReadData, Goto, Threads, Phase
  <2>3. CASE d # e
    <3>1. state'[d] = state[d] /\ main'[d] = main[d] /\ connected'[d] = connected[d] /\ key'[d] = key[d]
      BY <2>1, <2>3, <1>1 DEF ReadData, Goto, Threads
    <3> QED
      BY <2>1, <3>1, <1>1, PhaseOther
  <2> QED
    BY <2>2, <2>3
<1>5. ASSUME NEW d \in End PROVE Counts(d)'
  <2>1. Threads /\ Phase(d) /\ Counts(d)
    BY ThreadsTyped DEF IInv, Inv
  <2>2. CASE d = e
    BY <2>1, <2>2, <1>1 DEF ReadData, Goto, NextFrame, Torn, Threads, Phase, Counts, KeyDue,
        KeySent, queueVars
  <2>3. CASE d # e
    <3>1. main'[d] = main[d] /\ connected'[d] = connected[d]
      BY <2>1, <2>3, <1>1 DEF ReadData, Goto, NextFrame, Torn, Threads
    <3> QED
      BY <2>1, <3>1, <1>1, CountsOther DEF queueVars
  <2> QED
    BY <2>2, <2>3
<1>6. ASSUME NEW d \in End PROVE Reads(d)'
  <2>1. Threads /\ Phase(d) /\ Reads(d) /\ Peer(d) \in End
    BY ThreadsTyped, TwoEnds DEF IInv, Inv
  <2>2. CASE d = e
    BY <2>1, <2>2, <1>1, <1>3 DEF ReadData, Goto, NextFrame, Torn, Threads, Phase, Reads, queueVars
  <2>3. CASE d # e
    <3>1. state'[d] = state[d] /\ main'[d] = main[d] /\ connected'[d] = connected[d]
      BY <2>1, <2>3, <1>1 DEF ReadData, Goto, Threads
    <3> QED
      BY <2>1, <3>1, <1>1, <1>3, ReadsOther DEF queueVars
  <2> QED
    BY <2>2, <2>3
<1>7. ASSUME NEW d \in End PROVE Ends(d)'
  BY <1>1, EndsStays DEF IInv, Inv, queueVars
<1> QED
  BY <1>2, <1>3, <1>4, <1>5, <1>6, <1>7 DEF IInv, Inv

\* The read loop meets a torn frame.
LEMMA ReadTornKeeps ==
  ASSUME IInv, NEW e \in End, ReadTorn(e)
  PROVE  IInv'
<1>1. UNCHANGED <<encrypted, queueVars, wire, received, dial, state, cancelled, timer,
                   owed, late, ready, key, socket, connected, onClose,
                   writer, sender>>
  BY DEF ReadTorn, stateVars, queueVars, wireVars, handlerVars, threadVars
<1>2. TypeOK'
  BY <1>1, TwoEnds DEF ReadTorn, Goto, IInv, TypeOK, queueVars
<1>3. /\ \A d \in End : Gapless(d)' /\ InOrder(d)' /\ Consumed(d)' = Consumed(d)
      /\ Keys' = Keys /\ Numbered'
  BY <1>1, FramesStay
<1>4. ASSUME NEW d \in End PROVE Phase(d)'
  <2>1. Threads /\ Phase(d)
    BY ThreadsTyped
  <2>2. CASE d = e
    BY <2>1, <2>2, <1>1 DEF ReadTorn, Goto, Threads, Phase
  <2>3. CASE d # e
    <3>1. state'[d] = state[d] /\ main'[d] = main[d] /\ connected'[d] = connected[d] /\ key'[d] = key[d]
      BY <2>1, <2>3, <1>1 DEF ReadTorn, Goto, Threads
    <3> QED
      BY <2>1, <3>1, <1>1, PhaseOther
  <2> QED
    BY <2>2, <2>3
<1>5. ASSUME NEW d \in End PROVE Counts(d)'
  <2>1. Threads /\ Phase(d) /\ Counts(d)
    BY ThreadsTyped DEF IInv, Inv
  <2>2. CASE d = e
    BY <2>1, <2>2, <1>1 DEF ReadTorn, Goto, Threads, Phase, Counts, KeyDue, KeySent, queueVars
  <2>3. CASE d # e
    <3>1. main'[d] = main[d] /\ connected'[d] = connected[d]
      BY <2>1, <2>3, <1>1 DEF ReadTorn, Goto, Threads
    <3> QED
      BY <2>1, <3>1, <1>1, CountsOther DEF queueVars
  <2> QED
    BY <2>2, <2>3
<1>6. ASSUME NEW d \in End PROVE Reads(d)'
  <2>1. Threads /\ Phase(d) /\ Reads(d) /\ Peer(d) \in End
    BY ThreadsTyped, TwoEnds DEF IInv, Inv
  <2>2. CASE d = e
    BY <2>1, <2>2, <1>1, <1>3 DEF ReadTorn, Goto, Threads, Phase, Reads, queueVars
  <2>3. CASE d # e
    <3>1. state'[d] = state[d] /\ main'[d] = main[d] /\ connected'[d] = connected[d]
      BY <2>1, <2>3, <1>1 DEF ReadTorn, Goto, Threads
    <3> QED
      BY <2>1, <3>1, <1>1, <1>3, ReadsOther DEF queueVars
  <2> QED
    BY <2>2, <2>3
<1>7. ASSUME NEW d \in End PROVE Ends(d)'
  BY <1>1, EndsStays DEF IInv, Inv, queueVars
<1> QED
  BY <1>2, <1>3, <1>4, <1>5, <1>6, <1>7 DEF IInv, Inv

\* The read loop meets the end of the stream.
LEMMA ReadEndsKeeps ==
  ASSUME IInv, NEW e \in End, ReadEnds(e)
  PROVE  IInv'
<1>1. UNCHANGED <<encrypted, queueVars, wire, received, dial, state, cancelled, timer,
                   owed, late, ready, key, socket, connected, onClose,
                   writer, sender>>
  BY DEF ReadEnds, stateVars, queueVars, wireVars, handlerVars, threadVars
<1>2. TypeOK'
  BY <1>1, TwoEnds DEF ReadEnds, Goto, IInv, TypeOK, queueVars
<1>3. /\ \A d \in End : Gapless(d)' /\ InOrder(d)' /\ Consumed(d)' = Consumed(d)
      /\ Keys' = Keys /\ Numbered'
  BY <1>1, FramesStay
<1>4. ASSUME NEW d \in End PROVE Phase(d)'
  <2>1. Threads /\ Phase(d)
    BY ThreadsTyped
  <2>2. CASE d = e
    BY <2>1, <2>2, <1>1 DEF ReadEnds, Goto, Threads, Phase
  <2>3. CASE d # e
    <3>1. state'[d] = state[d] /\ main'[d] = main[d] /\ connected'[d] = connected[d] /\ key'[d] = key[d]
      BY <2>1, <2>3, <1>1 DEF ReadEnds, Goto, Threads
    <3> QED
      BY <2>1, <3>1, <1>1, PhaseOther
  <2> QED
    BY <2>2, <2>3
<1>5. ASSUME NEW d \in End PROVE Counts(d)'
  <2>1. Threads /\ Phase(d) /\ Counts(d)
    BY ThreadsTyped DEF IInv, Inv
  <2>2. CASE d = e
    BY <2>1, <2>2, <1>1 DEF ReadEnds, Goto, Threads, Phase, Counts, KeyDue, KeySent, queueVars
  <2>3. CASE d # e
    <3>1. main'[d] = main[d] /\ connected'[d] = connected[d]
      BY <2>1, <2>3, <1>1 DEF ReadEnds, Goto, Threads
    <3> QED
      BY <2>1, <3>1, <1>1, CountsOther DEF queueVars
  <2> QED
    BY <2>2, <2>3
<1>6. ASSUME NEW d \in End PROVE Reads(d)'
  <2>1. Threads /\ Phase(d) /\ Reads(d) /\ Peer(d) \in End
    BY ThreadsTyped, TwoEnds DEF IInv, Inv
  <2>2. CASE d = e
    BY <2>1, <2>2, <1>1, <1>3 DEF ReadEnds, Goto, Threads, Phase, Reads, queueVars
  <2>3. CASE d # e
    <3>1. state'[d] = state[d] /\ main'[d] = main[d] /\ connected'[d] = connected[d]
      BY <2>1, <2>3, <1>1 DEF ReadEnds, Goto, Threads
    <3> QED
      BY <2>1, <3>1, <1>1, <1>3, ReadsOther DEF queueVars
  <2> QED
    BY <2>2, <2>3
<1>7. ASSUME NEW d \in End PROVE Ends(d)'
  BY <1>1, EndsStays DEF IInv, Inv, queueVars
<1> QED
  BY <1>2, <1>3, <1>4, <1>5, <1>6, <1>7 DEF IInv, Inv

\* A read fails.
LEMMA ReadFailsKeeps ==
  ASSUME IInv, NEW e \in End, ReadFails(e)
  PROVE  IInv'
<1>1. UNCHANGED <<encrypted, queueVars, wire, received, dial, state, cancelled, timer,
                   owed, late, ready, key, socket, connected, onClose,
                   writer, sender>>
  BY DEF ReadFails, stateVars, queueVars, wireVars, handlerVars, threadVars
<1>2. TypeOK'
  BY <1>1, TwoEnds DEF ReadFails, Goto, IInv, TypeOK, queueVars
<1>3. /\ \A d \in End : Gapless(d)' /\ InOrder(d)' /\ Consumed(d)' = Consumed(d)
      /\ Keys' = Keys /\ Numbered'
  BY <1>1, FramesStay
<1>4. ASSUME NEW d \in End PROVE Phase(d)'
  <2>1. Threads /\ Phase(d)
    BY ThreadsTyped
  <2>2. CASE d = e
    BY <2>1, <2>2, <1>1 DEF ReadFails, Goto, Threads, Phase
  <2>3. CASE d # e
    <3>1. state'[d] = state[d] /\ main'[d] = main[d] /\ connected'[d] = connected[d] /\ key'[d] = key[d]
      BY <2>1, <2>3, <1>1 DEF ReadFails, Goto, Threads
    <3> QED
      BY <2>1, <3>1, <1>1, PhaseOther
  <2> QED
    BY <2>2, <2>3
<1>5. ASSUME NEW d \in End PROVE Counts(d)'
  <2>1. Threads /\ Phase(d) /\ Counts(d)
    BY ThreadsTyped DEF IInv, Inv
  <2>2. CASE d = e
    BY <2>1, <2>2, <1>1 DEF ReadFails, Goto, Threads, Phase, Counts, KeyDue, KeySent, queueVars
  <2>3. CASE d # e
    <3>1. main'[d] = main[d] /\ connected'[d] = connected[d]
      BY <2>1, <2>3, <1>1 DEF ReadFails, Goto, Threads
    <3> QED
      BY <2>1, <3>1, <1>1, CountsOther DEF queueVars
  <2> QED
    BY <2>2, <2>3
<1>6. ASSUME NEW d \in End PROVE Reads(d)'
  <2>1. Threads /\ Phase(d) /\ Reads(d) /\ Peer(d) \in End
    BY ThreadsTyped, TwoEnds DEF IInv, Inv
  <2>2. CASE d = e
    BY <2>1, <2>2, <1>1, <1>3 DEF ReadFails, Goto, Threads, Phase, Reads, queueVars
  <2>3. CASE d # e
    <3>1. state'[d] = state[d] /\ main'[d] = main[d] /\ connected'[d] = connected[d]
      BY <2>1, <2>3, <1>1 DEF ReadFails, Goto, Threads
    <3> QED
      BY <2>1, <3>1, <1>1, <1>3, ReadsOther DEF queueVars
  <2> QED
    BY <2>2, <2>3
<1>7. ASSUME NEW d \in End PROVE Ends(d)'
  BY <1>1, EndsStays DEF IInv, Inv, queueVars
<1> QED
  BY <1>2, <1>3, <1>4, <1>5, <1>6, <1>7 DEF IInv, Inv

\* The read loop closes the connection.
LEMMA ReaderClosesKeeps ==
  ASSUME IInv, NEW e \in End, ReaderCloses(e)
  PROVE  IInv'
<1>1. UNCHANGED <<encrypted, queueVars, wire, received, dial, cancelled, timer, ready,
                   key, socket, connected, onClose, writer, sender>>
  BY DEF ReaderCloses, stateVars, queueVars, wireVars, handlerVars, threadVars
<1>2. TypeOK'
  BY <1>1, CloseFacts, TwoEnds DEF ReaderCloses, Goto, IInv, TypeOK, queueVars
<1>3. /\ \A d \in End : Gapless(d)' /\ InOrder(d)' /\ Consumed(d)' = Consumed(d)
      /\ Keys' = Keys /\ Numbered'
  BY <1>1, FramesStay
<1>4. ASSUME NEW d \in End PROVE Phase(d)'
  <2>1. Threads /\ Phase(d)
    BY ThreadsTyped
  <2>2. CASE d = e
    BY <2>1, <2>2, <1>1 DEF ReaderCloses, Goto, Close, Threads, Phase
  <2>3. CASE d # e
    <3>1. state'[d] = state[d] /\ main'[d] = main[d] /\ connected'[d] = connected[d] /\ key'[d] = key[d]
      BY <2>1, <2>3, <1>1 DEF ReaderCloses, Goto, Close, Threads
    <3> QED
      BY <2>1, <3>1, <1>1, PhaseOther
  <2> QED
    BY <2>2, <2>3
<1>5. ASSUME NEW d \in End PROVE Ends(d)'
  BY <1>1, CloseEnds DEF ReaderCloses, queueVars
<1>6. ASSUME NEW d \in End PROVE Counts(d)'
  <2>1. Threads /\ Phase(d) /\ Counts(d)
    BY ThreadsTyped DEF IInv, Inv
  <2>2. CASE d = e
    BY <2>1, <2>2, <1>1 DEF ReaderCloses, Goto, Close, Threads, Phase, Counts, KeyDue, KeySent,
        queueVars
  <2>3. CASE d # e
    <3>1. main'[d] = main[d] /\ connected'[d] = connected[d]
      BY <2>1, <2>3, <1>1 DEF ReaderCloses, Goto, Close, Threads
    <3> QED
      BY <2>1, <3>1, <1>1, CountsOther DEF queueVars
  <2> QED
    BY <2>2, <2>3
<1>7. ASSUME NEW d \in End PROVE Reads(d)'
  <2>1. Threads /\ Phase(d) /\ Reads(d) /\ Peer(d) \in End
    BY ThreadsTyped, TwoEnds DEF IInv, Inv
  <2>2. CASE d = e
    BY <2>1, <2>2, <1>1, <1>3 DEF ReaderCloses, Goto, Close, Threads, Phase, Reads, queueVars
  <2>3. CASE d # e
    <3>1. state'[d] = state[d] /\ main'[d] = main[d] /\ connected'[d] = connected[d]
      BY <2>1, <2>3, <1>1 DEF ReaderCloses, Goto, Close, Threads
    <3> QED
      BY <2>1, <3>1, <1>1, <1>3, ReadsOther DEF queueVars
  <2> QED
    BY <2>2, <2>3
<1> QED
  BY <1>2, <1>3, <1>4, <1>5, <1>6, <1>7 DEF IInv, Inv

\* The handshake timer fires ...
LEMMA TimerFiresKeeps ==
  ASSUME IInv, NEW e \in End, TimerFires(e)
  PROVE  IInv'
<1>1. UNCHANGED <<encrypted, queueVars, wire, received, dial, state, cancelled, owed, late,
                   ready, key, socket, connected, onClose, main,
                   writer, sender>>
  BY DEF TimerFires, stateVars, queueVars, wireVars, handlerVars, threadVars
<1>2. TypeOK'
  BY <1>1, TwoEnds DEF TimerFires, IInv, TypeOK, queueVars
<1>3. /\ \A d \in End : Gapless(d)' /\ InOrder(d)' /\ Consumed(d)' = Consumed(d)
      /\ Keys' = Keys /\ Numbered'
  BY <1>1, FramesStay
<1>4. ASSUME NEW d \in End PROVE Phase(d)' /\ Ends(d)' /\ Counts(d)' /\ Reads(d)'
  BY <1>1, PhaseStays, EndsStays, CountsStays, ReadsStays DEF IInv, Inv, queueVars
<1> QED
  BY <1>2, <1>3, <1>4 DEF IInv, Inv

\* ... and closes the connection.
LEMMA TimerClosesKeeps ==
  ASSUME IInv, NEW e \in End, TimerCloses(e)
  PROVE  IInv'
<1>1. UNCHANGED <<encrypted, queueVars, wire, received, dial, cancelled, ready, key,
                   socket, connected, onClose, main, writer, sender>>
  BY DEF TimerCloses, stateVars, queueVars, wireVars, handlerVars, threadVars
<1>2. TypeOK'
  BY <1>1, CloseFacts, TwoEnds DEF TimerCloses, IInv, TypeOK, queueVars
<1>3. /\ \A d \in End : Gapless(d)' /\ InOrder(d)' /\ Consumed(d)' = Consumed(d)
      /\ Keys' = Keys /\ Numbered'
  BY <1>1, FramesStay
<1>4. ASSUME NEW d \in End PROVE Phase(d)'
  <2>1. Threads /\ Phase(d)
    BY ThreadsTyped
  <2>2. CASE d = e
    BY <2>1, <2>2, <1>1 DEF TimerCloses, Close, Threads, Phase
  <2>3. CASE d # e
    <3>1. state'[d] = state[d] /\ main'[d] = main[d] /\ connected'[d] = connected[d] /\ key'[d] = key[d]
      BY <2>1, <2>3, <1>1 DEF TimerCloses, Close, Threads
    <3> QED
      BY <2>1, <3>1, <1>1, PhaseOther
  <2> QED
    BY <2>2, <2>3
<1>5. ASSUME NEW d \in End PROVE Ends(d)'
  BY <1>1, CloseEnds DEF TimerCloses, queueVars
<1>6. ASSUME NEW d \in End PROVE Reads(d)'
  <2>1. Threads /\ Phase(d) /\ Reads(d) /\ Peer(d) \in End
    BY ThreadsTyped, TwoEnds DEF IInv, Inv
  <2>2. CASE d = e
    BY <2>1, <2>2, <1>1, <1>3 DEF TimerCloses, Close, Threads, Phase, Reads, queueVars
  <2>3. CASE d # e
    <3>1. state'[d] = state[d] /\ main'[d] = main[d] /\ connected'[d] = connected[d]
      BY <2>1, <2>3, <1>1 DEF TimerCloses, Close, Threads
    <3> QED
      BY <2>1, <3>1, <1>1, <1>3, ReadsOther DEF queueVars
  <2> QED
    BY <2>2, <2>3
<1>7. ASSUME NEW d \in End PROVE Counts(d)'
  BY <1>1, CountsStays DEF IInv, Inv, queueVars
<1> QED
  BY <1>2, <1>3, <1>4, <1>5, <1>6, <1>7 DEF IInv, Inv

\* The write loop ends when the context is done ...
LEMMA LoopEndsKeeps ==
  ASSUME IInv, NEW e \in End, LoopEnds(e)
  PROVE  IInv'
<1>1. UNCHANGED <<encrypted, queueVars, wire, received, dial, state, cancelled, timer,
                   owed, late, ready, key, socket, connected, onClose, main,
                   sender>>
  BY DEF LoopEnds, stateVars, queueVars, wireVars, handlerVars, threadVars
<1>2. TypeOK'
  BY <1>1, TwoEnds DEF LoopEnds, Writing, IInv, TypeOK, queueVars
<1>3. /\ \A d \in End : Gapless(d)' /\ InOrder(d)' /\ Consumed(d)' = Consumed(d)
      /\ Keys' = Keys /\ Numbered'
  BY <1>1, FramesStay
<1>4. ASSUME NEW d \in End PROVE Ends(d)'
  BY <1>1, <1>2, <1>3, TwoEnds DEF LoopEnds, Writing, IInv, Inv, TypeOK, Ends, queueVars,
      Phase
<1>5. ASSUME NEW d \in End PROVE Phase(d)' /\ Counts(d)' /\ Reads(d)'
  BY <1>1, PhaseStays, CountsStays, ReadsStays DEF IInv, Inv, queueVars
<1> QED
  BY <1>2, <1>3, <1>4, <1>5 DEF IInv, Inv

\* ... or the heartbeat has timed out.
LEMMA HeartbeatTimesOutKeeps ==
  ASSUME IInv, NEW e \in End, HeartbeatTimesOut(e)
  PROVE  IInv'
<1>1. UNCHANGED <<encrypted, queueVars, wire, received, dial, state, cancelled, timer,
                   owed, late, ready, key, socket, connected, onClose, main,
                   sender>>
  BY DEF HeartbeatTimesOut, stateVars, queueVars, wireVars, handlerVars, threadVars
<1>2. TypeOK'
  BY <1>1, TwoEnds DEF HeartbeatTimesOut, Writing, IInv, TypeOK, queueVars
<1>3. /\ \A d \in End : Gapless(d)' /\ InOrder(d)' /\ Consumed(d)' = Consumed(d)
      /\ Keys' = Keys /\ Numbered'
  BY <1>1, FramesStay
<1>4. ASSUME NEW d \in End PROVE Ends(d)'
  BY <1>1, <1>2, <1>3, TwoEnds DEF HeartbeatTimesOut, Writing, IInv, Inv, TypeOK, Ends,
      queueVars, Phase
<1>5. ASSUME NEW d \in End PROVE Phase(d)' /\ Counts(d)' /\ Reads(d)'
  BY <1>1, PhaseStays, CountsStays, ReadsStays DEF IInv, Inv, queueVars
<1> QED
  BY <1>2, <1>3, <1>4, <1>5 DEF IInv, Inv

\* The drain leaves an empty queue.
LEMMA DrainedKeeps ==
  ASSUME IInv, NEW e \in End, Drained(e)
  PROVE  IInv'
<1>1. UNCHANGED <<encrypted, queueVars, wire, received, dial, state, cancelled, timer,
                   owed, late, ready, key, socket, connected, onClose, main,
                   sender>>
  BY DEF Drained, stateVars, queueVars, wireVars, handlerVars, threadVars
<1>2. TypeOK'
  BY <1>1, TwoEnds DEF Drained, Writing, IInv, TypeOK, queueVars
<1>3. /\ \A d \in End : Gapless(d)' /\ InOrder(d)' /\ Consumed(d)' = Consumed(d)
      /\ Keys' = Keys /\ Numbered'
  BY <1>1, FramesStay
<1>4. ASSUME NEW d \in End PROVE Ends(d)'
  <2>1. /\ writer[e] = "drain" /\ Len(queue[e]) = 0 /\ writer'[e] = "close"
        /\ \A c \in End : c # e => writer'[c] = writer[c]
    BY DEF Drained, Writing, IInv, TypeOK
  <2>2. /\ Ends(d) /\ pushed[d] \in Nat /\ owed[d] \in Nat /\ late[d] \in Nat
        /\ Len(queue[d]) \in Nat
    BY EndTyped
  <2> QED
    BY <1>1, <2>1, <2>2 DEF Ends, queueVars
<1>5. ASSUME NEW d \in End PROVE Phase(d)' /\ Counts(d)' /\ Reads(d)'
  BY <1>1, PhaseStays, CountsStays, ReadsStays DEF IInv, Inv, queueVars
<1> QED
  BY <1>2, <1>3, <1>4, <1>5 DEF IInv, Inv

\* The writer's own Close.
LEMMA WriterClosesKeeps ==
  ASSUME IInv, NEW e \in End, WriterCloses(e)
  PROVE  IInv'
<1>1. UNCHANGED <<encrypted, queueVars, wire, received, dial, ready, key, socket,
                   connected, onClose, main, sender>>
  BY DEF WriterCloses, stateVars, queueVars, wireVars, handlerVars, threadVars
<1>2. TypeOK'
  BY <1>1, CloseFacts, TwoEnds DEF WriterCloses, Writing, IInv, TypeOK, queueVars
<1>3. /\ \A d \in End : Gapless(d)' /\ InOrder(d)' /\ Consumed(d)' = Consumed(d)
      /\ Keys' = Keys /\ Numbered'
  BY <1>1, FramesStay
<1>4. ASSUME NEW d \in End PROVE Phase(d)'
  <2>1. Threads /\ Phase(d)
    BY ThreadsTyped
  <2>2. CASE d = e
    BY <2>1, <2>2, <1>1 DEF WriterCloses, Close, Threads, Phase
  <2>3. CASE d # e
    <3>1. state'[d] = state[d] /\ main'[d] = main[d] /\ connected'[d] = connected[d] /\ key'[d] = key[d]
      BY <2>1, <2>3, <1>1 DEF WriterCloses, Close, Threads
    <3> QED
      BY <2>1, <3>1, <1>1, PhaseOther
  <2> QED
    BY <2>2, <2>3
<1>5. ASSUME NEW d \in End PROVE Ends(d)'
  BY <1>1, CloseEnds DEF WriterCloses, Writing, queueVars
<1>6. ASSUME NEW d \in End PROVE Reads(d)'
  <2>1. Threads /\ Phase(d) /\ Reads(d) /\ Peer(d) \in End
    BY ThreadsTyped, TwoEnds DEF IInv, Inv
  <2>2. CASE d = e
    BY <2>1, <2>2, <1>1, <1>3 DEF WriterCloses, Close, Threads, Phase, Reads, queueVars
  <2>3. CASE d # e
    <3>1. state'[d] = state[d] /\ main'[d] = main[d] /\ connected'[d] = connected[d]
      BY <2>1, <2>3, <1>1 DEF WriterCloses, Close, Threads
    <3> QED
      BY <2>1, <3>1, <1>1, <1>3, ReadsOther DEF queueVars
  <2> QED
    BY <2>2, <2>3
<1>7. ASSUME NEW d \in End PROVE Counts(d)'
  BY <1>1, CountsStays DEF IInv, Inv, queueVars
<1> QED
  BY <1>2, <1>3, <1>4, <1>5, <1>6, <1>7 DEF IInv, Inv

\* OnClose is due and the socket is closed.
LEMMA WriterEndsKeeps ==
  ASSUME IInv, NEW e \in End, WriterEnds(e)
  PROVE  IInv'
<1>1. UNCHANGED <<encrypted, queueVars, wire, received, dial, state, cancelled, timer,
                   owed, late, ready, key, connected, main, sender>>
  BY DEF WriterEnds, stateVars, queueVars, wireVars, handlerVars, threadVars
<1>2. TypeOK'
  BY <1>1, TwoEnds DEF WriterEnds, Writing, IInv, TypeOK, queueVars
<1>3. /\ \A d \in End : Gapless(d)' /\ InOrder(d)' /\ Consumed(d)' = Consumed(d)
      /\ Keys' = Keys /\ Numbered'
  BY <1>1, FramesStay
<1>4. ASSUME NEW d \in End PROVE Ends(d)'
  <2>1. /\ writer[e] = "notify" /\ writer'[e] = "ended"
        /\ \A c \in End : c # e => writer'[c] = writer[c] /\ onClose'[c] = onClose[c] /\ socket'[c] = socket[c]
    BY DEF WriterEnds, Writing, IInv, TypeOK
  <2>2. /\ Ends(d) /\ pushed[d] \in Nat /\ owed[d] \in Nat /\ late[d] \in Nat
        /\ Len(queue[d]) \in Nat
    BY EndTyped
  <2> QED
    BY <1>1, <2>1, <2>2 DEF Ends, queueVars
<1>5. ASSUME NEW d \in End PROVE Phase(d)' /\ Counts(d)' /\ Reads(d)'
  BY <1>1, PhaseStays, CountsStays, ReadsStays DEF IInv, Inv, queueVars
<1> QED
  BY <1>2, <1>3, <1>4, <1>5 DEF IInv, Inv

\* OnClose.
LEMMA OnCloseRunsKeeps ==
  ASSUME IInv, NEW e \in End, OnCloseRuns(e)
  PROVE  IInv'
<1>1. UNCHANGED <<encrypted, queueVars, wire, received, dial, state, cancelled, timer,
                   owed, late, ready, key, socket, connected, main, writer,
                   sender>>
  BY DEF OnCloseRuns, stateVars, queueVars, wireVars, handlerVars, threadVars
<1>2. TypeOK'
  BY <1>1, TwoEnds DEF OnCloseRuns, IInv, TypeOK, queueVars
<1>3. /\ \A d \in End : Gapless(d)' /\ InOrder(d)' /\ Consumed(d)' = Consumed(d)
      /\ Keys' = Keys /\ Numbered'
  BY <1>1, FramesStay
<1>4. ASSUME NEW d \in End PROVE Ends(d)'
  BY <1>1, <1>2, <1>3, TwoEnds DEF OnCloseRuns, IInv, Inv, TypeOK, Ends, queueVars, Phase
<1>5. ASSUME NEW d \in End PROVE Phase(d)' /\ Counts(d)' /\ Reads(d)'
  BY <1>1, PhaseStays, CountsStays, ReadsStays DEF IInv, Inv, queueVars
<1> QED
  BY <1>2, <1>3, <1>4, <1>5 DEF IInv, Inv

\* DialTCP returns.
LEMMA DialReturnsKeeps ==
  ASSUME IInv, DialReturns
  PROVE  IInv'
<1>1. UNCHANGED <<encrypted, queueVars, wire, received, state, cancelled, timer, owed, late,
                   ready, key, socket, connected, onClose, main,
                   writer, sender>>
  BY DEF DialReturns, stateVars, queueVars, wireVars, handlerVars, threadVars
<1>2. TypeOK'
  BY <1>1, TwoEnds DEF DialReturns, IInv, TypeOK, queueVars
<1>3. /\ \A d \in End : Gapless(d)' /\ InOrder(d)' /\ Consumed(d)' = Consumed(d)
      /\ Keys' = Keys /\ Numbered'
  BY <1>1, FramesStay
<1>4. ASSUME NEW d \in End PROVE Phase(d)' /\ Ends(d)' /\ Counts(d)' /\ Reads(d)'
  BY <1>1, PhaseStays, EndsStays, CountsStays, ReadsStays DEF IInv, Inv, queueVars
<1> QED
  BY <1>2, <1>3, <1>4 DEF IInv, Inv

\* DialTCP gives up and closes the connection.
LEMMA DialGivesUpKeeps ==
  ASSUME IInv, DialGivesUp
  PROVE  IInv'
<1>1. UNCHANGED <<encrypted, queueVars, wire, received, cancelled, timer, ready, key,
                   socket, connected, onClose, main, writer, sender>>
  BY DEF DialGivesUp, stateVars, queueVars, wireVars, handlerVars, threadVars
<1>2. TypeOK'
  BY <1>1, CloseFacts, TwoEnds DEF DialGivesUp, IInv, TypeOK, queueVars
<1>3. /\ \A d \in End : Gapless(d)' /\ InOrder(d)' /\ Consumed(d)' = Consumed(d)
      /\ Keys' = Keys /\ Numbered'
  BY <1>1, FramesStay
<1>4. ASSUME NEW d \in End PROVE Phase(d)'
  <2>1. Threads /\ Phase(d)
    BY ThreadsTyped
  <2>2. CASE d = "client"
    BY <2>1, <2>2, <1>1 DEF DialGivesUp, Close, Threads, Phase
  <2>3. CASE d # "client"
    <3>1. state'[d] = state[d] /\ main'[d] = main[d] /\ connected'[d] = connected[d] /\ key'[d] = key[d]
      BY <2>1, <2>3, <1>1 DEF DialGivesUp, Close, Threads
    <3> QED
      BY <2>1, <3>1, <1>1, PhaseOther
  <2> QED
    BY <2>2, <2>3
<1>5. ASSUME NEW d \in End PROVE Ends(d)'
  BY <1>1, CloseEnds, TwoEnds DEF DialGivesUp, queueVars
<1>6. ASSUME NEW d \in End PROVE Reads(d)'
  <2>1. Threads /\ Phase(d) /\ Reads(d) /\ Peer(d) \in End
    BY ThreadsTyped, TwoEnds DEF IInv, Inv
  <2>2. CASE d = "client"
    BY <2>1, <2>2, <1>1, <1>3 DEF DialGivesUp, Close, Threads, Phase, Reads, queueVars
  <2>3. CASE d # "client"
    <3>1. state'[d] = state[d] /\ main'[d] = main[d] /\ connected'[d] = connected[d]
      BY <2>1, <2>3, <1>1 DEF DialGivesUp, Close, Threads
    <3> QED
      BY <2>1, <3>1, <1>1, <1>3, ReadsOther DEF queueVars
  <2> QED
    BY <2>2, <2>3
<1>7. ASSUME NEW d \in End PROVE Counts(d)'
  BY <1>1, CountsStays DEF IInv, Inv, queueVars
<1> QED
  BY <1>2, <1>3, <1>4, <1>5, <1>6, <1>7 DEF IInv, Inv

-----------------------------------------------------------------------------
(* Steps that move frames.                                                 *)

\* Append, index by index.
LEMMA AppendFacts ==
  ASSUME NEW S, NEW s \in Seq(S), NEW x \in S
  PROVE  /\ Append(s, x) \in Seq(S) /\ Len(s) \in Nat /\ Len(Append(s, x)) = Len(s) + 1
         /\ Append(s, x)[Len(s) + 1] = x
         /\ \A i \in 1..Len(s) : Append(s, x)[i] = s[i]
OBVIOUS

\* Head and Tail, index by index.
LEMMA TailFacts ==
  ASSUME NEW S, NEW s \in Seq(S), s # <<>>
  PROVE  /\ Tail(s) \in Seq(S) /\ Len(s) \in Nat /\ Len(s) > 0 /\ Len(Tail(s)) = Len(s) - 1
         /\ Head(s) = s[1] /\ s[1] \in S
         /\ \A i \in 1..(Len(s) - 1) : Tail(s)[i] = s[i + 1]
BY EmptySeq, LenProperties

\* pushQueue appends one frame.
LEMMA PushFacts ==
  ASSUME TypeOK, NEW e \in End, NEW f \in Frame, PushOK(e, f)
  PROVE  /\ queue' \in [End -> Seq(Frame)] /\ pushed' \in [End -> Nat]
         /\ \A d \in End : Len(queue'[d]) <= QueueCap
         /\ Len(queue[e]) \in Nat /\ Len(queue'[e]) = Len(queue[e]) + 1
         /\ queue'[e][Len(queue[e]) + 1] = f
         /\ \A i \in 1..Len(queue[e]) : queue'[e][i] = queue[e][i]
         /\ pushed'[e] = pushed[e] + 1
         /\ \A d \in End \ {e} : queue'[d] = queue[d] /\ pushed'[d] = pushed[d]
<1>1. queue[e] \in Seq(Frame)
  BY DEF TypeOK
<1>2. /\ queue'[e] = Append(queue[e], f) /\ Len(queue[e]) < QueueCap
      /\ queue' = [queue EXCEPT ![e] = Append(queue[e], f)]
      /\ \A d \in End \ {e} : queue'[d] = queue[d]
  BY DEF PushOK, TypeOK
<1>3. queue' \in [End -> Seq(Frame)]
  BY <1>1, <1>2, AppendFacts DEF TypeOK
<1>4. /\ Len(queue[e]) \in Nat /\ Len(queue'[e]) = Len(queue[e]) + 1
      /\ queue'[e][Len(queue[e]) + 1] = f
      /\ \A i \in 1..Len(queue[e]) : queue'[e][i] = queue[e][i]
  BY <1>1, <1>2, AppendFacts
<1>5. /\ pushed' \in [End -> Nat] /\ pushed'[e] = pushed[e] + 1
      /\ \A d \in End \ {e} : pushed'[d] = pushed[d]
  BY DEF PushOK, TypeOK
<1>6. \A d \in End : Len(queue'[d]) <= QueueCap
  BY <1>2, <1>4, CapAssumption DEF TypeOK
<1> QED
  BY <1>2, <1>3, <1>4, <1>5, <1>6

\* The peer consumes the first frame on the wire.
LEMMA ConsumeFacts ==
  ASSUME TypeOK, NEW e \in End, NEW p \in End, p = Peer(e), wire[p] # <<>>, Consume(e)
  PROVE  /\ wire' \in [End -> Seq(Frame)]
         /\ Len(wire[p]) \in Nat /\ Len(wire[p]) > 0 /\ Len(wire'[p]) = Len(wire[p]) - 1
         /\ \A i \in 1..Len(wire'[p]) : wire'[p][i] = wire[p][i + 1]
         /\ \A d \in End \ {p} : wire'[d] = wire[d]
         /\ NextFrame(e) = wire[p][1] /\ wire[p][1] \in Frame
<1>1. wire[p] \in Seq(Frame)
  BY DEF TypeOK
<1>2. /\ wire' = [wire EXCEPT ![p] = Tail(wire[p])] /\ wire'[p] = Tail(wire[p])
      /\ \A d \in End \ {p} : wire'[d] = wire[d]
  BY DEF Consume, TypeOK
<1>3. /\ Tail(wire[p]) \in Seq(Frame) /\ Len(wire[p]) \in Nat /\ Len(wire[p]) > 0
      /\ Len(Tail(wire[p])) = Len(wire[p]) - 1
      /\ Head(wire[p]) = wire[p][1] /\ wire[p][1] \in Frame
      /\ \A i \in 1..(Len(wire[p]) - 1) : Tail(wire[p])[i] = wire[p][i + 1]
  BY <1>1, TailFacts
<1>4. wire' \in [End -> Seq(Frame)]
  BY <1>2, <1>3 DEF TypeOK
<1>5. NextFrame(e) = wire[p][1]
  BY <1>3 DEF NextFrame
<1> QED
  BY <1>2, <1>3, <1>4, <1>5

\* A frame that is read from the wire: the wire was not empty.
LEMMA NextIsHead ==
  ASSUME TypeOK, NEW e \in End, NextFrame(e) # Torn
  PROVE  /\ wire[Peer(e)] # <<>> /\ Len(wire[Peer(e)]) > 0 /\ NextFrame(e) = wire[Peer(e)][1]
         /\ wire[Peer(e)][1] \in Frame
<1>1. wire[Peer(e)] \in Seq(Frame) /\ wire[Peer(e)] # <<>>
  BY TwoEnds DEF NextFrame, TypeOK
<1> QED
  BY <1>1, TailFacts DEF NextFrame

\* Frames are numbers.
LEMMA FramesAreInts ==
  ASSUME TypeOK, NEW e \in End
  PROVE  /\ \A i \in 1..Len(queue[e]) : queue[e][i] \in Int
         /\ \A i \in 1..Len(wire[e]) : wire[e][i] \in Int
         /\ \A i \in 1..Len(received[Peer(e)]) : received[Peer(e)][i] \in Nat \ {0}
<1>1. Frame \subseteq Int /\ (1..MaxPush) \subseteq Nat \ {0}
  BY CapAssumption DEF Frame, Key, Torn
<1>2. queue[e] \in Seq(Frame) /\ wire[e] \in Seq(Frame) /\ received[Peer(e)] \in Seq(1..MaxPush)
  BY TwoEnds DEF TypeOK
<1>3. ASSUME NEW S, NEW s \in Seq(S), NEW i \in 1..Len(s) PROVE s[i] \in S
  OBVIOUS
<1> QED
  BY <1>1, <1>2, <1>3

\* pushQueue leaves what the writer has written.
LEMMA PushEnds ==
  ASSUME IInv, NEW e \in End, NEW f \in Frame, PushOK(e, f),
         UNCHANGED <<onClose, writer, socket, state, owed, late, broken>>
  PROVE  \A d \in End : Ends(d)'
<1>1. /\ Len(queue[e]) \in Nat /\ Len(queue'[e]) = Len(queue[e]) + 1
      /\ pushed'[e] = pushed[e] + 1
      /\ \A d \in End \ {e} : queue'[d] = queue[d] /\ pushed'[d] = pushed[d]
  BY PushFacts DEF IInv
<1>2. pushed[e] \in Nat /\ owed[e] \in Nat
  BY DEF IInv, TypeOK
<1>3. Ends(e)'
  BY <1>1, <1>2 DEF IInv, Inv, Ends
<1>4. ASSUME NEW d \in End, d # e PROVE Ends(d)'
  BY <1>1, <1>4 DEF IInv, Inv, Ends
<1> QED
  BY <1>3, <1>4

\* An end whose frames a step leaves alone.
LEMMA StreamStays ==
  ASSUME NEW d \in End, queue'[d] = queue[d], wire'[d] = wire[d], pushed'[d] = pushed[d],
         broken'[d] = broken[d], UNCHANGED encrypted
  PROVE  Consumed(d)' = Consumed(d) /\ Keys' = Keys /\ (Gapless(d) => Gapless(d)')
BY DEF Gapless, Consumed, Keys

\* The same for the order of its frames.
LEMMA InOrderStays ==
  ASSUME NEW d \in End, queue'[d] = queue[d], wire'[d] = wire[d], sent'[d] = sent[d],
         received'[Peer(d)] = received[Peer(d)], InOrder(d)
  PROVE  InOrder(d)'
BY DEF InOrder

\* pushQueue is called with the next number of the end's frames: a business frame
\* that was not sent before, or the key as the first frame of all.
PushesNext(e, f) ==
  /\ PushOK(e, f)
  /\ UNCHANGED <<encrypted, wire, received, broken>>
  /\ f = pushed[e] + 1 - Keys
  /\ sent' \in [End -> Int]
  /\ \A d \in End \ {e} : sent'[d] = sent[d]
  /\ f <= sent'[e] /\ sent[e] <= sent'[e]
  /\ sent[e] < f \/ (pushed[e] = 0 /\ sent[e] = 0)

\* It keeps the frames in order.
LEMMA PushKeeps ==
  ASSUME IInv, NEW e \in End, NEW f \in Frame, PushesNext(e, f)
  PROVE  /\ \A d \in End : Gapless(d)' /\ InOrder(d)' /\ Consumed(d)' = Consumed(d)
         /\ Keys' = Keys /\ Numbered'
<1> DEFINE q == queue[e]
           w == wire[e]
           r == received[Peer(e)]
           L == Len(q)
<1>1. TypeOK /\ Gapless(e) /\ InOrder(e)
  BY DEF IInv, Inv
<1>2. Keys \in {0, 1} /\ Keys' = Keys
  BY DEF Keys, PushesNext
<1>3. /\ Len(queue'[e]) = L + 1 /\ queue'[e][L + 1] = f
      /\ \A i \in 1..L : queue'[e][i] = q[i]
  BY <1>1, PushFacts DEF PushesNext
<1>4. /\ pushed'[e] = pushed[e] + 1
      /\ \A d \in End \ {e} : queue'[d] = queue[d] /\ pushed'[d] = pushed[d] /\ sent'[d] = sent[d]
  BY <1>1, PushFacts DEF PushesNext
<1>5. L \in Nat /\ Len(w) \in Nat /\ Len(r) \in Nat
  <2>1. q \in Seq(Frame) /\ w \in Seq(Frame) /\ r \in Seq(1..MaxPush)
    BY <1>1, TwoEnds DEF TypeOK
  <2> QED
    BY <2>1
<1>6. pushed[e] \in Nat /\ sent[e] \in Nat /\ sent'[e] \in Int /\ f \in Int
  BY <1>1, CapAssumption DEF TypeOK, PushesNext, Frame, Key, Torn
<1>7. wire' = wire /\ wire'[e] = w /\ received' = received /\ received'[Peer(e)] = r /\ broken' = broken
  BY DEF PushesNext
<1>8. /\ \A i \in 1..L : q[i] \in Int
      /\ \A i \in 1..Len(w) : w[i] \in Int
      /\ \A i \in 1..Len(r) : r[i] \in Nat \ {0}
  BY <1>1, FramesAreInts
<1>9. f = pushed[e] + 1 - Keys /\ f <= sent'[e] /\ sent[e] <= sent'[e]
  BY DEF PushesNext
<1> HIDE DEF q, w, r, L
<1>10. Consumed(e)' = Consumed(e)
  <2>1. Consumed(e) = pushed[e] - L - Len(w)
    BY DEF Consumed, q, w, L
  <2>2. Consumed(e)' = pushed'[e] - Len(queue'[e]) - Len(w)
    BY <1>7 DEF Consumed
  <2>3. Len(queue'[e]) = L + 1 /\ pushed'[e] = pushed[e] + 1
    BY <1>3, <1>4
  <2> QED
    BY <2>1, <2>2, <2>3, <1>5, <1>6, SMTT(20)
<1>11. Gapless(e)'
  <2>0. Len(queue'[e]) = L + 1 /\ pushed'[e] = pushed[e] + 1
    BY <1>3, <1>4
  <2>1. Consumed(e)' >= 0 /\ (~broken[e] => \A i \in 1..Len(wire'[e]) : wire'[e][i] = Consumed(e)' + i - Keys')
    BY <1>1, <1>2, <1>7, <1>10 DEF Gapless, w
  <2>2. ASSUME ~broken[e], NEW i \in 1..Len(queue'[e])
        PROVE  queue'[e][i] = pushed'[e] - Len(queue'[e]) + i - Keys
    <3>1. CASE i = L + 1
      <4>1. pushed'[e] - Len(queue'[e]) = pushed[e] - L
        BY <2>0, <1>5, <1>6, SMTT(20)
      <4>2. f = pushed[e] - L + i - Keys
        BY <3>1, <1>2, <1>5, <1>6, <1>9, SMTT(20)
      <4>3. queue'[e][i] = f
        BY <3>1, <1>3
      <4> QED
        BY <4>1, <4>2, <4>3
    <3>2. CASE i # L + 1
      <4>1. i \in 1..L
        BY <3>2, <1>3, <1>5
      <4>2. q[i] = pushed[e] - L + i - Keys
        BY <4>1, <2>2, <1>1 DEF Gapless, q, L
      <4>3. pushed[e] - L = pushed'[e] - Len(queue'[e])
        BY <2>0, <1>5, <1>6, SMTT(20)
      <4> QED
        BY <4>1, <4>2, <4>3, <1>3
    <3> QED
      BY <3>1, <3>2
  <2>3. \A i \in 1..Len(queue'[e]) : queue'[e][i] # Torn
    <3>1. f # Torn
      BY <1>2, <1>6, <1>9 DEF Torn
    <3>2. \A i \in 1..L : q[i] # Torn
      BY <1>1 DEF Gapless, q, L
    <3>3. \A i \in 1..Len(queue'[e]) : i = L + 1 \/ i \in 1..L
      BY <1>3, <1>5
    <3> QED
      BY <3>1, <3>2, <3>3, <1>3
  <2> QED
    BY <2>1, <2>2, <2>3, <1>2, <1>7 DEF Gapless
<1>12. /\ \A i, j \in 1..Len(r) : i < j => r[i] < r[j]
       /\ \A i, j \in 1..Len(w) : i < j => w[i] < w[j] \/ w[j] = Torn
       /\ \A i, j \in 1..L : i < j => q[i] < q[j]
       /\ \A i \in 1..Len(r), j \in 1..Len(w) : r[i] < w[j] \/ w[j] = Torn
       /\ \A i \in 1..Len(r), j \in 1..L : r[i] < q[j]
       /\ \A i \in 1..Len(w), j \in 1..L : w[i] < q[j]
       /\ \A i \in 1..Len(r) : r[i] <= sent[e]
       /\ \A i \in 1..Len(w) : w[i] <= sent[e]
       /\ \A i \in 1..L : q[i] <= sent[e]
  BY <1>1 DEF InOrder, q, w, r, L
<1>13. /\ \A i \in 1..Len(r) : r[i] < f
       /\ \A i \in 1..Len(w) : w[i] < f
       /\ \A i \in 1..L : q[i] < f
  <2>1. CASE sent[e] < f
    BY <2>1, <1>6, <1>8, <1>12
  <2>2. CASE pushed[e] = 0 /\ sent[e] = 0
    <3>1. L = 0 /\ Len(w) = 0
      BY <2>2, <1>1, <1>5 DEF Gapless, Consumed, q, w, L
    <3>2. Len(r) = 0
      BY <2>2, <1>5, <1>8, <1>12
    <3> QED
      BY <3>1, <3>2
  <2> QED
    BY <2>1, <2>2 DEF PushesNext
<1>14. /\ \A i \in 1..Len(r) : r[i] <= sent'[e]
       /\ \A i \in 1..Len(w) : w[i] <= sent'[e]
       /\ \A i \in 1..L : q[i] <= sent'[e]
  BY <1>6, <1>8, <1>9, <1>12, SMTT(20)
<1>15. \A i \in 1..Len(queue'[e]) : i = L + 1 \/ (i \in 1..L /\ queue'[e][i] = q[i])
  BY <1>3, <1>5
<1>16. /\ \A i, j \in 1..Len(queue'[e]) : i < j => queue'[e][i] < queue'[e][j]
       /\ \A i \in 1..Len(r), j \in 1..Len(queue'[e]) : r[i] < queue'[e][j]
       /\ \A i \in 1..Len(w), j \in 1..Len(queue'[e]) : w[i] < queue'[e][j]
       /\ \A i \in 1..Len(queue'[e]) : queue'[e][i] <= sent'[e]
  <2>1. queue'[e][L + 1] = f
    BY <1>3
  <2>2. \A i, j \in 1..Len(queue'[e]) : i < j => i \in 1..L
    BY <1>3, <1>5
  <2>3. ASSUME NEW i \in 1..Len(queue'[e]), NEW j \in 1..Len(queue'[e]), i < j
        PROVE  queue'[e][i] < queue'[e][j]
    <3>1. i \in 1..L /\ queue'[e][i] = q[i]
      BY <2>2, <2>3, <1>3
    <3>2. CASE j = L + 1
      BY <3>1, <3>2, <2>1, <1>13
    <3>3. CASE j \in 1..L /\ queue'[e][j] = q[j]
      BY <3>1, <3>3, <2>3, <1>12
    <3> QED
      BY <3>2, <3>3, <1>15
  <2>4. /\ \A i \in 1..Len(r), j \in 1..Len(queue'[e]) : r[i] < queue'[e][j]
        /\ \A i \in 1..Len(w), j \in 1..Len(queue'[e]) : w[i] < queue'[e][j]
    BY <2>1, <1>12, <1>13, <1>15
  <2>5. \A i \in 1..Len(queue'[e]) : queue'[e][i] <= sent'[e]
    BY <2>1, <1>9, <1>14, <1>15
  <2> QED
    BY <2>3, <2>4, <2>5
<1>17. InOrder(e)'
  BY <1>7, <1>12, <1>14, <1>16 DEF InOrder
<1>18. ASSUME NEW d \in End, d # e PROVE Gapless(d)' /\ InOrder(d)' /\ Consumed(d)' = Consumed(d)
  <2>1. /\ queue'[d] = queue[d] /\ wire'[d] = wire[d] /\ pushed'[d] = pushed[d] /\ sent'[d] = sent[d]
        /\ received'[Peer(d)] = received[Peer(d)] /\ broken'[d] = broken[d] /\ encrypted' = encrypted
    BY <1>4, <1>7, <1>18 DEF PushesNext
  <2> QED
    BY <2>1, StreamStays, InOrderStays DEF IInv, Inv
<1>19. Numbered'
  BY DEF IInv, Numbered, PushesNext
<1> QED
  BY <1>2, <1>10, <1>11, <1>17, <1>18, <1>19

\* SendMessage queues the next business frame.
LEMMA SendPushKeeps ==
  ASSUME IInv, NEW e \in End, SendPush(e)
  PROVE  IInv'
<1>1. UNCHANGED <<encrypted, dial, state, cancelled, timer, owed, late, ready, key, broken, wire,
                  socket, connected, received, onClose, main, writer>>
  BY DEF SendPush, stateVars, wireVars, handlerVars
<1>2. /\ sender' = [sender EXCEPT ![e] = "idle"] /\ connected[e] # "no" /\ pushed[e] < MaxPush
      /\ pushed[e] = sent[e] + Keys
  BY DEF SendPush, IInv, Inv, Counts, KeySent, Keys, TypeOK
<1>3. CASE PushFails(e) /\ UNCHANGED <<queue, pushed, sent>>
  <2>1. TypeOK'
    BY <1>1, <1>2, <1>3 DEF IInv, TypeOK
  <2>2. /\ \A d \in End : Gapless(d)' /\ InOrder(d)' /\ Consumed(d)' = Consumed(d)
        /\ Keys' = Keys /\ Numbered'
    BY <1>1, <1>3, FramesStay DEF queueVars
  <2>3. ASSUME NEW d \in End PROVE Counts(d)'
    BY <1>1, <1>2, <1>3 DEF IInv, Inv, TypeOK, Counts, KeyDue, KeySent
  <2>4. ASSUME NEW d \in End PROVE Phase(d)' /\ Ends(d)' /\ Reads(d)'
    BY <1>1, <1>3, PhaseStays, EndsStays, ReadsStays DEF IInv, Inv
  <2> QED
    BY <2>1, <2>2, <2>3, <2>4 DEF IInv, Inv
<1>4. CASE PushOK(e, sent[e] + 1) /\ sent' = [sent EXCEPT ![e] = @ + 1]
  <2> DEFINE f == sent[e] + 1
  <2>1. f \in 1..MaxPush /\ f \in Frame /\ f = pushed[e] + 1 - Keys
    BY <1>2, CapAssumption DEF IInv, TypeOK, Frame, Keys
  <2>2. /\ sent' \in [End -> 0..MaxPush] /\ sent'[e] = f /\ sent[e] \in Nat
        /\ \A d \in End \ {e} : sent'[d] = sent[d]
    BY <1>4, <2>1 DEF IInv, TypeOK
  <2>3. PushOK(e, f)
    BY <1>4
  <2> HIDE DEF f
  <2>4. /\ queue' \in [End -> Seq(Frame)] /\ pushed' \in [End -> Nat]
        /\ \A d \in End : Len(queue'[d]) <= QueueCap
        /\ Len(queue[e]) \in Nat /\ Len(queue'[e]) = Len(queue[e]) + 1
        /\ pushed'[e] = pushed[e] + 1
        /\ \A d \in End \ {e} : queue'[d] = queue[d] /\ pushed'[d] = pushed[d]
    BY <2>1, <2>3, PushFacts DEF IInv
  <2>5. TypeOK'
    BY <1>1, <1>2, <2>2, <2>4 DEF IInv, TypeOK
  <2>6. /\ \A d \in End : Gapless(d)' /\ InOrder(d)' /\ Consumed(d)' = Consumed(d)
        /\ Keys' = Keys /\ Numbered'
    <3>1. sent' \in [End -> Int]
      BY <2>2, CapAssumption
    <3>2. PushesNext(e, f)
      BY <3>1, <1>1, <2>1, <2>2, <2>3 DEF PushesNext, f
    <3> QED
      BY <3>2, <2>1, PushKeeps
  <2>7. ASSUME NEW d \in End PROVE Ends(d)'
    BY <1>1, <2>1, <2>3, PushEnds
  <2>8. ASSUME NEW d \in End PROVE Counts(d)'
    <3>1. CASE d = e
      BY <3>1, <1>1, <1>2, <2>2, <2>4 DEF IInv, Inv, TypeOK, Counts, KeyDue, KeySent, Phase, f
    <3>2. CASE d # e
      <4>1. Counts(d) /\ sender'[d] = sender[d]
        BY <3>2, <1>2 DEF IInv, Inv, TypeOK
      <4>2. pushed'[d] = pushed[d] /\ sent'[d] = sent[d]
        BY <3>2, <2>2, <2>4
      <4> QED
        BY <4>1, <4>2, <1>1, CountsOther
    <3> QED
      BY <3>1, <3>2
  <2>9. ASSUME NEW d \in End PROVE Reads(d)'
    BY <1>1, <2>6, TwoEnds DEF IInv, Inv, Reads
  <2>10. ASSUME NEW d \in End PROVE Phase(d)'
    BY <1>1, PhaseStays DEF IInv, Inv
  <2> QED
    BY <2>5, <2>6, <2>7, <2>8, <2>9, <2>10 DEF IInv, Inv
<1> QED
  BY <1>3, <1>4 DEF SendPush

\* An end's key is its first frame: the steps of StartHandshake and Exchange.
LEMMA KeyPushes ==
  ASSUME IInv, NEW e \in End, encrypted, KeyDue(e), PushOK(e, Key),
         UNCHANGED <<encrypted, wire, received, broken, sent>>
  PROVE  Key \in Frame /\ PushesNext(e, Key) /\ pushed[e] = 0 /\ sent[e] = 0
<1>1. Key \in Frame /\ Keys = 1
  BY DEF Frame, Keys
<1>2. pushed[e] = 0 /\ sent[e] = 0
  BY DEF IInv, Inv, Counts
<1>3. sent' \in [End -> Int]
  BY CapAssumption DEF IInv, TypeOK
<1> QED
  BY <1>1, <1>2, <1>3 DEF PushesNext, Key

\* The handshake begins; the client queues its key.
LEMMA StartHandshakeKeeps ==
  ASSUME IInv, NEW e \in End, StartHandshake(e)
  PROVE  IInv'
<1>1. /\ UNCHANGED <<encrypted, dial, state, cancelled, timer, owed, late, ready, key, broken, wire, sent,
                     socket, connected, received, onClose, sender, writer>>
      /\ main[e] = "begun" /\ encrypted
  BY DEF StartHandshake, stateVars, wireVars, handlerVars
<1>2. connected[e] = "no" /\ state[e] # "ready"
  BY <1>1 DEF IInv, Inv, Phase
<1>3. /\ main' \in [End -> {"start", "begun", "arm", "abort", "opening", "connecting",
                            "reading", "deliver", "exchange", "derive", "failed", "ended"}]
      /\ main'[e] \in {"arm", "abort"} /\ \A d \in End \ {e} : main'[d] = main[d]
  BY ThreadsTyped DEF StartHandshake, Goto, Threads
<1>4. ASSUME NEW d \in End PROVE Phase(d)'
  BY <1>1, <1>2, <1>3 DEF IInv, Inv, Phase
<1>5. ASSUME \A d \in End : Consumed(d)' = Consumed(d), Keys' = Keys, NEW d \in End
      PROVE  Reads(d)'
  BY <1>1, <1>2, <1>3, <1>5, TwoEnds DEF IInv, Inv, Reads
<1>6. CASE e = "client" /\ Goto(e, "arm") /\ PushOK(e, Key)
  <2>1. Key \in Frame /\ PushesNext(e, Key) /\ pushed[e] = 0 /\ sent[e] = 0
    BY <1>1, <1>6, KeyPushes DEF KeyDue
  <2>2. /\ queue' \in [End -> Seq(Frame)] /\ pushed' \in [End -> Nat]
        /\ \A d \in End : Len(queue'[d]) <= QueueCap
        /\ pushed'[e] = 1 /\ \A d \in End \ {e} : pushed'[d] = pushed[d]
    <3>1. /\ queue' \in [End -> Seq(Frame)] /\ pushed' \in [End -> Nat]
          /\ \A d \in End : Len(queue'[d]) <= QueueCap
          /\ pushed'[e] = pushed[e] + 1 /\ \A d \in End \ {e} : pushed'[d] = pushed[d]
      BY <2>1, <1>6, PushFacts DEF IInv
    <3> QED
      BY <3>1, <2>1
  <2>3. TypeOK'
    BY <1>1, <1>3, <2>2 DEF IInv, TypeOK
  <2>4. /\ \A d \in End : Gapless(d)' /\ InOrder(d)' /\ Consumed(d)' = Consumed(d)
        /\ Keys' = Keys /\ Numbered'
    BY <2>1, PushKeeps
  <2>5. ASSUME NEW d \in End PROVE Ends(d)'
    BY <1>1, <1>6, <2>1, PushEnds
  <2>6. main'[e] = "arm"
    BY <1>6 DEF Goto, IInv, TypeOK
  <2>7. ASSUME NEW d \in End PROVE Counts(d)'
    BY <1>1, <1>2, <1>3, <1>6, <2>1, <2>2, <2>6 DEF IInv, Inv, Counts, KeyDue, KeySent
  <2> QED
    BY <1>4, <1>5, <2>3, <2>4, <2>5, <2>7 DEF IInv, Inv
<1>7. CASE UNCHANGED <<queue, pushed>> /\ (e = "server" \/ main'[e] = "abort")
  <2>1. TypeOK'
    BY <1>1, <1>3, <1>7 DEF IInv, TypeOK
  <2>2. /\ \A d \in End : Gapless(d)' /\ InOrder(d)' /\ Consumed(d)' = Consumed(d)
        /\ Keys' = Keys /\ Numbered'
    BY <1>1, <1>7, FramesStay DEF queueVars
  <2>3. ASSUME NEW d \in End PROVE Ends(d)'
    BY <1>1, <1>7, EndsStays DEF IInv, Inv
  <2>4. ASSUME NEW d \in End PROVE Counts(d)'
    BY <1>1, <1>2, <1>3, <1>7 DEF IInv, Inv, Counts, KeyDue, KeySent
  <2> QED
    BY <1>4, <1>5, <2>1, <2>2, <2>3, <2>4 DEF IInv, Inv
<1> QED
  BY <1>6, <1>7, ThreadsTyped DEF StartHandshake, Goto, Threads

\* The server answers with its key.
LEMMA ExchangeKeeps ==
  ASSUME IInv, NEW e \in End, Exchange(e)
  PROVE  IInv'
<1>1. /\ UNCHANGED <<encrypted, dial, state, cancelled, timer, owed, late, ready, key, broken, wire, sent,
                     socket, connected, received, onClose, sender, writer>>
      /\ main[e] = "exchange"
  BY DEF Exchange, stateVars, wireVars, handlerVars
<1>2. connected[e] = "no" /\ state[e] \in {"ready", "closed"}
  BY <1>1 DEF IInv, Inv, Phase
<1>3. /\ main' \in [End -> {"start", "begun", "arm", "abort", "opening", "connecting",
                            "reading", "deliver", "exchange", "derive", "failed", "ended"}]
      /\ main'[e] \in {"derive", "failed"} /\ \A d \in End \ {e} : main'[d] = main[d]
  BY ThreadsTyped DEF Exchange, Goto, Threads
<1>4. ASSUME NEW d \in End PROVE Phase(d)'
  BY <1>1, <1>2, <1>3 DEF IInv, Inv, Phase
<1>5. ASSUME \A d \in End : Consumed(d)' = Consumed(d), Keys' = Keys, NEW d \in End
      PROVE  Reads(d)'
  BY <1>1, <1>2, <1>3, <1>5, TwoEnds DEF IInv, Inv, Reads
<1>6. CASE Goto(e, "derive") /\ PushOK(e, Key)
  <2>1. Key \in Frame /\ PushesNext(e, Key) /\ pushed[e] = 0 /\ sent[e] = 0
    BY <1>1, <1>6, KeyPushes DEF KeyDue, IInv, Inv, Phase
  <2>2. /\ queue' \in [End -> Seq(Frame)] /\ pushed' \in [End -> Nat]
        /\ \A d \in End : Len(queue'[d]) <= QueueCap
        /\ pushed'[e] = 1 /\ \A d \in End \ {e} : pushed'[d] = pushed[d]
    <3>1. /\ queue' \in [End -> Seq(Frame)] /\ pushed' \in [End -> Nat]
          /\ \A d \in End : Len(queue'[d]) <= QueueCap
          /\ pushed'[e] = pushed[e] + 1 /\ \A d \in End \ {e} : pushed'[d] = pushed[d]
      BY <2>1, <1>6, PushFacts DEF IInv
    <3> QED
      BY <3>1, <2>1
  <2>3. TypeOK'
    BY <1>1, <1>3, <2>2 DEF IInv, TypeOK
  <2>4. /\ \A d \in End : Gapless(d)' /\ InOrder(d)' /\ Consumed(d)' = Consumed(d)
        /\ Keys' = Keys /\ Numbered'
    BY <2>1, PushKeeps
  <2>5. ASSUME NEW d \in End PROVE Ends(d)'
    BY <1>1, <1>6, <2>1, PushEnds
  <2>6. main'[e] = "derive" /\ encrypted
    BY <1>1, <1>6 DEF Goto, IInv, Inv, TypeOK, Phase
  <2>7. ASSUME NEW d \in End PROVE Counts(d)'
    BY <1>1, <1>2, <1>3, <1>6, <2>1, <2>2, <2>6, SMTT(20) DEF IInv, Inv, Counts, KeyDue, KeySent
  <2> QED
    BY <1>4, <1>5, <2>3, <2>4, <2>5, <2>7 DEF IInv, Inv
<1>7. CASE UNCHANGED <<queue, pushed>> /\ main'[e] = "failed"
  <2>1. TypeOK'
    BY <1>1, <1>3, <1>7 DEF IInv, TypeOK
  <2>2. /\ \A d \in End : Gapless(d)' /\ InOrder(d)' /\ Consumed(d)' = Consumed(d)
        /\ Keys' = Keys /\ Numbered'
    BY <1>1, <1>7, FramesStay DEF queueVars
  <2>3. ASSUME NEW d \in End PROVE Ends(d)'
    BY <1>1, <1>7, EndsStays DEF IInv, Inv
  <2>4. ASSUME NEW d \in End PROVE Counts(d)'
    BY <1>1, <1>2, <1>3, <1>7 DEF IInv, Inv, Counts, KeyDue, KeySent
  <2> QED
    BY <1>4, <1>5, <2>1, <2>2, <2>3, <2>4 DEF IInv, Inv
<1> QED
  BY <1>6, <1>7 DEF Exchange, Goto, IInv, TypeOK

\* Consume takes one frame from the wire of the peer ...
LEMMA ConsumeCounts ==
  ASSUME TypeOK, NEW e \in End, NEW p \in End, p = Peer(e), wire[p] # <<>>, Consume(e),
         UNCHANGED <<encrypted, queueVars>>
  PROVE  Consumed(p)' = Consumed(p) + 1 /\ Consumed(e)' = Consumed(e) /\ Keys' = Keys
<1>1. /\ Len(wire[p]) \in Nat /\ Len(wire'[p]) = Len(wire[p]) - 1
      /\ \A d \in End \ {p} : wire'[d] = wire[d]
  BY ConsumeFacts
<1>2. pushed[p] \in Nat /\ Len(queue[p]) \in Nat /\ e # p
  BY TwoEnds DEF TypeOK
<1>3. Consumed(p)' = pushed[p] - Len(queue[p]) - Len(wire'[p])
  BY DEF Consumed, queueVars
<1>4. Consumed(p)' = Consumed(p) + 1
  <2>1. Consumed(p) = pushed[p] - Len(queue[p]) - Len(wire[p])
    BY DEF Consumed
  <2> QED
    BY <2>1, <1>1, <1>2, <1>3
<1>5. Consumed(e)' = Consumed(e)
  BY <1>1, <1>2 DEF Consumed, queueVars
<1> QED
  BY <1>4, <1>5 DEF Keys

\* ... and keeps the rest in order, if OnMessage does not get it.
LEMMA ConsumeKeeps ==
  ASSUME IInv, NEW e \in End, NEW p \in End, p = Peer(e), wire[p] # <<>>, Consume(e),
         UNCHANGED <<encrypted, queueVars>>
  PROVE  /\ \A d \in End : Gapless(d)'
         /\ received' = received => \A d \in End : InOrder(d)'
<1>1. /\ Len(wire[p]) \in Nat /\ Len(wire'[p]) = Len(wire[p]) - 1
      /\ \A i \in 1..Len(wire'[p]) : wire'[p][i] = wire[p][i + 1] /\ i + 1 \in 1..Len(wire[p])
      /\ \A d \in End \ {p} : wire'[d] = wire[d]
  BY ConsumeFacts DEF IInv
<1>2. Consumed(p)' = Consumed(p) + 1 /\ Keys' = Keys
  BY ConsumeCounts DEF IInv
<1>3. Gapless(p)'
  <2>1. Gapless(p) /\ Consumed(p) \in Int /\ Keys \in Int
    BY DEF IInv, Inv, Consumed, TypeOK, Keys
  <2>2. ASSUME ~broken[p], NEW i \in 1..Len(wire'[p])
        PROVE  wire'[p][i] = Consumed(p)' + i - Keys'
    <3>1. wire'[p][i] = Consumed(p) + (i + 1) - Keys
      BY <2>1, <2>2, <1>1 DEF Gapless
    <3> QED
      BY <3>1, <2>1, <1>2
  <2>3. Consumed(p)' >= 0
    BY <2>1, <1>2 DEF Gapless
  <2> QED
    BY <2>1, <2>2, <2>3, <1>2 DEF Gapless, queueVars
<1>4. ASSUME received' = received PROVE InOrder(p)'
  <2> DEFINE q == queue[p]
             w == wire[p]
             v == wire'[p]
             r == received[e]
  <2>1. /\ Peer(p) = e /\ received'[e] = r /\ queue'[p] = q /\ sent'[p] = sent[p]
    BY <1>4, TwoEnds DEF queueVars
  <2>2. InOrder(p)
    BY DEF IInv, Inv
  <2>3. /\ \A i, j \in 1..Len(r) : i < j => r[i] < r[j]
        /\ \A i, j \in 1..Len(w) : i < j => w[i] < w[j] \/ w[j] = Torn
        /\ \A i, j \in 1..Len(q) : i < j => q[i] < q[j]
        /\ \A i \in 1..Len(r), j \in 1..Len(w) : r[i] < w[j] \/ w[j] = Torn
        /\ \A i \in 1..Len(r), j \in 1..Len(q) : r[i] < q[j]
        /\ \A i \in 1..Len(w), j \in 1..Len(q) : w[i] < q[j]
        /\ \A i \in 1..Len(r) : r[i] <= sent[p]
        /\ \A i \in 1..Len(w) : w[i] <= sent[p]
        /\ \A i \in 1..Len(q) : q[i] <= sent[p]
    BY <2>1, <2>2 DEF InOrder
  <2>4. \A i \in 1..Len(v) : i \in Int /\ v[i] = w[i + 1] /\ i + 1 \in 1..Len(w)
    BY <1>1
  <2> HIDE DEF q, w, v, r
  <2>5. ASSUME NEW i \in 1..Len(v), NEW j \in 1..Len(v), i < j
        PROVE  v[i] < v[j] \/ v[j] = Torn
    <3>1. i + 1 < j + 1
      BY <2>4, <2>5
    <3> QED
      BY <3>1, <2>3, <2>4
  <2>6. /\ \A i \in 1..Len(r), j \in 1..Len(v) : r[i] < v[j] \/ v[j] = Torn
        /\ \A i \in 1..Len(v), j \in 1..Len(q) : v[i] < q[j]
        /\ \A i \in 1..Len(v) : v[i] <= sent[p]
    BY <2>3, <2>4
  <2> QED
    BY <2>1, <2>3, <2>5, <2>6 DEF InOrder, v
<1>5. ASSUME NEW d \in End, d # p PROVE Gapless(d)' /\ (received' = received => InOrder(d)')
  <2>1. /\ queue'[d] = queue[d] /\ wire'[d] = wire[d] /\ pushed'[d] = pushed[d] /\ sent'[d] = sent[d]
        /\ broken'[d] = broken[d] /\ encrypted' = encrypted
    BY <1>1, <1>5 DEF queueVars
  <2> QED
    BY <2>1, StreamStays, InOrderStays DEF IInv, Inv
<1> QED
  BY <1>3, <1>4, <1>5

\* The peer's key is read: the end leaves its handshake, if it is still in it.
LEMMA ReadKeyKeeps ==
  ASSUME IInv, NEW e \in End, ReadKey(e)
  PROVE  IInv'
<1> DEFINE p == Peer(e)
<1>1. /\ UNCHANGED <<encrypted, dial, cancelled, timer, owed, late, ready, key, queueVars,
                     socket, connected, received, onClose, sender, writer>>
      /\ main[e] = "reading" /\ NextFrame(e) = Key /\ Consume(e)
  BY DEF ReadKey, handlerVars
<1>2. TypeOK /\ p \in End /\ p # e /\ Peer(p) = e /\ Inv(e) /\ Inv(p)
  BY TwoEnds DEF IInv
<1>3. wire[p] # <<>> /\ wire[p][1] = Key
  BY <1>1, <1>2, NextIsHead DEF Key, Torn
<1>4. /\ wire' \in [End -> Seq(Frame)]
      /\ Len(wire[p]) \in Nat /\ Len(wire[p]) > 0 /\ Len(wire'[p]) = Len(wire[p]) - 1
      /\ \A i \in 1..Len(wire'[p]) : wire'[p][i] = wire[p][i + 1]
      /\ \A d \in End \ {p} : wire'[d] = wire[d]
  BY <1>1, <1>2, <1>3, ConsumeFacts
<1>5. /\ state' \in [End -> {"created", "handshaking", "ready", "closed"}]
      /\ main' \in [End -> {"start", "begun", "arm", "abort", "opening", "connecting",
                            "reading", "deliver", "exchange", "derive", "failed", "ended"}]
      /\ \A d \in End \ {e} : main'[d] = main[d] /\ state'[d] = state[d]
      /\ \/ state[e] = "handshaking" /\ state'[e] = "ready"
            /\ main'[e] = IF e = "server" THEN "exchange" ELSE "derive"
         \/ state[e] # "handshaking" /\ state'[e] = state[e] /\ main'[e] = "reading"
  BY ThreadsTyped DEF ReadKey, Goto, Threads
<1>6. TypeOK'
  BY <1>1, <1>4, <1>5 DEF IInv, TypeOK, queueVars
<1>7. connected[e] = "ok" \/ (connected[e] = "no" /\ encrypted /\ state[e] # "ready")
  BY <1>1 DEF IInv, Inv, Phase
<1>8. state[e] = "handshaking" => connected[e] = "no" /\ encrypted
  BY <1>7 DEF IInv, Inv, Phase
<1>9. ASSUME NEW d \in End PROVE Phase(d)'
  BY <1>1, <1>5, <1>8, TwoEnds DEF IInv, Inv, Phase
<1>10. ASSUME NEW d \in End PROVE Ends(d)'
  BY <1>1, <1>5 DEF IInv, Inv, Ends, queueVars
<1>11. ASSUME NEW d \in End PROVE Counts(d)'
  BY <1>1, <1>5, <1>8, TwoEnds DEF IInv, Inv, Counts, KeyDue, KeySent, queueVars
<1>12. \A d \in End : Gapless(d)' /\ InOrder(d)'
  BY <1>1, <1>2, <1>3, ConsumeKeeps DEF queueVars
<1>13. Consumed(p)' = Consumed(p) + 1 /\ Consumed(e)' = Consumed(e) /\ Keys' = Keys
  BY <1>1, <1>2, <1>3, ConsumeCounts
<1>14. Reads(p)'
  BY <1>1, <1>2, <1>4, <1>5, <1>13 DEF Inv, Reads, queueVars
<1>15. Reads(e)'
  <2>1. ~broken[p] => Consumed(p) = Keys - 1
    <3>1. 1 \in 1..Len(wire[p]) /\ wire[p][1] = 0
      BY <1>3, <1>4 DEF Key
    <3>2. ~broken[p] => wire[p][1] = Consumed(p) + 1 - Keys
      BY <3>1, <1>2 DEF Inv, Gapless
    <3>3. Keys \in Nat /\ Consumed(p) \in Int
      <4>1. pushed[p] \in Nat /\ Len(queue[p]) \in Nat /\ Len(wire[p]) \in Nat
        BY <1>2, <1>4 DEF TypeOK
      <4> QED
        BY <4>1 DEF Consumed, Keys
    <3> HIDE DEF p
    <3> QED
      BY <3>1, <3>2, <3>3
  <2>2. CASE state[e] = "handshaking"
    <3>1. Len(received[e]) = 0 /\ Keys = 1
      BY <2>2, <1>2, <1>8 DEF Inv, Reads, Keys, TypeOK
    <3> QED
      BY <3>1, <2>1, <2>2, <1>1, <1>2, <1>5, <1>13 DEF Inv, Reads, queueVars
  <2>3. CASE state[e] # "handshaking"
    <3>1. ~broken[p] => connected[e] = "no"
      BY <2>1, <1>1, <1>2, <1>7 DEF Inv, Reads, TypeOK, Keys
    <3>2. state[e] # "created"
      BY <1>1, <1>2 DEF Inv, Phase
    <3> QED
      BY <3>1, <3>2, <2>3, <1>1, <1>2, <1>5, <1>13 DEF Inv, Reads, queueVars
  <2> QED
    BY <2>2, <2>3
<1>16. Numbered'
  BY <1>1 DEF IInv, Numbered, queueVars
<1>17. \A d \in End : d = e \/ d = p
  BY TwoEnds
<1> QED
  BY <1>6, <1>9, <1>10, <1>11, <1>12, <1>14, <1>15, <1>16, <1>17 DEF IInv, Inv

\* OnMessage gets the frame at the head of the wire.
LEMMA DeliverKeeps ==
  ASSUME IInv, NEW e \in End, Deliver(e)
  PROVE  IInv'
<1> DEFINE p == Peer(e)
           x == wire[p][1]
           r == received[e]
<1>1. /\ UNCHANGED <<encrypted, dial, state, cancelled, timer, owed, late, ready, key, queueVars,
                     socket, connected, onClose, sender, writer>>
      /\ main[e] = "deliver" /\ Consume(e)
      /\ received' = [received EXCEPT ![e] = Append(received[e], NextFrame(e))]
  BY DEF Deliver, stateVars
<1>2. TypeOK /\ p \in End /\ p # e /\ Peer(p) = e /\ Inv(e) /\ Inv(p)
  BY TwoEnds DEF IInv
<1>3. wire[p] # <<>> /\ x > 0 /\ connected[e] = "ok"
  <2>1. Len(wire[p]) > 0 /\ x > 0 /\ connected[e] = "ok"
    BY <1>1, <1>2 DEF Inv, Reads, Phase
  <2> QED
    BY <2>1
<1>4. /\ wire' \in [End -> Seq(Frame)]
      /\ Len(wire[p]) \in Nat /\ Len(wire[p]) > 0 /\ Len(wire'[p]) = Len(wire[p]) - 1
      /\ \A i \in 1..Len(wire'[p]) : wire'[p][i] = wire[p][i + 1]
      /\ \A d \in End \ {p} : wire'[d] = wire[d]
      /\ NextFrame(e) = x /\ x \in Frame
  BY <1>1, <1>2, <1>3, ConsumeFacts
<1>5. /\ main' \in [End -> {"start", "begun", "arm", "abort", "opening", "connecting",
                            "reading", "deliver", "exchange", "derive", "failed", "ended"}]
      /\ main'[e] \in {"reading", "failed"} /\ \A d \in End \ {e} : main'[d] = main[d]
  BY ThreadsTyped DEF Deliver, Goto, Threads
<1>6. r \in Seq(1..MaxPush) /\ x \in 1..MaxPush /\ x # Torn
  BY <1>2, <1>3, <1>4, CapAssumption, SMTT(20) DEF TypeOK, Frame, Key, Torn
<1>7. /\ Append(r, x) \in Seq(1..MaxPush) /\ Len(r) \in Nat /\ Len(Append(r, x)) = Len(r) + 1
      /\ Append(r, x)[Len(r) + 1] = x
      /\ \A i \in 1..Len(r) : Append(r, x)[i] = r[i]
  BY <1>6, AppendFacts
<1>8. /\ received' \in [End -> Seq(1..MaxPush)] /\ received'[e] = Append(r, x)
      /\ \A d \in End \ {e} : received'[d] = received[d]
  BY <1>1, <1>2, <1>4, <1>7 DEF TypeOK
<1>9. TypeOK'
  BY <1>1, <1>4, <1>5, <1>8 DEF IInv, TypeOK, queueVars
<1>10. ASSUME NEW d \in End PROVE Phase(d)'
  BY <1>1, <1>3, <1>5 DEF IInv, Inv, Phase
<1>11. ASSUME NEW d \in End PROVE Ends(d)'
  BY <1>1, EndsStays DEF IInv, Inv, queueVars
<1>12. ASSUME NEW d \in End PROVE Counts(d)'
  BY <1>1, <1>3, <1>5 DEF IInv, Inv, Counts, KeyDue, KeySent, queueVars
<1>13. \A d \in End : Gapless(d)'
  BY <1>1, <1>2, <1>3, ConsumeKeeps
<1>14. Consumed(p)' = Consumed(p) + 1 /\ Consumed(e)' = Consumed(e) /\ Keys' = Keys
  BY <1>1, <1>2, <1>3, ConsumeCounts
<1>15. Keys \in Nat /\ (~broken[p] => Consumed(p) = Len(r) + Keys)
  BY <1>2, <1>3 DEF Inv, Reads, Keys
<1>16. Reads(p)'
  BY <1>1, <1>2, <1>4, <1>5, <1>8, <1>14 DEF Inv, Reads, queueVars
<1>17. Reads(e)'
  <2>1. Len(received'[e]) = Len(r) + 1
    BY <1>7, <1>8
  <2>2. ~broken[p] => Consumed(p)' = Len(received'[e]) + Keys'
    <3>1. Len(r) \in Nat
      BY <1>7
    <3> HIDE DEF p, r
    <3> QED
      BY <3>1, <2>1, <1>14, <1>15
  <2>3. state[e] \in {"ready", "closed"}
    BY <1>2, <1>3 DEF Inv, Phase
  <2> QED
    BY <2>2, <2>3, <1>1, <1>3, <1>5 DEF Reads, queueVars
<1>18. InOrder(e)'
  BY <1>1, <1>2, <1>4, <1>8, InOrderStays DEF Inv, queueVars
<1>19. InOrder(p)'
  <2> DEFINE q == queue[p]
             w == wire[p]
             v == wire'[p]
             s == received'[e]
  <2>1. queue'[p] = q /\ sent'[p] = sent[p] /\ Peer(p) = e
    BY <1>1, <1>2 DEF queueVars
  <2>2. /\ \A i, j \in 1..Len(r) : i < j => r[i] < r[j]
        /\ \A i, j \in 1..Len(w) : i < j => w[i] < w[j] \/ w[j] = Torn
        /\ \A i, j \in 1..Len(q) : i < j => q[i] < q[j]
        /\ \A i \in 1..Len(r), j \in 1..Len(w) : r[i] < w[j] \/ w[j] = Torn
        /\ \A i \in 1..Len(r), j \in 1..Len(q) : r[i] < q[j]
        /\ \A i \in 1..Len(w), j \in 1..Len(q) : w[i] < q[j]
        /\ \A i \in 1..Len(r) : r[i] <= sent[p]
        /\ \A i \in 1..Len(w) : w[i] <= sent[p]
        /\ \A i \in 1..Len(q) : q[i] <= sent[p]
    BY <1>2 DEF Inv, InOrder
  <2>3. \A i \in 1..Len(v) : i \in Int /\ v[i] = w[i + 1] /\ i + 1 \in 1..Len(w) /\ 1 < i + 1
    BY <1>4
  <2>4. 1 \in 1..Len(w) /\ w[1] = x /\ x # Torn
    BY <1>4, <1>6
  <2>5. /\ Len(s) = Len(r) + 1 /\ s[Len(r) + 1] = x
        /\ \A i \in 1..Len(s) : i = Len(r) + 1 \/ (i \in 1..Len(r) /\ s[i] = r[i])
        /\ \A i, j \in 1..Len(s) : i < j => i \in 1..Len(r)
    BY <1>7, <1>8
  <2> HIDE DEF q, w, v, s, r, x
  <2>6. /\ \A i \in 1..Len(r) : r[i] < x /\ r[i] <= sent[p]
        /\ \A j \in 1..Len(v) : x < v[j] \/ v[j] = Torn
        /\ \A j \in 1..Len(q) : x < q[j]
        /\ x <= sent[p]
    BY <2>2, <2>3, <2>4
  <2>7. ASSUME NEW i \in 1..Len(s), NEW j \in 1..Len(s), i < j
        PROVE  s[i] < s[j]
    <3>1. i \in 1..Len(r) /\ s[i] = r[i]
      BY <2>5, <2>7
    <3>2. CASE j = Len(r) + 1
      BY <3>1, <3>2, <2>5, <2>6
    <3>3. CASE j \in 1..Len(r) /\ s[j] = r[j]
      BY <3>1, <3>3, <2>2, <2>7
    <3> QED
      BY <3>2, <3>3, <2>5
  <2>8. ASSUME NEW i \in 1..Len(v), NEW j \in 1..Len(v), i < j
        PROVE  v[i] < v[j] \/ v[j] = Torn
    <3>1. i + 1 < j + 1
      BY <2>3, <2>8
    <3> QED
      BY <3>1, <2>2, <2>3
  <2>9. /\ \A i \in 1..Len(s), j \in 1..Len(v) : s[i] < v[j] \/ v[j] = Torn
        /\ \A i \in 1..Len(s), j \in 1..Len(q) : s[i] < q[j]
        /\ \A i \in 1..Len(s) : s[i] <= sent[p]
    BY <2>2, <2>3, <2>5, <2>6
  <2>10. /\ \A i \in 1..Len(v), j \in 1..Len(q) : v[i] < q[j]
         /\ \A i \in 1..Len(v) : v[i] <= sent[p]
    BY <2>2, <2>3
  <2> QED
    BY <2>1, <2>2, <2>7, <2>8, <2>9, <2>10 DEF InOrder, v, s
<1>20. Numbered'
  <2> SUFFICES ASSUME NEW d \in End, ~broken[Peer(d)], NEW i \in 1..Len(received'[d])
               PROVE  received'[d][i] = i
    BY <1>1 DEF Numbered, queueVars
  <2>1. CASE d # e
    BY <2>1, <1>8 DEF IInv, Numbered
  <2>2. CASE d = e /\ i \in 1..Len(r)
    BY <2>2, <1>7, <1>8 DEF IInv, Numbered
  <2>3. CASE d = e /\ i = Len(r) + 1
    <3>1. x = Consumed(p) + 1 - Keys
      BY <2>3, <1>2, <1>4 DEF Inv, Gapless
    <3>2. x = Len(r) + 1
      <4>1. Len(r) \in Nat /\ Consumed(p) = Len(r) + Keys
        BY <2>3, <1>7, <1>15
      <4> HIDE DEF p, r, x
      <4> QED
        BY <3>1, <4>1, <1>15
    <3> QED
      BY <3>2, <2>3, <1>7, <1>8
  <2> QED
    BY <2>1, <2>2, <2>3, <1>7, <1>8
<1>21. \A d \in End : d = e \/ d = p
  BY TwoEnds
<1> QED
  BY <1>9, <1>10, <1>11, <1>12, <1>13, <1>16, <1>17, <1>18, <1>19, <1>20, <1>21 DEF IInv, Inv

\* The writer takes the first frame of the queue and writes all of it, a part of
\* it or nothing.
Writes(e) ==
  /\ queue[e] # <<>> /\ queue' = [queue EXCEPT ![e] = Tail(queue[e])]
  /\ \/ wire' = wire
     \/ wire' = [wire EXCEPT ![e] = Append(wire[e], Head(queue[e]))]
     \/ wire' = [wire EXCEPT ![e] = Append(wire[e], Torn)]
  /\ UNCHANGED <<encrypted, pushed, sent, received>>

\* The queue and the wire afterwards, index by index.
LEMMA WriteFacts ==
  ASSUME TypeOK, NEW e \in End, Writes(e)
  PROVE  /\ queue' \in [End -> Seq(Frame)] /\ wire' \in [End -> Seq(Frame)]
         /\ Len(queue[e]) \in Nat /\ Len(queue[e]) > 0 /\ Len(queue'[e]) = Len(queue[e]) - 1
         /\ \A i \in 1..Len(queue'[e]) : queue'[e][i] = queue[e][i + 1]
         /\ Len(wire[e]) \in Nat
         /\ \/ wire' = wire
            \/ /\ Len(wire'[e]) = Len(wire[e]) + 1
               /\ wire'[e][Len(wire[e]) + 1] \in {queue[e][1], Torn}
               /\ \A i \in 1..Len(wire[e]) : wire'[e][i] = wire[e][i]
         /\ wire' = [wire EXCEPT ![e] = Append(wire[e], Head(queue[e]))] =>
               /\ Len(wire'[e]) = Len(wire[e]) + 1
               /\ wire'[e][Len(wire[e]) + 1] = queue[e][1]
               /\ \A i \in 1..Len(wire[e]) : wire'[e][i] = wire[e][i]
         /\ \A d \in End \ {e} : queue'[d] = queue[d] /\ wire'[d] = wire[d]
<1>1. queue[e] \in Seq(Frame) /\ wire[e] \in Seq(Frame) /\ queue[e] # <<>>
  BY DEF TypeOK, Writes
<1>2. /\ Tail(queue[e]) \in Seq(Frame) /\ Len(queue[e]) \in Nat /\ Len(queue[e]) > 0
      /\ Len(Tail(queue[e])) = Len(queue[e]) - 1
      /\ Head(queue[e]) = queue[e][1] /\ queue[e][1] \in Frame
      /\ \A i \in 1..(Len(queue[e]) - 1) : Tail(queue[e])[i] = queue[e][i + 1]
  BY <1>1, TailFacts
<1>3. /\ queue' \in [End -> Seq(Frame)] /\ queue'[e] = Tail(queue[e])
      /\ \A d \in End \ {e} : queue'[d] = queue[d]
  BY <1>2 DEF Writes, TypeOK
<1>4. Torn \in Frame /\ Head(queue[e]) \in Frame
  BY <1>2 DEF Frame
<1>5. ASSUME NEW y \in Frame, wire' = [wire EXCEPT ![e] = Append(wire[e], y)]
      PROVE  /\ wire' \in [End -> Seq(Frame)]
             /\ Len(wire'[e]) = Len(wire[e]) + 1 /\ wire'[e][Len(wire[e]) + 1] = y
             /\ \A i \in 1..Len(wire[e]) : wire'[e][i] = wire[e][i]
             /\ \A d \in End \ {e} : wire'[d] = wire[d]
  <2>1. /\ Append(wire[e], y) \in Seq(Frame)
        /\ Len(Append(wire[e], y)) = Len(wire[e]) + 1
        /\ Append(wire[e], y)[Len(wire[e]) + 1] = y
        /\ \A i \in 1..Len(wire[e]) : Append(wire[e], y)[i] = wire[e][i]
    BY <1>1, AppendFacts
  <2>2. wire'[e] = Append(wire[e], y) /\ \A d \in End \ {e} : wire'[d] = wire[d]
    BY <1>5 DEF TypeOK
  <2>3. wire' \in [End -> Seq(Frame)]
    BY <1>5, <2>1 DEF TypeOK
  <2> QED
    BY <2>1, <2>2, <2>3
<1>6. Len(wire[e]) \in Nat
  BY <1>1
<1>7. wire' \in [End -> Seq(Frame)] /\ \A d \in End \ {e} : wire'[d] = wire[d]
  BY <1>4, <1>5 DEF Writes, TypeOK
<1>8. \/ wire' = wire
      \/ /\ Len(wire'[e]) = Len(wire[e]) + 1
         /\ wire'[e][Len(wire[e]) + 1] \in {queue[e][1], Torn}
         /\ \A i \in 1..Len(wire[e]) : wire'[e][i] = wire[e][i]
  BY <1>2, <1>4, <1>5 DEF Writes
<1>9. wire' = [wire EXCEPT ![e] = Append(wire[e], Head(queue[e]))] =>
        /\ Len(wire'[e]) = Len(wire[e]) + 1
        /\ wire'[e][Len(wire[e]) + 1] = queue[e][1]
        /\ \A i \in 1..Len(wire[e]) : wire'[e][i] = wire[e][i]
  BY <1>2, <1>4, <1>5
<1>10. /\ Len(queue'[e]) = Len(queue[e]) - 1
       /\ \A i \in 1..Len(queue'[e]) : queue'[e][i] = queue[e][i + 1]
  BY <1>2, <1>3
<1> QED
  BY <1>2, <1>3, <1>6, <1>7, <1>8, <1>9, <1>10

\* A write keeps the frames in order, even one that fails.
LEMMA WritesInOrder ==
  ASSUME IInv, NEW e \in End, Writes(e)
  PROVE  \A d \in End : InOrder(d)' /\ Consumed(d)' >= 0
<1> DEFINE p == Peer(e)
           q == queue[e]
           u == queue'[e]
           w == wire[e]
           v == wire'[e]
           r == received[p]
           x == v[Len(w) + 1]
<1>1. /\ p \in End /\ received'[p] = r /\ sent'[e] = sent[e] /\ pushed'[e] = pushed[e]
  BY TwoEnds DEF Writes
<1>2. /\ Len(q) \in Nat /\ Len(q) > 0 /\ Len(u) = Len(q) - 1
      /\ \A i \in 1..Len(u) : u[i] = q[i + 1]
      /\ Len(w) \in Nat
      /\ \/ v = w
         \/ Len(v) = Len(w) + 1 /\ x \in {q[1], Torn} /\ \A i \in 1..Len(w) : v[i] = w[i]
  BY WriteFacts DEF IInv
<1>3. \A d \in End \ {e} : queue'[d] = queue[d] /\ wire'[d] = wire[d]
  BY WriteFacts DEF IInv
<1>4. /\ \A i, j \in 1..Len(r) : i < j => r[i] < r[j]
      /\ \A i, j \in 1..Len(w) : i < j => w[i] < w[j] \/ w[j] = Torn
      /\ \A i, j \in 1..Len(q) : i < j => q[i] < q[j]
      /\ \A i \in 1..Len(r), j \in 1..Len(w) : r[i] < w[j] \/ w[j] = Torn
      /\ \A i \in 1..Len(r), j \in 1..Len(q) : r[i] < q[j]
      /\ \A i \in 1..Len(w), j \in 1..Len(q) : w[i] < q[j]
      /\ \A i \in 1..Len(r) : r[i] <= sent[e]
      /\ \A i \in 1..Len(w) : w[i] <= sent[e]
      /\ \A i \in 1..Len(q) : q[i] <= sent[e]
  BY DEF IInv, Inv, InOrder
<1>5. /\ sent[e] \in Nat /\ pushed[e] \in Nat /\ Torn = -1
      /\ \A i \in 1..Len(q) : q[i] \in Int /\ q[i] >= 0
      /\ Consumed(e) >= 0
  <2>1. queue[e] \in Seq(Frame) /\ sent[e] \in Nat /\ pushed[e] \in Nat
    BY CapAssumption DEF IInv, TypeOK
  <2>2. Consumed(e) >= 0 /\ \A i \in 1..Len(queue[e]) : queue[e][i] # Torn
    BY DEF IInv, Inv, Gapless
  <2>3. \A y \in Frame : y = Torn \/ (y \in Int /\ y >= 0)
    BY CapAssumption DEF Frame, Key, Torn
  <2> QED
    BY <2>1, <2>2, <2>3 DEF Torn
<1>6. Consumed(e)' >= 0
  <2>1. Consumed(e) = pushed[e] - Len(q) - Len(w)
    BY DEF Consumed
  <2>2. Consumed(e)' = pushed[e] - Len(u) - Len(v)
    BY <1>1 DEF Consumed
  <2>3. Len(v) = Len(w) \/ Len(v) = Len(w) + 1
    BY <1>2
  <2>4. Len(q) \in Nat /\ Len(w) \in Nat /\ Len(u) = Len(q) - 1
    BY <1>2
  <2> HIDE DEF q, u, w, v
  <2> QED
    BY <2>1, <2>2, <2>3, <2>4, <1>5, SMTT(20)
<1>7. InOrder(e)'
  <2>1. \A i \in 1..Len(u) : i \in Int /\ u[i] = q[i + 1] /\ i + 1 \in 1..Len(q) /\ 1 < i + 1
    BY <1>2
  <2>2. 1 \in 1..Len(q) /\ Len(w) \in Nat
    BY <1>2
  <2>3. v = w \/ (Len(v) = Len(w) + 1 /\ x \in {q[1], Torn} /\ \A i \in 1..Len(w) : v[i] = w[i])
    BY <1>2
  <2> HIDE DEF p, q, u, w, v, r, x
  <2>4. ASSUME NEW i \in 1..Len(u), NEW j \in 1..Len(u), i < j
        PROVE  u[i] < u[j]
    <3>1. i + 1 < j + 1
      BY <2>1, <2>4
    <3> QED
      BY <3>1, <2>1, <1>4
  <2>5. /\ \A i \in 1..Len(r), j \in 1..Len(u) : r[i] < u[j]
        /\ \A i \in 1..Len(w), j \in 1..Len(u) : w[i] < u[j]
        /\ \A i \in 1..Len(u) : u[i] <= sent[e]
    BY <2>1, <1>4
  <2>6. /\ \A i, j \in 1..Len(v) : i < j => v[i] < v[j] \/ v[j] = Torn
        /\ \A i \in 1..Len(r), j \in 1..Len(v) : r[i] < v[j] \/ v[j] = Torn
        /\ \A i \in 1..Len(v), j \in 1..Len(u) : v[i] < u[j]
        /\ \A i \in 1..Len(v) : v[i] <= sent[e]
    <3>1. CASE v = w
      BY <3>1, <2>5, <1>4
    <3>2. CASE Len(v) = Len(w) + 1 /\ x \in {q[1], Torn} /\ \A i \in 1..Len(w) : v[i] = w[i]
      <4>1. /\ x \in Int /\ x <= sent[e] /\ x <= q[1]
            /\ x = Torn \/ x = q[1]
        BY <3>2, <2>2, <1>4, <1>5
      <4>2. /\ \A i \in 1..Len(w) : w[i] < x \/ x = Torn
            /\ \A i \in 1..Len(r) : r[i] < x \/ x = Torn
            /\ \A j \in 1..Len(u) : x < u[j]
        <5>1. \A j \in 1..Len(u) : q[1] < u[j] /\ u[j] \in Int
          BY <2>1, <2>2, <1>4, <1>5
        <5> QED
          BY <5>1, <4>1, <2>2, <1>4, <1>5, SMTT(20)
      <4>3. /\ \A i \in 1..Len(v) : (i = Len(w) + 1 /\ v[i] = x) \/ (i \in 1..Len(w) /\ v[i] = w[i])
            /\ \A i, j \in 1..Len(v) : i < j => i \in 1..Len(w) /\ v[i] = w[i]
        BY <3>2, <2>2 DEF x
      <4>4. ASSUME NEW i \in 1..Len(v), NEW j \in 1..Len(v), i < j
            PROVE  v[i] < v[j] \/ v[j] = Torn
        <5>1. i \in 1..Len(w) /\ v[i] = w[i]
          BY <4>3, <4>4
        <5>2. CASE v[j] = x
          BY <5>1, <5>2, <4>2
        <5>3. CASE j \in 1..Len(w) /\ v[j] = w[j]
          BY <5>1, <5>3, <4>4, <1>4
        <5> QED
          BY <5>2, <5>3, <4>3
      <4> QED
        BY <4>1, <4>2, <4>3, <4>4, <2>5, <1>4
    <3> QED
      BY <3>1, <3>2, <2>3
  <2> QED
    BY <2>4, <2>5, <2>6, <1>1, <1>4 DEF InOrder, u, v, r, p
<1>8. ASSUME NEW d \in End, d # e PROVE InOrder(d)' /\ Consumed(d)' >= 0
  <2>1. /\ queue'[d] = queue[d] /\ wire'[d] = wire[d] /\ pushed'[d] = pushed[d] /\ sent'[d] = sent[d]
        /\ received'[Peer(d)] = received[Peer(d)]
    BY <1>3, <1>8 DEF Writes
  <2>2. Consumed(d)' = Consumed(d) /\ Consumed(d) >= 0
    BY <2>1 DEF Consumed, IInv, Inv, Gapless
  <2> QED
    BY <2>1, <2>2, InOrderStays DEF IInv, Inv
<1> QED
  BY <1>6, <1>7, <1>8

\* The writer writes a frame.
LEMMA WriteKeeps ==
  ASSUME IInv, NEW e \in End, Write(e)
  PROVE  IInv'
<1> DEFINE q == queue[e]
           u == queue'[e]
           w == wire[e]
           v == wire'[e]
<1>1. /\ UNCHANGED <<encrypted, dial, state, cancelled, timer, owed, late, ready, key, pushed, sent, broken,
                     socket, connected, received, onClose, main, sender, writer>>
      /\ writer[e] \in {"loop", "drain"}
      /\ wire' = [wire EXCEPT ![e] = Append(wire[e], Head(queue[e]))]
  BY DEF Write, stateVars, handlerVars, threadVars
<1>2. Writes(e)
  BY DEF Write, Writes, handlerVars
<1>3. queue' \in [End -> Seq(Frame)] /\ wire' \in [End -> Seq(Frame)]
  BY <1>2, WriteFacts DEF IInv
<1>4. /\ Len(q) \in Nat /\ Len(q) > 0 /\ Len(u) = Len(q) - 1
      /\ \A i \in 1..Len(u) : u[i] = q[i + 1]
  BY <1>2, WriteFacts DEF IInv
<1>5. /\ Len(w) \in Nat /\ Len(v) = Len(w) + 1 /\ v[Len(w) + 1] = q[1]
      /\ \A i \in 1..Len(w) : v[i] = w[i]
  BY <1>1, <1>2, WriteFacts DEF IInv
<1>6. \A d \in End \ {e} : queue'[d] = queue[d] /\ wire'[d] = wire[d]
  BY <1>2, WriteFacts DEF IInv
<1>7. TypeOK'
  <2>1. \A d \in End : Len(queue'[d]) <= QueueCap
    <3>1. QueueCap \in Nat /\ \A d \in End : Len(queue[d]) <= QueueCap
      BY CapAssumption DEF IInv, TypeOK
    <3> QED
      BY <3>1, <1>4, <1>6
  <2> QED
    BY <2>1, <1>1, <1>3 DEF IInv, TypeOK
<1>8. \A d \in End : InOrder(d)'
  BY <1>2, WritesInOrder
<1>9. pushed[e] \in Nat /\ Keys \in Nat /\ Keys' = Keys
  BY <1>1 DEF IInv, TypeOK, Keys
<1>10. Consumed(e)' = Consumed(e)
  <2>1. Consumed(e) = pushed[e] - Len(q) - Len(w)
    BY DEF Consumed
  <2>2. Consumed(e)' = pushed[e] - Len(u) - Len(v)
    BY <1>1 DEF Consumed
  <2>3. Len(q) \in Nat /\ Len(w) \in Nat /\ Len(u) = Len(q) - 1 /\ Len(v) = Len(w) + 1
    BY <1>4, <1>5
  <2> HIDE DEF q, u, w, v
  <2> QED
    BY <2>1, <2>2, <2>3, <1>9, SMTT(20)
<1>11. Gapless(e)'
  <2>1. /\ Consumed(e) >= 0 /\ \A i \in 1..Len(q) : q[i] # Torn
        /\ ~broken[e] => \A i \in 1..Len(q) : q[i] = pushed[e] - Len(q) + i - Keys
        /\ ~broken[e] => \A i \in 1..Len(w) : w[i] = Consumed(e) + i - Keys
        /\ Consumed(e) = pushed[e] - Len(q) - Len(w)
    BY DEF IInv, Inv, Gapless, Consumed
  <2>2. \A i \in 1..Len(u) : i \in Int /\ i + 1 \in 1..Len(q)
    BY <1>4
  <2>3. /\ Len(q) \in Nat /\ Len(q) > 0 /\ Len(u) = Len(q) - 1 /\ 1 \in 1..Len(q)
        /\ Len(w) \in Nat /\ Len(v) = Len(w) + 1 /\ v[Len(w) + 1] = q[1]
    BY <1>4, <1>5
  <2>4. /\ \A i \in 1..Len(u) : u[i] = q[i + 1]
        /\ \A i \in 1..Len(w) : v[i] = w[i]
        /\ \A i \in 1..Len(v) : i = Len(w) + 1 \/ i \in 1..Len(w)
    BY <1>4, <1>5
  <2> HIDE DEF q, u, w, v
  <2>5. ASSUME ~broken[e], NEW i \in 1..Len(u) PROVE u[i] = pushed[e] - Len(u) + i - Keys
    <3>1. u[i] = pushed[e] - Len(q) + (i + 1) - Keys
      BY <2>1, <2>2, <2>4, <2>5
    <3> QED
      BY <3>1, <2>2, <2>3, <1>9, SMTT(40)
  <2>6. ASSUME ~broken[e], NEW i \in 1..Len(v) PROVE v[i] = Consumed(e) + i - Keys
    <3>1. CASE i \in 1..Len(w)
      BY <3>1, <2>1, <2>4, <2>6
    <3>2. CASE i = Len(w) + 1
      <4>1. v[i] = pushed[e] - Len(q) + 1 - Keys
        BY <3>2, <2>1, <2>3, <2>6
      <4>2. Consumed(e) = pushed[e] - Len(q) - Len(w)
        BY <2>1
      <4>3. Len(q) \in Nat /\ Len(w) \in Nat
        BY <2>3
      <4>4. pushed[e] - Len(q) + 1 - Keys = Consumed(e) + (Len(w) + 1) - Keys
        BY <4>2, <4>3, <1>9, Regroup
      <4> QED
        BY <3>2, <4>1, <4>4, Zenon
    <3> QED
      BY <3>1, <3>2, <2>4
  <2>7. \A i \in 1..Len(u) : u[i] # Torn
    BY <2>1, <2>2, <2>4
  <2> QED
    BY <2>1, <2>5, <2>6, <2>7, <1>1, <1>9, <1>10 DEF Gapless, u, v
<1>12. ASSUME NEW d \in End, d # e PROVE Gapless(d)' /\ Consumed(d)' = Consumed(d)
  <2>1. /\ queue'[d] = queue[d] /\ wire'[d] = wire[d] /\ pushed'[d] = pushed[d]
        /\ broken'[d] = broken[d] /\ encrypted' = encrypted
    BY <1>1, <1>6, <1>12
  <2> QED
    BY <2>1, StreamStays DEF IInv, Inv
<1>13. ASSUME NEW d \in End PROVE Ends(d)'
  <2>1. CASE d = e
    BY <2>1, <1>1 DEF IInv, Inv, Ends
  <2>2. CASE d # e
    BY <2>2, <1>1, <1>6 DEF IInv, Inv, Ends
  <2> QED
    BY <2>1, <2>2
<1>14. ASSUME NEW d \in End PROVE Reads(d)'
  <2>1. Peer(d) \in End /\ Reads(d) /\ Consumed(Peer(d))' = Consumed(Peer(d))
    BY <1>10, <1>12, TwoEnds DEF IInv, Inv
  <2>2. Len(wire[Peer(d)]) > 0 =>
          Len(wire'[Peer(d)]) > 0 /\ wire'[Peer(d)][1] = wire[Peer(d)][1]
    <3>1. CASE Peer(d) = e
      BY <3>1, <1>5
    <3>2. CASE Peer(d) # e
      BY <3>2, <2>1, <1>6
    <3> QED
      BY <3>1, <3>2
  <2> QED
    BY <2>1, <2>2, <1>1, <1>9 DEF Reads
<1>15. ASSUME NEW d \in End PROVE Phase(d)' /\ Counts(d)'
  BY <1>1, PhaseStays, CountsStays DEF IInv, Inv
<1>16. Numbered'
  BY <1>1 DEF IInv, Numbered
<1> QED
  BY <1>7, <1>8, <1>11, <1>12, <1>13, <1>14, <1>15, <1>16 DEF IInv, Inv

\* A write fails: the numbers may have a gap from now on, and nothing is owed.
LEMMA WriteFailsKeeps ==
  ASSUME IInv, NEW e \in End, WriteFails(e)
  PROVE  IInv'
<1>1. /\ UNCHANGED <<encrypted, dial, state, cancelled, timer, owed, late, ready, key, pushed, sent,
                     socket, connected, received, onClose, main, sender>>
      /\ writer[e] \in {"loop", "drain"}
  BY DEF WriteFails, stateVars, handlerVars
<1>2. Writes(e)
  BY DEF WriteFails, Writes, handlerVars
<1>3. /\ broken' \in [End -> BOOLEAN] /\ broken'[e] = TRUE
      /\ writer' \in [End -> {"loop", "drain", "close", "notify", "ended"}]
      /\ writer'[e] \in {"drain", "close"}
      /\ \A d \in End \ {e} : broken'[d] = broken[d] /\ writer'[d] = writer[d]
  BY DEF WriteFails, Writing, IInv, TypeOK
<1>4. queue' \in [End -> Seq(Frame)] /\ wire' \in [End -> Seq(Frame)]
  BY <1>2, WriteFacts DEF IInv
<1>5. /\ Len(queue[e]) \in Nat /\ Len(queue[e]) > 0 /\ Len(queue'[e]) = Len(queue[e]) - 1
      /\ \A i \in 1..Len(queue'[e]) : queue'[e][i] = queue[e][i + 1]
  BY <1>2, WriteFacts DEF IInv
<1>6. \A d \in End \ {e} : queue'[d] = queue[d] /\ wire'[d] = wire[d]
  BY <1>2, WriteFacts DEF IInv
<1>7. TypeOK'
  <2>1. \A d \in End : Len(queue'[d]) <= QueueCap
    <3>1. QueueCap \in Nat /\ \A d \in End : Len(queue[d]) <= QueueCap
      BY CapAssumption DEF IInv, TypeOK
    <3> QED
      BY <3>1, <1>5, <1>6
  <2> QED
    BY <2>1, <1>1, <1>3, <1>4 DEF IInv, TypeOK
<1>8. \A d \in End : InOrder(d)' /\ Consumed(d)' >= 0
  BY <1>2, WritesInOrder
<1>9. Gapless(e)'
  <2>1. \A i \in 1..Len(queue'[e]) : i + 1 \in 1..Len(queue[e])
    BY <1>5
  <2>2. \A i \in 1..Len(queue[e]) : queue[e][i] # Torn
    BY DEF IInv, Inv, Gapless
  <2>3. \A i \in 1..Len(queue'[e]) : queue'[e][i] # Torn
    BY <2>1, <2>2, <1>5
  <2> QED
    BY <2>3, <1>3, <1>8 DEF Gapless
<1>10. ASSUME NEW d \in End, d # e PROVE Gapless(d)' /\ Consumed(d)' = Consumed(d)
  <2>1. /\ queue'[d] = queue[d] /\ wire'[d] = wire[d] /\ pushed'[d] = pushed[d]
        /\ broken'[d] = broken[d] /\ encrypted' = encrypted
    BY <1>1, <1>3, <1>6, <1>10
  <2> QED
    BY <2>1, StreamStays DEF IInv, Inv
<1>11. ASSUME NEW d \in End PROVE Ends(d)'
  <2>1. CASE d = e
    BY <2>1, <1>1, <1>3 DEF IInv, Inv, Ends
  <2>2. CASE d # e
    BY <2>2, <1>1, <1>3, <1>6 DEF IInv, Inv, Ends
  <2> QED
    BY <2>1, <2>2
<1>12. ASSUME NEW d \in End PROVE Reads(d)'
  <2>1. Peer(d) \in End /\ Reads(d) /\ Keys' = Keys
    BY <1>1, TwoEnds DEF IInv, Inv, Keys
  <2>2. CASE Peer(d) = e
    <3>1. Len(wire[e]) > 0 => Len(wire'[e]) > 0 /\ wire'[e][1] = wire[e][1]
      <4>1. /\ Len(wire[e]) \in Nat
            /\ \/ wire' = wire
               \/ /\ Len(wire'[e]) = Len(wire[e]) + 1
                  /\ \A i \in 1..Len(wire[e]) : wire'[e][i] = wire[e][i]
        BY <1>2, WriteFacts DEF IInv
      <4> QED
        BY <4>1
    <3> QED
      BY <3>1, <2>1, <2>2, <1>1, <1>3 DEF Reads
  <2>3. CASE Peer(d) # e
    BY <2>1, <2>3, <1>1, <1>3, <1>6, <1>10 DEF Reads
  <2> QED
    BY <2>2, <2>3
<1>13. ASSUME NEW d \in End PROVE Phase(d)' /\ Counts(d)'
  BY <1>1, PhaseStays, CountsStays DEF IInv, Inv
<1>14. Numbered'
  BY <1>1, <1>3, TwoEnds DEF IInv, Numbered
<1> QED
  BY <1>7, <1>8, <1>9, <1>10, <1>11, <1>12, <1>13, <1>14 DEF IInv, Inv

-----------------------------------------------------------------------------
\* Both ends start without a frame.
LEMMA Initially == Init => IInv
<1> SUFFICES ASSUME Init PROVE IInv
  OBVIOUS
<1>1. TypeOK
  BY CapAssumption, ModeAssumption DEF Init, TypeOK
<1>2. \A d \in End : Len(queue[d]) = 0 /\ Len(wire[d]) = 0 /\ Len(received[d]) = 0
  BY DEF Init
<1>3. ASSUME NEW d \in End PROVE Phase(d) /\ Ends(d) /\ Counts(d)
  BY <1>2 DEF Init, Phase, Ends, Counts, KeyDue, KeySent
<1>4. ASSUME NEW d \in End PROVE Gapless(d) /\ Reads(d) /\ InOrder(d)
  BY <1>2, TwoEnds DEF Init, Gapless, Reads, InOrder, Consumed, Keys
<1>5. Numbered
  BY <1>2 DEF Numbered
<1> QED
  BY <1>1, <1>3, <1>4, <1>5 DEF IInv, Inv

\* IInv holds in every state of the connection.
THEOREM Invariance == Spec => []IInv
<1>1. IInv /\ [Next]_vars => IInv'
  <2> SUFFICES ASSUME IInv, [Next]_vars PROVE IInv'
    OBVIOUS
  <2>1. ASSUME NEW e \in End, MainStep(e) PROVE IInv'
    BY <2>1, StartKeeps, StartPlainKeeps, StartHandshakeKeeps, ArmTimerKeeps, OpeningKeeps,
        ConnectedReturnsKeeps, AbortKeeps, ExchangeKeeps, DeriveKeeps, DeliverKeeps,
        ReaderClosesKeeps DEF MainStep
  <2>2. ASSUME NEW e \in End, ReadStep(e) \/ Fault(e) PROVE IInv'
    BY <2>2, ReadKeyKeeps, ReadDataKeeps, ReadTornKeeps, ReadEndsKeeps, ReadFailsKeeps,
        WriteFailsKeeps DEF ReadStep, Fault
  <2>3. ASSUME NEW e \in End, WriterStep(e) PROVE IInv'
    BY <2>3, WriteKeeps, LoopEndsKeeps, DrainedKeeps, WriterClosesKeeps, WriterEndsKeeps DEF
        WriterStep
  <2>4. ASSUME NEW e \in End,
               \/ Cancel(e) \/ TimerFires(e) \/ TimerCloses(e) \/ OnCloseRuns(e)
               \/ HeartbeatTimesOut(e) \/ SendCheck(e) \/ SendPush(e) \/ OwnerCloses(e)
        PROVE  IInv'
    BY <2>4, CancelKeeps, TimerFiresKeeps, TimerClosesKeeps, OnCloseRunsKeeps,
        HeartbeatTimesOutKeeps, SendCheckKeeps, SendPushKeeps, OwnerClosesKeeps
  <2>5. CASE DialReturns \/ DialGivesUp
    BY <2>5, DialReturnsKeeps, DialGivesUpKeeps
  <2>6. CASE UNCHANGED vars
    <3>1. TypeOK'
      BY <2>6 DEF IInv, TypeOK, vars, stateVars, queueVars, wireVars, handlerVars, threadVars
    <3>2. /\ UNCHANGED <<encrypted, queueVars, wire, received>>
          /\ UNCHANGED <<state, main, connected, key, onClose, writer, socket, owed, late, sender>>
      BY <2>6 DEF vars, stateVars, queueVars, wireVars, handlerVars, threadVars
    <3>3. (\A d \in End : Gapless(d)' /\ InOrder(d)') /\ Numbered'
      BY <3>2, FramesStay
    <3>4. ASSUME NEW d \in End PROVE Phase(d)' /\ Ends(d)' /\ Counts(d)' /\ Reads(d)'
      BY <3>2, PhaseStays, EndsStays, CountsStays, ReadsStays DEF IInv, Inv, queueVars
    <3> QED
      BY <3>1, <3>3, <3>4 DEF IInv, Inv
  <2> QED
    BY <2>1, <2>2, <2>3, <2>4, <2>5, <2>6 DEF Next
<1>2. QED
  BY Initially, <1>1, PTL DEF Spec

\* Every variable of the connection keeps its type; in particular the send queue
\* never exceeds its capacity.
THEOREM TypeCorrect == Spec => []TypeOK
<1>1. IInv => TypeOK
  BY DEF IInv
<1>2. QED
  BY Invariance, <1>1, PTL

\* No business frame reaches an end that is still in its handshake or has no key,
\* unless a write of the peer failed: processFrame's ErrHandshakeNotComplete.
THEOREM KeyBeforeData == Spec => []NoEarlyData
<1>1. IInv => NoEarlyData
  <2> SUFFICES ASSUME IInv, NEW e \in End,
                      main[e] = "reading", NextFrame(e) > 0, ~broken[Peer(e)], state[e] # "closed"
               PROVE  state[e] = "ready" /\ (encrypted => key[e])
    BY DEF NoEarlyData
  <2>1. TypeOK /\ Peer(e) \in End /\ Phase(e) /\ Reads(e) /\ Gapless(Peer(e))
    BY TwoEnds DEF IInv, Inv
  <2>2. Len(wire[Peer(e)]) > 0 /\ wire[Peer(e)][1] = NextFrame(e) /\ Len(wire[Peer(e)]) \in Nat
    <3>1. NextFrame(e) # Torn
      BY DEF Torn
    <3> QED
      BY <3>1, <2>1, NextIsHead, SMTT(20) DEF TypeOK
  <2>3. CASE connected[e] = "ok"
    BY <2>1, <2>3 DEF Phase
  <2>4. CASE connected[e] = "no" /\ encrypted /\ state[e] # "ready"
    <3>1. state[e] \in {"created", "handshaking"}
      BY <2>1, <2>4 DEF TypeOK
    <3>2. Consumed(Peer(e)) = 0 /\ Keys = 1
      BY <3>1, <2>1, <2>4 DEF Reads, Keys
    <3>3. wire[Peer(e)][1] = Consumed(Peer(e)) + 1 - Keys
      BY <2>1, <2>2 DEF Gapless
    <3>4. wire[Peer(e)][1] = 0
      BY <3>2, <3>3
    <3> QED
      BY <3>4, <2>2
  <2> QED
    BY <2>1, <2>3, <2>4 DEF Phase
<1>2. QED
  BY Invariance, <1>1, PTL

\* OnMessage gets the frames the peer's SendMessage accepted, in their order and
\* each once, and without a gap unless a write failed.
THEOREM InOrderDelivery == Spec => []DeliveredInOrder
<1>1. IInv => DeliveredInOrder
  <2> SUFFICES ASSUME IInv, NEW e \in End
               PROVE  /\ \A i, j \in DOMAIN received[e] : i < j => received[e][i] < received[e][j]
                      /\ ~broken[Peer(e)] => \A i \in DOMAIN received[e] : received[e][i] = i
                      /\ \A i \in DOMAIN received[e] : received[e][i] <= sent[Peer(e)]
    BY DEF DeliveredInOrder
  <2>1. DOMAIN received[e] = 1..Len(received[e])
    BY DEF IInv, TypeOK
  <2>2. Peer(e) \in End /\ Peer(Peer(e)) = e /\ InOrder(Peer(e)) /\ Numbered
    BY TwoEnds DEF IInv, Inv
  <2> QED
    BY <2>1, <2>2 DEF InOrder, Numbered
<1>2. QED
  BY Invariance, <1>1, PTL

\* What was accepted before Close is written before the socket is closed, unless a
\* write failed, and except what was queued between the drain of a heartbeat
\* timeout and the Close after it.
THEOREM Drains == Spec => []DrainComplete
<1>1. IInv => DrainComplete
  BY DEF IInv, Inv, Ends, DrainComplete
<1>2. QED
  BY Invariance, <1>1, PTL

-----------------------------------------------------------------------------
(* The refinement of Callbacks.                                            *)

\* Steps that the handler does not see.
LEMMA Unseen ==
  ASSUME UNCHANGED <<connected, received>>,
         \A d \in End : (state'[d] = "closed") <=> (state[d] = "closed"),
         \A d \in End : (onClose'[d] = "done") <=> (onClose[d] = "done")
  PROVE  UNCHANGED Handler!callbackVars
<1>1. {d \in End : state[d] = "closed"}' = {d \in End : state[d] = "closed"}
  OBVIOUS
<1>2. {d \in End : onClose[d] = "done"}' = {d \in End : onClose[d] = "done"}
  OBVIOUS
<1>3. [d \in End |-> Len(received[d])]' = [d \in End |-> Len(received[d])]
  OBVIOUS
<1> QED
  BY <1>1, <1>2, <1>3 DEF Handler!callbackVars

\* A call of Close: only the first one counts.
LEMMA CloseSeen ==
  ASSUME IInv, NEW e \in End, Close(e), UNCHANGED <<connected, received, onClose>>
  PROVE  [Handler!CallbacksNext]_(Handler!callbackVars)
<1>1. /\ state'[e] = "closed" /\ \A d \in End : d # e => state'[d] = state[d]
  BY DEF Close, IInv, TypeOK
<1>2. CASE state[e] = "closed"
  BY <1>1, <1>2, Unseen
<1>3. CASE state[e] # "closed"
  <2>1. {d \in End : state[d] = "closed"}' = {d \in End : state[d] = "closed"} \cup {e}
    BY <1>1
  <2>2. Handler!Closes(e)
    BY <2>1, <1>3 DEF Handler!Closes
  <2> QED
    BY <2>2 DEF Handler!CallbacksNext
<1> QED
  BY <1>2, <1>3

\* The callbacks: OnConnected is called,
LEMMA OpeningSeen ==
  ASSUME IInv, NEW e \in End, Opening(e)
  PROVE  Handler!Connects(e)
<1>1. connected[e] = "no"
  BY DEF Opening, IInv, Inv, Phase
<1> QED
  BY <1>1 DEF Opening, Handler!Connects

\* ... OnConnected returns,
LEMMA ConnectedReturnsSeen ==
  ASSUME IInv, NEW e \in End, ConnectedReturns(e)
  PROVE  \E outcome \in {"ok", "error"} : Handler!Connected(e, outcome)
<1>1. connected[e] = "running"
  BY DEF ConnectedReturns, IInv, Inv, Phase
<1>2. UNCHANGED <<state, received, onClose>>
  BY DEF ConnectedReturns, stateVars
<1>3. CASE connected' = [connected EXCEPT ![e] = "ok"]
  BY <1>1, <1>2, <1>3 DEF Handler!Connected
<1>4. CASE connected' = [connected EXCEPT ![e] = "error"]
  BY <1>1, <1>2, <1>4 DEF Handler!Connected
<1> QED
  BY <1>3, <1>4 DEF ConnectedReturns

\* ... OnMessage,
LEMMA DeliverSeen ==
  ASSUME IInv, NEW e \in End, Deliver(e)
  PROVE  Handler!Delivers(e)
<1>1. connected[e] = "ok"
  BY DEF Deliver, IInv, Inv, Phase
<1>2. UNCHANGED <<state, connected, onClose>>
  BY DEF Deliver, stateVars
<1>3. received' = [received EXCEPT ![e] = Append(received[e], NextFrame(e))]
  BY DEF Deliver
<1>4. Len(received'[e]) = Len(received[e]) + 1
  BY <1>3 DEF IInv, TypeOK
<1>5. [d \in End |-> Len(received[d])]' =
        [[d \in End |-> Len(received[d])] EXCEPT ![e] = Len(received[e]) + 1]
  BY <1>3, <1>4 DEF IInv, TypeOK
<1> QED
  BY <1>1, <1>2, <1>5 DEF Handler!Delivers

\* ... and OnClose, on a closed connection only.
LEMMA OnCloseSeen ==
  ASSUME IInv, NEW e \in End, OnCloseRuns(e)
  PROVE  Handler!Notifies(e)
<1>1. onClose[e] = "due" /\ onClose'[e] = "done" /\ \A d \in End : d # e => onClose'[d] = onClose[d]
  BY DEF OnCloseRuns, IInv, TypeOK
<1>2. UNCHANGED <<state, connected, received>>
  BY DEF OnCloseRuns, stateVars
<1>3. state[e] = "closed"
  BY <1>1 DEF IInv, Inv, Ends
<1>4. {d \in End : onClose[d] = "done"}' = {d \in End : onClose[d] = "done"} \cup {e}
  BY <1>1
<1> QED
  BY <1>1, <1>2, <1>3, <1>4 DEF Handler!Notifies

\* Both ends of a connection call their TransportHandler as Callbacks allows:
\* every step is a step of Callbacks or leaves what the handler sees unchanged.
THEOREM KeepsCallbacks == Spec => ImplementsCallbacks
<1> DEFINE Step == [Handler!CallbacksNext]_(Handler!callbackVars)
<1>1. Init => Handler!CallbacksInit
  <2> SUFFICES ASSUME Init PROVE Handler!CallbacksInit
    OBVIOUS
  <2>1. {d \in End : state[d] = "closed"} = {} /\ {d \in End : onClose[d] = "done"} = {}
    BY DEF Init
  <2>2. [d \in End |-> Len(received[d])] = [d \in End |-> 0]
    BY DEF Init
  <2> QED
    BY <2>1, <2>2 DEF Init, Handler!CallbacksInit
<1>2. IInv /\ [Next]_vars => Step
  <2> SUFFICES ASSUME IInv, [Next]_vars PROVE Step
    OBVIOUS
  <2>1. ASSUME UNCHANGED <<state, connected, received, onClose>> PROVE Step
    BY <2>1, Unseen
  <2>2. ASSUME NEW e \in End, Start(e) \/ StartPlain(e) \/ ReadKey(e) PROVE Step
    <3>1. UNCHANGED <<connected, received, onClose>>
      BY <2>2 DEF Start, StartPlain, ReadKey, handlerVars
    <3>2. \A d \in End : (state'[d] = "closed") <=> (state[d] = "closed")
      BY <2>2 DEF Start, StartPlain, ReadKey, IInv, TypeOK
    <3> QED
      BY <3>1, <3>2, Unseen
  <2>3. ASSUME NEW e \in End, WriterEnds(e) PROVE Step
    <3>1. UNCHANGED <<state, connected, received>>
      BY <2>3 DEF WriterEnds, stateVars
    <3>2. onClose[e] = "none"
      BY <2>3 DEF WriterEnds, IInv, Inv, Ends
    <3>3. \A d \in End : (onClose'[d] = "done") <=> (onClose[d] = "done")
      BY <2>3, <3>2 DEF WriterEnds, IInv, TypeOK
    <3> QED
      BY <3>1, <3>3, Unseen
  <2>4. ASSUME NEW e \in End,
               \/ Abort(e) \/ ReaderCloses(e) \/ WriterCloses(e)
               \/ TimerCloses(e) \/ OwnerCloses(e)
        PROVE  Step
    <3>1. Close(e) /\ UNCHANGED <<connected, received, onClose>>
      BY <2>4 DEF Abort, ReaderCloses, WriterCloses, TimerCloses, OwnerCloses, handlerVars
    <3> QED
      BY <3>1, CloseSeen
  <2>5. CASE DialGivesUp
    <3>1. Close("client") /\ UNCHANGED <<connected, received, onClose>>
      BY <2>5 DEF DialGivesUp, handlerVars
    <3> QED
      BY <3>1, CloseSeen, TwoEnds
  <2>6. ASSUME NEW e \in End,
               Opening(e) \/ ConnectedReturns(e) \/ Deliver(e) \/ OnCloseRuns(e)
        PROVE  Step
    BY <2>6, OpeningSeen, ConnectedReturnsSeen, DeliverSeen, OnCloseSeen DEF Handler!CallbacksNext
  <2>7. ASSUME NEW e \in End,
               \/ StartHandshake(e) \/ ArmTimer(e) \/ Exchange(e) \/ Derive(e)
               \/ ReadData(e) \/ ReadTorn(e) \/ ReadEnds(e) \/ ReadFails(e)
        PROVE  Step
    BY <2>7, <2>1 DEF StartHandshake, ArmTimer, Exchange, Derive, ReadData, ReadTorn, ReadEnds,
         ReadFails, stateVars, handlerVars
  <2>8. ASSUME NEW e \in End,
               \/ Write(e) \/ WriteFails(e) \/ LoopEnds(e) \/ Drained(e) \/ HeartbeatTimesOut(e)
               \/ Cancel(e) \/ TimerFires(e) \/ SendCheck(e) \/ SendPush(e)
        PROVE  Step
    BY <2>8, <2>1 DEF Write, WriteFails, LoopEnds, Drained, HeartbeatTimesOut, Cancel, TimerFires,
         SendCheck, SendPush, stateVars, handlerVars
  <2>9. CASE DialReturns \/ UNCHANGED vars
    BY <2>9, <2>1 DEF DialReturns, vars, stateVars, handlerVars
  <2> QED
    BY <2>2, <2>3, <2>4, <2>5, <2>6, <2>7, <2>8, <2>9
       DEF Next, MainStep, ReadStep, WriterStep, Fault
<1>3. QED
  BY Invariance, <1>1, <1>2, PTL DEF Spec, ImplementsCallbacks, Handler!CallbacksSafety
=============================================================================
