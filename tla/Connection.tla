----------------------------- MODULE Connection -----------------------------
(***************************************************************************)
(* A TCP connection of the network package, seen from both of its ends:    *)
(* baseConn (network/base_connection.go) with TCPConnection, DialTCP at    *)
(* the client and TCPServer.Run at the server.                             *)
(*                                                                         *)
(* Each end runs three goroutines: "main" is runStart followed by          *)
(* readLoop, "writer" is runWriteLoop, "sender" a caller of SendMessage;   *)
(* besides them there are the handshake timer, the callers of Close and    *)
(* the goroutine that calls OnClose.  Every access of an atomic or a       *)
(* channel is a step.  The sockets carry frames in order; a read or a      *)
(* write may fail at any time, a write after part of its frame.            *)
(***************************************************************************)
EXTENDS Integers, Sequences

CONSTANTS
  QueueCap,    \* CommonConfig.SendChanSize
  MaxPush,     \* bound: frames an end queues, its key included
  Sending,     \* bound: ends that send business frames
  Failing,     \* bound: ends that their owner closes, where reads, writes and
               \* OnConnected fail and the heartbeat times out with the peer there
  Encryption   \* values of CommonConfig.EncryptEnable

End == {"client", "server"}

ASSUME CapAssumption == QueueCap \in Nat \ {0} /\ MaxPush \in Nat
ASSUME EndAssumption == Sending \subseteq End /\ Failing \subseteq End
ASSUME ModeAssumption == Encryption \subseteq BOOLEAN

VARIABLES
  encrypted,   \* CommonConfig.EncryptEnable, of both ends
  dial,        \* DialTCP: "running", "ok", "error"
  state,       \* per end: baseConn.state
  cancelled,   \* per end: baseConn.ctx is done
  timer,       \* per end: baseConn.handshakeTimer
  ready,       \* per end: readyCh is closed
  key,         \* per end: the cipher has its shared key
  main, writer, sender,   \* per end: where its goroutines are
  queue,       \* per end: sendChannel
  wire,        \* per end: what it wrote and the peer has not consumed
  socket,      \* per end: its socket is open
  connected,   \* per end: the call of handler.OnConnected
  received,    \* per end: the frames passed to handler.OnMessage
  onClose,     \* per end: the goroutine that calls handler.OnClose
  pushed,      \* history, per end: frames accepted by pushQueue
  sent,        \* history, per end: business frames among them
  broken,      \* history, per end: a write failed
  owed,        \* history, per end: pushed when Close was first called
  late         \* history, per end: those of them queued after drainMessages ended

stateVars == <<state, cancelled, timer, owed, late>>
queueVars == <<queue, pushed, sent, broken>>
wireVars == <<wire, socket>>
handlerVars == <<connected, received, onClose>>
threadVars == <<main, writer, sender>>
vars == <<encrypted, dial, stateVars, ready, key, queueVars, wireVars, handlerVars, threadVars>>

Peer(e) == IF e = "client" THEN "server" ELSE "client"

\* Frames: a key exchange, the start of a frame whose write failed, or the n-th
\* business frame that its end accepted.
Key == 0
Torn == -1
Frame == {Key, Torn} \cup 1..MaxPush

TypeOK ==
  /\ encrypted \in BOOLEAN /\ dial \in {"running", "ok", "error"}
  /\ state \in [End -> {"created", "handshaking", "ready", "closed"}]
  /\ cancelled \in [End -> BOOLEAN] /\ ready \in [End -> BOOLEAN] /\ key \in [End -> BOOLEAN]
  /\ timer \in [End -> {"off", "armed", "firing"}]
  /\ main \in [End -> {"start", "begun", "arm", "abort", "opening", "connecting",
                       "reading", "deliver", "exchange", "derive", "failed", "ended"}]
  /\ writer \in [End -> {"loop", "drain", "close", "notify", "ended"}]
  /\ sender \in [End -> {"idle", "checked"}]
  /\ queue \in [End -> Seq(Frame)] /\ \A e \in End : Len(queue[e]) <= QueueCap
  /\ wire \in [End -> Seq(Frame)] /\ socket \in [End -> BOOLEAN]
  /\ connected \in [End -> {"no", "running", "ok", "error"}]
  /\ received \in [End -> Seq(1..MaxPush)]
  /\ onClose \in [End -> {"none", "due", "done"}]
  /\ pushed \in [End -> Nat] /\ owed \in [End -> Nat] /\ late \in [End -> Nat]
  /\ sent \in [End -> 0..MaxPush] /\ broken \in [End -> BOOLEAN]

\* newBaseConnWithRole, at an end whose socket was just connected or accepted.
Init ==
  /\ encrypted \in Encryption /\ dial = "running"
  /\ state = [e \in End |-> "created"]
  /\ cancelled = [e \in End |-> FALSE] /\ timer = [e \in End |-> "off"]
  /\ ready = [e \in End |-> FALSE] /\ key = [e \in End |-> FALSE]
  /\ main = [e \in End |-> "start"] /\ writer = [e \in End |-> "loop"]
  /\ sender = [e \in End |-> "idle"]
  /\ queue = [e \in End |-> <<>>] /\ wire = [e \in End |-> <<>>]
  /\ socket = [e \in End |-> TRUE]
  /\ connected = [e \in End |-> "no"] /\ received = [e \in End |-> <<>>]
  /\ onClose = [e \in End |-> "none"]
  /\ pushed = [e \in End |-> 0] /\ sent = [e \in End |-> 0]
  /\ owed = [e \in End |-> 0] /\ late = [e \in End |-> 0] /\ broken = [e \in End |-> FALSE]

-----------------------------------------------------------------------------
(* Close, and the frames that enter the send queue.                        *)

\* Close up to its Swap: only the first caller goes on (to Cancel).
Close(e) ==
  /\ state' = [state EXCEPT ![e] = "closed"]
  /\ owed' = [owed EXCEPT ![e] = IF state[e] # "closed" THEN pushed[e] ELSE @]
  /\ late' = [late EXCEPT ![e] = IF state[e] # "closed" /\ writer[e] = "close"
                                 THEN Len(queue[e]) ELSE @]

\* The rest of Close: cancel() and the timer's Stop.
Cancel(e) ==
  /\ state[e] = "closed" /\ ~cancelled[e]
  /\ cancelled' = [cancelled EXCEPT ![e] = TRUE]
  /\ timer' = [timer EXCEPT ![e] = IF @ = "armed" THEN "off" ELSE @]
  /\ UNCHANGED <<encrypted, dial, state, owed, late, ready, key, queueVars, wireVars, handlerVars,
                 threadVars>>

\* pushQueue: select takes any case that is possible, the default only if none is.
PushOK(e, frame) ==
  /\ Len(queue[e]) < QueueCap
  /\ queue' = [queue EXCEPT ![e] = Append(@, frame)]
  /\ pushed' = [pushed EXCEPT ![e] = @ + 1]

PushFails(e) == cancelled[e] \/ Len(queue[e]) = QueueCap

\* SendMessage up to pushQueue.  Only who was given the connection can send:
\* the handler, from OnConnected on.
SendCheck(e) ==
  /\ e \in Sending /\ sender[e] = "idle" /\ connected[e] # "no" /\ pushed[e] < MaxPush
  /\ state[e] = "ready" /\ (encrypted => key[e])
  /\ sender' = [sender EXCEPT ![e] = "checked"]
  /\ UNCHANGED <<encrypted, dial, stateVars, ready, key, queueVars, wireVars, handlerVars,
                 main, writer>>

SendPush(e) ==
  /\ sender[e] = "checked"
  /\ sender' = [sender EXCEPT ![e] = "idle"]
  /\ \/ PushOK(e, sent[e] + 1) /\ sent' = [sent EXCEPT ![e] = @ + 1]
     \/ PushFails(e) /\ UNCHANGED <<queue, pushed, sent>>
  /\ UNCHANGED <<encrypted, dial, stateVars, ready, key, broken, wireVars, handlerVars,
                 main, writer>>

\* Close called by an owner of the connection.
OwnerCloses(e) ==
  /\ e \in Failing /\ connected[e] # "no" /\ state[e] # "closed"
  /\ Close(e)
  /\ UNCHANGED <<encrypted, dial, cancelled, timer, ready, key, queueVars, wireVars, handlerVars,
                 threadVars>>

-----------------------------------------------------------------------------
(* runStart and start.                                                     *)

Goto(e, pc) == main' = [main EXCEPT ![e] = pc]

Start(e) ==
  /\ main[e] = "start"
  /\ IF state[e] = "created"
       THEN Goto(e, "begun") /\ state' = [state EXCEPT ![e] = "handshaking"]
       ELSE Goto(e, "abort") /\ UNCHANGED state
  /\ UNCHANGED <<encrypted, dial, cancelled, timer, owed, late, ready, key, queueVars, wireVars,
                 handlerVars, writer, sender>>

\* Without encryption the connection is ready at once.
StartPlain(e) ==
  /\ main[e] = "begun" /\ ~encrypted
  /\ IF state[e] = "handshaking"
       THEN Goto(e, "opening") /\ state' = [state EXCEPT ![e] = "ready"]
       ELSE Goto(e, "abort") /\ UNCHANGED state
  /\ UNCHANGED <<encrypted, dial, cancelled, timer, owed, late, ready, key, queueVars, wireVars,
                 handlerVars, writer, sender>>

\* startHandshake: NewECDHCipher, which may fail, and the client sends its key.
StartHandshake(e) ==
  /\ main[e] = "begun" /\ encrypted
  /\ \/ e = "server" /\ Goto(e, "arm") /\ UNCHANGED <<queue, pushed>>
     \/ e = "client" /\ Goto(e, "arm") /\ PushOK(e, Key)
     \/ /\ e \in Failing \/ (e = "client" /\ PushFails(e))
        /\ Goto(e, "abort") /\ UNCHANGED <<queue, pushed>>
  /\ UNCHANGED <<encrypted, dial, stateVars, ready, key, sent, broken, wireVars,
                 handlerVars, writer, sender>>

\* The end of startHandshake and of runStart: readLoop begins.
ArmTimer(e) ==
  /\ main[e] = "arm" /\ Goto(e, "reading")
  /\ timer' = [timer EXCEPT ![e] = "armed"]
  /\ UNCHANGED <<encrypted, dial, state, cancelled, owed, late, ready, key, queueVars, wireVars,
                 handlerVars, writer, sender>>

\* onReady up to the call of OnConnected; a callback that has fired is not stopped.
Opening(e) ==
  /\ main[e] = "opening" /\ Goto(e, "connecting")
  /\ timer' = [timer EXCEPT ![e] = IF @ = "armed" THEN "off" ELSE @]
  /\ connected' = [connected EXCEPT ![e] = "running"]
  /\ UNCHANGED <<encrypted, dial, state, cancelled, owed, late, ready, key, queueVars, wireVars,
                 received, onClose, writer, sender>>

\* OnConnected returns; on nil readyCh is closed.  Without encryption onReady
\* is still part of runStart.
ConnectedReturns(e) ==
  /\ main[e] = "connecting"
  /\ \/ /\ Goto(e, "reading")
        /\ connected' = [connected EXCEPT ![e] = "ok"]
        /\ ready' = [ready EXCEPT ![e] = TRUE]
     \/ /\ e \in Failing
        /\ Goto(e, IF encrypted THEN "failed" ELSE "abort")
        /\ connected' = [connected EXCEPT ![e] = "error"]
        /\ UNCHANGED ready
  /\ UNCHANGED <<encrypted, dial, stateVars, key, queueVars, wireVars, received, onClose,
                 writer, sender>>

\* runStart closes the connection and returns an error, which DialTCP returns.
Abort(e) ==
  /\ main[e] = "abort" /\ Goto(e, "ended") /\ Close(e)
  /\ dial' = IF e = "client" THEN "error" ELSE dial
  /\ UNCHANGED <<encrypted, cancelled, timer, ready, key, queueVars, wireVars, handlerVars,
                 writer, sender>>

-----------------------------------------------------------------------------
(* readLoop, onProcess and processFrame.                                   *)

NextFrame(e) == IF wire[Peer(e)] = <<>> THEN Torn ELSE Head(wire[Peer(e)])

\* Mutant of Consume: a frame that was processed stays in the buffer.
ConsumeNothing(e) == UNCHANGED wire

Consume(e) == wire' = [wire EXCEPT ![Peer(e)] = Tail(@)]

\* handleKeyExchange up to its CompareAndSwap.
ReadKey(e) ==
  /\ main[e] = "reading" /\ NextFrame(e) = Key
  /\ Consume(e)
  /\ IF state[e] = "handshaking"
       THEN /\ state' = [state EXCEPT ![e] = "ready"]
            /\ Goto(e, IF e = "server" THEN "exchange" ELSE "derive")
       ELSE UNCHANGED <<state, main>>
  /\ UNCHANGED <<encrypted, dial, cancelled, timer, owed, late, ready, key, queueVars, socket,
                 handlerVars, writer, sender>>

\* Mutant of Exchange: the server derives its key without answering.
ExchangeSilent(e) ==
  /\ main[e] = "exchange" /\ Goto(e, "derive")
  /\ UNCHANGED <<encrypted, dial, stateVars, ready, key, queueVars, wireVars, handlerVars,
                 writer, sender>>

\* The server answers with its own key.
Exchange(e) ==
  /\ main[e] = "exchange"
  /\ \/ Goto(e, "derive") /\ PushOK(e, Key)
     \/ Goto(e, "failed") /\ PushFails(e) /\ UNCHANGED <<queue, pushed>>
  /\ UNCHANGED <<encrypted, dial, stateVars, ready, key, sent, broken, wireVars,
                 handlerVars, writer, sender>>

\* GenerateSharedKey.
Derive(e) ==
  /\ main[e] = "derive"
  /\ \/ Goto(e, "opening") /\ key' = [key EXCEPT ![e] = TRUE]
     \/ e \in Failing /\ Goto(e, "failed") /\ UNCHANGED key
  /\ UNCHANGED <<encrypted, dial, stateVars, ready, queueVars, wireVars, handlerVars,
                 writer, sender>>

\* A business frame: decrypt and processFrame up to the call of OnMessage.
ReadData(e) ==
  /\ main[e] = "reading" /\ NextFrame(e) > 0
  /\ Goto(e, IF state[e] = "ready" /\ (encrypted => key[e]) THEN "deliver" ELSE "failed")
  /\ UNCHANGED <<encrypted, dial, stateVars, ready, key, queueVars, wireVars, handlerVars,
                 writer, sender>>

\* OnMessage, which may fail, and Skip.
Deliver(e) ==
  /\ main[e] = "deliver"
  /\ Consume(e)
  /\ received' = [received EXCEPT ![e] = Append(@, NextFrame(e))]
  /\ Goto(e, "reading") \/ Goto(e, "failed")
  /\ UNCHANGED <<encrypted, dial, stateVars, ready, key, queueVars, socket, connected, onClose,
                 writer, sender>>

\* The bytes after a torn frame are taken for its body: the checksum is wrong.
ReadTorn(e) ==
  /\ main[e] = "reading" /\ NextFrame(e) = Torn /\ Len(wire[Peer(e)]) > 1
  /\ Goto(e, "failed")
  /\ UNCHANGED <<encrypted, dial, stateVars, ready, key, queueVars, wireVars, handlerVars,
                 writer, sender>>

\* Read fails: this end's socket is closed, or the peer's is and all was read.
ReadEnds(e) ==
  /\ main[e] = "reading"
  /\ ~socket[e] \/ (~socket[Peer(e)] /\ NextFrame(e) = Torn)
  /\ Goto(e, "failed")
  /\ UNCHANGED <<encrypted, dial, stateVars, ready, key, queueVars, wireVars, handlerVars,
                 writer, sender>>

\* readLoop ends for any other reason: the socket, a frame that does not decode,
\* an internal frame other than a key exchange.
ReadFails(e) ==
  /\ main[e] = "reading"
  /\ Goto(e, "failed")
  /\ UNCHANGED <<encrypted, dial, stateVars, ready, key, queueVars, wireVars, handlerVars,
                 writer, sender>>

\* readLoop returns.
ReaderCloses(e) ==
  /\ main[e] = "failed" /\ Goto(e, "ended") /\ Close(e)
  /\ UNCHANGED <<encrypted, dial, cancelled, timer, ready, key, queueVars, wireVars, handlerVars,
                 writer, sender>>

-----------------------------------------------------------------------------
(* The handshake timer.                                                    *)

TimerFires(e) ==
  /\ timer[e] = "armed"
  /\ timer' = [timer EXCEPT ![e] = "firing"]
  /\ UNCHANGED <<encrypted, dial, state, cancelled, owed, late, ready, key, queueVars, wireVars,
                 handlerVars, threadVars>>

\* Mutant of TimerCloses: the timer's callback forgets to close the connection.
TimerForgets(e) ==
  /\ timer[e] = "firing"
  /\ timer' = [timer EXCEPT ![e] = "off"]
  /\ UNCHANGED <<encrypted, dial, state, cancelled, owed, late, ready, key, queueVars, wireVars,
                 handlerVars, threadVars>>

TimerCloses(e) ==
  /\ timer[e] = "firing"
  /\ timer' = [timer EXCEPT ![e] = "off"]
  /\ Close(e)
  /\ UNCHANGED <<encrypted, dial, cancelled, ready, key, queueVars, wireVars, handlerVars,
                 threadVars>>

-----------------------------------------------------------------------------
(* runWriteLoop and drainMessages.                                         *)

Writing(e, pc) == writer' = [writer EXCEPT ![e] = pc]

\* writeRaw succeeds, in the loop or in drainMessages.
Write(e) ==
  /\ writer[e] \in {"loop", "drain"} /\ queue[e] # <<>>
  /\ queue' = [queue EXCEPT ![e] = Tail(@)]
  /\ wire' = [wire EXCEPT ![e] = Append(@, Head(queue[e]))]
  /\ UNCHANGED <<encrypted, dial, stateVars, ready, key, pushed, sent, broken, socket,
                 handlerVars, threadVars>>

\* writeRaw fails, before or after part of the frame went out.  The loop ends,
\* but drainMessages goes on with the next frame.
WriteFails(e) ==
  /\ writer[e] \in {"loop", "drain"} /\ queue[e] # <<>>
  /\ queue' = [queue EXCEPT ![e] = Tail(@)]
  /\ broken' = [broken EXCEPT ![e] = TRUE]
  /\ \/ UNCHANGED wire
     \/ wire' = [wire EXCEPT ![e] = Append(@, Torn)]
  /\ Writing(e, IF writer[e] = "loop" THEN "drain" ELSE "close")
  /\ UNCHANGED <<encrypted, dial, stateVars, ready, key, pushed, sent, socket,
                 handlerVars, main, sender>>

\* The loop ends because the context is done, or the heartbeat timed out.
LoopEnds(e) ==
  /\ writer[e] = "loop" /\ cancelled[e]
  /\ Writing(e, "drain")
  /\ UNCHANGED <<encrypted, dial, stateVars, ready, key, queueVars, wireVars, handlerVars,
                 main, sender>>

HeartbeatTimesOut(e) ==
  /\ writer[e] = "loop" /\ state[e] # "handshaking"
  /\ e \in Failing \/ ~socket[Peer(e)]
  /\ Writing(e, "drain")
  /\ UNCHANGED <<encrypted, dial, stateVars, ready, key, queueVars, wireVars, handlerVars,
                 main, sender>>

\* Mutant of Drained: the writer leaves the frames in the queue.
DrainedNot(e) ==
  /\ writer[e] = "drain"
  /\ Writing(e, "close")
  /\ UNCHANGED <<encrypted, dial, stateVars, ready, key, queueVars, wireVars, handlerVars,
                 main, sender>>

Drained(e) ==
  /\ writer[e] = "drain" /\ queue[e] = <<>>
  /\ Writing(e, "close")
  /\ UNCHANGED <<encrypted, dial, stateVars, ready, key, queueVars, wireVars, handlerVars,
                 main, sender>>

\* Mutant of WriterCloses: the writer ends without closing the connection.
WriterClosesNot(e) ==
  /\ writer[e] = "close" /\ Writing(e, "notify")
  /\ UNCHANGED <<encrypted, dial, stateVars, ready, key, queueVars, wireVars, handlerVars,
                 main, sender>>

\* The writer's own Close: if it is the first it also cancels.
WriterCloses(e) ==
  /\ writer[e] = "close" /\ Writing(e, "notify")
  /\ Close(e)
  /\ cancelled' = [cancelled EXCEPT ![e] = @ \/ state[e] # "closed"]
  /\ timer' = [timer EXCEPT ![e] = IF state[e] # "closed" /\ @ = "armed" THEN "off" ELSE @]
  /\ UNCHANGED <<encrypted, dial, ready, key, queueVars, wireVars, handlerVars, main, sender>>

\* Mutant of WriterEnds: the socket stays open.
WriterEndsOpen(e) ==
  /\ writer[e] = "notify" /\ Writing(e, "ended")
  /\ onClose' = [onClose EXCEPT ![e] = "due"]
  /\ UNCHANGED <<encrypted, dial, stateVars, ready, key, queueVars, wireVars, connected, received,
                 main, sender>>

\* OnClose is started in a goroutine of its own, then the socket is closed.
WriterEnds(e) ==
  /\ writer[e] = "notify" /\ Writing(e, "ended")
  /\ onClose' = [onClose EXCEPT ![e] = "due"]
  /\ socket' = [socket EXCEPT ![e] = FALSE]
  /\ UNCHANGED <<encrypted, dial, stateVars, ready, key, queueVars, wire, connected, received,
                 main, sender>>

OnCloseRuns(e) ==
  /\ onClose[e] = "due"
  /\ onClose' = [onClose EXCEPT ![e] = "done"]
  /\ UNCHANGED <<encrypted, dial, stateVars, ready, key, queueVars, wireVars, connected, received,
                 threadVars>>

-----------------------------------------------------------------------------
(* DialTCP after runStart: waitReady and the check of the state.           *)

Starting(e) ==
  \/ main[e] \in {"start", "begun", "arm", "abort"}
  \/ ~encrypted /\ main[e] \in {"opening", "connecting"}

DialReturns ==
  /\ dial = "running" /\ ~Starting("client")
  /\ \/ ready["client"] /\ dial' = IF state["client"] = "closed" THEN "error" ELSE "ok"
     \/ cancelled["client"] /\ dial' = "error"
  /\ UNCHANGED <<encrypted, stateVars, ready, key, queueVars, wireVars, handlerVars, threadVars>>

\* The caller's context ends: waitReady closes the connection.
DialGivesUp ==
  /\ dial = "running" /\ ~Starting("client")
  /\ dial' = "error"
  /\ Close("client")
  /\ UNCHANGED <<encrypted, cancelled, timer, ready, key, queueVars, wireVars, handlerVars,
                 threadVars>>

-----------------------------------------------------------------------------
\* What the main goroutine does by itself, and what it does when bytes arrive.
MainStep(e) ==
  \/ Start(e) \/ StartPlain(e) \/ StartHandshake(e) \/ ArmTimer(e) \/ Opening(e)
  \/ ConnectedReturns(e) \/ Abort(e)
  \/ Exchange(e) \/ Derive(e) \/ Deliver(e) \/ ReaderCloses(e)
ReadStep(e) == ReadKey(e) \/ ReadData(e) \/ ReadTorn(e) \/ ReadEnds(e)
WriterStep(e) ==
  Write(e) \/ LoopEnds(e) \/ Drained(e) \/ WriterCloses(e) \/ WriterEnds(e)
Fault(e) == e \in Failing /\ (ReadFails(e) \/ WriteFails(e))

Next ==
  \/ \E e \in End :
       \/ MainStep(e) \/ ReadStep(e) \/ WriterStep(e) \/ Fault(e)
       \/ Cancel(e) \/ TimerFires(e) \/ TimerCloses(e) \/ OnCloseRuns(e)
       \/ HeartbeatTimesOut(e) \/ SendCheck(e) \/ SendPush(e) \/ OwnerCloses(e)
  \/ DialReturns \/ DialGivesUp

\* Goroutines that can run do run, timers expire and handlers return.  Bytes and
\* the peer's end of stream need not arrive: what is certain is that a read
\* fails once this end has closed its socket, and that the heartbeat times out
\* once the peer has closed its own.
Fairness ==
  /\ \A e \in End :
       /\ WF_vars(MainStep(e) \/ (~socket[e] /\ ReadEnds(e)))
       /\ WF_vars(WriterStep(e) \/ (~socket[Peer(e)] /\ HeartbeatTimesOut(e)))
       /\ WF_vars(TimerFires(e) \/ TimerCloses(e))
       /\ WF_vars(Cancel(e)) /\ WF_vars(OnCloseRuns(e)) /\ WF_vars(SendPush(e))
  /\ WF_vars(DialReturns)

Spec == Init /\ [][Next]_vars /\ Fairness
-----------------------------------------------------------------------------
(* Properties.                                                             *)

\* A business frame never reaches a peer that is still in its handshake, or has
\* no key yet to decrypt it: handleKeyExchange queues the key frame before
\* anyone can send, and readLoop is done with it before it reads on.  Otherwise
\* processFrame would close the connection with ErrHandshakeNotComplete.  (Where
\* a write failed it may: drainMessages then sends data after a lost key.)
NoEarlyData ==
  \A e \in End :
    main[e] = "reading" /\ NextFrame(e) > 0 /\ ~broken[Peer(e)] =>
      state[e] = "closed" \/ (state[e] = "ready" /\ (encrypted => key[e]))

\* OnMessage gets the frames SendMessage accepted at the other end, in their
\* order and each once; a frame can be missing before a later one only if a
\* write failed (drainMessages goes on after the frame that failed).
DeliveredInOrder ==
  \A e \in End :
    /\ \A i, j \in DOMAIN received[e] : i < j => received[e][i] < received[e][j]
    /\ ~broken[Peer(e)] => \A i \in DOMAIN received[e] : received[e][i] = i
    /\ \A i \in DOMAIN received[e] : received[e][i] <= sent[Peer(e)]

\* What SendMessage accepted before Close is written before the socket is closed,
\* unless a write fails: runWriteLoop drains the queue on its way out.  One case
\* is excepted: when the heartbeat times out, the queue is drained while the
\* connection is still Ready, and what SendMessage accepts between the end of
\* drainMessages and the Close that follows (late) is lost without an error.
DrainComplete ==
  \A e \in End : ~socket[e] /\ ~broken[e] => pushed[e] - Len(queue[e]) + late[e] >= owed[e]

\* No handshake hangs: it ends in Ready or, by its timer at the latest, in Closed.
HandshakeEnds ==
  \A e \in End : state[e] = "handshaking" ~> state[e] \in {"ready", "closed"}

\* When one end closes, the other end closes too, DialTCP has returned and both
\* handlers' OnClose has run: no goroutine and no socket is left behind.
ClosesTogether ==
  (\E e \in End : state[e] = "closed") ~>
    (\A e \in End : onClose[e] = "done" /\ main[e] = "ended") /\ dial # "running"

\* Both ends keep the promises of TransportHandler's callbacks.
Handler == INSTANCE Callbacks WITH
  Conn <- End,
  closed <- {e \in End : state[e] = "closed"},
  messages <- [e \in End |-> Len(received[e])],
  notified <- {e \in End : onClose[e] = "done"}
ImplementsCallbacks == Handler!CallbacksSafety
=============================================================================
