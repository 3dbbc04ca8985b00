------------------------------- MODULE Stream -------------------------------
(***************************************************************************)
(* From the frames one end sends to the frames the other end's handler     *)
(* gets: sendFrame's layers (codec pipeline, encryption, header with       *)
(* length), a byte stream that arrives in chunks of any size, the read     *)
(* buffer, processReadBuffer's loop and the layers undone in reverse.  A   *)
(* byte is its position in the stream, so that a buffer that moves bytes   *)
(* to the wrong place shows.  TCP and WebSocket connections read this way. *)
(***************************************************************************)
EXTENDS Naturals, Sequences, SequencesExt, FiniteSetsExt

CONSTANTS
  HeaderLen,        \* UnifiedFrameHeaderLen
  MaxInboundSize,   \* of the receiver, for a whole frame
  MaxOutboundSize,  \* of the sender
  ChunkSize,        \* tcpReadChunkSize
  InitialCap,       \* capacity of a buffer that starts small
  transforms,       \* the pipeline: the flags of its transforms, in order
  MinSize,          \* flag -> length below which its transform is not applied
  MaxDecodedSize,   \* flag -> the longest body its transform decodes to, 0: any
  Bodies,           \* the bodies sent: per transform the length before it, and
                    \* the length after the last
  MaxFrames         \* bound on the frames sent

VARIABLES
  sentFrames,  \* the frames on the wire: length, last byte, flags, body, layers
  arrived,     \* bytes received so far
  buf, r, w,   \* Buffer: the bytes, read and write position
  decoded,     \* the frames handed to processFrame: number and layers left
  readErr      \* why the read loop ended, or "none"

streamVars == <<sentFrames, arrived, buf, r, w, decoded, readErr>>

\* The bytes of the first k frames, and of all that were sent.
Offset(k) == IF k = 0 THEN 0 ELSE sentFrames[k].end
Wire == Offset(Len(sentFrames))

\* The capacity both kinds of connection give their buffer.
ReadBufferCap == MaxInboundSize + ChunkSize
\* Mutant of MaxCap: room for the largest frame only.
MaxCapFrame == MaxInboundSize
MaxCap == ReadBufferCap

\* Some frame can be received, and a buffer starts with at most its largest capacity.
ASSUME SizeAssumption ==
  /\ HeaderLen \in Nat \ {0} /\ ChunkSize \in Nat \ {0}
  /\ MaxInboundSize \in Nat /\ HeaderLen <= MaxInboundSize
  /\ InitialCap \in 1..(MaxInboundSize + ChunkSize)
\* The pipeline, which is the same at both ends and whose flags differ (New
\* refuses duplicates), and the thresholds of its transforms.  A transform may make a body shorter or longer, unless it is not
\* applied.
ASSUME PipelineAssumption ==
  /\ transforms \in Seq(ToSet(transforms))
  /\ \A i, j \in 1..Len(transforms) : transforms[i] = transforms[j] => i = j
  /\ MinSize \in [ToSet(transforms) -> Nat] /\ MaxDecodedSize \in [ToSet(transforms) -> Nat]
  /\ Bodies \subseteq [1..(Len(transforms) + 1) -> Nat]
  /\ \A b \in Bodies, i \in 1..Len(transforms) :
       b[i] < MinSize[transforms[i]] => b[i + 1] = b[i]

\* A connection's buffer starts with its largest capacity; one that starts
\* smaller grows (the package's own use, and its tests').
StreamInit ==
  /\ sentFrames = <<>> /\ decoded = <<>> /\ arrived = 0
  /\ \E cap \in {InitialCap, MaxCap} : buf = [i \in 1..cap |-> 0]
  /\ r = 0 /\ w = 0
  /\ readErr = "none"

-----------------------------------------------------------------------------
(* The sender.                                                             *)

\* A layer of a frame is the number of the step that put it on: the position of
\* its transform, and the next number for encryption, which comes last.
Pipeline == 1..Len(transforms)
Applied(body) == {i \in Pipeline : body[i] >= MinSize[transforms[i]]}
Encryption(internal) == IF internal THEN {} ELSE {Len(transforms) + 1}

\* The length of the whole frame; encryption keeps the body's length here.
Size(body) == HeaderLen + body[Len(transforms) + 1]

\* EncodeMessageFrameWithLimit refuses a frame that is too large as a whole.
Encodable(body) == Size(body) <= MaxOutboundSize

\* Pipeline.Encode, then encryption unless the frame is internal, then the
\* check of the whole frame's size.
SendFrame(body, internal) ==
  /\ Len(sentFrames) < MaxFrames
  /\ Encodable(body)
  /\ sentFrames' = Append(sentFrames,
       [size |-> Size(body), end |-> Wire + Size(body), body |-> body,
        internal |-> internal, flags |-> {transforms[i] : i \in Applied(body)},
        layers |-> Applied(body) \cup Encryption(internal)])
  /\ UNCHANGED <<arrived, buf, r, w, decoded, readErr>>

-----------------------------------------------------------------------------
(* The buffer: operators on its bytes b, read position i, write position j. *)

Shift(b, i, j) == [k \in DOMAIN b |-> IF k <= j - i THEN b[i + k] ELSE b[k]]
\* newCap: doubled until it fits, at most MaxCap (which fits).
Grown(cap, need) == Min({MaxCap} \cup {c \in need..MaxCap : \E k \in 1..MaxCap : c = cap * 2^k})
Resize(b, cap) == [k \in 1..cap |-> IF k \in DOMAIN b THEN b[k] ELSE 0]

\* Mutant of EnsureSpace: the bytes are moved and the write position is not.
EnsureSpaceShifts(n) ==
  IF Len(buf) - w >= n THEN [ok |-> TRUE, b |-> buf, i |-> r, j |-> w]
  ELSE LET b == Shift(buf, r, w) IN
       IF Len(buf) - w >= n THEN [ok |-> TRUE, b |-> b, i |-> 0, j |-> w]
       ELSE IF w + n > MaxCap THEN [ok |-> FALSE, b |-> b, i |-> 0, j |-> w]
       ELSE [ok |-> TRUE, b |-> Resize(b, Grown(Len(buf), w + n)), i |-> 0, j |-> w]

\* ensureSpace: move the unread bytes to the front, then grow.
EnsureSpace(n) ==
  IF Len(buf) - w >= n THEN [ok |-> TRUE, b |-> buf, i |-> r, j |-> w]
  ELSE LET b == Shift(buf, r, w)
           j == w - r
       IN IF Len(buf) - j >= n THEN [ok |-> TRUE, b |-> b, i |-> 0, j |-> j]
          ELSE IF j + n > MaxCap THEN [ok |-> FALSE, b |-> b, i |-> 0, j |-> j]
          ELSE [ok |-> TRUE, b |-> Resize(b, Grown(Len(buf), j + n)), i |-> 0, j |-> j]

Bytes == SubSeq(buf, r + 1, w)

\* Write: the next n bytes of the stream, behind the write position.
Write(space, n) ==
  [k \in DOMAIN space.b |->
     IF k \in (space.j + 1)..(space.j + n) THEN arrived + k - space.j ELSE space.b[k]]

\* One read of the socket or of a WebSocket message, written to the buffer.
ReadChunk(n) ==
  /\ readErr = "none" /\ arrived + n <= Wire
  /\ LET space == EnsureSpace(n) IN
       /\ r' = space.i
       /\ IF space.ok
          THEN /\ buf' = Write(space, n)
               /\ w' = space.j + n /\ arrived' = arrived + n /\ UNCHANGED readErr
          ELSE /\ buf' = space.b /\ w' = space.j
               /\ readErr' = "overflow" /\ UNCHANGED arrived
  /\ UNCHANGED <<sentFrames, decoded>>

-----------------------------------------------------------------------------
(* processReadBuffer: one action per pass of its loop.                     *)

\* The frame whose header the first bytes are (0: bytes of no header).
FrameAt(bytes) ==
  LET starts == {k \in 1..Len(sentFrames) : bytes[1] = Offset(k - 1) + 1}
  IN IF starts = {} THEN 0 ELSE Min(starts)

\* DecodeMessageFrameWithLimit has all of the frame.
Complete(bytes, f) == Len(bytes) >= sentFrames[f].size

HasHeader == readErr = "none" /\ Len(Bytes) >= HeaderLen
TooLarge == HasHeader /\ FrameAt(Bytes) > 0 /\ sentFrames[FrameAt(Bytes)].size > MaxInboundSize
Decodable == HasHeader /\ FrameAt(Bytes) > 0 /\ ~TooLarge /\ Complete(Bytes, FrameAt(Bytes))

\* The layers prepareMessageFrame undoes, and when: decryption, then
\* Pipeline.Decode from the last transform to the first, by the flags.
Undone(f) == {i \in Pipeline : transforms[i] \in f.flags} \cup Encryption(f.internal)
UndoneAt(layer) == Len(transforms) + 1 - layer

\* A layer comes off if all layers around it came off before; undoing one that
\* was not put on leaves garbage.
LayersLeft(f) ==
  {k \in f.layers : k \notin Undone(f) \/ \E j \in f.layers : j > k /\ UndoneAt(j) >= UndoneAt(k)}
    \cup (Undone(f) \ f.layers)

\* ErrDecodedTooLarge of a transform that prepareMessageFrame undoes: the length
\* it decodes to is the length before it was applied.
Exceeds(f) ==
  \E i \in Undone(f) \cap Pipeline :
    MaxDecodedSize[transforms[i]] > 0 /\ f.body[i] > MaxDecodedSize[transforms[i]]

ProcessFrame ==
  /\ Decodable /\ ~Exceeds(sentFrames[FrameAt(Bytes)])
  /\ LET f == FrameAt(Bytes) IN
       /\ decoded' = Append(decoded, [frame |-> f, bytes |-> SubSeq(Bytes, 1, sentFrames[f].size),
                                      layers |-> LayersLeft(sentFrames[f])])
       /\ r' = r + sentFrames[f].size
  /\ UNCHANGED <<sentFrames, arrived, buf, w, readErr>>

\* ErrFrameTooLarge, or bytes that are no header: the loop ends and closes.
ProcessFails ==
  /\ HasHeader /\ (FrameAt(Bytes) = 0 \/ TooLarge)
  /\ readErr' = IF TooLarge THEN "too large" ELSE "garbage"
  /\ UNCHANGED <<sentFrames, arrived, buf, r, w, decoded>>

\* prepareMessageFrame fails: the loop ends and closes, the frame stays.
PrepareFails ==
  /\ Decodable /\ Exceeds(sentFrames[FrameAt(Bytes)])
  /\ readErr' = "decoded too large"
  /\ UNCHANGED <<sentFrames, arrived, buf, r, w, decoded>>

StreamNext ==
  \/ \E body \in Bodies, internal \in BOOLEAN : SendFrame(body, internal)
  \* The next read comes when the loop has found half a frame.
  \/ ~Decodable /\ ~TooLarge /\ \E n \in 1..ChunkSize : ReadChunk(n)
  \/ ProcessFrame \/ ProcessFails \/ PrepareFails

StreamSpec == StreamInit /\ [][StreamNext]_streamVars

-----------------------------------------------------------------------------
\* However the stream is cut into chunks, the handler gets the frames in order,
\* each once, with exactly its bytes and free of the layers sendFrame put on it,
\* and the buffer holds what has arrived beyond them.
FramesIntact ==
  /\ \A k \in 1..Len(decoded) :
       /\ decoded[k].frame = k
       /\ decoded[k].bytes = [i \in 1..sentFrames[k].size |-> Offset(k - 1) + i]
       /\ decoded[k].layers = {}
  /\ Bytes = [i \in 1..(arrived - Offset(Len(decoded))) |-> Offset(Len(decoded)) + i]

\* A connection is closed for its data only where a limit says so, and for the
\* frame the limit is about: the next one is larger than MaxInboundSize, and is
\* refused by its header before it could overflow the buffer, or it decodes to
\* more than MaxDecodedSize.  For a frame within both limits there is always room:
\* half of it and one more chunk fit in the buffer (processReadBuffer's comment).
LegalFits ==
  LET next == Len(decoded) + 1 IN
  /\ readErr \notin {"overflow", "garbage"}
  /\ readErr # "none" => next <= Len(sentFrames)
  /\ readErr = "too large" => sentFrames[next].size > MaxInboundSize
  /\ readErr = "decoded too large" => Exceeds(sentFrames[next])

=============================================================================
