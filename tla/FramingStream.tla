--------------------------- MODULE FramingStream ---------------------------
(***************************************************************************)
(* lib/streams/framingStream.js: cuts the chunks of bytes a transport      *)
(* delivers, of whatever sizes, into frames.  A byte is named by its       *)
(* offset in the stream of bytes the peer sent, frame i being the bytes    *)
(* Start[i] .. Start[i + 1] - 1, so what a copy gets wrong shows.  An      *)
(* action is one turn of the loop of _transform().                         *)
(*                                                                         *)
(* HoldsMoreThanFrame, LengthPartByByte and ResetKeepsPosition are faulty  *)
(* variants of the definitions they stand next to.  No action uses them:   *)
(* they are there to show which property such a mistake would break (see   *)
(* README.md).                                                             *)
(***************************************************************************)
EXTENDS Integers, Sequences

CONSTANT Starts    \* the streams of bytes a peer may send: Starts[s][i] is the
                   \* offset of the first byte of frame i of stream s

(* A frame holds its header at least (FRAME_HEADER_LENGTH).                *)
HeaderLength == 12

ASSUME StartOK ==
  /\ Starts \in Seq(Seq(Nat))
  /\ \A s \in DOMAIN Starts :
       /\ Starts[s] # <<>> /\ Starts[s][1] = 0
       /\ \A i, j \in DOMAIN Starts[s] : i < j => Starts[s][i] + HeaderLength <= Starts[s][j]

Junk == -1    \* a byte of memory that nobody has written

VARIABLES
  stream,       \* which of the streams the peer sends
  first,        \* offset of the first byte of the chunk
  length,       \* chunk.length
  pos,          \* the reading position in the chunk
  buffer,       \* _buffer, as a function of the index; null is <<>>
  frameLength,  \* _frameLength
  wpos,         \* _pos, the writing position in the buffer
  pushed        \* the frames pushed, in order

vars == <<stream, first, length, pos, buffer, frameLength, wpos, pushed>>

Start == Starts[stream]
N == Len(Start) - 1    \* the number of its frames
Total == Start[N+1]

null == <<>>
chunkLen == length - pos
Least(a, b) == IF a < b THEN a ELSE b

(* chunk.slice(from, to)                                                   *)
Slice(from, to) == [k \in 0..(to - from - 1) |-> first + from + k]

(* new Buffer(n) is not cleared.                                           *)
NewBuffer(n) == [k \in 0..(n - 1) |-> Junk]

(* source.copy(target, at, from, to); what does not fit is dropped.        *)
Copy(source, target, at, from, to) ==
  [k \in DOMAIN target |->
     IF at <= k /\ k < at + (to - from) THEN source[from + k - at] ELSE target[k]]

(* chunk.copy(target, at, from, to)                                        *)
CopyChunk(target, at, from, to) == Copy(Slice(0, length), target, at, from, to)

(* readUInt32BE() of the bytes b, b + 1, b + 2, b + 3: the length field of *)
(* a frame, when they are that; anything else is not a length.             *)
LengthField(b) ==
  IF \E i \in 1..N : \A k \in 0..3 : b[k] = Start[i] + k
  THEN LET i == CHOOSE i \in 1..N : b[0] = Start[i] IN Start[i+1] - Start[i]
  ELSE 0

Looping == pos < length

(* The next chunk arrives when the last one is done with.                  *)
Arrive(n) ==
  /\ ~Looping
  /\ first + length + n <= Total
  /\ first' = first + length
  /\ length' = n
  /\ pos' = 0
  /\ UNCHANGED <<stream, buffer, frameLength, wpos, pushed>>

EnoughForLength == chunkLen > 4
HoldsMoreThanFrame(msgLen) == chunkLen > msgLen
HoldsFrame(msgLen) == chunkLen >= msgLen

(* The chunk holds all of the next frame.                                  *)
PushSlice ==
  LET msgLen == LengthField(Slice(pos, pos + 4))
  IN /\ Looping /\ buffer = null /\ EnoughForLength
     /\ HoldsFrame(msgLen)
     /\ pushed' = Append(pushed, Slice(pos, pos + msgLen))
     /\ pos' = pos + msgLen
     /\ UNCHANGED <<stream, first, length, buffer, frameLength, wpos>>

(* The chunk holds the first part of it.                                   *)
StartFrame ==
  LET msgLen == LengthField(Slice(pos, pos + 4))
  IN /\ Looping /\ buffer = null /\ EnoughForLength
     /\ ~HoldsFrame(msgLen)
     /\ buffer' = CopyChunk(NewBuffer(msgLen), 0, pos, length)
     /\ frameLength' = msgLen
     /\ wpos' = chunkLen
     /\ pos' = pos + chunkLen
     /\ UNCHANGED <<stream, first, length, pushed>>

(* It holds no more than the length field.                                 *)
StartLength ==
  /\ Looping /\ buffer = null /\ ~EnoughForLength
  /\ buffer' = CopyChunk(NewBuffer(4), 0, pos, length)
  /\ wpos' = chunkLen
  /\ pos' = pos + chunkLen
  /\ UNCHANGED <<stream, first, length, frameLength, pushed>>

(* More of the length field: the copy starts at the chunk's first byte.    *)
LengthPartByByte == IF wpos < 4 THEN 1 ELSE 0
LengthPart == Least(4 - wpos, chunkLen)

FillLength ==
  LET filled == CopyChunk(buffer, wpos, 0, LengthPart)
      msgLen == LengthField(filled)
  IN /\ Looping /\ buffer # null /\ frameLength = 0
     /\ pos' = pos + LengthPart
     /\ wpos' = wpos + LengthPart
     /\ IF wpos' = 4
        THEN /\ buffer' = Copy(filled, NewBuffer(msgLen), 0, 0, 4)
             /\ frameLength' = msgLen
        ELSE buffer' = filled /\ UNCHANGED frameLength
     /\ UNCHANGED <<stream, first, length, pushed>>

(* More of the frame.  The last byte of it resets the stream's state.      *)
FramePart == Least(frameLength - wpos, chunkLen)

ResetKeepsPosition ==
  /\ buffer' = null
  /\ frameLength' = 0
  /\ UNCHANGED wpos

Reset ==
  /\ buffer' = null
  /\ frameLength' = 0
  /\ wpos' = 0

FillFrame ==
  LET filled == CopyChunk(buffer, wpos, pos, pos + FramePart)
  IN /\ Looping /\ buffer # null /\ frameLength # 0
     /\ pos' = pos + FramePart
     /\ IF wpos + FramePart = frameLength
        THEN pushed' = Append(pushed, filled) /\ Reset
        ELSE /\ buffer' = filled
             /\ wpos' = wpos + FramePart
             /\ UNCHANGED <<frameLength, pushed>>
     /\ UNCHANGED <<stream, first, length>>

Init ==
  /\ stream \in DOMAIN Starts
  /\ first = 0 /\ length = 0 /\ pos = 0
  /\ buffer = null /\ frameLength = 0 /\ wpos = 0
  /\ pushed = <<>>

Iterate == PushSlice \/ StartFrame \/ StartLength \/ FillLength \/ FillFrame

Next == (\E n \in 1..Total : Arrive(n)) \/ Iterate

Spec == Init /\ [][Next]_vars

-----------------------------------------------------------------------------
(* Properties                                                              *)

FrameBytes(i) == [k \in 0..(Start[i+1] - Start[i] - 1) |-> Start[i] + k]
Bytes == 0..(Total - 1) \cup {Junk}
Buffers(n) == [0..(n - 1) -> Bytes]

TypeOK ==
  /\ stream \in DOMAIN Starts
  /\ first \in Nat /\ length \in Nat /\ pos \in 0..length
  /\ first + length <= Total
  /\ \/ buffer = null /\ frameLength = 0 /\ wpos = 0
     \/ buffer \in Buffers(4) /\ frameLength = 0 /\ wpos \in 1..4
     \/ buffer \in Buffers(frameLength) /\ frameLength >= HeaderLength
        /\ wpos \in 4..(frameLength - 1)
  /\ \A i \in DOMAIN pushed : \E n \in HeaderLength..Total : pushed[i] \in Buffers(n)

(* What is pushed is the frames the peer sent, byte for byte, none lost,   *)
(* repeated or out of order, however the stream was cut into chunks.       *)
FramesIntact ==
  /\ Len(pushed) <= N
  /\ \A i \in 1..Len(pushed) : pushed[i] = FrameBytes(i)

(* The assertion in the branch that completes a length field: it reads the *)
(* chunk from its first byte, so it must not have read any of it before.   *)
AssertHolds == buffer # null /\ frameLength = 0 /\ Looping => pos = 0
=============================================================================
