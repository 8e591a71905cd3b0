------------------------ MODULE FramingStreamProofs ------------------------
(***************************************************************************)
(* Theorems about module FramingStream: for all streams of frames, of      *)
(* whatever lengths, and all ways to cut their bytes into chunks.          *)
(***************************************************************************)
EXTENDS ParseStream, FiniteSetTheorems, TLAPS

-----------------------------------------------------------------------------
(* The inductive invariant                                                 *)

(* A buffer of n bytes, the first w of which are those from offset at on.  *)
FilledBuffer(n, w, at) == [k \in 0..(n - 1) |-> IF k < w THEN at + k ELSE Junk]

(* The frame that is read now.                                             *)
Current == Len(pushed) + 1

(* Nothing of it is held, its length field in part, or all of that and     *)
(* some of the rest.  A chunk that comes while the length field is held in *)
(* part is read from its first byte on, or it is read to its end.          *)
Holds ==
  \/ buffer = null /\ frameLength = 0 /\ wpos = 0
  \/ /\ frameLength = 0 /\ wpos \in 1..4 /\ Current <= N
     /\ buffer = FilledBuffer(4, wpos, Start[Current])
     /\ pos = 0 \/ pos = length
  \/ /\ frameLength = Start[Current + 1] - Start[Current] /\ Current <= N
     /\ wpos \in 4..(frameLength - 1)
     /\ buffer = FilledBuffer(frameLength, wpos, Start[Current])

Cursor ==
  /\ first \in Nat /\ length \in Nat /\ pos \in 0..length
  /\ first + length <= Total

(* What was read of the stream is the frames pushed and what is held of    *)
(* the current one.                                                        *)
Inv ==
  /\ stream \in DOMAIN Starts
  /\ Cursor
  /\ pushed \in Seq({FrameBytes(i) : i \in 1..N})
  /\ FramesIntact
  /\ first + pos = Start[Current] + wpos
  /\ Holds

-----------------------------------------------------------------------------
(* The offsets of the frames                                               *)

LEMMA StartFacts ==
  ASSUME stream \in DOMAIN Starts
  PROVE  /\ N \in Nat /\ Total \in Nat /\ Start[1] = 0
         /\ \A i \in 1..(N+1) : Start[i] \in Nat /\ Start[i] <= Total
         /\ \A i, j \in 1..(N+1) : i < j => Start[i] + HeaderLength <= Start[j]
         /\ \A i \in 1..(N+1) : Start[i] < Total => i <= N
<1>1. Start \in Seq(Nat) /\ Start # <<>>
  BY StartOK DEF Start
<1>2. Len(Start) \in Nat \ {0} /\ DOMAIN Start = 1..Len(Start)
  BY <1>1
<1>3. N \in Nat /\ N + 1 = Len(Start)
  BY <1>2 DEF N
<1>4. \A i \in 1..(N+1) : Start[i] \in Nat
  BY <1>1, <1>2, <1>3
<1>5. \A i, j \in 1..(N+1) : i < j => Start[i] + HeaderLength <= Start[j]
  BY <1>2, <1>3, StartOK DEF Start
<1>6. Total \in Nat /\ N + 1 \in 1..(N+1)
  BY <1>3, <1>4 DEF Total
<1>7. \A i \in 1..(N+1) : Start[i] <= Total
  BY <1>3, <1>4, <1>5, <1>6 DEF Total, HeaderLength
<1>8. \A i \in 1..(N+1) : Start[i] < Total => i <= N
  BY <1>3, <1>4 DEF Total
<1>9. Start[1] = 0
  BY StartOK DEF Start
<1>10. QED  BY <1>3, <1>4, <1>5, <1>6, <1>7, <1>8, <1>9

(* Four bytes from the start of a frame on are read as its length.         *)
LEMMA LengthKnown ==
  ASSUME stream \in DOMAIN Starts, NEW i \in 1..N, NEW b,
         \A k \in 0..3 : b[k] = Start[i] + k
  PROVE  LengthField(b) = Start[i+1] - Start[i]
<1>1. \A j \in 1..N : Start[j] = Start[i] => j = i
  BY StartFacts DEF HeaderLength
<1>2. b[0] = Start[i]
  BY StartFacts
<1>3. (CHOOSE j \in 1..N : b[0] = Start[j]) = i
  BY <1>1, <1>2
<1>4. \E j \in 1..N : \A k \in 0..3 : b[k] = Start[j] + k
  OBVIOUS
<1>5. QED  BY <1>3, <1>4 DEF LengthField

(* The frame after those that were pushed.                                 *)
LEMMA CurrentFacts ==
  ASSUME Inv
  PROVE  /\ Len(pushed) \in Nat /\ Current \in 1..(N+1) /\ Start[Current] \in Nat
         /\ Current <= N => /\ Current \in 1..N /\ Start[Current + 1] \in Nat
                            /\ Start[Current] + HeaderLength <= Start[Current + 1]
                            /\ Start[Current + 1] <= Total
<1>1. Len(pushed) \in Nat
  BY DEF Inv
<1>2. Len(pushed) <= N /\ N \in Nat
  BY StartFacts DEF Inv, FramesIntact
<1>3. Current \in 1..(N+1)
  BY <1>1, <1>2 DEF Current
<1>4. Current <= N => Current \in 1..N /\ Current + 1 \in 1..(N+1) /\ Current < Current + 1
  BY <1>2, <1>3
<1>5. stream \in DOMAIN Starts
  BY DEF Inv
<1>6. QED  BY <1>1, <1>3, <1>4, <1>5, StartFacts

LEMMA BufferNotNull ==
  ASSUME NEW n \in Nat \ {0}, NEW w, NEW at
  PROVE  FilledBuffer(n, w, at) # null
<1>1. 0 \in DOMAIN FilledBuffer(n, w, at)
  BY DEF FilledBuffer
<1>2. DOMAIN null = {}
  BY DEF null
<1>3. QED  BY <1>1, <1>2

-----------------------------------------------------------------------------
(* What the copies of a turn make                                          *)

(* A slice of the chunk from the start of a frame on.                      *)
LEMMA SliceAt ==
  ASSUME NEW n \in Nat, NEW at \in Nat, first \in Nat, pos \in Nat, first + pos = at
  PROVE  Slice(pos, pos + n) = FilledBuffer(n, n, at)
<1>1. pos + n - pos - 1 = n - 1
  OBVIOUS
<1>2. ASSUME NEW k \in 0..(n - 1)
      PROVE  first + pos + k = IF k < n THEN at + k ELSE Junk
  <2>1. k < n /\ first + pos + k = at + k
    OBVIOUS
  <2>2. QED  BY <2>1
<1>3. Slice(pos, pos + n) = [k \in 0..(n - 1) |-> first + pos + k]
  BY <1>1 DEF Slice
<1>4. QED  BY <1>2, <1>3 DEF FilledBuffer

(* More of the chunk, from offset from on, is copied behind what is held.  *)
LEMMA CopyMore ==
  ASSUME first \in Nat, length \in Nat,
         NEW n \in Nat, NEW w \in Nat, NEW at \in Nat, NEW from \in Nat, NEW to \in Nat,
         NEW next \in Nat,
         first + from = at + w, from <= to, to <= length, next = w + (to - from), next <= n
  PROVE  CopyChunk(FilledBuffer(n, w, at), w, from, to) = FilledBuffer(n, next, at)
<1> DEFINE chunk == Slice(0, length)
           old == FilledBuffer(n, w, at)
           new == Copy(chunk, old, w, from, to)
<1>1. \A j \in 0..(length - 1) : chunk[j] = first + j
  BY DEF Slice
<1>2. DOMAIN old = 0..(n - 1)
  BY DEF FilledBuffer
<1>3. ASSUME NEW k \in 0..(n - 1)
      PROVE  (IF w <= k /\ k < w + (to - from) THEN chunk[from + k - w] ELSE old[k])
               = IF k < next THEN at + k ELSE Junk
  <2>1. CASE w <= k /\ k < next
    <3>1. from + k - w \in 0..(length - 1)
      BY <2>1
    <3>2. chunk[from + k - w] = first + (from + k - w)
      BY <1>1, <3>1
    <3> HIDE DEF chunk, old
    <3>3. chunk[from + k - w] = at + k
      BY <3>2
    <3>4. QED  BY <2>1, <3>3
  <2>2. CASE ~(w <= k /\ k < next)
    <3>1. old[k] = IF k < w THEN at + k ELSE Junk
      BY DEF FilledBuffer
    <3> HIDE DEF chunk, old
    <3>2. QED  BY <2>2, <3>1
  <2>3. QED  BY <2>1, <2>2
<1>4. new = [k \in 0..(n - 1) |-> IF k < next THEN at + k ELSE Junk]
  <2> HIDE DEF chunk, old
  <2>1. new = [k \in DOMAIN old |-> IF w <= k /\ k < w + (to - from)
                                    THEN chunk[from + k - w] ELSE old[k]]
    BY DEF Copy
  <2> HIDE DEF new
  <2>2. QED  BY <1>2, <1>3, <2>1
<1>5. QED  BY <1>4 DEF CopyChunk, FilledBuffer

(* A buffer that nothing is held in.                                       *)
LEMMA NothingHeld ==
  ASSUME NEW n \in Nat, NEW at \in Nat
  PROVE  NewBuffer(n) = FilledBuffer(n, 0, at)
BY DEF NewBuffer, FilledBuffer

(* The length field is copied into the buffer of a frame.                  *)
LEMMA CopyLength ==
  ASSUME NEW n \in Nat, n >= 4, NEW at \in Nat
  PROVE  Copy(FilledBuffer(4, 4, at), NewBuffer(n), 0, 0, 4) = FilledBuffer(n, 4, at)
BY DEF Copy, NewBuffer, FilledBuffer

LEMMA FrameIsFilled ==
  ASSUME Inv, Current <= N
  PROVE  LET n == Start[Current + 1] - Start[Current]
         IN FrameBytes(Current) = FilledBuffer(n, n, Start[Current])
BY CurrentFacts DEF FrameBytes, FilledBuffer

-----------------------------------------------------------------------------
(* The steps                                                               *)

LEMMA InvInit == Init => Inv
<1> SUFFICES ASSUME Init PROVE Inv
  OBVIOUS
<1>1. stream \in DOMAIN Starts /\ first = 0 /\ length = 0 /\ pos = 0 /\ wpos = 0
      /\ buffer = null /\ frameLength = 0 /\ pushed = <<>>
  BY DEF Init
<1>2. N \in Nat /\ Start[1] = 0 /\ Total \in Nat
  BY <1>1, StartFacts
<1>3. Len(pushed) = 0 /\ Current = 1 /\ pushed \in Seq({FrameBytes(i) : i \in 1..N})
  BY <1>1 DEF Current
<1>4. QED  BY <1>1, <1>2, <1>3 DEF Inv, Cursor, FramesIntact, Holds

(* The streams stay, and so does what is defined from them.                *)
LEMMA StreamStays ==
  ASSUME UNCHANGED stream
  PROVE  /\ Start' = Start /\ N' = N /\ Total' = Total
         /\ \A i : FrameBytes(i)' = FrameBytes(i)
BY DEF Start, N, Total, FrameBytes

(* A step that pushes nothing.                                             *)
LEMMA NothingPushed ==
  ASSUME Inv, UNCHANGED <<stream, pushed>>, Cursor',
         first' + pos' = Start[Current] + wpos',
         \/ buffer' = null /\ frameLength' = 0 /\ wpos' = 0
         \/ /\ frameLength' = 0 /\ wpos' \in 1..4 /\ Current <= N
            /\ buffer' = FilledBuffer(4, wpos', Start[Current])
            /\ pos' = 0 \/ pos' = length'
         \/ /\ frameLength' = Start[Current + 1] - Start[Current] /\ Current <= N
            /\ wpos' \in 4..(frameLength' - 1)
            /\ buffer' = FilledBuffer(frameLength', wpos', Start[Current])
  PROVE  Inv'
<1>1. Start' = Start /\ N' = N /\ \A i : FrameBytes(i)' = FrameBytes(i)
  BY StreamStays
<1>2. Current' = Current
  BY DEF Current
<1>3. FramesIntact' /\ (pushed \in Seq({FrameBytes(i) : i \in 1..N}))'
  BY <1>1 DEF Inv, FramesIntact
<1>4. Holds'
  BY <1>1, <1>2 DEF Holds
<1>5. QED  BY <1>1, <1>2, <1>3, <1>4 DEF Inv

(* A step that pushes the current frame and holds nothing of the next.     *)
LEMMA FramePushed ==
  ASSUME Inv, UNCHANGED stream, Cursor', Current <= N,
         pushed' = Append(pushed, FrameBytes(Current)),
         first' + pos' = Start[Current + 1],
         buffer' = null, frameLength' = 0, wpos' = 0
  PROVE  Inv'
<1>1. Start' = Start /\ N' = N /\ \A i : FrameBytes(i)' = FrameBytes(i)
  BY StreamStays
<1>2. Current \in 1..N /\ Len(pushed) \in Nat /\ N \in Nat /\ Current = Len(pushed) + 1
      /\ Start[Current + 1] \in Nat
  BY CurrentFacts, StartFacts DEF Inv, Current
<1>3. pushed' \in Seq({FrameBytes(i) : i \in 1..N}) /\ Len(pushed') = Current
  BY <1>2 DEF Inv
<1>4. Current' = Current + 1
  BY <1>2, <1>3 DEF Current
<1>5. \A i \in 1..Len(pushed') : pushed'[i] = FrameBytes(i)
  <2>1. TAKE i \in 1..Len(pushed')
  <2>2. CASE i = Current
    BY <1>2, <1>3, <2>2 DEF Inv
  <2>3. CASE i # Current
    BY <1>2, <1>3, <2>3 DEF Inv, FramesIntact
  <2>4. QED  BY <2>2, <2>3
<1>6. FramesIntact'
  BY <1>1, <1>2, <1>3, <1>5 DEF FramesIntact
<1>7. first' + pos' = Start'[Current'] + wpos'
  BY <1>1, <1>2, <1>4
<1>8. QED  BY <1>1, <1>3, <1>6, <1>7 DEF Inv, Holds

(* While the chunk is not read to its end, there is a frame to read.       *)
LEMMA LoopingFacts ==
  ASSUME Inv, Looping, wpos \in Nat
  PROVE  Current <= N
<1>1. first + pos < Total
  BY StartFacts DEF Inv, Cursor, Looping
<1>2. Start[Current] < Total
  BY <1>1, CurrentFacts, StartFacts DEF Inv, Cursor
<1>3. QED  BY <1>2, CurrentFacts, StartFacts DEF Inv

LEMMA ArriveKeeps == ASSUME Inv, NEW n \in 1..Total, Arrive(n) PROVE Inv'
<1>1. Total \in Nat /\ Cursor /\ Total' = Total
  BY StartFacts, StreamStays DEF Inv, Arrive
<1>2. pos = length
  BY <1>1 DEF Arrive, Looping, Cursor
<1>3. Cursor'
  BY <1>1 DEF Arrive, Cursor
<1>4. first' + pos' = first + pos
  BY <1>1, <1>2 DEF Arrive, Cursor
<1>5. pos' = 0 /\ UNCHANGED <<stream, buffer, frameLength, wpos, pushed>>
  BY DEF Arrive
<1>6. QED  BY <1>3, <1>4, <1>5, NothingPushed DEF Inv, Holds

LEMMA NullHolds == ASSUME Inv, buffer = null PROVE wpos = 0 /\ frameLength = 0
<1>1. ASSUME NEW n \in Nat \ {0}, buffer = FilledBuffer(n, wpos, Start[Current])
      PROVE  FALSE
  BY <1>1, BufferNotNull
<1>2. ASSUME Current <= N, frameLength = Start[Current + 1] - Start[Current]
      PROVE  frameLength \in Nat \ {0}
  BY <1>2, CurrentFacts DEF HeaderLength
<1>3. QED  BY <1>1, <1>2 DEF Inv, Holds

(* The length field of the current frame, read from the chunk.             *)
LEMMA LengthRead ==
  ASSUME Inv, Looping, buffer = null
  PROVE  /\ Current <= N /\ first + pos = Start[Current] /\ wpos = 0 /\ frameLength = 0
         /\ LengthField(Slice(pos, pos + 4)) = Start[Current + 1] - Start[Current]
<1>1. wpos = 0 /\ frameLength = 0
  BY NullHolds
<1>2. Current <= N
  BY <1>1, LoopingFacts
<1>3. first + pos = Start[Current] /\ first \in Nat /\ pos \in Nat
  BY <1>1, CurrentFacts DEF Inv, Cursor
<1>4. \A k \in 0..3 : Slice(pos, pos + 4)[k] = Start[Current] + k
  BY <1>3 DEF Slice
<1>5. Current \in 1..N /\ stream \in DOMAIN Starts
  BY <1>2, CurrentFacts DEF Inv
<1>6. QED  BY <1>1, <1>2, <1>3, <1>4, <1>5, LengthKnown

LEMMA PushSliceKeeps == ASSUME Inv, PushSlice PROVE Inv'
<1> DEFINE n == Start[Current + 1] - Start[Current]
<1>1. /\ Looping /\ buffer = null
      /\ HoldsFrame(LengthField(Slice(pos, pos + 4)))
      /\ pushed' = Append(pushed, Slice(pos, pos + LengthField(Slice(pos, pos + 4))))
      /\ pos' = pos + LengthField(Slice(pos, pos + 4))
      /\ UNCHANGED <<stream, first, length, buffer, frameLength, wpos>>
  BY DEF PushSlice
<1>2. /\ Current <= N /\ first + pos = Start[Current] /\ wpos = 0 /\ frameLength = 0
      /\ LengthField(Slice(pos, pos + 4)) = n
  BY <1>1, LengthRead
<1>3. n \in Nat /\ Start[Current] \in Nat /\ Start[Current + 1] = Start[Current] + n
  BY <1>2, CurrentFacts DEF HeaderLength
<1>4. first \in Nat /\ length \in Nat /\ pos \in Nat
  BY DEF Inv, Cursor
<1>5. Slice(pos, pos + n) = FrameBytes(Current)
  BY <1>2, <1>3, <1>4, SliceAt, FrameIsFilled
<1>6. pos' = pos + n /\ pos + n <= length
  <2> HIDE DEF n
  <2>1. length - pos >= n
    BY <1>1, <1>2 DEF HoldsFrame, chunkLen
  <2>2. QED  BY <1>1, <1>2, <1>3, <1>4, <2>1
<1> HIDE DEF n
<1>7. Cursor'
  BY <1>1, <1>3, <1>4, <1>6, StreamStays DEF Inv, Cursor
<1>8. first' + pos' = Start[Current + 1]
  BY <1>1, <1>2, <1>3, <1>4, <1>6
<1>9. QED  BY <1>1, <1>2, <1>5, <1>7, <1>8, FramePushed

LEMMA StartFrameKeeps == ASSUME Inv, StartFrame PROVE Inv'
<1> DEFINE n == Start[Current + 1] - Start[Current]
<1>1. /\ Looping /\ buffer = null /\ EnoughForLength
      /\ ~HoldsFrame(LengthField(Slice(pos, pos + 4)))
      /\ buffer' = CopyChunk(NewBuffer(LengthField(Slice(pos, pos + 4))), 0, pos, length)
      /\ frameLength' = LengthField(Slice(pos, pos + 4))
      /\ wpos' = chunkLen
      /\ pos' = pos + chunkLen
      /\ UNCHANGED <<stream, first, length, pushed>>
  BY DEF StartFrame
<1>2. /\ Current <= N /\ first + pos = Start[Current]
      /\ LengthField(Slice(pos, pos + 4)) = n
  BY <1>1, LengthRead
<1>3. n \in Nat /\ Start[Current] \in Nat
  BY <1>2, CurrentFacts DEF HeaderLength
<1>4. first \in Nat /\ length \in Nat /\ pos \in Nat
  BY DEF Inv, Cursor
<1> DEFINE w == length - pos
<1>5. w \in Nat /\ w > 4 /\ w < n /\ length = pos + w
  <2> HIDE DEF n
  <2>1. length - pos > 4 /\ ~(length - pos >= n)
    BY <1>1, <1>2 DEF EnoughForLength, HoldsFrame, chunkLen
  <2>2. QED  BY <1>3, <1>4, <2>1
<1>6. frameLength' = n /\ wpos' = w /\ pos' = length
  BY <1>1, <1>2, <1>4 DEF chunkLen
<1>7. buffer' = FilledBuffer(n, w, Start[Current])
  <2> HIDE DEF n, w
  <2>1. buffer' = CopyChunk(FilledBuffer(n, 0, Start[Current]), 0, pos, length)
    BY <1>1, <1>2, <1>3, NothingHeld
  <2>2. /\ first + pos = Start[Current] + 0 /\ pos <= length /\ w <= n
        /\ 0 \in Nat /\ w \in Nat /\ n \in Nat /\ w = 0 + (length - pos)
    BY <1>2, <1>3, <1>4, <1>5
  <2>3. QED  BY <1>3, <1>4, <2>1, <2>2, CopyMore
<1>8. Cursor'
  BY <1>1, <1>4, <1>6, StreamStays DEF Inv, Cursor
<1>9. first' + pos' = Start[Current] + wpos'
  BY <1>1, <1>2, <1>4, <1>6
<1>10. wpos' \in 4..(frameLength' - 1)
  <2> HIDE DEF n, w
  <2>1. QED  BY <1>3, <1>5, <1>6
<1>11. QED  BY <1>1, <1>2, <1>6, <1>7, <1>8, <1>9, <1>10, NothingPushed

LEMMA StartLengthKeeps == ASSUME Inv, StartLength PROVE Inv'
<1> DEFINE w == length - pos
<1>1. /\ Looping /\ buffer = null /\ ~EnoughForLength
      /\ buffer' = CopyChunk(NewBuffer(4), 0, pos, length)
      /\ wpos' = chunkLen
      /\ pos' = pos + chunkLen
      /\ UNCHANGED <<stream, first, length, frameLength, pushed>>
  BY DEF StartLength
<1>2. Current <= N /\ first + pos = Start[Current] /\ frameLength = 0
  BY <1>1, LengthRead
<1>3. Start[Current] \in Nat
  BY CurrentFacts
<1>4. first \in Nat /\ length \in Nat /\ pos \in Nat
  BY DEF Inv, Cursor
<1>5. w \in 1..4 /\ length = pos + w
  BY <1>1, <1>4 DEF EnoughForLength, chunkLen, Looping
<1>6. wpos' = w /\ pos' = length
  BY <1>1, <1>4 DEF chunkLen
<1>7. buffer' = FilledBuffer(4, w, Start[Current])
  <2> HIDE DEF w
  <2>1. buffer' = CopyChunk(FilledBuffer(4, 0, Start[Current]), 0, pos, length)
    BY <1>1, <1>3, NothingHeld
  <2>2. /\ first + pos = Start[Current] + 0 /\ pos <= length /\ w <= 4
        /\ 0 \in Nat /\ w \in Nat /\ 4 \in Nat /\ w = 0 + (length - pos)
    BY <1>2, <1>3, <1>4, <1>5
  <2>3. QED  BY <1>3, <1>4, <2>1, <2>2, CopyMore
<1>8. Cursor'
  BY <1>1, <1>4, <1>6, StreamStays DEF Inv, Cursor
<1>9. first' + pos' = Start[Current] + wpos'
  BY <1>1, <1>2, <1>4, <1>6
<1> HIDE DEF w
<1>10. QED  BY <1>1, <1>2, <1>5, <1>6, <1>7, <1>8, <1>9, NothingPushed

LEMMA FillLengthKeeps == ASSUME Inv, FillLength PROVE Inv'
<1> DEFINE m == LengthPart
           at == Start[Current]
           n == Start[Current + 1] - Start[Current]
           filled == CopyChunk(buffer, wpos, 0, LengthPart)
<1>1. /\ Looping /\ buffer # null /\ frameLength = 0
      /\ pos' = pos + m /\ wpos' = wpos + m
      /\ IF wpos' = 4
         THEN /\ buffer' = Copy(filled, NewBuffer(LengthField(filled)), 0, 0, 4)
              /\ frameLength' = LengthField(filled)
         ELSE buffer' = filled /\ UNCHANGED frameLength
      /\ UNCHANGED <<stream, first, length, pushed>>
  BY DEF FillLength
<1>2. /\ first \in Nat /\ length \in Nat /\ pos \in Nat /\ pos < length
      /\ first + length <= Total
  BY <1>1 DEF Inv, Cursor, Looping
<1>3. /\ wpos \in 1..4 /\ Current <= N /\ buffer = FilledBuffer(4, wpos, at)
      /\ pos = 0 \/ pos = length
  <2>1. Current <= N => n # 0
    BY CurrentFacts DEF HeaderLength
  <2> HIDE DEF n
  <2>2. QED  BY <1>1, <2>1 DEF Inv, Holds, n
<1>4. pos = 0
  BY <1>2, <1>3
<1>5. /\ at \in Nat /\ n \in Nat /\ n >= HeaderLength /\ Current \in 1..N
      /\ stream \in DOMAIN Starts
  BY <1>3, CurrentFacts DEF HeaderLength, Inv
<1>6. first + pos = at + wpos
  BY DEF Inv
<1>7. m \in Nat /\ m <= length /\ wpos + m \in 1..4 /\ (wpos + m = 4 \/ m = length)
  BY <1>2, <1>3, <1>4 DEF LengthPart, Least, chunkLen
<1>8. filled = FilledBuffer(4, wpos + m, at)
  <2> HIDE DEF m, at, n
  <2>1. filled = CopyChunk(FilledBuffer(4, wpos, at), wpos, 0, m)
    BY <1>3 DEF m
  <2>2. /\ first + 0 = at + wpos /\ 0 <= m /\ wpos + m = wpos + (m - 0) /\ wpos + m <= 4
        /\ wpos + m \in Nat /\ wpos \in Nat /\ 0 \in Nat /\ 4 \in Nat
    BY <1>2, <1>3, <1>4, <1>6, <1>7
  <2> HIDE DEF filled
  <2>3. QED  BY <1>2, <1>5, <1>7, <2>1, <2>2, CopyMore
<1> HIDE DEF m, at, n, filled
<1>9. first' + pos' = at + wpos' /\ Cursor'
  <2>1. Total' = Total
    BY <1>1, StreamStays
  <2>2. QED  BY <1>1, <1>2, <1>3, <1>4, <1>5, <1>6, <1>7, <2>1 DEF Cursor
<1>10. CASE wpos' = 4
  <2>1. wpos + m = 4
    BY <1>1, <1>10
  <2>2. \A k \in 0..3 : filled[k] = at + k
    BY <1>8, <2>1 DEF FilledBuffer
  <2>3. LengthField(filled) = n
    BY <1>5, <2>2, LengthKnown DEF at, n
  <2>4. buffer' = Copy(FilledBuffer(4, 4, at), NewBuffer(n), 0, 0, 4) /\ frameLength' = n
    BY <1>1, <1>8, <1>10, <2>1, <2>3
  <2>5. buffer' = FilledBuffer(n, 4, at)
    BY <1>5, <2>4, CopyLength DEF HeaderLength
  <2>6. wpos' \in 4..(frameLength' - 1)
    BY <1>5, <1>10, <2>4 DEF HeaderLength
  <2>7. QED  BY <1>1, <1>3, <1>9, <1>10, <2>4, <2>5, <2>6, NothingPushed DEF at, n
<1>11. CASE wpos' # 4
  <2>1. pos' = length' /\ wpos' \in 1..4
    BY <1>1, <1>2, <1>4, <1>7, <1>11
  <2>2. buffer' = FilledBuffer(4, wpos', at) /\ frameLength' = 0
    BY <1>1, <1>8, <1>11
  <2>3. QED  BY <1>1, <1>3, <1>9, <2>1, <2>2, NothingPushed DEF at
<1>12. QED  BY <1>10, <1>11

LEMMA FillFrameKeeps == ASSUME Inv, FillFrame PROVE Inv'
<1> DEFINE m == FramePart
           at == Start[Current]
           n == frameLength
           filled == CopyChunk(buffer, wpos, pos, pos + FramePart)
<1>1. /\ Looping /\ buffer # null /\ frameLength # 0
      /\ pos' = pos + m
      /\ IF wpos + m = frameLength
         THEN /\ pushed' = Append(pushed, filled)
              /\ buffer' = null /\ frameLength' = 0 /\ wpos' = 0
         ELSE /\ buffer' = filled /\ wpos' = wpos + m
              /\ UNCHANGED <<frameLength, pushed>>
      /\ UNCHANGED <<stream, first, length>>
  BY DEF FillFrame, Reset
<1>2. /\ first \in Nat /\ length \in Nat /\ pos \in Nat /\ pos < length
      /\ first + length <= Total
  BY <1>1 DEF Inv, Cursor, Looping
<1>3. /\ n = Start[Current + 1] - at /\ Current <= N
      /\ wpos \in 4..(n - 1) /\ buffer = FilledBuffer(n, wpos, at)
  BY <1>1 DEF Inv, Holds
<1>4. at \in Nat /\ n \in Nat /\ Start[Current + 1] = at + n
  BY <1>3, CurrentFacts DEF HeaderLength
<1>5. first + pos = at + wpos
  BY DEF Inv
<1>6. m \in Nat /\ pos + m <= length /\ wpos + m \in 4..n
  BY <1>2, <1>3, <1>4 DEF FramePart, Least, chunkLen
<1>7. filled = FilledBuffer(n, wpos + m, at)
  <2> HIDE DEF m, at, n
  <2>1. filled = CopyChunk(FilledBuffer(n, wpos, at), wpos, pos, pos + m)
    BY <1>3 DEF m
  <2>2. /\ first + pos = at + wpos /\ pos <= pos + m /\ wpos + m = wpos + ((pos + m) - pos)
        /\ wpos + m <= n /\ wpos + m \in Nat /\ wpos \in Nat /\ pos + m \in Nat
    BY <1>2, <1>3, <1>4, <1>5, <1>6
  <2> HIDE DEF filled
  <2>3. QED  BY <1>2, <1>4, <1>6, <2>1, <2>2, CopyMore
<1>8. filled = FrameBytes(Current) \/ wpos + m # n
  BY <1>3, <1>7, FrameIsFilled
<1> HIDE DEF m, at, filled
<1>9. Cursor'
  <2>1. Total' = Total
    BY <1>1, StreamStays
  <2>2. QED  BY <1>1, <1>2, <1>6, <2>1 DEF Cursor
<1>10. CASE wpos + m = n
  <2>1. first' + pos' = Start[Current + 1]
    <3>1. first' = first /\ pos' = pos + m /\ wpos \in Nat
      BY <1>1, <1>3, <1>4
    <3> HIDE DEF n
    <3>2. QED  BY <1>2, <1>4, <1>5, <1>6, <1>10, <3>1
  <2>2. QED  BY <1>1, <1>3, <1>8, <1>9, <1>10, <2>1, FramePushed
<1>11. CASE wpos + m # n
  <2>1. /\ buffer' = FilledBuffer(n, wpos', at) /\ wpos' = wpos + m
        /\ frameLength' = n /\ UNCHANGED pushed
    BY <1>1, <1>7, <1>11
  <2>2. wpos' \in 4..(frameLength' - 1)
    <3> HIDE DEF n
    <3>1. wpos + m \in 4..(n - 1)
      BY <1>4, <1>6, <1>11
    <3>2. QED  BY <2>1, <3>1
  <2>3. first' + pos' = at + wpos'
    BY <1>1, <1>2, <1>3, <1>4, <1>5, <1>6, <2>1
  <2>4. QED  BY <1>1, <1>3, <1>9, <2>1, <2>2, <2>3, NothingPushed DEF at
<1>12. QED  BY <1>10, <1>11

LEMMA InvNext == Inv /\ [Next]_vars => Inv'
<1> SUFFICES ASSUME Inv, [Next]_vars PROVE Inv'
  OBVIOUS
<1>1. CASE UNCHANGED vars
  <2>1. UNCHANGED <<stream, first, length, pos, buffer, frameLength, wpos, pushed>>
    BY <1>1 DEF vars
  <2>2. Cursor'
    BY <2>1, StreamStays DEF Inv, Cursor
  <2>3. first' + pos' = Start[Current] + wpos'
    BY <2>1 DEF Inv
  <2>4. QED  BY <2>1, <2>2, <2>3, NothingPushed DEF Inv, Holds
<1>2. QED
  BY <1>1, ArriveKeeps, PushSliceKeeps, StartFrameKeeps, StartLengthKeeps, FillLengthKeeps,
     FillFrameKeeps
  DEF Next, Iterate

THEOREM Inductive == Spec => []Inv
BY InvInit, InvNext, PTL DEF Spec

-----------------------------------------------------------------------------
(* What that says                                                          *)

LEMMA FrameIsBuffer ==
  ASSUME stream \in DOMAIN Starts, NEW i \in 1..N
  PROVE  \E n \in HeaderLength..Total : FrameBytes(i) \in Buffers(n)
<1> DEFINE n == Start[i+1] - Start[i]
<1>1. /\ i \in 1..(N+1) /\ i + 1 \in 1..(N+1) /\ i < i + 1
  BY StartFacts
<1>2. /\ Start[i] \in Nat /\ Start[i+1] \in Nat /\ Start[i+1] <= Total /\ Total \in Nat
      /\ Start[i] + HeaderLength <= Start[i+1]
  BY <1>1, StartFacts
<1>3. n \in HeaderLength..Total
  BY <1>2 DEF HeaderLength
<1>4. \A k \in 0..(n - 1) : Start[i] + k \in Bytes
  BY <1>2 DEF Bytes
<1>5. FrameBytes(i) \in Buffers(n)
  BY <1>4 DEF FrameBytes, Buffers
<1>6. QED  BY <1>3, <1>5

LEMMA HeldIsBuffer ==
  ASSUME stream \in DOMAIN Starts, NEW at \in Nat, NEW n \in Nat, NEW w, at + n <= Total
  PROVE  FilledBuffer(n, w, at) \in Buffers(n)
<1>1. Total \in Nat
  BY StartFacts
<1>2. ASSUME NEW k \in 0..(n - 1)
      PROVE  (IF k < w THEN at + k ELSE Junk) \in Bytes
  <2>1. at + k \in 0..(Total - 1)
    BY <1>1
  <2>2. QED  BY <2>1 DEF Bytes
<1>3. QED  BY <1>2 DEF FilledBuffer, Buffers

(* Every variable stays in its type, for all streams and all chunks: a     *)
(* buffer is as long as what is to come into it, and the writing position  *)
(* within it.                                                              *)
THEOREM TypeCorrect == Spec => []TypeOK
<1>1. Inv => TypeOK
  <2> SUFFICES ASSUME Inv PROVE TypeOK
    OBVIOUS
  <2>1. \A i \in DOMAIN pushed : \E n \in HeaderLength..Total : pushed[i] \in Buffers(n)
    BY FrameIsBuffer, StartFacts DEF Inv, FramesIntact
  <2>2. \/ buffer = null /\ frameLength = 0 /\ wpos = 0
        \/ buffer \in Buffers(4) /\ frameLength = 0 /\ wpos \in 1..4
        \/ buffer \in Buffers(frameLength) /\ frameLength >= HeaderLength
           /\ wpos \in 4..(frameLength - 1)
    <3>1. Current <= N =>
            /\ Start[Current] \in Nat /\ Start[Current + 1] \in Nat /\ Total \in Nat
            /\ Start[Current] + HeaderLength <= Start[Current + 1]
            /\ Start[Current + 1] <= Total
      BY CurrentFacts, StartFacts DEF Inv
    <3>2. ASSUME Current <= N, buffer = FilledBuffer(4, wpos, Start[Current])
          PROVE  buffer \in Buffers(4)
      <4>1. Start[Current] + 4 <= Total
        BY <3>1, <3>2 DEF HeaderLength
      <4>2. QED  BY <3>1, <3>2, <4>1, HeldIsBuffer DEF Inv
    <3>3. ASSUME Current <= N, frameLength = Start[Current + 1] - Start[Current],
                 buffer = FilledBuffer(frameLength, wpos, Start[Current])
          PROVE  buffer \in Buffers(frameLength) /\ frameLength >= HeaderLength
      <4>1. /\ Start[Current] + frameLength <= Total /\ frameLength \in Nat
            /\ frameLength >= HeaderLength
        BY <3>1, <3>3 DEF HeaderLength
      <4>2. QED  BY <3>1, <3>3, <4>1, HeldIsBuffer DEF Inv
    <3>4. QED  BY <3>2, <3>3 DEF Inv, Holds
  <2>3. QED  BY <2>1, <2>2 DEF Inv, Cursor, TypeOK
<1>2. QED  BY <1>1, Inductive, PTL

(* The frames pushed are the first of those that the peer sent, byte for   *)
(* byte, none lost, repeated or out of order, whatever the chunks.         *)
THEOREM FramesStayIntact == Spec => []FramesIntact
<1>1. Inv => FramesIntact
  BY DEF Inv
<1>2. QED  BY <1>1, Inductive, PTL

(* The assertion in the branch that completes a length field never fails:  *)
(* it comes to a chunk only before any of it has been read.                *)
THEOREM AssertionHolds == Spec => []AssertHolds
<1>1. Inv => AssertHolds
  <2> SUFFICES ASSUME Inv, buffer # null, frameLength = 0, Looping PROVE pos = 0
    BY DEF AssertHolds
  <2>1. pos # length
    BY DEF Inv, Cursor, Looping
  <2>2. Current <= N => Start[Current + 1] - Start[Current] # 0
    BY CurrentFacts DEF HeaderLength
  <2>3. QED  BY <2>1, <2>2 DEF Inv, Holds
<1>2. QED  BY <1>1, Inductive, PTL

-----------------------------------------------------------------------------
(* The parser behind it                                                    *)

Sent == Streams[stream]
Texted == {AsSent(Sent.frames[i]) : i \in 1..N}

(* Each frame pushed has been parsed, with the encodings the parser has by *)
(* then.                                                                   *)
ParseInv ==
  /\ Inv
  /\ parsed \in Seq(Texted) /\ Len(parsed) = Len(pushed)
  /\ \A i \in 1..Len(pushed) : parsed[i] = AsSent(Sent.frames[i])
  /\ IF Sent.server /\ Len(pushed) = 0
     THEN dataEncoding = undefined /\ metadataEncoding = undefined
     ELSE dataEncoding = Sent.dataEncoding /\ metadataEncoding = Sent.metadataEncoding

LEMMA OnePushed ==
  ASSUME Inv, Inv', Iterate, pushed' # pushed
  PROVE  /\ stream' = stream /\ Current \in 1..N /\ Len(pushed') = Current
         /\ Last(pushed') = FrameBytes(Current)
<1>1. stream' = stream /\ \E frame : pushed' = Append(pushed, frame)
  BY Zenon DEF Iterate, PushSlice, StartFrame, StartLength, FillLength, FillFrame
<1>2. PICK frame : pushed' = Append(pushed, frame)
  BY <1>1
<1>3. pushed \in Seq({FrameBytes(i) : i \in 1..N}) /\ pushed' \in Seq({FrameBytes(i)' : i \in 1..N'})
  BY DEF Inv
<1>4. Len(pushed') = Len(pushed) + 1 /\ Len(pushed) \in Nat
  BY <1>2, <1>3
<1>5. /\ Len(pushed') <= N' /\ N' = N
      /\ \A i \in 1..Len(pushed') : pushed'[i] = FrameBytes(i)'
  BY <1>1 DEF Inv, FramesIntact, N, Start
<1>6. \A i \in 1..N : FrameBytes(i)' = FrameBytes(i)
  BY <1>1 DEF FrameBytes, Start
<1>7. Last(pushed') = pushed'[Len(pushed')]
  BY DEF Last
<1>8. N \in Nat /\ Current = Len(pushed) + 1
  BY StartFacts DEF Current, Inv
<1>9. Len(pushed') \in 1..N /\ Len(pushed') = Current
  BY <1>4, <1>5, <1>8
<1>10. Last(pushed') = FrameBytes(Len(pushed'))
  BY <1>5, <1>6, <1>7, <1>9
<1>11. QED  BY <1>1, <1>9, <1>10

LEMMA FrameContent ==
  ASSUME stream \in DOMAIN Starts, NEW i \in 1..N
  PROVE  Content(FrameBytes(i)) = FrameOf(stream, i)
<1> DEFINE len == Start[i+1] - Start[i]
<1>1. len \in Nat /\ Start[i] \in Nat /\ len > 0
  BY StartFacts DEF HeaderLength
<1>2. DOMAIN FrameBytes(i) = 0..(len - 1) /\ \A k \in 0..(len - 1) : FrameBytes(i)[k] = Start[i] + k
  BY DEF FrameBytes
<1> HIDE DEF len
<1>3. Cardinality(DOMAIN FrameBytes(i)) = len
  <2>1. Cardinality(0..(len - 1)) = len
    BY <1>1, FS_Interval
  <2>2. QED  BY <1>2, <2>1
<1>4. ASSUME NEW k \in 1..len
      PROVE  /\ FrameBytes(i)[k-1] # Junk
             /\ FrameBytes(i)[k-1] + 1 = Start[i] + k
  <2>1. k - 1 \in 0..(len - 1)
    BY <1>1
  <2>2. FrameBytes(i)[k-1] = Start[i] + (k - 1)
    BY <1>2, <2>1
  <2>3. QED  BY <1>1, <2>2 DEF Junk
<1>5. Content(FrameBytes(i)) = [k \in 1..len |->
        IF FrameBytes(i)[k-1] = Junk THEN Junk ELSE Wire[stream][FrameBytes(i)[k-1] + 1]]
  BY <1>3 DEF Content
<1>6. Content(FrameBytes(i)) = [k \in 1..len |-> Wire[stream][Start[i] + k]]
  BY <1>4, <1>5
<1>7. QED  BY <1>6 DEF len, FrameOf, Start

(* The frames that are parsed are those that the session has.              *)
LEMMA Parses ==
  ASSUME ParseInv, ReadsBack(stream), Current \in 1..N, Transform(FrameBytes(Current))
  PROVE  /\ parsed' = Append(parsed, AsSent(Sent.frames[Current]))
         /\ dataEncoding' = Sent.dataEncoding /\ metadataEncoding' = Sent.metadataEncoding
<1> DEFINE buf == FrameOf(stream, Current)
<1>1. stream \in DOMAIN Starts /\ Len(pushed) \in Nat /\ Current = Len(pushed) + 1
  BY DEF ParseInv, Inv, Current
<1>2. Content(FrameBytes(Current)) = buf
  BY <1>1, FrameContent
<1>3. /\ parsed' = Append(parsed, Parse(buf, metadataEncoding, dataEncoding))
      /\ HandleSetup(buf)
  BY <1>2 DEF Transform
<1>4. Current \in 1..(Len(Starts[stream]) - 1)
  BY DEF N, Start
<1>5. CASE Sent.server /\ Current = 1
  <2>1. dataEncoding = undefined /\ metadataEncoding = undefined
    BY <1>1, <1>5 DEF ParseInv
  <2>2. /\ Parse(buf, undefined, undefined) = AsSent(Sent.frames[Current])
        /\ ~Throws(buf) /\ TypeOf(buf) = SETUP
        /\ ParseSetupFrame(buf).dataEncoding = Sent.dataEncoding
        /\ ParseSetupFrame(buf).metadataEncoding = Sent.metadataEncoding
    BY <1>4, <1>5, Zenon DEF ReadsBack, Sent
  <2> HIDE DEF buf
  <2>3. QED  BY <1>3, <1>5, <2>1, <2>2, Zenon DEF HandleSetup, Sent
<1>6. CASE ~(Sent.server /\ Current = 1)
  <2>1. dataEncoding = Sent.dataEncoding /\ metadataEncoding = Sent.metadataEncoding
    BY <1>1, <1>6 DEF ParseInv
  <2>2. Parse(buf, metadataEncoding, dataEncoding) = AsSent(Sent.frames[Current])
    BY <1>4, <1>6, <2>1, Zenon DEF ReadsBack, Sent
  <2>3. ~(Sent.server /\ dataEncoding = undefined)
    <3>1. 1 \in 1..(Len(Starts[stream]) - 1)
      BY <1>4, StartFacts, <1>1 DEF N, Start
    <3>2. Sent.server => Sent.dataEncoding # undefined
      BY <3>1, Zenon DEF ReadsBack, Sent
    <3>3. QED  BY <2>1, <3>2
  <2> HIDE DEF buf
  <2>4. QED  BY <1>3, <2>1, <2>2, <2>3, Zenon DEF HandleSetup, Sent
<1>7. QED  BY <1>5, <1>6

LEMMA StepParses ==
  ASSUME ParseInv, Inv', ReadsBack(stream), Step
  PROVE  ParseInv'
<1>1. Iterate /\ stream' = stream
  BY Zenon DEF Step, Iterate, PushSlice, StartFrame, StartLength, FillLength, FillFrame
<1>2. N' = N /\ Sent' = Sent /\ Texted' = Texted
  BY <1>1 DEF N, Start, Sent, Texted
<1>3. CASE pushed' = pushed
  BY <1>1, <1>2, <1>3 DEF Step, parserVars, ParseInv
<1>4. CASE pushed' # pushed
  <2>1. Current \in 1..N /\ Len(pushed') = Current /\ Last(pushed') = FrameBytes(Current)
    BY <1>1, <1>4, OnePushed DEF ParseInv
  <2>2. Transform(FrameBytes(Current))
    BY <1>4, <2>1, Zenon DEF Step
  <2> DEFINE e == AsSent(Sent.frames[Current])
  <2>3. /\ parsed' = Append(parsed, e)
        /\ dataEncoding' = Sent.dataEncoding /\ metadataEncoding' = Sent.metadataEncoding
    BY <2>1, <2>2, Parses
  <2>4. e \in Texted
    BY <2>1 DEF Texted
  <2>5. Len(pushed) \in Nat /\ Current = Len(pushed) + 1
    BY DEF ParseInv, Inv, Current
  <2> HIDE DEF e
  <2>6. /\ parsed' \in Seq(Texted) /\ Len(parsed') = Current
        /\ \A i \in 1..Len(pushed) : parsed'[i] = parsed[i]
        /\ parsed'[Current] = e
    BY <2>3, <2>4, <2>5 DEF ParseInv
  <2>7. ASSUME NEW i \in 1..Len(pushed') PROVE parsed'[i] = AsSent(Sent.frames[i])
    <3>1. CASE i = Current
      BY <2>6, <3>1 DEF e
    <3>2. CASE i # Current
      <4>1. i \in 1..Len(pushed)
        BY <2>1, <2>5, <3>2
      <4>2. QED  BY <2>6, <4>1 DEF ParseInv
    <3>3. QED  BY <3>1, <3>2
  <2>8. Len(pushed') # 0
    BY <2>1, <2>5
  <2>9. QED  BY <1>2, <2>1, <2>3, <2>6, <2>7, <2>8 DEF ParseInv
<1>5. QED  BY <1>3, <1>4

LEMMA ParseNextIsNext ==
  ASSUME [ParseNext]_allVars
  PROVE  [Next]_vars
BY DEF ParseNext, Receive, Step, allVars, Next

LEMMA ParsesNext ==
  ASSUME ParseInv, Inv', \A s \in DOMAIN Starts : ReadsBack(s), [ParseNext]_allVars
  PROVE  ParseInv'
<1>1. stream \in DOMAIN Starts
  BY DEF ParseInv, Inv
<1>2. CASE Step
  BY <1>1, <1>2, StepParses
<1>3. CASE Receive \/ UNCHANGED allVars
  <2>1. UNCHANGED <<stream, pushed, parsed, dataEncoding, metadataEncoding>>
    BY <1>3 DEF Receive, Arrive, allVars, vars, parserVars
  <2>2. QED  BY <2>1 DEF ParseInv, Sent, Texted, N, Start
<1>4. QED  BY <1>2, <1>3 DEF ParseNext

LEMMA ParsesInit == ASSUME ParseInit PROVE ParseInv
<1>1. Inv /\ pushed = <<>> /\ parsed = <<>>
  BY InvInit DEF ParseInit, Init
<1>2. QED  BY <1>1 DEF ParseInv, ParseInit, Sent

(* If parseFrame() reads each frame of a session, whole and by itself, as  *)
(* it was sent, then the connection gets all of them as they were sent, in *)
(* their order, whatever the chunks: no frame is parsed before it is       *)
(* whole, and none with the encodings that a server has before it is set   *)
(* up, but the one that sets it up.                                        *)
THEOREM ParsesAsSent ==
  ASSUME \A s \in DOMAIN Starts : ReadsBack(s)
  PROVE  ParseSpec => []ParsedAsSent
<1> DEFINE Readable == \A s \in DOMAIN Starts : ReadsBack(s)
<1>1. ParseInit => Init
  BY DEF ParseInit
<1>2. ParseSpec => []Inv
  BY <1>1, InvInit, InvNext, ParseNextIsNext, PTL DEF ParseSpec
<1>3. ParseInv /\ Inv' /\ [ParseNext]_allVars => ParseInv'
  BY ParsesNext
<1>4. ParseInv => ParsedAsSent
  <2>1. SUFFICES ASSUME ParseInv PROVE ParsedAsSent
    OBVIOUS
  <2>2. Len(pushed) <= N /\ Len(parsed) = Len(pushed) /\ DOMAIN parsed = 1..Len(parsed)
    BY <2>1 DEF ParseInv, Inv, FramesIntact
  <2>3. QED  BY <2>1, <2>2 DEF ParseInv, ParsedAsSent, Sent
<1>5. ParseInit => ParseInv
  BY ParsesInit
<1>6. QED  BY <1>2, <1>3, <1>4, <1>5, PTL DEF ParseSpec
=============================================================================
