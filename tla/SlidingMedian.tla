--------------------------- MODULE SlidingMedian ---------------------------
(***************************************************************************)
(* SlidingMedian: a sorted window of at most Size values in a ring buffer, *)
(* whose ends from and to are positions that are never reduced modulo the  *)
(* size.  Either end moves, so that an insertion shifts only the values on *)
(* the shorter way to it.                                                  *)
(*                                                                         *)
(* ShiftRightShort and DropNever are faulty variants of the definitions    *)
(* they stand next to, which no definition uses (see README.md).           *)
(***************************************************************************)
EXTENDS Integers, Sequences

CONSTANTS
  Size,      \* number of slots, a power of two
  Values     \* what may be inserted

ASSUME SizeAssumption == Size \in Nat \ {0} /\ \E n \in 0..Size : Size = 2 ^ n
ASSUME ValuesAssumption == Values \subseteq Nat \ {0}

VARIABLES
  ring,   \* _ringBuffer
  from,   \* _from
  to      \* _to

medianVars == <<ring, from, to>>

(* `position & _moduloMask'                                                *)
Slot(position) == position % Size

(* The slots are undefined before they are written.                        *)
Undefined == 0

Midpoint == (from + to) \div 2

(* estimate(): 0 when nothing has been inserted.                           *)
Estimate == IF from = to THEN 0 ELSE ring[Slot(Midpoint)]

(* The binary search of _shiftRight() and _shiftLeft(), which ends with    *)
(* `from' at this position and `to' at the one before.                     *)
Search(first, last, x) ==
  LET place[range \in (first..(last + 1)) \X ((first - 1)..last)] ==
        LET lo == range[1]
            hi == range[2]
            mid == (lo + hi) \div 2
        IN IF lo > hi THEN lo
           ELSE IF ring[Slot(mid)] < x THEN place[<<mid + 1, hi>>] ELSE place[<<lo, mid - 1>>]
  IN place[<<first, last>>]

(* x is put at this position, after the values from there on, or up to     *)
(* there, have moved by one slot.  When the ring is full the first to move *)
(* overwrites the value at the other end.                                  *)
ShiftRightShort(place, x) ==
  LET moved == {Slot(k) : k \in (place + 1)..(to - 1)}
  IN [s \in 0..(Size - 1) |->
        IF s = Slot(place) THEN x ELSE IF s \in moved THEN ring[Slot(s - 1)] ELSE ring[s]]

ShiftRight(place, x) ==
  LET moved == {Slot(k) : k \in (place + 1)..to}
  IN [s \in 0..(Size - 1) |->
        IF s = Slot(place) THEN x ELSE IF s \in moved THEN ring[Slot(s - 1)] ELSE ring[s]]

ShiftLeft(place, x) ==
  LET moved == {Slot(k) : k \in (from - 1)..(place - 1)}
  IN [s \in 0..(Size - 1) |->
        IF s = Slot(place) THEN x ELSE IF s \in moved THEN ring[Slot(s + 1)] ELSE ring[s]]

(* What the other end gives up for a new value: one when the ring is full. *)
DropNever == 0
Drop == IF to - from = Size THEN 1 ELSE 0

(* insert()                                                                *)
Insert(x) ==
  CASE from = to ->
         /\ ring' = [ring EXCEPT ![Slot(from)] = x]
         /\ to' = to + 1
         /\ from' = from
    [] from # to /\ x > Estimate ->
         /\ ring' = ShiftRight(Search(Midpoint + 1, to - 1, x), x)
         /\ to' = to + 1
         /\ from' = from + Drop
    [] OTHER ->
         /\ ring' = ShiftLeft(Search(from, Midpoint - 1, x) - 1, x)
         /\ from' = from - 1
         /\ to' = to - Drop

MedianInit ==
  /\ ring = [s \in 0..(Size - 1) |-> Undefined]
  /\ from = Size
  /\ to = Size

-----------------------------------------------------------------------------
(* Properties                                                              *)

(* Wherever the ends of the ring have moved to, what lies between them is  *)
(* the sorted window.                                                      *)
Window == INSTANCE SortedWindow WITH
  window <- [i \in 1..(to - from) |-> ring[Slot(from + i - 1)]]

ImplementsSortedWindow == Window!Spec
=============================================================================
