---------------------------- MODULE SortedWindow ----------------------------
(***************************************************************************)
(* What a streaming median keeps: at most Size values in order.  A value   *)
(* above the median takes its place in the upper part and, when the window *)
(* is full, the least value leaves; one that is not takes its place in the *)
(* lower part and the greatest leaves.                                     *)
(***************************************************************************)
EXTENDS Integers, Sequences, SequencesExt

CONSTANTS Size, Values

VARIABLE window

Median == window[Len(window) \div 2 + 1]

(* The position before which all that is less lies.                        *)
Place(x) ==
  CHOOSE i \in 1..(Len(window) + 1) : \A j \in DOMAIN window : window[j] < x <=> j < i

With(x) == InsertAt(window, Place(x), x)

Insert(x) ==
  window' = IF Len(window) < Size THEN With(x)
            ELSE IF x > Median THEN Tail(With(x)) ELSE Front(With(x))

Init == window = <<>>
Next == \E x \in Values : Insert(x)
Spec == Init /\ [][Next]_window
=============================================================================
