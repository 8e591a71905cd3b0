----------------------------- MODULE FiniteSums -----------------------------
(***************************************************************************)
(* What the proofs about sums over finite sets need: induction over the    *)
(* parts of such a set, by the least counterexample, and how a sum changes *)
(* with what is summed.                                                    *)
(***************************************************************************)
EXTENDS Integers, FiniteSetsExt, FiniteSetTheorems, WellFoundedInduction, TLAPS

-----------------------------------------------------------------------------
(* Induction                                                               *)

(* A set of natural numbers has a least element: what holds of a number    *)
(* when it holds of all that are less holds of all.                        *)
LEMMA LeastNatural ==
  ASSUME NEW T \in SUBSET Nat, T # {}
  PROVE  \E n \in T : \A m \in T : n <= m
<1> DEFINE R == {p \in Nat \X Nat : p[1] < p[2]}
<1>1. IsWellFoundedOn(R, Nat)
  BY NatLessThanWellFounded DEF OpToRel
<1>2. PICK n \in T : \A m \in T : <<m, n>> \notin R
  <2> HIDE DEF R
  <2>1. QED  BY <1>1, WFMin
<1>3. ASSUME NEW m \in T PROVE n <= m
  <2>1. m \in Nat /\ n \in Nat /\ <<m, n>> \in Nat \X Nat
    OBVIOUS
  <2>2. ~(m < n)
    BY <1>2, <2>1
  <2>3. QED  BY <2>1, <2>2
<1>4. QED  BY <1>3

Choice(s) == CHOOSE x \in s : TRUE

UpTo(S, n) == {s \in SUBSET S : Cardinality(s) <= n}

LEMMA PartFacts ==
  ASSUME NEW S, IsFiniteSet(S), NEW s \in SUBSET S
  PROVE  /\ IsFiniteSet(s) /\ Cardinality(s) \in Nat
         /\ s # {} => /\ Choice(s) \in s /\ s \ {Choice(s)} \in SUBSET S
                      /\ Cardinality(s \ {Choice(s)}) = Cardinality(s) - 1
                      /\ Cardinality(s) > 0
<1>1. IsFiniteSet(s) /\ Cardinality(s) \in Nat
  BY FS_Subset, FS_CardinalityType
<1>2. s # {} => Choice(s) \in s
  BY DEF Choice
<1>3. s # {} => Cardinality(s \ {Choice(s)}) = Cardinality(s) - 1
  BY <1>1, <1>2, FS_RemoveElement
<1>4. s # {} => Cardinality(s) > 0
  <2>1. s # {} => Cardinality(s) # 0
    BY <1>1, FS_EmptySet
  <2>2. QED  BY <1>1, <2>1
<1>5. QED  BY <1>1, <1>2, <1>3, <1>4

(* What holds of a part of S when it holds of all that are smaller holds of *)
(* all, and so does what holds of {} and goes on with every element more.  *)
LEMMA BySize ==
  ASSUME NEW S, IsFiniteSet(S), NEW A,
         \A s \in SUBSET S :
           (\A t \in SUBSET S : Cardinality(t) < Cardinality(s) => t \in A) => s \in A
  PROVE  SUBSET S \subseteq A
<1> DEFINE Bad == {n \in Nat : \E s \in SUBSET S : Cardinality(s) = n /\ s \notin A}
<1>1. SUFFICES ASSUME NEW r \in SUBSET S, r \notin A PROVE FALSE
  OBVIOUS
<1>2. Bad \in SUBSET Nat /\ Cardinality(r) \in Bad
  BY <1>1, PartFacts
<1>3. PICK n \in Bad : \A m \in Bad : n <= m
  <2> HIDE DEF Bad
  <2>1. QED  BY <1>2, LeastNatural
<1>4. PICK s \in SUBSET S : Cardinality(s) = n /\ s \notin A
  BY <1>3
<1>5. ASSUME NEW t \in SUBSET S, Cardinality(t) < n
      PROVE  t \in A
  <2>1. Cardinality(t) \in Nat /\ n \in Nat
    BY PartFacts
  <2>2. Cardinality(t) \notin Bad
    <3> HIDE DEF Bad
    <3>1. QED  BY <1>3, <1>5, <2>1
  <2>3. QED  BY <2>1, <2>2
<1>6. QED  BY <1>4, <1>5

LEMMA ByElement ==
  ASSUME NEW S, IsFiniteSet(S), NEW A, {} \in A,
         \A s \in SUBSET S : \A x \in S \ s : s \in A => s \cup {x} \in A
  PROVE  SUBSET S \subseteq A
<1>1. ASSUME NEW s \in SUBSET S,
             \A t \in SUBSET S : Cardinality(t) < Cardinality(s) => t \in A, s # {}
      PROVE  s \in A
  <2> DEFINE t == s \ {Choice(s)}
  <2>1. /\ t \in SUBSET S /\ Choice(s) \in S \ t /\ t \cup {Choice(s)} = s
        /\ Cardinality(t) = Cardinality(s) - 1 /\ Cardinality(s) \in Nat
    BY <1>1, PartFacts
  <2>2. t \in A
    BY <1>1, <2>1
  <2> HIDE DEF t
  <2>3. QED  BY <2>1, <2>2
<1>2. QED
  <2>1. \A s \in SUBSET S :
          (\A t \in SUBSET S : Cardinality(t) < Cardinality(s) => t \in A) => s \in A
    BY <1>1
  <2>2. QED  BY <2>1, BySize

-----------------------------------------------------------------------------
(* Sums                                                                    *)

(* sum[s], for the sets s in D, each a part of a set of what w weighs.     *)
Sums(sum, w, D) ==
  sum = [s \in D |-> IF s = {} THEN 0 ELSE w[Choice(s)] + sum[s \ {Choice(s)}]]

LEMMA SumsExist ==
  ASSUME NEW S, IsFiniteSet(S), NEW w, NEW n \in Nat
  PROVE  \E sum : Sums(sum, w, UpTo(S, n))
<1> DEFINE Bad == {k \in Nat : ~\E sum : Sums(sum, w, UpTo(S, k))}
<1>1. SUFFICES ASSUME Bad # {} PROVE FALSE
  OBVIOUS
<1>2. PICK k \in Bad : \A j \in Bad : k <= j
  <2>1. Bad \in SUBSET Nat
    OBVIOUS
  <2> HIDE DEF Bad
  <2>2. QED  BY <1>1, <2>1, LeastNatural
<1>3. PICK sum : k > 0 => Sums(sum, w, UpTo(S, k - 1))
  <2>1. CASE k = 0
    BY <2>1
  <2>2. CASE k > 0
    <3>1. k - 1 \in Nat /\ k - 1 \notin Bad
      BY <1>2, <2>2
    <3>2. QED  BY <3>1
  <2>3. QED  BY <2>1, <2>2
<1> DEFINE new == [s \in UpTo(S, k) |->
                     IF s = {} THEN 0 ELSE w[Choice(s)] + sum[s \ {Choice(s)}]]
<1>4. ASSUME NEW s \in UpTo(S, k), s # {}
      PROVE  new[s \ {Choice(s)}] = sum[s \ {Choice(s)}]
  <2> DEFINE t == s \ {Choice(s)}
  <2>1. /\ t \in SUBSET S /\ Cardinality(t) = Cardinality(s) - 1 /\ Cardinality(s) > 0
        /\ Cardinality(s) \in Nat /\ Cardinality(s) <= k
    BY <1>4, PartFacts DEF UpTo
  <2>2. k > 0 /\ Cardinality(t) <= k - 1 /\ Cardinality(t) <= k
    BY <2>1
  <2>3. t \in UpTo(S, k) /\ t \in UpTo(S, k - 1)
    BY <2>1, <2>2 DEF UpTo
  <2> HIDE DEF t
  <2>4. new[t] = IF t = {} THEN 0 ELSE w[Choice(t)] + sum[t \ {Choice(t)}]
    BY <2>3
  <2>5. sum[t] = IF t = {} THEN 0 ELSE w[Choice(t)] + sum[t \ {Choice(t)}]
    BY <1>3, <2>2, <2>3 DEF Sums
  <2>6. QED  BY <2>4, <2>5 DEF t
<1>5. Sums(new, w, UpTo(S, k))
  <2>1. new = [s \in UpTo(S, k) |->
                 IF s = {} THEN 0 ELSE w[Choice(s)] + new[s \ {Choice(s)}]]
    BY <1>4
  <2> HIDE DEF new
  <2>2. QED  BY <2>1 DEF Sums
<1>6. QED  BY <1>2, <1>5

(* A function that is a sum for every part of S.                           *)
Adds(sum, w, S) ==
  /\ sum[{}] = 0
  /\ \A s \in SUBSET S : sum[s] \in Int /\ \A x \in S \ s : sum[s \cup {x}] = w[x] + sum[s]

(* Sums are, in whatever order Choice takes the elements.                  *)
LEMMA SumsAdd ==
  ASSUME NEW S, IsFiniteSet(S), NEW w, \A x \in S : w[x] \in Int,
         NEW sum, Sums(sum, w, SUBSET S)
  PROVE  Adds(sum, w, S)
<1>1. sum[{}] = 0
  BY DEF Sums
<1>2. \A s \in SUBSET S : s # {} =>
        /\ Choice(s) \in s /\ s \ {Choice(s)} \in SUBSET S
        /\ sum[s] = w[Choice(s)] + sum[s \ {Choice(s)}]
  BY PartFacts DEF Sums
<1> DEFINE OK(s) == /\ sum[s] \in Int
                    /\ \A x \in s : sum[s] = w[x] + sum[s \ {x}]
           A == {s \in SUBSET S : OK(s)}
<1>3. ASSUME NEW s \in SUBSET S,
             \A t \in SUBSET S : Cardinality(t) < Cardinality(s) => t \in A
      PROVE  OK(s)
  <2>1. CASE s = {}
    BY <1>1, <2>1
  <2>2. ASSUME s # {}
        PROVE  OK(s)
    <3>0. \A t \in SUBSET S : Cardinality(t) < Cardinality(s) => OK(t)
      BY <1>3
    <3> DEFINE c == Choice(s)
    <3>1. /\ c \in s /\ sum[s] = w[c] + sum[s \ {c}] /\ s \ {c} \in SUBSET S
          /\ Cardinality(s \ {c}) = Cardinality(s) - 1 /\ Cardinality(s) \in Nat
      BY <1>2, <2>2, PartFacts
    <3> HIDE DEF c
    <3>2. sum[s \ {c}] \in Int /\ \A x \in s \ {c} : sum[s \ {c}] = w[x] + sum[(s \ {c}) \ {x}]
      <4>1. OK(s \ {c})
        <5>1. Cardinality(s \ {c}) < Cardinality(s)
          BY <3>1
        <5> HIDE DEF OK
        <5>2. QED  BY <3>0, <3>1, <5>1
      <4>2. QED  BY <4>1
    <3>3. ASSUME NEW x \in s, x # c
          PROVE  sum[s] = w[x] + sum[s \ {x}]
      <4> DEFINE t == (s \ {x}) \ {c}
      <4>1. t = (s \ {c}) \ {x} /\ t \in SUBSET S
        OBVIOUS
      <4>2. /\ s \ {x} \in SUBSET S /\ IsFiniteSet(s \ {x})
            /\ Cardinality(s \ {x}) = Cardinality(s) - 1 /\ Cardinality(s \ {x}) \in Nat
        BY FS_Subset, FS_CardinalityType, FS_RemoveElement
      <4>3. Cardinality(t) = Cardinality(s \ {x}) - 1
        <5>1. c \in s \ {x}
          BY <3>1, <3>3
        <5>2. QED  BY <4>2, <5>1, FS_RemoveElement
      <4> HIDE DEF t
      <4>4. sum[s \ {x}] = w[c] + sum[t]
        <5>1. OK(s \ {x})
          <6>1. Cardinality(s \ {x}) < Cardinality(s)
            BY <3>1, <4>2
          <6> HIDE DEF OK
          <6>2. QED  BY <3>0, <4>2, <6>1
        <5>2. QED  BY <3>1, <3>3, <5>1 DEF t
      <4>5. sum[t] \in Int
        <5>1. Cardinality(t) < Cardinality(s)
          BY <3>1, <4>2, <4>3
        <5>2. QED  BY <3>0, <4>1, <5>1
      <4>6. sum[s] = w[c] + (w[x] + sum[t])
        BY <3>1, <3>2, <3>3, <4>1
      <4>7. w[c] \in Int /\ w[x] \in Int
        BY <3>1
      <4>8. QED  BY <4>4, <4>5, <4>6, <4>7
    <3>4. sum[s] \in Int
      BY <3>1, <3>2
    <3>5. QED  BY <3>1, <3>3, <3>4
  <2>3. QED
    <3> HIDE DEF OK
    <3>1. QED  BY <2>1, <2>2
<1>4. \A s \in SUBSET S : OK(s)
  <2>1. \A s \in SUBSET S :
          (\A t \in SUBSET S : Cardinality(t) < Cardinality(s) => t \in A) => s \in A
    BY <1>3
  <2> HIDE DEF A
  <2>2. SUBSET S \subseteq A
    BY <2>1, BySize
  <2>3. QED  BY <2>2 DEF A
<1>5. ASSUME NEW s \in SUBSET S, NEW x \in S \ s
      PROVE  sum[s \cup {x}] = w[x] + sum[s]
  <2>1. (s \cup {x}) \ {x} = s /\ s \cup {x} \in SUBSET S
    OBVIOUS
  <2>2. QED  BY <1>4, <2>1
<1>6. QED  BY <1>1, <1>4, <1>5 DEF Adds

(* When all that is in T weighs c more, where c is 0 or 1, so does the sum *)
(* for each of them.                                                       *)
LEMMA SumShifts ==
  ASSUME NEW S, IsFiniteSet(S), NEW v, NEW w, \A x \in S : v[x] \in Int /\ w[x] \in Int,
         NEW sum, NEW more, Adds(sum, v, S), Adds(more, w, S),
         NEW c \in {0, 1}, NEW T \in SUBSET S, \A x \in T : w[x] = v[x] + c
  PROVE  more[T] = sum[T] + (IF c = 1 THEN Cardinality(T) ELSE 0)
<1> DEFINE Shift(n) == IF c = 1 THEN n ELSE 0
           OK(t) == more[t] = sum[t] + Shift(Cardinality(t))
           A == {t \in SUBSET T : OK(t)}
<1>1. {} \in A
  BY FS_EmptySet DEF Adds
<1>2. ASSUME NEW t \in SUBSET T, NEW x \in T \ t, t \in A
      PROVE  t \cup {x} \in A
  <2>1. /\ IsFiniteSet(t) /\ Cardinality(t) \in Nat /\ t \in SUBSET S /\ x \in S \ t
    BY FS_Subset, FS_CardinalityType
  <2>2. Cardinality(t \cup {x}) = Cardinality(t) + 1
    BY <2>1, FS_AddElement
  <2>3. /\ sum[t \cup {x}] = v[x] + sum[t] /\ more[t \cup {x}] = w[x] + more[t]
        /\ sum[t] \in Int /\ more[t] \in Int /\ v[x] \in Int /\ w[x] = v[x] + c
    BY <2>1 DEF Adds
  <2>4. OK(t \cup {x})
    BY <1>2, <2>1, <2>2, <2>3
  <2>5. QED  BY <2>4
<1>3. IsFiniteSet(T)
  BY FS_Subset
<1> HIDE DEF A
<1>4. SUBSET T \subseteq A
  BY <1>1, <1>2, <1>3, ByElement
<1>5. QED  BY <1>4 DEF A

(* When nothing weighs less than 0, no sum is less.                        *)
LEMMA SumNatural ==
  ASSUME NEW S, IsFiniteSet(S), NEW w, NEW sum, Adds(sum, w, S),
         NEW T \in SUBSET S, \A x \in T : w[x] \in Nat
  PROVE  sum[T] \in Nat
<1> DEFINE A == {t \in SUBSET T : sum[t] \in Nat}
<1>1. {} \in A
  BY DEF Adds
<1>2. ASSUME NEW t \in SUBSET T, NEW x \in T \ t, t \in A
      PROVE  t \cup {x} \in A
  <2>1. t \in SUBSET S /\ x \in S \ t
    OBVIOUS
  <2>2. sum[t \cup {x}] = w[x] + sum[t] /\ sum[t] \in Nat /\ w[x] \in Nat
    BY <1>2, <2>1 DEF Adds
  <2>3. QED  BY <2>2
<1>3. IsFiniteSet(T)
  BY FS_Subset
<1> HIDE DEF A
<1>4. SUBSET T \subseteq A
  BY <1>1, <1>2, <1>3, ByElement
<1>5. QED  BY <1>4 DEF A

(* The sum of a function's values over a set, as the models compute it.    *)
SumOf(w, S) == MapThenSumSet(LAMBDA x : w[x], S)

LEMMA SumOfAdds ==
  ASSUME NEW S, IsFiniteSet(S), NEW w, \A x \in S : w[x] \in Int
  PROVE  \E sum : Adds(sum, w, S) /\ SumOf(w, S) = sum[S]
<1> DEFINE Step(it) == [s \in SUBSET S |->
                          IF s = {} THEN 0 ELSE w[Choice(s)] + it[s \ {Choice(s)}]]
           iter == CHOOSE it : it = Step(it)
<1>1. SumOf(w, S) = iter[S]
  BY DEF SumOf, MapThenSumSet, MapThenFoldSet, Choice
<1>2. \A it : it = Step(it) <=> Sums(it, w, SUBSET S)
  BY DEF Sums
<1>3. \E it : Sums(it, w, SUBSET S)
  <2>1. UpTo(S, Cardinality(S)) = SUBSET S /\ Cardinality(S) \in Nat
    BY FS_Subset, FS_CardinalityType DEF UpTo
  <2>2. \E it : Sums(it, w, UpTo(S, Cardinality(S)))
    BY <2>1, SumsExist
  <2>3. QED  BY <2>1, <2>2
<1>4. iter = Step(iter)
  <2> HIDE DEF Step
  <2>1. QED  BY <1>2, <1>3
<1> HIDE DEF Step, iter
<1>5. Adds(iter, w, S)
  BY <1>2, <1>4, SumsAdd
<1>6. QED  BY <1>1, <1>5

(* It is no less than 0 nor than any of them when none is less than 0.     *)
LEMMA SumOfNatural ==
  ASSUME NEW S, IsFiniteSet(S), NEW w, \A x \in S : w[x] \in Nat
  PROVE  SumOf(w, S) \in Nat /\ \A x \in S : w[x] <= SumOf(w, S)
<1>1. PICK sum : Adds(sum, w, S) /\ SumOf(w, S) = sum[S]
  BY SumOfAdds
<1>2. sum[S] \in Nat
  BY <1>1, SumNatural
<1>3. ASSUME NEW x \in S PROVE w[x] <= sum[S]
  <2>1. sum[S \ {x}] \in Nat
    BY <1>1, SumNatural
  <2>2. (S \ {x}) \cup {x} = S
    OBVIOUS
  <2>3. sum[(S \ {x}) \cup {x}] = w[x] + sum[S \ {x}]
    BY <1>1 DEF Adds
  <2>4. QED  BY <2>1, <2>2, <2>3
<1>4. QED  BY <1>1, <1>2, <1>3

(* It changes with one of them by as much.                                 *)
LEMMA SumOfChanges ==
  ASSUME NEW S, IsFiniteSet(S), NEW v, NEW w, \A x \in S : v[x] \in Int /\ w[x] \in Int,
         NEW y \in S, \A x \in S \ {y} : w[x] = v[x]
  PROVE  /\ SumOf(v, S) \in Int /\ SumOf(w, S) \in Int
         /\ SumOf(w, S) = SumOf(v, S) + w[y] - v[y]
<1>1. PICK sum : Adds(sum, v, S) /\ SumOf(v, S) = sum[S]
  BY SumOfAdds
<1>2. PICK more : Adds(more, w, S) /\ SumOf(w, S) = more[S]
  BY SumOfAdds
<1> DEFINE T == S \ {y}
<1>3. T \in SUBSET S /\ \A x \in T : w[x] = v[x] + 0
  OBVIOUS
<1>4. T \cup {y} = S /\ y \in S \ T
  OBVIOUS
<1> HIDE DEF T
<1>5. more[T] = sum[T]
  <2>1. 0 \in {0, 1} /\ 0 # 1 /\ sum[T] \in Int
    BY <1>1, <1>3 DEF Adds
  <2>2. more[T] = sum[T] + (IF 0 = 1 THEN Cardinality(T) ELSE 0)
    BY <1>1, <1>2, <1>3, <2>1, SumShifts
  <2>3. QED  BY <2>1, <2>2
<1>6. /\ more[S] = w[y] + more[T] /\ sum[S] = v[y] + sum[T]
      /\ sum[T] \in Int /\ sum[S] \in Int /\ more[S] \in Int
  <2>1. more[T \cup {y}] = w[y] + more[T] /\ sum[T \cup {y}] = v[y] + sum[T]
    BY <1>1, <1>2, <1>3, <1>4 DEF Adds
  <2>2. S \in SUBSET S
    OBVIOUS
  <2>3. QED  BY <1>1, <1>2, <1>3, <1>4, <2>1, <2>2 DEF Adds
<1>7. QED  BY <1>1, <1>2, <1>5, <1>6

LEMMA SumOfNothing ==
  ASSUME NEW S, IsFiniteSet(S), NEW w, \A x \in S : w[x] = 0
  PROVE  SumOf(w, S) = 0
<1>1. PICK sum : Adds(sum, w, S) /\ SumOf(w, S) = sum[S]
  <2>1. \A x \in S : w[x] \in Int
    OBVIOUS
  <2>2. QED  BY <2>1, SumOfAdds
<1> DEFINE A == {t \in SUBSET S : sum[t] = 0}
<1>2. {} \in A
  BY <1>1 DEF Adds
<1>3. ASSUME NEW t \in SUBSET S, NEW x \in S \ t, t \in A
      PROVE  t \cup {x} \in A
  <2>1. sum[t \cup {x}] = w[x] + sum[t] /\ sum[t] = 0 /\ w[x] = 0
    BY <1>1, <1>3 DEF Adds
  <2>2. QED  BY <2>1
<1> HIDE DEF A
<1>4. SUBSET S \subseteq A
  BY <1>2, <1>3, ByElement
<1>5. QED  BY <1>1, <1>4 DEF A
=============================================================================
