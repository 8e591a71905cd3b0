------------------------ MODULE WeightedSocketProofs ------------------------
(***************************************************************************)
(* Theorems about module WeightedSocket and the median it keeps: for all   *)
(* sets of requests and all sizes of the window.                           *)
(***************************************************************************)
EXTENDS WeightedSocket, FiniteSums, SequenceTheorems

-----------------------------------------------------------------------------
(* The ages of the requests                                                *)

Total(w) == CHOOSE sum : Sums(sum, w, SUBSET Requests)

LEMMA TotalAdds ==
  ASSUME NEW w, \A q \in Requests : w[q] \in Int
  PROVE  Adds(Total(w), w, Requests)
<1>1. UpTo(Requests, Cardinality(Requests)) = SUBSET Requests
      /\ Cardinality(Requests) \in Nat
  BY RequestsAssumption, FS_Subset, FS_CardinalityType DEF UpTo
<1>2. \E sum : Sums(sum, w, SUBSET Requests)
  BY <1>1, RequestsAssumption, SumsExist
<1>3. Sums(Total(w), w, SUBSET Requests)
  BY <1>2 DEF Total
<1>4. QED  BY <1>3, RequestsAssumption, SumsAdd

Ages == [q \in Requests |-> now - start[q]]

LEMMA SumIsTotal ==
  ASSUME \A q \in Requests : Ages[q] \in Int
  PROVE  MapThenSumSet(LAMBDA q : now - start[q], Outstanding) = Total(Ages)[Outstanding]
<1> DEFINE Step(it) == [s \in SUBSET Outstanding |->
                          IF s = {} THEN 0
                          ELSE (now - start[Choice(s)]) + it[s \ {Choice(s)}]]
           iter == CHOOSE it : it = Step(it)
<1>1. MapThenSumSet(LAMBDA q : now - start[q], Outstanding) = iter[Outstanding]
  BY DEF MapThenSumSet, MapThenFoldSet, Choice
<1>2. \A it : it = Step(it) <=> Sums(it, Ages, SUBSET Outstanding)
  <2>1. \A s \in SUBSET Outstanding : s # {} => Ages[Choice(s)] = now - start[Choice(s)]
    BY DEF Choice, Outstanding, Ages
  <2>2. \A it : Step(it) = [s \in SUBSET Outstanding |->
                            IF s = {} THEN 0 ELSE Ages[Choice(s)] + it[s \ {Choice(s)}]]
    BY <2>1
  <2> HIDE DEF Step
  <2>3. QED  BY <2>2 DEF Sums
<1>3. IsFiniteSet(Outstanding) /\ Cardinality(Outstanding) \in Nat /\ Outstanding \subseteq Requests
  BY RequestsAssumption, FS_Subset, FS_CardinalityType DEF Outstanding
<1>4. \E it : Sums(it, Ages, SUBSET Outstanding)
  <2>1. UpTo(Outstanding, Cardinality(Outstanding)) = SUBSET Outstanding
    BY <1>3, FS_Subset DEF UpTo
  <2>2. \E it : Sums(it, Ages, UpTo(Outstanding, Cardinality(Outstanding)))
    BY <1>3, SumsExist
  <2>3. QED  BY <2>1, <2>2
<1>5. iter = Step(iter)
  <2> HIDE DEF Step
  <2>1. QED  BY <1>2, <1>4
<1> HIDE DEF Step, iter
<1>6. Sums(iter, Ages, SUBSET Outstanding)
  BY <1>2, <1>5
<1>7. Adds(iter, Ages, Outstanding)
  BY <1>3, <1>6, SumsAdd
<1>8. Adds(Total(Ages), Ages, Outstanding)
  BY <1>3, TotalAdds DEF Adds
<1>9. iter[Outstanding] = Total(Ages)[Outstanding]
  <2>1. /\ \A q \in Outstanding : Ages[q] \in Int /\ Ages[q] = Ages[q] + 0
        /\ 0 \in {0, 1} /\ Outstanding \in SUBSET Outstanding
        /\ Total(Ages)[Outstanding] \in Int
    BY <1>3, <1>8 DEF Adds
  <2>2. iter[Outstanding] = Total(Ages)[Outstanding]
                            + (IF 0 = 1 THEN Cardinality(Outstanding) ELSE 0)
    BY <1>3, <1>7, <1>8, <2>1, SumShifts
  <2>3. QED  BY <2>1, <2>2
<1>10. QED  BY <1>1, <1>9

-----------------------------------------------------------------------------
(* The window of round trips                                               *)

MedianTypeOK ==
  /\ ring \in [0..(Size - 1) -> Values \cup {Undefined}]
  /\ from \in Int /\ to \in Int /\ to - from \in 0..Size

LEMMA SlotType == \A p \in Int : Slot(p) \in 0..(Size - 1)
BY SizeAssumption DEF Slot

LEMMA InsertKeeps ==
  ASSUME MedianTypeOK, NEW x \in Values, Insert(x)
  PROVE  MedianTypeOK'
<1>1. Size \in Nat /\ Size >= 1
  BY SizeAssumption
<1> DEFINE V == Values \cup {Undefined}
<1>2. \A s \in 0..(Size - 1) : Slot(s - 1) \in 0..(Size - 1) /\ Slot(s + 1) \in 0..(Size - 1)
  BY SlotType
<1>3. ASSUME NEW place
      PROVE  /\ ShiftRight(place, x) \in [0..(Size - 1) -> V]
             /\ ShiftLeft(place, x) \in [0..(Size - 1) -> V]
  BY <1>2 DEF MedianTypeOK, ShiftRight, ShiftLeft
<1>4. CASE from = to /\ ring' = [ring EXCEPT ![Slot(from)] = x] /\ to' = to + 1 /\ from' = from
  <2>1. ring' \in [0..(Size - 1) -> V]
    BY <1>4 DEF MedianTypeOK
  <2>2. from' \in Int /\ to' \in Int /\ to' - from' = 1
    BY <1>4 DEF MedianTypeOK
  <2>3. 1 \in 0..Size
    BY <1>1
  <2>4. to' - from' \in 0..Size
    BY <2>2, <2>3
  <2>5. QED  BY <2>1, <2>2, <2>4 DEF MedianTypeOK
<1>5. CASE /\ ring' = ShiftRight(Search(Midpoint + 1, to - 1, x), x)
           /\ to' = to + 1 /\ from' = from + Drop
  BY <1>1, <1>3, <1>5 DEF MedianTypeOK, Drop
<1>6. CASE /\ ring' = ShiftLeft(Search(from, Midpoint - 1, x) - 1, x)
           /\ from' = from - 1 /\ to' = to - Drop
  BY <1>1, <1>3, <1>6 DEF MedianTypeOK, Drop
<1>7. QED  BY <1>4, <1>5, <1>6, Zenon DEF Insert

-----------------------------------------------------------------------------
(* The inductive invariant                                                 *)

ClockOK ==
  /\ {now, stamp, stamp0, heard} \subseteq 0..MaxTime
  /\ start \in [Requests -> {Idle} \cup 0..now]

(* The three numbers and the sum of the ages.                              *)
Exact ==
  /\ outstandings = Cardinality(Outstanding)
  /\ duration \in Nat
  /\ Instantaneous = Total(Ages)[Outstanding]

Inv == MedianTypeOK /\ ClockOK /\ Exact

LEMMA ClockFacts ==
  ASSUME ClockOK
  PROVE  /\ now \in Nat /\ stamp0 \in Nat /\ now <= MaxTime
         /\ \A q \in Requests : start[q] \in Int /\ Ages[q] = now - start[q] /\ Ages[q] \in Int
         /\ \A q \in Outstanding : q \in Requests /\ Ages[q] \in 0..now
         /\ Adds(Total(Ages), Ages, Requests)
         /\ IsFiniteSet(Outstanding) /\ Cardinality(Outstanding) \in Nat
         /\ Outstanding \in SUBSET Requests
<1>1. now \in Nat /\ stamp0 \in Nat /\ now <= MaxTime
  BY LoadAssumption DEF ClockOK
<1>2. \A q \in Requests : start[q] \in Int /\ Ages[q] = now - start[q] /\ Ages[q] \in Int
  BY <1>1 DEF ClockOK, Idle, Ages
<1>3. \A q \in Outstanding : q \in Requests /\ Ages[q] \in 0..now
  BY <1>1, <1>2 DEF ClockOK, Outstanding, Idle
<1>4. Adds(Total(Ages), Ages, Requests)
  BY <1>2, TotalAdds
<1>5. Outstanding \in SUBSET Requests
  BY DEF Outstanding
<1>6. IsFiniteSet(Outstanding) /\ Cardinality(Outstanding) \in Nat
  BY <1>5, RequestsAssumption, FS_Subset, FS_CardinalityType
<1>7. QED  BY <1>1, <1>2, <1>3, <1>4, <1>5, <1>6

(* The sum of the ages in T stays, or is one more for each of them.        *)
LEMMA AgesShift ==
  ASSUME ClockOK, ClockOK', NEW T \in SUBSET Requests, NEW c \in {0, 1},
         \A q \in T : Ages'[q] = Ages[q] + c
  PROVE  Total(Ages')[T] = Total(Ages)[T] + (IF c = 1 THEN Cardinality(T) ELSE 0)
<1>1. /\ \A q \in Requests : Ages[q] \in Int
      /\ Adds(Total(Ages), Ages, Requests)
  BY ClockFacts
<1>2. \A q \in Requests : Ages'[q] \in Int
  BY DEF ClockOK, Idle, Ages
<1>3. Adds(Total(Ages'), Ages', Requests)
  BY <1>2, TotalAdds
<1>4. \A q \in Requests : Ages[q] \in Int /\ Ages'[q] \in Int
  BY <1>1, <1>2
<1>5. QED  BY <1>1, <1>3, <1>4, RequestsAssumption, SumShifts

LEMMA AgesStay ==
  ASSUME ClockOK, ClockOK', NEW T \in SUBSET Requests, \A q \in T : Ages'[q] = Ages[q]
  PROVE  Total(Ages')[T] = Total(Ages)[T]
<1>1. Total(Ages)[T] \in Int /\ \A q \in T : Ages'[q] = Ages[q] + 0
  BY ClockFacts DEF Adds
<1>2. Total(Ages')[T] = Total(Ages)[T] + (IF 0 = 1 THEN Cardinality(T) ELSE 0)
  <2>1. 0 \in {0, 1}
    OBVIOUS
  <2>2. QED  BY <1>1, <2>1, AgesShift
<1>3. QED  BY <1>1, <1>2

(* When the stamp is the time, nothing has been added since.               *)
LEMMA NothingSince ==
  ASSUME NEW d \in Int, NEW a \in Int, NEW n \in Int
  PROVE  d + (a - a) * n = d
<1>1. a - a = 0
  OBVIOUS
<1>2. 0 * n = 0
  OBVIOUS
<1>3. QED  BY <1>1, <1>2

(* One unit of time later, each of them has added one.                     *)
LEMMA OneMore ==
  ASSUME NEW d \in Int, NEW a \in Int, NEW b \in Int, NEW n \in Int
  PROVE  d + ((a + 1) - b) * n = (d + (a - b) * n) + n
<1>1. (a + 1) - b = (a - b) + 1
  OBVIOUS
<1>2. \A m \in Int : (m + 1) * n = m * n + n
  OBVIOUS
<1>3. QED  BY <1>1, <1>2

LEMMA SendKeeps ==
  ASSUME Inv, NEW q \in Requests, Send(q)
  PROVE  Inv'
<1>1. /\ start[q] = Idle /\ start' = [start EXCEPT ![q] = now]
      /\ duration' = Instantaneous /\ outstandings' = outstandings + 1
      /\ stamp' = now /\ stamp0' = now /\ heard' = now
      /\ UNCHANGED <<ring, from, to, now>>
  BY DEF Send, medianVars
<1>2. now \in Nat /\ Outstanding \in SUBSET Requests /\ IsFiniteSet(Outstanding)
  BY ClockFacts DEF Inv
<1>3. MedianTypeOK'
  BY <1>1 DEF Inv, MedianTypeOK
<1>4. ClockOK'
  BY <1>1, <1>2 DEF Inv, ClockOK
<1>5. Outstanding' = Outstanding \cup {q} /\ q \in Requests \ Outstanding
  BY <1>1, <1>2 DEF Outstanding, Idle, Inv, ClockOK
<1>6. \A p \in Outstanding : Ages'[p] = Ages[p]
  BY <1>1 DEF Ages, Outstanding, Inv, ClockOK
<1>7. Ages'[q] = 0
  BY <1>1, <1>2 DEF Ages, Inv, ClockOK
<1>8. Total(Ages')[Outstanding'] = Total(Ages)[Outstanding]
      /\ Total(Ages)[Outstanding] \in Nat
  <2>1. Adds(Total(Ages'), Ages', Requests)
    BY <1>4, TotalAdds DEF ClockOK, Idle, Ages
  <2>2. Total(Ages')[Outstanding'] = 0 + Total(Ages')[Outstanding]
    BY <1>2, <1>5, <1>7, <2>1 DEF Adds
  <2>3. Total(Ages')[Outstanding] = Total(Ages)[Outstanding]
    BY <1>2, <1>4, <1>6, AgesStay DEF Inv
  <2>4. Total(Ages)[Outstanding] \in Nat
    BY ClockFacts, RequestsAssumption, SumNatural DEF Inv
  <2>5. QED  BY <2>2, <2>3, <2>4
<1>9. duration' = Total(Ages')[Outstanding'] /\ duration' \in Nat
  BY <1>1, <1>8 DEF Inv, Exact
<1>10. outstandings' = Cardinality(Outstanding') /\ outstandings' \in Nat
  <2>1. Cardinality(Outstanding \cup {q}) = Cardinality(Outstanding) + 1
        /\ Cardinality(Outstanding) \in Nat
    BY <1>2, <1>5, FS_AddElement, FS_CardinalityType
  <2>2. QED  BY <1>1, <1>5, <2>1 DEF Inv, Exact
<1>11. Instantaneous' = duration'
  <2>1. now' \in Int /\ stamp0' = now' /\ duration' \in Int /\ outstandings' \in Int
    BY <1>1, <1>2, <1>9, <1>10
  <2>2. duration' + (now' - now') * outstandings' = duration'
    BY <2>1, NothingSince
  <2>3. QED  BY <2>1, <2>2 DEF Instantaneous
<1>12. QED  BY <1>3, <1>4, <1>9, <1>10, <1>11 DEF Inv, Exact

LEMMA DecrKeeps ==
  ASSUME Inv, NEW q \in Outstanding, Decr(q), heard' = now, UNCHANGED now
  PROVE  ClockOK' /\ Exact'
<1>1. /\ start' = [start EXCEPT ![q] = Idle]
      /\ duration' = Instantaneous - (now - start[q]) /\ outstandings' = outstandings - 1
      /\ stamp' = stamp /\ stamp0' = now /\ heard' = now /\ now' = now
  BY DEF Decr
<1>2. /\ now \in Nat /\ Outstanding \in SUBSET Requests /\ IsFiniteSet(Outstanding)
      /\ q \in Requests /\ Ages[q] = now - start[q] /\ Ages[q] \in Int
      /\ Adds(Total(Ages), Ages, Requests)
  BY ClockFacts DEF Inv
<1>3. ClockOK'
  BY <1>1, <1>2 DEF Inv, ClockOK
<1> DEFINE rest == Outstanding \ {q}
<1>4. /\ Outstanding' = rest /\ rest \in SUBSET Requests /\ q \in Requests \ rest
      /\ rest \cup {q} = Outstanding
  BY <1>1, <1>2 DEF Outstanding, Inv, ClockOK
<1>5. \A p \in rest : Ages'[p] = Ages[p]
  BY <1>1 DEF Ages, Outstanding, Inv, ClockOK
<1>6. outstandings' = Cardinality(rest) /\ outstandings' \in Nat
  <2>1. Cardinality(rest) = Cardinality(Outstanding) - 1 /\ IsFiniteSet(rest)
    BY <1>2, FS_RemoveElement
  <2>2. Cardinality(rest) \in Nat
    BY <2>1, FS_CardinalityType
  <2>3. QED  BY <1>1, <2>1, <2>2 DEF Inv, Exact
<1>7. \A p \in rest : Ages[p] \in Nat
  BY ClockFacts DEF Inv
<1> HIDE DEF rest
<1>8. Total(Ages)[Outstanding] = Ages[q] + Total(Ages)[rest]
  BY <1>2, <1>4 DEF Adds
<1>9. Total(Ages)[rest] \in Nat
  BY <1>2, <1>4, <1>7, RequestsAssumption, SumNatural
<1>10. Total(Ages')[rest] = Total(Ages)[rest]
  BY <1>3, <1>4, <1>5, AgesStay DEF Inv
<1>11. duration' = Total(Ages)[rest]
  <2>1. Instantaneous = Ages[q] + Total(Ages)[rest]
    BY <1>8 DEF Inv, Exact
  <2>2. QED  BY <1>1, <1>2, <1>9, <2>1
<1>12. Instantaneous' = duration'
  <2>1. now' \in Int /\ stamp0' = now' /\ duration' \in Int /\ outstandings' \in Int
    BY <1>1, <1>2, <1>6, <1>9, <1>11
  <2>2. duration' + (now' - now') * outstandings' = duration'
    BY <2>1, NothingSince
  <2>3. QED  BY <2>1, <2>2 DEF Instantaneous
<1>13. QED  BY <1>3, <1>4, <1>6, <1>9, <1>10, <1>11, <1>12 DEF Exact

LEMMA TickKeeps ==
  ASSUME Inv, Tick
  PROVE  Inv'
<1>1. /\ now < MaxTime /\ now' = now + 1
      /\ UNCHANGED <<ring, from, to, start, outstandings, stamp, stamp0, duration, heard>>
  BY DEF Tick, medianVars, loadVars
<1>2. now \in Nat /\ stamp0 \in Nat /\ Outstanding \in SUBSET Requests /\ MaxTime \in Nat
      /\ Total(Ages)[Outstanding] \in Int
  BY LoadAssumption, ClockFacts DEF Inv, Adds
<1>3. MedianTypeOK'
  BY <1>1 DEF Inv, MedianTypeOK
<1>4. ClockOK'
  BY <1>1, <1>2 DEF Inv, ClockOK
<1>5. Outstanding' = Outstanding
  BY <1>1 DEF Outstanding
<1>6. \A q \in Outstanding : Ages'[q] = Ages[q] + 1
  BY <1>1, <1>2, ClockFacts DEF Ages, Inv
<1>7. Total(Ages')[Outstanding] = Total(Ages)[Outstanding] + Cardinality(Outstanding)
  <2>1. 1 \in {0, 1}
    OBVIOUS
  <2>2. Total(Ages')[Outstanding]
          = Total(Ages)[Outstanding] + (IF 1 = 1 THEN Cardinality(Outstanding) ELSE 0)
    BY <1>2, <1>4, <1>6, <2>1, AgesShift DEF Inv
  <2>3. QED  BY <2>2
<1>8. Instantaneous' = Instantaneous + outstandings
  <2>1. duration \in Int /\ outstandings \in Int
    BY ClockFacts DEF Inv, Exact
  <2>2. QED  BY <1>1, <1>2, <2>1, OneMore DEF Instantaneous
<1>9. QED  BY <1>1, <1>3, <1>4, <1>5, <1>7, <1>8 DEF Inv, Exact

LEMMA EstimateType ==
  ASSUME MedianTypeOK, Estimate # 0
  PROVE  Estimate \in Values
<1>1. Midpoint \in Int
  BY DEF Midpoint, MedianTypeOK
<1>2. Slot(Midpoint) \in 0..(Size - 1)
  BY <1>1, SlotType
<1>3. QED  BY <1>2 DEF Estimate, MedianTypeOK, Undefined

LEMMA DecayKeeps ==
  ASSUME Inv, Decay
  PROVE  Inv'
<1>1. /\ outstandings = 0 /\ stamp' = now /\ stamp0' = now
      /\ UNCHANGED <<now, start, outstandings, duration, heard>>
  BY DEF Decay, Decays
<1>2. PICK x \in 1..Estimate : Insert(x)
  BY DEF Decay
<1>3. Estimate \in Values
  BY EstimateType DEF Decay, Decays, Inv
<1>4. x \in Values
  BY <1>2, <1>3, RoundTrips, LoadAssumption
<1>5. MedianTypeOK'
  BY <1>2, <1>4, InsertKeeps DEF Inv
<1>6. now \in Nat /\ stamp0 \in Nat
  BY ClockFacts DEF Inv
<1>7. ClockOK'
  BY <1>1, <1>6 DEF Inv, ClockOK
<1>8. Outstanding' = Outstanding /\ Ages' = Ages
  BY <1>1 DEF Outstanding, Ages
<1>9. Instantaneous' = Instantaneous
  <2>1. duration + (now - now) * 0 = duration /\ duration + (now - stamp0) * 0 = duration
    <3>1. \A m \in Int : m * 0 = 0
      OBVIOUS
    <3>2. duration \in Int /\ now - now \in Int /\ now - stamp0 \in Int
      BY <1>6 DEF Inv, Exact
    <3>3. QED  BY <3>1, <3>2
  <2>2. QED  BY <1>1, <2>1 DEF Instantaneous
<1>10. QED  BY <1>1, <1>5, <1>7, <1>8, <1>9 DEF Inv, Exact

LEMMA InvNext == ASSUME Inv, [Next]_vars PROVE Inv'
<1>1. ASSUME NEW q \in Requests, Respond(q)
      PROVE  Inv'
  <2>1. /\ q \in Outstanding /\ now > start[q] /\ Insert(now - start[q])
        /\ Decr(q) /\ heard' = now /\ UNCHANGED now
    BY <1>1 DEF Respond
  <2>2. now - start[q] \in Values
    <3>1. now \in Nat /\ now <= MaxTime /\ start[q] \in 0..now
      BY <2>1, ClockFacts DEF Inv, ClockOK, Outstanding, Idle
    <3>2. QED  BY <2>1, <3>1, RoundTrips, LoadAssumption
  <2>3. QED  BY <2>1, <2>2, InsertKeeps, DecrKeeps DEF Inv
<1>2. ASSUME NEW q \in Requests, Fail(q)
      PROVE  Inv'
  <2>1. /\ q \in Outstanding /\ Decr(q) /\ heard' = now /\ UNCHANGED now
        /\ UNCHANGED <<ring, from, to>>
    BY <1>2 DEF Fail, medianVars
  <2>2. QED  BY <2>1, DecrKeeps DEF Inv, MedianTypeOK
<1>3. CASE UNCHANGED vars
  BY <1>3 DEF vars, medianVars, loadVars, Inv, MedianTypeOK, ClockOK, Exact, Outstanding,
     Ages, Instantaneous
<1>4. QED  BY <1>1, <1>2, <1>3, SendKeeps, DecayKeeps, TickKeeps DEF Next

LEMMA InvInit == Init => Inv
<1> SUFFICES ASSUME Init PROVE Inv
  OBVIOUS
<1>1. /\ now = 0 /\ start = [q \in Requests |-> Idle] /\ outstandings = 0 /\ stamp = 0
      /\ stamp0 = 0 /\ duration = 0 /\ heard = 0
  BY DEF Init
<1>2. MedianTypeOK
  <2>1. Size \in Nat
    BY SizeAssumption
  <2>2. QED  BY <2>1 DEF Init, MedianInit, MedianTypeOK
<1>3. ClockOK
  BY <1>1, LoadAssumption DEF ClockOK
<1>4. Outstanding = {}
  BY <1>1 DEF Outstanding
<1>5. Total(Ages)[{}] = 0
  BY <1>3, ClockFacts DEF Adds
<1>6. Instantaneous = 0
  <2>1. 0 + (0 - 0) * 0 = 0
    OBVIOUS
  <2>2. QED  BY <1>1, <2>1 DEF Instantaneous
<1>7. QED  BY <1>1, <1>2, <1>3, <1>4, <1>5, <1>6, FS_EmptySet DEF Inv, Exact

-----------------------------------------------------------------------------
(* What that says                                                          *)

(* The window, the clock and the three numbers stay consistent.            *)
THEOREM Inductive == Spec => []Inv
<1>1. Inv /\ [Next]_vars => Inv'
  BY InvNext
<1>2. QED  BY <1>1, InvInit, PTL DEF Spec

(* TypeOK: the ends of the ring stay within Size of each other, and the    *)
(* duration never falls below 0.                                           *)
THEOREM TypeCorrect == Spec => []TypeOK
<1>1. Inv => TypeOK
  <2> SUFFICES ASSUME Inv PROVE TypeOK
    OBVIOUS
  <2>1. outstandings \in Nat
    BY ClockFacts DEF Inv, Exact
  <2>2. QED  BY <2>1 DEF Inv, MedianTypeOK, ClockOK, Exact, TypeOK
<1>2. QED  BY <1>1, Inductive, PTL

(* LoadIsExact: the three numbers that _incr() and _decr() keep make up    *)
(* the sum of the ages of the outstanding requests at every time.          *)
THEOREM LoadStaysExact == Spec => []LoadIsExact
<1>1. Inv => LoadIsExact
  <2> SUFFICES ASSUME Inv PROVE LoadIsExact
    OBVIOUS
  <2>1. \A q \in Requests : Ages[q] \in Int
    BY ClockFacts DEF Inv
  <2>2. QED  BY <2>1, SumIsTotal DEF Inv, Exact, LoadIsExact
<1>2. QED  BY <1>1, Inductive, PTL

-----------------------------------------------------------------------------
(* The slots of the ring                                                   *)

(* Positions less than Size apart have different slots.                    *)
LEMMA Multiples ==
  ASSUME NEW N \in Nat, N > 0, NEW m \in Int, NEW d \in Int, d = N * m, -N < d, d < N
  PROVE  d = 0
<1>1. CASE m >= 1
  <2>1. N * m >= N * 1
    BY <1>1
  <2>2. QED BY <2>1
<1>2. CASE m <= -1
  <2>1. N * m <= N * (-1)
    BY <1>2
  <2>2. QED BY <2>1
<1>3. CASE m = 0
  BY <1>3
<1>4. QED  BY <1>1, <1>2, <1>3

LEMMA Division ==
  ASSUME NEW N \in Nat, N > 0, NEW p \in Int
  PROVE  /\ p % N \in 0..(N - 1) /\ p \div N \in Int
         /\ p = N * (p \div N) + (p % N)
OBVIOUS

LEMMA SlotsDiffer ==
  ASSUME NEW p \in Int, NEW q \in Int, Slot(p) = Slot(q), -Size < p - q, p - q < Size
  PROVE  p = q
<1>1. Size \in Nat /\ Size > 0
  BY SizeAssumption
<1>2. PICK a \in Int, b \in Int : p = Size * a + Slot(p) /\ q = Size * b + Slot(q)
  BY <1>1, Division DEF Slot
<1>3. p - q = Size * (a - b)
  <2>1. Slot(p) \in Int
    BY SlotType
  <2> DEFINE A == Size * a
             B == Size * b
  <2>2. A \in Int /\ B \in Int /\ Size * (a - b) = A - B
    BY <1>1
  <2>3. p = A + Slot(p) /\ q = B + Slot(q)
    BY <1>2
  <2> HIDE DEF A, B
  <2>4. QED BY <2>1, <2>2, <2>3
<1>4. p - q = 0
  BY <1>1, <1>3, Multiples
<1>5. QED  BY <1>4

LEMMA SlotsAgree ==
  ASSUME NEW p \in Int, NEW q \in Int, NEW m \in Int, p - q = Size * m
  PROVE  Slot(p) = Slot(q)
<1>1. Size \in Nat /\ Size > 0
  BY SizeAssumption
<1>2. PICK a \in Int, b \in Int : p = Size * a + Slot(p) /\ q = Size * b + Slot(q)
  BY <1>1, Division DEF Slot
<1>3. Slot(p) - Slot(q) = Size * (m - a + b)
  <2>1. Slot(p) \in Int /\ Slot(q) \in Int
    BY SlotType
  <2> DEFINE A == Size * a
             B == Size * b
             M == Size * m
  <2>2. A \in Int /\ B \in Int /\ M \in Int /\ Size * (m - a + b) = M - A + B
    BY <1>1
  <2>3. p = A + Slot(p) /\ q = B + Slot(q) /\ p - q = M
    BY <1>2
  <2> HIDE DEF A, B, M
  <2>4. QED BY <2>1, <2>2, <2>3
<1>4. Slot(p) - Slot(q) = 0
  BY <1>1, <1>3, Multiples, SlotType
<1>5. QED  BY <1>4, SlotType

LEMMA SlotShifts ==
  ASSUME NEW p \in Int
  PROVE  /\ Slot(Slot(p) - 1) = Slot(p - 1) /\ Slot(Slot(p) + 1) = Slot(p + 1)
         /\ Slot(p + Size) = Slot(p)
<1>1. Size \in Nat /\ Size > 0
  BY SizeAssumption
<1>2. PICK a \in Int : p = Size * a + Slot(p)
  BY <1>1, Division DEF Slot
<1>3. Slot(p) \in Int
  BY SlotType
<1>4. /\ (p - 1) - (Slot(p) - 1) = Size * a /\ (p + 1) - (Slot(p) + 1) = Size * a
      /\ (p + Size) - p = Size * 1
      /\ {p - 1, p + 1, p + Size, Slot(p) - 1, Slot(p) + 1} \subseteq Int
  <2> DEFINE A == Size * a
  <2>1. A \in Int /\ p = A + Slot(p) /\ Size * 1 = Size
    BY <1>1, <1>2
  <2> HIDE DEF A
  <2>2. (p - 1) - (Slot(p) - 1) = A /\ (p + 1) - (Slot(p) + 1) = A
    BY <1>3, <2>1
  <2>3. QED  BY <1>1, <1>3, <2>1, <2>2 DEF A
<1>5. Slot(p - 1) = Slot(Slot(p) - 1)
  BY <1>4, SlotsAgree
<1>6. Slot(p + 1) = Slot(Slot(p) + 1)
  BY <1>4, SlotsAgree
<1>7. Slot(p + Size) = Slot(p)
  BY <1>4, SlotsAgree
<1>8. QED  BY <1>5, <1>6, <1>7
-----------------------------------------------------------------------------
(* The binary search                                                       *)

(* Where it goes from lo and hi, when it is known where from less.         *)
Halved(place, lo, hi, x) ==
  LET mid == (lo + hi) \div 2
  IN IF ring[Slot(mid)] < x THEN place[<<mid + 1, hi>>] ELSE place[<<lo, mid - 1>>]

Searches(place, first, last, x) ==
  place = [range \in (first..(last + 1)) \X ((first - 1)..last) |->
             IF range[1] > range[2] THEN range[1]
             ELSE Halved(place, range[1], range[2], x)]

LEMMA MidBetween ==
  ASSUME NEW lo \in Int, NEW hi \in Int, lo <= hi
  PROVE  (lo + hi) \div 2 \in lo..hi
OBVIOUS

LEMMA SearchExists ==
  ASSUME NEW first \in Int, NEW last \in Int, NEW x
  PROVE  \E place : Searches(place, first, last, x)
<1> DEFINE L == first..(last + 1)
           H == (first - 1)..last
           To(place, n) == \A lo \in L, hi \in H : hi - lo < n =>
                 place[<<lo, hi>>] = IF lo > hi THEN lo ELSE Halved(place, lo, hi, x)
           Bad == {n \in Nat : ~\E place : To(place, n)}
<1>1. ASSUME Bad # {} PROVE FALSE
  <2>1. PICK n \in Bad : \A m \in Bad : n <= m
    <3>1. Bad \in SUBSET Nat
      OBVIOUS
    <3> HIDE DEF Bad
    <3>2. QED  BY <1>1, <3>1, LeastNatural
  <2>2. PICK old : n > 0 => To(old, n - 1)
    <3>1. CASE n = 0
      BY <3>1
    <3>2. CASE n > 0
      <4>1. n \in Nat
        OBVIOUS
      <4>2. n - 1 \notin Bad
        <5> HIDE DEF Bad
        <5>1. QED  BY <2>1, <4>1
      <4>3. n - 1 \in Nat
        BY <3>2, <4>1
      <4>4. \E place : To(place, n - 1)
        <5> HIDE DEF To
        <5>1. QED  BY <4>2, <4>3
      <4>5. QED  BY <4>4
    <3>3. QED  BY <2>1, <3>1, <3>2
  <2> DEFINE new == [range \in L \X H |->
                 IF range[1] > range[2] THEN range[1]
                 ELSE Halved(old, range[1], range[2], x)]
  <2>3. ASSUME NEW lo \in L, NEW hi \in H
        PROVE  new[<<lo, hi>>] = IF lo > hi THEN lo ELSE Halved(old, lo, hi, x)
    OBVIOUS
  <2>4. ASSUME NEW lo \in L, NEW hi \in H, hi - lo < n, lo <= hi
        PROVE  Halved(new, lo, hi, x) = Halved(old, lo, hi, x)
    <3> DEFINE mid == (lo + hi) \div 2
    <3>1. mid \in lo..hi
      BY <2>4, MidBetween
    <3> HIDE DEF mid
    <3>2. /\ mid + 1 \in L /\ mid - 1 \in H /\ n > 0
          /\ hi - (mid + 1) < n - 1 /\ (mid - 1) - lo < n - 1
      BY <2>1, <2>4, <3>1
    <3>3. To(old, n - 1)
      BY <2>2, <3>2
    <3>4. /\ new[<<mid + 1, hi>>] = old[<<mid + 1, hi>>]
          /\ new[<<lo, mid - 1>>] = old[<<lo, mid - 1>>]
      <4> HIDE DEF new
      <4>1. QED  BY <2>3, <3>2, <3>3
    <3> HIDE DEF new
    <3>5. QED  BY <3>4 DEF Halved, mid
  <2>5. To(new, n)
    <3> HIDE DEF new
    <3>1. QED  BY <2>3, <2>4
  <2> HIDE DEF new, To
  <2>6. QED  BY <2>1, <2>5
<1> DEFINE n == IF last >= first THEN last - first + 1 ELSE 0
<1>2. n \in Nat /\ \A lo \in L, hi \in H : hi - lo < n \/ lo > hi
  OBVIOUS
<1>3. PICK old : To(old, n)
  <2>1. n \notin Bad
    BY <1>1
  <2> HIDE DEF n, To
  <2>2. QED  BY <1>2, <2>1
<1> DEFINE place == [range \in L \X H |->
                   IF range[1] > range[2] THEN range[1]
                   ELSE Halved(old, range[1], range[2], x)]
<1>4. ASSUME NEW lo \in L, NEW hi \in H
      PROVE  place[<<lo, hi>>] = old[<<lo, hi>>]
  <2>1. place[<<lo, hi>>] = IF lo > hi THEN lo ELSE Halved(old, lo, hi, x)
    OBVIOUS
  <2> HIDE DEF place
  <2>2. QED  BY <1>2, <1>3, <2>1
<1>5. ASSUME NEW lo \in L, NEW hi \in H, lo <= hi
      PROVE  Halved(old, lo, hi, x) = Halved(place, lo, hi, x)
  <2> DEFINE mid == (lo + hi) \div 2
  <2>1. mid \in lo..hi
    BY <1>5, MidBetween
  <2> HIDE DEF mid
  <2>2. mid + 1 \in L /\ mid - 1 \in H
    BY <2>1
  <2> HIDE DEF place
  <2>3. QED  BY <1>4, <2>2 DEF Halved, mid
<1>6. ASSUME NEW range \in L \X H
      PROVE  (IF range[1] > range[2] THEN range[1] ELSE Halved(old, range[1], range[2], x))
               = IF range[1] > range[2] THEN range[1] ELSE Halved(place, range[1], range[2], x)
  <2>1. range[1] \in L /\ range[2] \in H
    OBVIOUS
  <2> HIDE DEF place
  <2>2. QED  BY <1>5, <2>1
<1>7. Searches(place, first, last, x)
  BY <1>6 DEF Searches
<1>8. QED  BY <1>7

(* p parts the positions of values less than x from the others.            *)
Parts(p, first, last, x) ==
  /\ p \in first..(last + 1)
  /\ \A k \in first..(p - 1) : ring[Slot(k)] < x
  /\ \A k \in p..last : ring[Slot(k)] >= x

Ordered(first, last) ==
  /\ \A p \in first..last : ring[Slot(p)] \in Nat
  /\ \A p, q \in first..last : p <= q => ring[Slot(p)] <= ring[Slot(q)]

LEMMA SearchFinds ==
  ASSUME NEW first \in Int, NEW last \in Int, first <= last + 1, NEW x \in Nat,
         Ordered(first, last)
  PROVE  Parts(Search(first, last, x), first, last, x)
<1> DEFINE place == CHOOSE f : Searches(f, first, last, x)
           L == first..(last + 1)
           H == (first - 1)..last
           Around(lo, hi) == /\ lo <= hi + 1
                             /\ \A k \in first..(lo - 1) : ring[Slot(k)] < x
                             /\ \A k \in (hi + 1)..last : ring[Slot(k)] >= x
           Fails(lo, hi) == Around(lo, hi) /\ ~Parts(place[<<lo, hi>>], first, last, x)
           Bad == {n \in Nat : \E lo \in L, hi \in H : n = hi - lo + 1 /\ Fails(lo, hi)}
<1>1. Search(first, last, x) = place[<<first, last>>]
  BY DEF Search, Searches, Halved
<1>2. Searches(place, first, last, x)
  <2>1. \E f : Searches(f, first, last, x)
    BY SearchExists
  <2>2. QED  BY <2>1
<1> HIDE DEF place
<1>3. ASSUME NEW lo \in L, NEW hi \in H
      PROVE  place[<<lo, hi>>] = IF lo > hi THEN lo ELSE Halved(place, lo, hi, x)
  <2>1. \A range \in L \X H :
          place[range] = IF range[1] > range[2] THEN range[1]
                         ELSE Halved(place, range[1], range[2], x)
    BY <1>2 DEF Searches
  <2>2. <<lo, hi>> \in L \X H
    OBVIOUS
  <2>3. QED  BY <2>1, <2>2
<1>4. ASSUME Bad # {} PROVE FALSE
  <2>1. PICK n \in Bad : \A m \in Bad : n <= m
    <3>1. Bad \in SUBSET Nat
      OBVIOUS
    <3> HIDE DEF Bad
    <3>2. QED  BY <1>4, <3>1, LeastNatural
  <2>2. PICK lo \in L, hi \in H : n = hi - lo + 1 /\ Fails(lo, hi)
    <3> HIDE DEF Fails
    <3>1. QED  BY <2>1
  <2>3. lo <= hi
    <3>1. SUFFICES ASSUME lo > hi PROVE FALSE
      OBVIOUS
    <3>2. place[<<lo, hi>>] = lo /\ lo = hi + 1
      BY <1>3, <2>2, <3>1
    <3>3. Parts(lo, first, last, x)
      BY <2>2, <3>2 DEF Parts
    <3>4. QED  BY <2>2, <3>2, <3>3
  <2> DEFINE mid == (lo + hi) \div 2
  <2>4. mid \in lo..hi /\ mid \in first..last
    BY <2>3, MidBetween
  <2>5. place[<<lo, hi>>] = IF ring[Slot(mid)] < x THEN place[<<mid + 1, hi>>]
                            ELSE place[<<lo, mid - 1>>]
    BY <1>3, <2>3 DEF Halved
  <2> HIDE DEF mid
  <2>6. ASSUME NEW a \in L, NEW b \in H, b - a < hi - lo, a <= b + 1
        PROVE  ~Fails(a, b)
    <3>1. b - a + 1 \in Nat /\ b - a + 1 < n /\ n \in Nat
      BY <2>2, <2>3, <2>6
    <3>2. b - a + 1 \notin Bad
      <4> HIDE DEF Bad
      <4>1. QED  BY <2>1, <3>1
    <3> HIDE DEF Fails
    <3>3. QED  BY <3>1, <3>2
  <2>7. CASE ring[Slot(mid)] < x
    <3>1. Around(mid + 1, hi)
      <4>1. ASSUME NEW k \in first..mid PROVE ring[Slot(k)] < x
        BY <2>4, <2>7 DEF Ordered
      <4>2. QED  BY <2>2, <2>4, <4>1
    <3>2. mid + 1 \in L /\ hi - (mid + 1) < hi - lo /\ mid + 1 <= hi + 1
      BY <2>4
    <3>3. ~Fails(mid + 1, hi)
      <4> HIDE DEF Fails
      <4>1. QED  BY <2>6, <3>2
    <3>4. QED  BY <2>2, <2>5, <2>7, <3>1, <3>3
  <2>8. CASE ~(ring[Slot(mid)] < x)
    <3>1. Around(lo, mid - 1)
      <4>1. ASSUME NEW k \in mid..last PROVE ring[Slot(k)] >= x
        BY <2>4, <2>8 DEF Ordered
      <4>2. QED  BY <2>2, <2>4, <4>1
    <3>2. mid - 1 \in H /\ (mid - 1) - lo < hi - lo /\ lo <= (mid - 1) + 1
      BY <2>4
    <3>3. ~Fails(lo, mid - 1)
      <4> HIDE DEF Fails
      <4>1. QED  BY <2>6, <3>2
    <3>4. QED  BY <2>2, <2>5, <2>8, <3>1, <3>3
  <2>9. QED  BY <2>7, <2>8
<1>5. first \in L /\ last \in H /\ last - first + 1 \in Nat /\ Around(first, last)
  OBVIOUS
<1>6. ~Fails(first, last)
  <2> HIDE DEF Fails
  <2>1. QED  BY <1>4, <1>5
<1>7. QED  BY <1>1, <1>5, <1>6

-----------------------------------------------------------------------------
(* The shifts                                                              *)

LEMMA SlotsNear ==
  ASSUME NEW p \in Int, NEW A \in SUBSET Int, \A q \in A : -Size < p - q /\ p - q < Size
  PROVE  Slot(p) \in {Slot(q) : q \in A} <=> p \in A
BY SlotsDiffer

LEMMA ShiftsRight ==
  ASSUME MedianTypeOK, NEW x, NEW place \in Int, NEW k \in Int,
         to - Size < place, place <= to, to - Size < k, k <= to
  PROVE  ShiftRight(place, x)[Slot(k)] =
           IF k < place THEN ring[Slot(k)] ELSE IF k = place THEN x ELSE ring[Slot(k - 1)]
<1>1. Size \in Nat /\ to \in Int
  BY SizeAssumption DEF MedianTypeOK
<1> DEFINE moved == {Slot(j) : j \in (place + 1)..to}
<1>2. Slot(k) \in 0..(Size - 1) /\ Slot(Slot(k) - 1) = Slot(k - 1)
  BY SlotType, SlotShifts
<1>3. Slot(k) \in moved <=> k \in (place + 1)..to
  <2> DEFINE A == (place + 1)..to
  <2>1. A \in SUBSET Int /\ \A q \in A : -Size < k - q /\ k - q < Size
    BY <1>1
  <2> HIDE DEF A
  <2>2. Slot(k) \in {Slot(q) : q \in A} <=> k \in A
    BY <2>1, SlotsNear
  <2>3. QED  BY <2>2 DEF A
<1>4. Slot(k) = Slot(place) <=> k = place
  BY <1>1, SlotsDiffer
<1>5. ShiftRight(place, x) = [s \in 0..(Size - 1) |->
        IF s = Slot(place) THEN x ELSE IF s \in moved THEN ring[Slot(s - 1)] ELSE ring[s]]
  BY DEF ShiftRight
<1> HIDE DEF moved
<1>6. ShiftRight(place, x)[Slot(k)] =
        IF Slot(k) = Slot(place) THEN x
        ELSE IF Slot(k) \in moved THEN ring[Slot(Slot(k) - 1)] ELSE ring[Slot(k)]
  BY <1>2, <1>5
<1>7. QED  BY <1>1, <1>2, <1>3, <1>4, <1>6

LEMMA ShiftsLeft ==
  ASSUME MedianTypeOK, NEW x, NEW place \in Int, NEW k \in Int,
         from - 1 <= place, place < from - 1 + Size, from - 1 <= k, k < from - 1 + Size
  PROVE  ShiftLeft(place, x)[Slot(k)] =
           IF k > place THEN ring[Slot(k)] ELSE IF k = place THEN x ELSE ring[Slot(k + 1)]
<1>1. Size \in Nat /\ from \in Int
  BY SizeAssumption DEF MedianTypeOK
<1> DEFINE moved == {Slot(j) : j \in (from - 1)..(place - 1)}
<1>2. Slot(k) \in 0..(Size - 1) /\ Slot(Slot(k) + 1) = Slot(k + 1)
  BY SlotType, SlotShifts
<1>3. Slot(k) \in moved <=> k \in (from - 1)..(place - 1)
  <2> DEFINE A == (from - 1)..(place - 1)
  <2>1. A \in SUBSET Int /\ \A q \in A : -Size < k - q /\ k - q < Size
    BY <1>1
  <2> HIDE DEF A
  <2>2. Slot(k) \in {Slot(q) : q \in A} <=> k \in A
    BY <2>1, SlotsNear
  <2>3. QED  BY <2>2 DEF A
<1>4. Slot(k) = Slot(place) <=> k = place
  BY <1>1, SlotsDiffer
<1>5. ShiftLeft(place, x) = [s \in 0..(Size - 1) |->
        IF s = Slot(place) THEN x ELSE IF s \in moved THEN ring[Slot(s + 1)] ELSE ring[s]]
  BY DEF ShiftLeft
<1> HIDE DEF moved
<1>6. ShiftLeft(place, x)[Slot(k)] =
        IF Slot(k) = Slot(place) THEN x
        ELSE IF Slot(k) \in moved THEN ring[Slot(Slot(k) + 1)] ELSE ring[Slot(k)]
  BY <1>2, <1>5
<1>7. QED  BY <1>1, <1>2, <1>3, <1>4, <1>6

-----------------------------------------------------------------------------
(* The window                                                              *)

Between == [i \in 1..(to - from) |-> ring[Slot(from + i - 1)]]

(* A sequence w with x after the first n.                                  *)
Inserted(w, n, x, i) ==
  IF i <= n THEN w[i] ELSE IF i = n + 1 THEN x ELSE w[i - 1]

Less(w, n, x) ==
  /\ n \in 0..Len(w)
  /\ \A i \in 1..n : w[i] < x
  /\ \A i \in (n + 1)..Len(w) : w[i] >= x

Sorted(w) == \A i, j \in 1..Len(w) : i <= j => w[i] <= w[j]

LEMMA BetweenFacts ==
  ASSUME MedianTypeOK
  PROVE  /\ Between \in Seq(Nat) /\ Len(Between) = to - from /\ DOMAIN Between = 1..(to - from)
         /\ to - from \in Nat /\ from \in Int /\ to \in Int /\ Size \in Nat /\ Size > 0
         /\ \A p \in Int : ring[Slot(p)] \in Nat
         /\ \A i \in 1..(to - from) : Between[i] = ring[Slot(from + i - 1)]
         /\ \A p \in from..(to - 1) : Between[p - from + 1] = ring[Slot(p)]
<1>1. from \in Int /\ to \in Int /\ Size \in Nat /\ Size > 0 /\ to - from \in Nat
  BY SizeAssumption DEF MedianTypeOK
<1>2. \A p \in Int : ring[Slot(p)] \in Nat
  <2>1. Values \cup {Undefined} \subseteq Nat
    BY ValuesAssumption DEF Undefined
  <2>2. ASSUME NEW s \in 0..(Size - 1) PROVE ring[s] \in Values \cup {Undefined}
    BY DEF MedianTypeOK
  <2>3. QED  BY <2>1, <2>2, SlotType
<1>3. Between \in [1..(to - from) -> Nat]
  BY <1>1, <1>2 DEF Between
<1>4. \A i \in 1..(to - from) : Between[i] = ring[Slot(from + i - 1)]
  BY DEF Between
<1>5. ASSUME NEW p \in from..(to - 1) PROVE Between[p - from + 1] = ring[Slot(p)]
  <2>1. p - from + 1 \in 1..(to - from) /\ from + (p - from + 1) - 1 = p
    BY <1>1
  <2>2. QED  BY <1>4, <2>1
<1>6. Between \in Seq(Nat) /\ Len(Between) = to - from /\ DOMAIN Between = 1..(to - from)
  <2> HIDE DEF Between
  <2>1. QED  BY <1>1, <1>3
<1> HIDE DEF Between
<1>7. QED  BY <1>1, <1>2, <1>4, <1>5, <1>6

LEMMA SortedIsOrdered ==
  ASSUME MedianTypeOK, Sorted(Between)
  PROVE  Ordered(from, to - 1)
<1>1. ASSUME NEW p \in from..(to - 1), NEW q \in from..(to - 1), p <= q
      PROVE  ring[Slot(p)] <= ring[Slot(q)]
  <2>1. from \in Int /\ to \in Int
    BY BetweenFacts
  <2>2. p - from + 1 \in 1..(to - from) /\ q - from + 1 \in 1..(to - from)
        /\ p - from + 1 <= q - from + 1
    BY <1>1, <2>1
  <2>3. Between[p - from + 1] <= Between[q - from + 1]
    BY <2>2, BetweenFacts DEF Sorted
  <2>4. QED  BY <2>3, BetweenFacts
<1>2. ASSUME NEW p \in from..(to - 1) PROVE ring[Slot(p)] \in Nat
  <2>1. p \in Int
    BY BetweenFacts
  <2>2. QED  BY <2>1, BetweenFacts
<1>3. QED  BY <1>1, <1>2 DEF Ordered

LEMMA InsertedSorted ==
  ASSUME NEW w \in Seq(Nat), Sorted(w), NEW n, NEW x \in Nat, Less(w, n, x),
         NEW i \in 1..(Len(w) + 1), NEW j \in 1..(Len(w) + 1), i <= j
  PROVE  Inserted(w, n, x, i) <= Inserted(w, n, x, j)
<1>1. Len(w) \in Nat /\ n \in 0..Len(w) /\ \A k \in 1..Len(w) : w[k] \in Nat
  BY DEF Less
<1>2. CASE j <= n
  BY <1>1, <1>2 DEF Sorted, Inserted
<1>3. CASE j = n + 1
  BY <1>1, <1>3 DEF Less, Inserted
<1>4. CASE j > n + 1
  <2>1. j - 1 \in 1..Len(w) /\ w[j - 1] >= x
    BY <1>1, <1>4 DEF Less
  <2>2. CASE i <= n
    BY <1>1, <1>4, <2>1, <2>2 DEF Less, Inserted
  <2>3. CASE i = n + 1
    BY <1>1, <1>4, <2>1, <2>3 DEF Inserted
  <2>4. CASE i > n + 1
    <3>1. i - 1 \in 1..Len(w) /\ i - 1 <= j - 1
      BY <1>1, <2>4
    <3>2. w[i - 1] <= w[j - 1]
      BY <2>1, <3>1 DEF Sorted
    <3>3. QED  BY <1>1, <1>4, <2>4, <3>2 DEF Inserted
  <2>5. QED  BY <1>1, <2>2, <2>3, <2>4
<1>5. QED  BY <1>1, <1>2, <1>3, <1>4

(* insert() puts x after what is less, in a ring with room for it; in one  *)
(* that is full, the value of the end that d tells goes.                   *)
Placed(n, x, d) ==
  /\ Less(Between, n, x)
  /\ to' - from' = IF to - from < Size THEN to - from + 1 ELSE to - from
  /\ d = IF to - from = Size /\ x > ring[Slot(Midpoint)] THEN 1 ELSE 0
  /\ \A i \in 1..(to' - from') : ring'[Slot(from' + i - 1)] = Inserted(Between, n, x, i + d)

LEMMA PlacedFirst ==
  ASSUME MedianTypeOK, NEW x \in Values, from = to,
         ring' = [ring EXCEPT ![Slot(from)] = x], to' = to + 1, from' = from
  PROVE  Placed(0, x, 0)
<1>1. to - from = 0 /\ to' - from' = 1 /\ Size \in Nat /\ Size > 0 /\ Len(Between) = 0
      /\ from \in Int
  BY BetweenFacts
<1>2. ring'[Slot(from)] = x
  BY <1>1, SlotType DEF MedianTypeOK
<1>3. ASSUME NEW i \in 1..(to' - from')
      PROVE  ring'[Slot(from' + i - 1)] = Inserted(Between, 0, x, i + 0)
  <2>1. i = 1 /\ from' + i - 1 = from
    BY <1>1
  <2>2. QED  BY <1>2, <2>1 DEF Inserted
<1>4. Less(Between, 0, x)
  BY <1>1 DEF Less
<1>5. QED  BY <1>1, <1>3, <1>4 DEF Placed

LEMMA PartsLess ==
  ASSUME MedianTypeOK, NEW p \in from..to, NEW x,
         \A k \in from..(p - 1) : ring[Slot(k)] < x,
         \A k \in p..(to - 1) : ring[Slot(k)] >= x
  PROVE  Less(Between, p - from, x)
<1>1. from \in Int /\ to \in Int /\ Len(Between) = to - from
  BY BetweenFacts
<1>2. p - from \in 0..Len(Between)
  BY <1>1
<1>3. ASSUME NEW i \in 1..(p - from) PROVE Between[i] < x
  <2>1. i \in 1..(to - from) /\ from + i - 1 \in from..(p - 1)
    BY <1>1
  <2>2. QED  BY <2>1, BetweenFacts
<1>4. ASSUME NEW i \in (p - from + 1)..Len(Between) PROVE Between[i] >= x
  <2>1. i \in 1..(to - from) /\ from + i - 1 \in p..(to - 1)
    BY <1>1
  <2>2. QED  BY <2>1, BetweenFacts
<1>5. QED  BY <1>2, <1>3, <1>4 DEF Less

LEMMA Offsets ==
  ASSUME NEW a \in Int, NEW b \in Int, NEW p \in a..b, NEW k \in a..b
  PROVE  /\ k - a + 1 \in Int /\ p - a \in Int
         /\ k < p => k \in a..(b - 1) /\ k - a + 1 <= p - a
         /\ k = p => k - a + 1 = p - a + 1 /\ k - a + 1 > p - a
         /\ k > p => /\ k - 1 \in a..(b - 1) /\ k - a + 1 > p - a + 1
                     /\ (k - a + 1) - 1 = (k - 1) - a + 1
OBVIOUS

LEMMA PlacedRight ==
  ASSUME MedianTypeOK, Sorted(Between), NEW x \in Values, from # to,
         x > ring[Slot(Midpoint)],
         ring' = ShiftRight(Search(Midpoint + 1, to - 1, x), x),
         to' = to + 1, from' = from + Drop
  PROVE  \E n \in 0..Len(Between), d \in {0, 1} : Placed(n, x, d)
<1>1. /\ from \in Int /\ to \in Int /\ Size \in Nat /\ Size > 0 /\ Len(Between) = to - from
      /\ to - from \in 1..Size /\ x \in Nat
  BY BetweenFacts, ValuesAssumption DEF MedianTypeOK
<1>2. Midpoint \in from..(to - 1)
  BY <1>1 DEF Midpoint
<1>3. Ordered(from, to - 1)
  BY SortedIsOrdered
<1> DEFINE p == Search(Midpoint + 1, to - 1, x)
<1>4. Parts(p, Midpoint + 1, to - 1, x)
  <2>1. Ordered(Midpoint + 1, to - 1)
    BY <1>1, <1>2, <1>3 DEF Ordered
  <2>2. QED  BY <1>1, <1>2, <2>1, SearchFinds
<1> HIDE DEF p
<1>5. p \in (from + 1)..to /\ p - from \in 0..Len(Between)
  BY <1>1, <1>2, <1>4 DEF Parts
<1>6. Less(Between, p - from, x)
  <2>1. ASSUME NEW k \in from..(p - 1) PROVE ring[Slot(k)] < x
    <3>1. CASE k <= Midpoint
      <4>1. k \in from..(to - 1) /\ k \in Int /\ Midpoint \in Int
        BY <1>1, <1>2, <3>1
      <4>2. ring[Slot(k)] <= ring[Slot(Midpoint)]
        BY <1>2, <1>3, <3>1, <4>1 DEF Ordered
      <4>3. ring[Slot(k)] \in Nat /\ ring[Slot(Midpoint)] \in Nat
        BY <4>1, BetweenFacts
      <4>4. QED  BY <1>1, <4>2, <4>3
    <3>2. CASE k > Midpoint
      <4>1. k \in (Midpoint + 1)..(p - 1)
        BY <1>1, <1>2, <3>2
      <4>2. QED  BY <1>4, <4>1 DEF Parts
    <3>3. QED  BY <1>1, <1>2, <3>1, <3>2
  <2>2. \A k \in p..(to - 1) : ring[Slot(k)] >= x
    BY <1>4 DEF Parts
  <2>3. p \in from..to
    BY <1>1, <1>5
  <2>4. QED  BY <2>1, <2>2, <2>3, PartsLess
<1> DEFINE d == IF to - from = Size THEN 1 ELSE 0
<1>7. /\ from' = from + d /\ d \in {0, 1} /\ to' - from' = to - from + 1 - d
      /\ d = 0 => to - from < Size
  BY <1>1 DEF Drop
<1>8. ASSUME NEW i \in 1..(to' - from')
      PROVE  ring'[Slot(from' + i - 1)] = Inserted(Between, p - from, x, i + d)
  <2> HIDE DEF d
  <2> DEFINE k == from + d + i - 1
  <2>1. k = from' + i - 1 /\ k \in Int /\ k <= to /\ to - Size < k /\ k >= from
    <3>1. i \in Int /\ 1 <= i /\ i <= to - from + 1 - d /\ d \in Int
      BY <1>1, <1>7
    <3>2. QED  BY <1>1, <1>7, <3>1
  <2>2. to - Size < p /\ p <= to /\ p \in Int
    BY <1>1, <1>5
  <2> HIDE DEF k
  <2>3. ring'[Slot(k)] =
          IF k < p THEN ring[Slot(k)] ELSE IF k = p THEN x ELSE ring[Slot(k - 1)]
    BY <2>1, <2>2, ShiftsRight DEF p
  <2>4. i + d = k - from + 1
    BY <1>1, <1>7, <2>1 DEF k
  <2>5. k \in from..to /\ p \in from..to
    BY <1>1, <1>5, <2>1, <2>2
  <2>6. CASE k < p
    <3>1. k \in from..(to - 1) /\ k - from + 1 <= p - from
      BY <1>1, <2>5, <2>6, Offsets
    <3>2. QED  BY <2>1, <2>3, <2>4, <2>6, <3>1, BetweenFacts DEF Inserted
  <2>7. CASE k = p
    <3>1. /\ k - from + 1 = p - from + 1 /\ k - from + 1 > p - from
          /\ k - from + 1 \in Int /\ p - from \in Int
      BY <1>1, <2>5, <2>7, Offsets
    <3>2. QED  BY <2>1, <2>2, <2>3, <2>4, <2>7, <3>1 DEF Inserted
  <2>8. CASE k > p
    <3>1. /\ k - 1 \in from..(to - 1) /\ k - from + 1 > p - from + 1
          /\ (k - from + 1) - 1 = (k - 1) - from + 1
          /\ k - from + 1 \in Int /\ p - from \in Int
      BY <1>1, <2>5, <2>8, Offsets
    <3>2. ring'[Slot(k)] = ring[Slot(k - 1)]
      BY <2>1, <2>2, <2>3, <2>8
    <3>3. Inserted(Between, p - from, x, k - from + 1) = Between[(k - 1) - from + 1]
      BY <3>1 DEF Inserted
    <3>4. QED  BY <2>1, <2>4, <3>1, <3>2, <3>3, BetweenFacts
  <2>9. QED  BY <2>1, <2>2, <2>6, <2>7, <2>8
<1>9. d = IF to - from = Size /\ x > ring[Slot(Midpoint)] THEN 1 ELSE 0
  OBVIOUS
<1>10. to' - from' = IF to - from < Size THEN to - from + 1 ELSE to - from
  BY <1>1, <1>7
<1> HIDE DEF d
<1>11. Placed(p - from, x, d)
  BY <1>6, <1>8, <1>9, <1>10 DEF Placed
<1>12. QED  BY <1>5, <1>7, <1>11

LEMMA PlacedLeft ==
  ASSUME MedianTypeOK, Sorted(Between), NEW x \in Values, from # to,
         ~(x > ring[Slot(Midpoint)]),
         ring' = ShiftLeft(Search(from, Midpoint - 1, x) - 1, x),
         from' = from - 1, to' = to - Drop
  PROVE  \E n \in 0..Len(Between), d \in {0, 1} : Placed(n, x, d)
<1>1. /\ from \in Int /\ to \in Int /\ Size \in Nat /\ Size > 0 /\ Len(Between) = to - from
      /\ to - from \in 1..Size /\ x \in Nat
  BY BetweenFacts, ValuesAssumption DEF MedianTypeOK
<1>2. Midpoint \in from..(to - 1)
  BY <1>1 DEF Midpoint
<1>3. Ordered(from, to - 1)
  BY SortedIsOrdered
<1> DEFINE p == Search(from, Midpoint - 1, x)
<1>4. Parts(p, from, Midpoint - 1, x)
  <2>1. Ordered(from, Midpoint - 1)
    BY <1>1, <1>2, <1>3 DEF Ordered
  <2>2. QED  BY <1>1, <1>2, <2>1, SearchFinds
<1> HIDE DEF p
<1>5. p \in from..Midpoint /\ p \in from..(to - 1) /\ p - from \in 0..Len(Between)
  BY <1>1, <1>2, <1>4 DEF Parts
<1>6. Less(Between, p - from, x)
  <2>1. \A k \in from..(p - 1) : ring[Slot(k)] < x
    BY <1>4 DEF Parts
  <2>2. ASSUME NEW k \in p..(to - 1) PROVE ring[Slot(k)] >= x
    <3>1. CASE k >= Midpoint
      <4>1. k \in from..(to - 1) /\ k \in Int /\ Midpoint \in Int
        BY <1>1, <1>2, <3>1
      <4>2. ring[Slot(Midpoint)] <= ring[Slot(k)]
        BY <1>2, <1>3, <3>1, <4>1 DEF Ordered
      <4>3. ring[Slot(k)] \in Nat /\ ring[Slot(Midpoint)] \in Nat
        BY <4>1, BetweenFacts
      <4>4. QED  BY <1>1, <4>2, <4>3
    <3>2. CASE k < Midpoint
      <4>1. k \in p..(Midpoint - 1)
        BY <1>1, <1>2, <1>5, <3>2
      <4>2. QED  BY <1>4, <4>1 DEF Parts
    <3>3. k \in Int /\ Midpoint \in Int
      BY <1>1, <1>2, <1>5
    <3>4. QED  BY <3>1, <3>2, <3>3
  <2>3. p \in from..to
    BY <1>1, <1>5
  <2>4. QED  BY <2>1, <2>2, <2>3, PartsLess
<1>7. /\ to' - from' = IF to - from < Size THEN to - from + 1 ELSE to - from
      /\ from' \in Int /\ to' \in Int
  BY <1>1 DEF Drop
<1>8. ASSUME NEW i \in 1..(to' - from')
      PROVE  ring'[Slot(from' + i - 1)] = Inserted(Between, p - from, x, i + 0)
  <2> DEFINE k == from - 1 + i
  <2>1. i \in Int /\ 1 <= i /\ i <= to' - from'
    BY <1>7
  <2>2. /\ k - 1 = from' + i - 1 /\ k \in Int /\ k \in from..to
        /\ from - 1 <= k - 1 /\ k - 1 < from - 1 + Size /\ i + 0 = k - from + 1
        /\ k - 1 \in Int /\ (k - 1) + 1 = k
    BY <1>1, <1>7, <2>1
  <2>3. /\ from - 1 <= p - 1 /\ p - 1 < from - 1 + Size /\ p - 1 \in Int /\ p \in Int
        /\ p \in from..to
    BY <1>1, <1>5
  <2> HIDE DEF k
  <2>4. ring'[Slot(k - 1)] =
          IF k - 1 > p - 1 THEN ring[Slot(k - 1)]
          ELSE IF k - 1 = p - 1 THEN x ELSE ring[Slot((k - 1) + 1)]
    BY <2>2, <2>3, ShiftsLeft DEF p
  <2>5. CASE k < p
    <3>1. k \in from..(to - 1) /\ k - from + 1 <= p - from
      BY <1>1, <2>2, <2>3, <2>5, Offsets
    <3>2. ring'[Slot(k - 1)] = ring[Slot(k)]
      BY <2>2, <2>3, <2>4, <2>5
    <3>3. QED  BY <2>2, <3>1, <3>2, BetweenFacts DEF Inserted
  <2>6. CASE k = p
    <3>1. /\ k - from + 1 = p - from + 1 /\ k - from + 1 > p - from
          /\ k - from + 1 \in Int /\ p - from \in Int
      BY <1>1, <2>2, <2>3, <2>6, Offsets
    <3>2. ring'[Slot(k - 1)] = x
      BY <2>2, <2>3, <2>4, <2>6
    <3>3. QED  BY <2>2, <3>1, <3>2 DEF Inserted
  <2>7. CASE k > p
    <3>1. /\ k - 1 \in from..(to - 1) /\ k - from + 1 > p - from + 1
          /\ (k - from + 1) - 1 = (k - 1) - from + 1
          /\ k - from + 1 \in Int /\ p - from \in Int
      BY <1>1, <2>2, <2>3, <2>7, Offsets
    <3>2. ring'[Slot(k - 1)] = ring[Slot(k - 1)]
      BY <2>2, <2>3, <2>4, <2>7
    <3>3. Inserted(Between, p - from, x, k - from + 1) = Between[(k - 1) - from + 1]
      BY <3>1 DEF Inserted
    <3>4. QED  BY <2>2, <3>1, <3>2, <3>3, BetweenFacts
  <2>8. QED  BY <2>2, <2>3, <2>5, <2>6, <2>7
<1>9. Placed(p - from, x, 0)
  BY <1>6, <1>7, <1>8 DEF Placed
<1>10. QED  BY <1>5, <1>9

LEMMA InsertPlaces ==
  ASSUME MedianTypeOK, Sorted(Between), NEW x \in Values, Insert(x)
  PROVE  \E n \in 0..Len(Between), d \in {0, 1} : Placed(n, x, d)
<1>1. CASE from = to /\ ring' = [ring EXCEPT ![Slot(from)] = x] /\ to' = to + 1 /\ from' = from
  <2>1. Placed(0, x, 0)
    BY <1>1, PlacedFirst
  <2>2. 0 \in 0..Len(Between)
    BY BetweenFacts
  <2>3. QED  BY <2>1, <2>2
<1>2. CASE /\ from # to /\ x > Estimate
           /\ ring' = ShiftRight(Search(Midpoint + 1, to - 1, x), x)
           /\ to' = to + 1 /\ from' = from + Drop
  BY <1>2, PlacedRight DEF Estimate
<1>3. CASE /\ from # to /\ ~(x > Estimate)
           /\ ring' = ShiftLeft(Search(from, Midpoint - 1, x) - 1, x)
           /\ from' = from - 1 /\ to' = to - Drop
  BY <1>3, PlacedLeft DEF Estimate
<1>4. QED  BY <1>1, <1>2, <1>3, Zenon DEF Insert

LEMMA RingWindow ==
  ASSUME NEW n \in Nat, NEW first \in Int, NEW r, \A p \in Int : r[Slot(p)] \in Nat,
         NEW w, w = [i \in 1..n |-> r[Slot(first + i - 1)]]
  PROVE  w \in Seq(Nat) /\ Len(w) = n /\ \A i \in 1..n : w[i] = r[Slot(first + i - 1)]
<1>1. w \in [1..n -> Nat] /\ \A i \in 1..n : w[i] = r[Slot(first + i - 1)]
  <2>1. \A i \in 1..n : r[Slot(first + i - 1)] \in Nat
    OBVIOUS
  <2>2. QED  BY <2>1
<1>2. QED  BY <1>1

(* The window after a step.                                                *)
LEMMA BetweenNext ==
  ASSUME MedianTypeOK'
  PROVE  /\ Between' \in Seq(Nat) /\ Len(Between') = to' - from'
         /\ \A i \in 1..(to' - from') : Between'[i] = ring'[Slot(from' + i - 1)]
<1>1. /\ from' \in Int /\ to' \in Int /\ to' - from' \in Nat
      /\ \A p \in Int : ring'[Slot(p)] \in Nat
  <2>1. Values \cup {Undefined} \subseteq Nat
    BY ValuesAssumption DEF Undefined
  <2>2. /\ from' \in Int /\ to' \in Int /\ to' - from' \in 0..Size
        /\ \A s \in 0..(Size - 1) : ring'[s] \in Values \cup {Undefined}
    BY DEF MedianTypeOK
  <2>3. to' - from' \in Nat
    <3>1. Size \in Nat
      BY SizeAssumption
    <3>2. \A k \in 0..Size : k \in Nat
      BY <3>1
    <3>3. QED  BY <2>2, <3>2
  <2>4. \A p \in Int : ring'[Slot(p)] \in Nat
    BY <2>1, <2>2, SlotType
  <2>5. QED  BY <2>2, <2>3, <2>4
<1> DEFINE W == [i \in 1..(to' - from') |-> ring'[Slot(from' + i - 1)]]
<1>2. Between' = W
  BY DEF Between, Slot
<1>3. /\ W \in Seq(Nat) /\ Len(W) = to' - from'
      /\ \A i \in 1..(to' - from') : W[i] = ring'[Slot(from' + i - 1)]
  <2> DEFINE n2 == to' - from'
  <2>1. n2 \in Nat
    BY <1>1
  <2>2. W = [i \in 1..n2 |-> ring'[Slot(from' + i - 1)]]
    OBVIOUS
  <2> HIDE DEF W, n2
  <2>3. W \in Seq(Nat) /\ Len(W) = n2 /\ \A i \in 1..n2 : W[i] = ring'[Slot(from' + i - 1)]
    BY <1>1, <2>1, <2>2, RingWindow
  <2>4. QED  BY <2>3 DEF n2
<1> HIDE DEF W
<1>4. QED  BY <1>2, <1>3

LEMMA PlacedSorted ==
  ASSUME MedianTypeOK, MedianTypeOK', Sorted(Between), NEW x \in Values,
         NEW n \in 0..Len(Between), NEW d \in {0, 1}, Placed(n, x, d)
  PROVE  Sorted(Between)'
<1> DEFINE W == Between'
<1>1. Len(W) = to' - from' /\ \A i \in 1..(to' - from') : W[i] = ring'[Slot(from' + i - 1)]
  BY BetweenNext
<1>2. Between' = W
  BY Zenon
<1>3. (Sorted(Between))' <=> Sorted(W)
  BY DEF Sorted
<1> HIDE DEF W
<1>4. Sorted(W)
  <2> SUFFICES ASSUME NEW i \in 1..Len(W), NEW j \in 1..Len(W), i <= j
               PROVE  W[i] <= W[j]
    BY DEF Sorted
  <2>1. W[i] = Inserted(Between, n, x, i + d) /\ W[j] = Inserted(Between, n, x, j + d)
    BY <1>1 DEF Placed
  <2>2. i + d \in 1..(Len(Between) + 1) /\ j + d \in 1..(Len(Between) + 1) /\ i + d <= j + d
    <3>1. Len(Between) = to - from /\ to - from \in Nat /\ Size \in Nat
      BY BetweenFacts
    <3>2. /\ Len(W) = IF to - from < Size THEN to - from + 1 ELSE to - from
          /\ d = 1 => to - from = Size
      BY <1>1 DEF Placed
    <3>3. QED  BY <3>1, <3>2
  <2>3. Less(Between, n, x) /\ x \in Nat /\ Between \in Seq(Nat)
    BY ValuesAssumption, BetweenFacts DEF Placed
  <2>4. QED  BY <2>1, <2>2, <2>3, InsertedSorted
<1>5. QED  BY <1>3, <1>4

-----------------------------------------------------------------------------
(* The sorted window                                                       *)

(* There is one such n, which is what SortedWindow chooses.                *)
LEMMA LessPlaces ==
  ASSUME NEW w \in Seq(Nat), NEW x \in Nat, NEW n, Less(w, n, x)
  PROVE  n + 1 = CHOOSE i \in 1..(Len(w) + 1) : \A j \in DOMAIN w : w[j] < x <=> j < i
<1> DEFINE P(i) == \A j \in DOMAIN w : w[j] < x <=> j < i
<1>1. n \in 0..Len(w) /\ Len(w) \in Nat /\ DOMAIN w = 1..Len(w)
      /\ \A i \in 1..Len(w) : w[i] \in Nat
  BY DEF Less
<1>2. n + 1 \in 1..(Len(w) + 1) /\ P(n + 1)
  BY <1>1 DEF Less
<1>3. ASSUME NEW i \in 1..(Len(w) + 1), P(i) PROVE i = n + 1
  <2>1. CASE i < n + 1
    <3>1. i \in DOMAIN w /\ w[i] < x
      BY <1>1, <2>1 DEF Less
    <3>2. QED  BY <1>3, <3>1, <1>1
  <2>2. CASE i > n + 1
    <3>1. n + 1 \in DOMAIN w /\ ~(w[n + 1] < x)
      BY <1>1, <2>2 DEF Less
    <3>2. QED  BY <1>3, <2>2, <3>1
  <2>3. QED  BY <1>1, <2>1, <2>2
<1> HIDE DEF P
<1>4. n + 1 = CHOOSE i \in 1..(Len(w) + 1) : P(i)
  BY <1>2, <1>3
<1>5. QED  BY <1>4 DEF P

(* Pieces of a sequence, and a value put between two of them.              *)
LEMMA Cut ==
  ASSUME NEW w \in Seq(Nat), NEW a \in Nat, NEW b \in Nat, 1 <= a, a <= b + 1, b <= Len(w)
  PROVE  /\ SubSeq(w, a, b) \in Seq(Nat) /\ Len(SubSeq(w, a, b)) = b - a + 1
         /\ \A i \in 1..(b - a + 1) : SubSeq(w, a, b)[i] = w[a + i - 1]
<1>1. \A i \in a..b : w[i] \in Nat
  OBVIOUS
<1>2. a \in Int /\ b \in Int
  OBVIOUS
<1>3. /\ SubSeq(w, a, b) \in Seq(Nat)
      /\ Len(SubSeq(w, a, b)) = IF a <= b THEN b - a + 1 ELSE 0
      /\ \A i \in 1..(b - a + 1) : SubSeq(w, a, b)[i] = w[a + i - 1]
  <2> HIDE <1>2
  <2>1. QED  BY <1>1, <1>2, SubSeqProperties
<1>4. (IF a <= b THEN b - a + 1 ELSE 0) = b - a + 1
  OBVIOUS
<1>5. QED  BY <1>3, <1>4, Zenon

LEMMA Prefix ==
  ASSUME NEW w \in Seq(Nat), NEW b \in Nat, b <= Len(w)
  PROVE  SubSeq(w, 1, b) \in Seq(Nat) /\ Len(SubSeq(w, 1, b)) = b
         /\ \A i \in 1..b : SubSeq(w, 1, b)[i] = w[i]
<1> DEFINE front == SubSeq(w, 1, b)
<1>1. 1 \in Nat /\ 1 <= 1 /\ 1 <= b + 1
  OBVIOUS
<1>2. /\ front \in Seq(Nat) /\ Len(front) = b - 1 + 1
      /\ \A i \in 1..(b - 1 + 1) : front[i] = w[1 + i - 1]
  BY <1>1, Cut, Zenon
<1> HIDE DEF front
<1>3. b - 1 + 1 = b
  OBVIOUS
<1>4. ASSUME NEW i \in 1..b PROVE front[i] = w[i]
  <2>1. 1 + i - 1 = i
    OBVIOUS
  <2>2. front[i] = w[1 + i - 1]
    BY <1>2, <1>3, Zenon
  <2>3. QED  BY <2>1, <2>2, Zenon
<1>5. front \in Seq(Nat) /\ Len(front) = b
  BY <1>2, <1>3, Zenon
<1>6. QED  BY <1>4, <1>5, Zenon DEF front

LEMMA WithoutEnd ==
  ASSUME NEW v \in Seq(Nat), NEW m \in Nat, Len(v) = m + 1
  PROVE  /\ Tail(v) \in Seq(Nat) /\ Len(Tail(v)) = m
         /\ \A i \in 1..m : Tail(v)[i] = v[i + 1]
         /\ SubSeq(v, 1, Len(v) - 1) \in Seq(Nat) /\ Len(SubSeq(v, 1, Len(v) - 1)) = m
         /\ \A i \in 1..m : SubSeq(v, 1, Len(v) - 1)[i] = v[i]
<1>1. Tail(v) \in Seq(Nat) /\ Len(Tail(v)) = m /\ \A i \in 1..m : Tail(v)[i] = v[i + 1]
  <2>1. v # <<>>
    OBVIOUS
  <2>2. /\ Tail(v) \in Seq(Nat) /\ Len(Tail(v)) = Len(v) - 1
        /\ \A i \in 1..Len(Tail(v)) : Tail(v)[i] = v[i + 1]
    BY <2>1, HeadTailProperties
  <2>3. Len(v) - 1 = m
    OBVIOUS
  <2>4. QED  BY <2>2, <2>3
<1>2. Len(v) - 1 = m /\ m <= Len(v)
  OBVIOUS
<1>3. /\ SubSeq(v, 1, m) \in Seq(Nat) /\ Len(SubSeq(v, 1, m)) = m
      /\ \A i \in 1..m : SubSeq(v, 1, m)[i] = v[i]
  BY <1>2, Prefix, Zenon
<1>4. QED  BY <1>1, <1>2, <1>3, Zenon

Join(low, x, high) == low \o <<x>> \o high

(* What u is when it is their Join.                                        *)
Joins(u, low, x, high) ==
  /\ u \in Seq(Nat) /\ Len(u) = Len(low) + 1 + Len(high)
  /\ \A i \in 1..Len(low) : u[i] = low[i]
  /\ u[Len(low) + 1] = x
  /\ \A i \in (Len(low) + 2)..(Len(low) + 1 + Len(high)) : u[i] = high[i - (Len(low) + 1)]

LEMMA Joined ==
  ASSUME NEW low \in Seq(Nat), NEW x \in Nat, NEW high \in Seq(Nat)
  PROVE  Joins(Join(low, x, high), low, x, high)
<1> DEFINE n == Len(low)
           m == Len(high)
           one == <<x>>
<1>1. n \in Nat /\ m \in Nat /\ Len(low) = n /\ Len(high) = m
  OBVIOUS
<1> HIDE DEF n, m
<1>2. one \in Seq(Nat) /\ Len(one) = 1 /\ one[1] = x
  OBVIOUS
<1> HIDE DEF one
<1> DEFINE both == low \o one
<1>3. /\ both \in Seq(Nat) /\ Len(both) = Len(low) + Len(one)
      /\ \A i \in 1..(Len(low) + Len(one)) :
           both[i] = IF i <= Len(low) THEN low[i] ELSE one[i - Len(low)]
  BY <1>2, ConcatProperties
<1> HIDE DEF both
<1>4. both \in Seq(Nat)
  BY <1>3, Zenon
<1> DEFINE v == both \o high
<1>5. /\ v \in Seq(Nat) /\ Len(v) = Len(both) + Len(high)
      /\ \A i \in 1..(Len(both) + Len(high)) :
           v[i] = IF i <= Len(both) THEN both[i] ELSE high[i - Len(both)]
  BY <1>4, ConcatProperties
<1> HIDE DEF v
<1>6. Len(both) = n + 1
  BY <1>1, <1>2, <1>3
<1>7. v \in Seq(Nat) /\ Len(v) = n + 1 + m
  BY <1>1, <1>5, <1>6
<1>8. ASSUME NEW i \in 1..n PROVE v[i] = low[i]
  <2>1. i <= n + 1 /\ i \in 1..(n + 1 + m) /\ i \in 1..(n + 1) /\ i <= n
    BY <1>1
  <2>2. v[i] = both[i]
    BY <1>1, <1>5, <1>6, <2>1
  <2>3. both[i] = low[i]
    BY <1>1, <1>2, <1>3, <2>1
  <2>4. QED  BY <2>2, <2>3
<1>9. v[n + 1] = x
  <2>1. v[n + 1] = both[n + 1]
    <3>1. n + 1 \in 1..(Len(both) + Len(high)) /\ n + 1 <= Len(both)
      BY <1>1, <1>6
    <3>2. QED  BY <1>5, <3>1, Zenon
  <2>2. both[n + 1] = one[(n + 1) - n]
    BY <1>1, <1>2, <1>3
  <2>3. (n + 1) - n = 1
    BY <1>1
  <2>4. QED  BY <1>2, <2>1, <2>2, <2>3, Zenon
<1>10. ASSUME NEW i \in (n + 2)..(n + 1 + m) PROVE v[i] = high[i - (n + 1)]
  <2>1. i \in 1..(n + 1 + m) /\ ~(i <= n + 1)
    BY <1>1
  <2>2. QED  BY <1>1, <1>5, <1>6, <2>1
<1>11. v = Join(low, x, high)
  BY Zenon DEF v, both, one, Join
<1>12. Joins(v, low, x, high)
  BY <1>7, <1>8, <1>9, <1>10, Zenon DEF Joins, n, m
<1>13. QED  BY <1>11, <1>12, Zenon

(* v is w with x after the first n.                                        *)
Inserts(v, w, n, x) ==
  /\ v \in Seq(Nat) /\ Len(v) = Len(w) + 1
  /\ \A i \in 1..(Len(w) + 1) : v[i] = Inserted(w, n, x, i)

LEMMA JoinInserts ==
  ASSUME NEW w \in Seq(Nat), NEW x \in Nat, NEW n \in 0..Len(w),
         NEW low \in Seq(Nat), Len(low) = n, \A i \in 1..n : low[i] = w[i],
         NEW high \in Seq(Nat), Len(high) = Len(w) - n,
         \A i \in 1..(Len(w) - n) : high[i] = w[n + i]
  PROVE  Inserts(Join(low, x, high), w, n, x)
<1>1. n \in 0..Len(w) /\ Len(w) \in Nat /\ n \in Nat /\ Len(w) - n \in Nat
  OBVIOUS
<1> DEFINE u == Join(low, x, high)
<1>2. /\ u \in Seq(Nat) /\ Len(u) = Len(low) + 1 + Len(high)
      /\ \A i \in 1..Len(low) : u[i] = low[i]
      /\ u[Len(low) + 1] = x
      /\ \A i \in (Len(low) + 2)..(Len(low) + 1 + Len(high)) : u[i] = high[i - (Len(low) + 1)]
  <2>1. Joins(u, low, x, high)
    BY Joined
  <2> HIDE DEF u
  <2>2. QED  BY <2>1 DEF Joins
<1> HIDE DEF u
<1>3. Len(u) = Len(w) + 1
  BY <1>1, <1>2
<1>4. ASSUME NEW i \in 1..(Len(w) + 1) PROVE u[i] = Inserted(w, n, x, i)
  <2>1. CASE i <= n
    <3>1. i \in 1..n
      BY <1>1, <2>1
    <3>2. u[i] = w[i]
      BY <1>2, <3>1, Zenon
    <3>3. QED  BY <2>1, <3>2, Zenon DEF Inserted
  <2>2. CASE i = n + 1
    BY <1>1, <1>2, <2>2 DEF Inserted
  <2>3. CASE i > n + 1
    <3>1. /\ i \in (n + 2)..(n + 1 + Len(high)) /\ i - (n + 1) \in 1..(Len(w) - n)
          /\ n + (i - (n + 1)) = i - 1 /\ ~(i <= n) /\ i # n + 1
      BY <1>1, <2>3
    <3>2. u[i] = w[i - 1]
      BY <1>2, <3>1
    <3>3. QED  BY <3>1, <3>2 DEF Inserted
  <2>4. QED  BY <1>1, <2>1, <2>2, <2>3
<1>5. Inserts(u, w, n, x)
  BY <1>2, <1>3, <1>4, Zenon DEF Inserts
<1>6. QED  BY <1>5, Zenon DEF u

(* The window with x.                                                      *)
WithAt(w, n, x) == Join(SubSeq(w, 1, n), x, SubSeq(w, n + 1, Len(w)))

LEMMA InsertedAt ==
  ASSUME NEW w \in Seq(Nat), NEW x \in Nat, NEW n \in 0..Len(w)
  PROVE  Inserts(WithAt(w, n, x), w, n, x)
<1>1. /\ Len(w) \in Nat /\ n \in Nat /\ n <= Len(w)
      /\ n + 1 \in Nat /\ 1 <= n + 1 /\ n + 1 <= Len(w) + 1 /\ Len(w) <= Len(w)
  OBVIOUS
<1> DEFINE low == SubSeq(w, 1, n)
           high == SubSeq(w, n + 1, Len(w))
<1>2. low \in Seq(Nat) /\ Len(low) = n /\ \A i \in 1..n : low[i] = w[i]
  BY <1>1, Prefix, Zenon
<1>3. /\ high \in Seq(Nat) /\ Len(high) = Len(w) - n
      /\ \A i \in 1..(Len(w) - n) : high[i] = w[n + i]
  <2>1. /\ high \in Seq(Nat) /\ Len(high) = Len(w) - (n + 1) + 1
        /\ \A i \in 1..(Len(w) - (n + 1) + 1) : high[i] = w[(n + 1) + i - 1]
    BY <1>1, Cut, Zenon
  <2> HIDE DEF high
  <2>2. QED  BY <1>1, <2>1
<1> HIDE DEF low, high
<1>4. Inserts(Join(low, x, high), w, n, x)
  BY <1>2, <1>3, JoinInserts
<1>5. WithAt(w, n, x) = Join(low, x, high)
  BY Zenon DEF WithAt, low, high
<1>6. QED  BY <1>4, <1>5, Zenon

LEMMA MiddleValue ==
  ASSUME MedianTypeOK, from # to
  PROVE  Between[Len(Between) \div 2 + 1] = ring[Slot(Midpoint)]
<1>1. from \in Int /\ to \in Int /\ to - from \in Nat /\ Len(Between) = to - from
  BY BetweenFacts
<1>2. /\ (to - from) \div 2 + 1 \in 1..(to - from)
      /\ from + ((to - from) \div 2 + 1) - 1 = (from + to) \div 2
  BY <1>1
<1>3. Between[(to - from) \div 2 + 1] = ring[Slot(from + ((to - from) \div 2 + 1) - 1)]
  BY <1>2, BetweenFacts
<1>4. QED  BY <1>1, <1>2, <1>3 DEF Midpoint

LEMMA WindowWith ==
  ASSUME MedianTypeOK, NEW x \in Values, NEW n \in 0..Len(Between), Less(Between, n, x)
  PROVE  Window!With(x) = WithAt(Between, n, x)
<1>1. Between \in Seq(Nat) /\ x \in Nat
  BY BetweenFacts, ValuesAssumption
<1>2. Window!Place(x) = CHOOSE i \in 1..(Len(Between) + 1) :
                          \A j \in DOMAIN Between : Between[j] < x <=> j < i
  BY Zenon DEF Window!Place, Between
<1>3. Window!Place(x) = n + 1
  <2> HIDE DEF Between
  <2>1. QED  BY <1>1, <1>2, LessPlaces, Zenon
<1>4. Window!With(x) = SubSeq(Between, 1, Window!Place(x) - 1) \o <<x>>
                         \o SubSeq(Between, Window!Place(x), Len(Between))
  BY Zenon DEF Window!With, Window!InsertAt, Between
<1>5. (n + 1) - 1 = n
  BY <1>1
<1>6. QED  BY <1>3, <1>4, <1>5, Zenon DEF WithAt, Join

LEMMA SameSequence ==
  ASSUME NEW s \in Seq(Nat), NEW t \in Seq(Nat), NEW m \in Nat, Len(s) = m, Len(t) = m,
         \A i \in 1..m : s[i] = t[i]
  PROVE  s = t
<1>1. Len(s) = Len(t) /\ \A i \in 1..Len(s) : s[i] = t[i]
  OBVIOUS
<1>2. QED  BY <1>1, SeqEqual

(* What insert() does is what the sorted window does.                      *)
LEMMA WindowStep ==
  ASSUME MedianTypeOK, MedianTypeOK', NEW x \in Values,
         NEW n \in 0..Len(Between), NEW d \in {0, 1}, Placed(n, x, d)
  PROVE  Window!Insert(x)
<1> DEFINE B == Between
           W == Between'
           v == WithAt(B, n, x)
           m == to - from
<1>1. /\ B \in Seq(Nat) /\ Len(B) = m /\ m \in 0..Size /\ m \in Nat /\ Size \in Nat /\ Size > 0
      /\ x \in Nat
  BY BetweenFacts, ValuesAssumption DEF MedianTypeOK
<1>2. /\ W \in Seq(Nat) /\ Len(W) = to' - from'
      /\ \A i \in 1..(to' - from') : W[i] = Inserted(B, n, x, i + d)
      /\ to' - from' = IF m < Size THEN m + 1 ELSE m
  BY BetweenNext DEF Placed
<1>3. Inserts(v, B, n, x)
  BY <1>1, InsertedAt
<1>4. Window!With(x) = v
  BY WindowWith DEF Placed
<1>5. m = Size => B[Len(B) \div 2 + 1] = ring[Slot(Midpoint)]
  <2>1. from \in Int /\ to \in Int
    BY BetweenFacts
  <2>2. m = Size => from # to
    BY <1>1, <2>1
  <2>3. QED  BY <2>2, MiddleValue
<1>6. d = IF m = Size /\ x > ring[Slot(Midpoint)] THEN 1 ELSE 0
  BY DEF Placed
<1>7. Window!Insert(x) <=>
        W = IF Len(B) < Size THEN Window!With(x)
            ELSE IF x > B[Len(B) \div 2 + 1] THEN Tail(Window!With(x))
            ELSE SubSeq(Window!With(x), 1, Len(Window!With(x)) - 1)
  BY Zenon DEF Window!Insert, Window!Median, Window!Front, Between
<1> HIDE DEF B, W, v, m
<1>8. v \in Seq(Nat) /\ Len(v) = m + 1 /\ \A i \in 1..(m + 1) : v[i] = Inserted(B, n, x, i)
  BY <1>1, <1>3, Zenon DEF Inserts
<1>9. /\ Tail(v) \in Seq(Nat) /\ Len(Tail(v)) = m
      /\ \A i \in 1..m : Tail(v)[i] = v[i + 1]
      /\ SubSeq(v, 1, Len(v) - 1) \in Seq(Nat) /\ Len(SubSeq(v, 1, Len(v) - 1)) = m
      /\ \A i \in 1..m : SubSeq(v, 1, Len(v) - 1)[i] = v[i]
  BY <1>1, <1>8, WithoutEnd, Zenon
<1>10. CASE m < Size
  <2>1. d = 0 /\ to' - from' = m + 1 /\ m + 1 \in Nat
    BY <1>1, <1>2, <1>6, <1>10
  <2>2. ASSUME NEW i \in 1..(m + 1) PROVE W[i] = v[i]
    <3>1. i + d = i
      BY <2>1
    <3>2. QED  BY <1>2, <1>8, <2>1, <3>1, Zenon
  <2>3. W = v
    BY <1>2, <1>8, <2>1, <2>2, SameSequence
  <2>4. QED  BY <1>1, <1>4, <1>7, <1>10, <2>3
<1>11. CASE m = Size /\ x > B[Len(B) \div 2 + 1]
  <2>1. d = 1 /\ to' - from' = m
    BY <1>1, <1>2, <1>5, <1>6, <1>11
  <2>2. ASSUME NEW i \in 1..m PROVE W[i] = Tail(v)[i]
    <3>1. i + 1 \in 1..(m + 1)
      BY <1>1
    <3>2. QED  BY <1>2, <1>8, <1>9, <2>1, <3>1, Zenon
  <2> DEFINE tail == Tail(v)
  <2>3. tail \in Seq(Nat) /\ Len(tail) = m /\ \A i \in 1..m : W[i] = tail[i]
    BY <1>9, <2>2, Zenon
  <2> HIDE DEF tail
  <2>4. W = tail
    BY <1>1, <1>2, <2>1, <2>3, SameSequence
  <2>5. ~(Len(B) < Size)
    BY <1>1, <1>11
  <2>6. QED  BY <1>4, <1>7, <1>11, <2>4, <2>5, Zenon DEF tail
<1>12. CASE m = Size /\ ~(x > B[Len(B) \div 2 + 1])
  <2>1. d = 0 /\ to' - from' = m
    BY <1>1, <1>2, <1>5, <1>6, <1>12
  <2>2. ASSUME NEW i \in 1..m PROVE W[i] = SubSeq(v, 1, Len(v) - 1)[i]
    <3>1. i \in 1..(m + 1) /\ i + d = i
      BY <1>1, <2>1
    <3>2. QED  BY <1>2, <1>8, <1>9, <2>1, <3>1, Zenon
  <2>3. W = SubSeq(v, 1, Len(v) - 1)
    BY <1>1, <1>2, <1>9, <2>1, <2>2, SameSequence
  <2>4. ~(Len(B) < Size)
    BY <1>1, <1>12
  <2>5. QED  BY <1>4, <1>7, <1>12, <2>3, <2>4, Zenon
<1>13. m < Size \/ m = Size
  BY <1>1
<1>14. QED  BY <1>10, <1>11, <1>12, <1>13

LEMMA InsertImplements ==
  ASSUME Inv, Inv', Sorted(Between), NEW x \in Values, Insert(x)
  PROVE  Window!Next /\ Sorted(Between)'
<1>1. MedianTypeOK /\ MedianTypeOK'
  BY DEF Inv
<1>2. PICK n \in 0..Len(Between), d \in {0, 1} : Placed(n, x, d)
  BY <1>1, InsertPlaces
<1>3. Window!Insert(x)
  BY <1>1, <1>2, WindowStep
<1>4. Sorted(Between)'
  BY <1>1, <1>2, PlacedSorted
<1>5. QED  BY <1>3, <1>4, Zenon DEF Window!Next

(* Every step that inserts, inserts a round trip.                          *)
LEMMA Inserting ==
  ASSUME Inv, [Next]_vars
  PROVE  UNCHANGED <<ring, from, to>> \/ \E x \in Values : Insert(x)
<1>1. ASSUME NEW q \in Requests, Respond(q) PROVE \E x \in Values : Insert(x)
  <2>1. q \in Outstanding /\ now > start[q] /\ Insert(now - start[q])
    BY <1>1 DEF Respond
  <2>2. now - start[q] \in Values
    <3>1. now \in Nat /\ now <= MaxTime /\ start[q] \in 0..now
      BY <2>1, ClockFacts DEF Inv, ClockOK, Outstanding, Idle
    <3>2. QED  BY <2>1, <3>1, RoundTrips, LoadAssumption
  <2>3. QED  BY <2>1, <2>2
<1>2. ASSUME Decay PROVE \E x \in Values : Insert(x)
  <2>1. PICK x \in 1..Estimate : Insert(x)
    BY <1>2 DEF Decay
  <2>2. Estimate \in Values
    BY <1>2, EstimateType DEF Decay, Decays, Inv
  <2>3. x \in Values
    BY <2>1, <2>2, RoundTrips, LoadAssumption
  <2>4. QED  BY <2>1, <2>3
<1>3. ASSUME NEW q \in Requests, Send(q) \/ Fail(q) PROVE UNCHANGED <<ring, from, to>>
  BY <1>3 DEF Send, Fail, medianVars
<1>4. CASE Tick \/ UNCHANGED vars
  BY <1>4 DEF Tick, vars, medianVars
<1>5. QED  BY <1>1, <1>2, <1>3, <1>4 DEF Next

(* Wherever the ends of the ring have moved to, insert() does to what lies *)
(* between them what a sorted window does, which keeps it sorted.          *)
LEMMA WindowNext ==
  ASSUME Inv, Inv', Sorted(Between), [Next]_vars
  PROVE  Sorted(Between)' /\ (Window!Next \/ Between' = Between)
<1>1. CASE UNCHANGED <<ring, from, to>>
  <2>1. Between' = Between
    BY <1>1 DEF Between, Slot
  <2>2. QED  BY <2>1 DEF Sorted
<1>2. CASE \E x \in Values : Insert(x)
  BY <1>2, InsertImplements
<1>3. QED  BY <1>1, <1>2, Inserting

LEMMA WindowInit == Init => Window!Init /\ Sorted(Between)
<1> SUFFICES ASSUME Init PROVE Window!Init /\ Sorted(Between)
  OBVIOUS
<1>1. MedianTypeOK /\ from = to
  BY InvInit DEF Inv, Init, MedianInit
<1>2. Between \in Seq(Nat) /\ Len(Between) = 0
  BY <1>1, BetweenFacts
<1> HIDE DEF Between
<1>3. Between = <<>>
  BY <1>2
<1>4. Sorted(Between)
  BY <1>2 DEF Sorted
<1>5. QED  BY <1>3, <1>4, Zenon DEF Window!Init, Between

(* ImplementsSortedWindow: the search and the shifts of the ring do what a *)
(* sorted window of Size values does, of which estimate() is the middle    *)
(* one.                                                                    *)
THEOREM WindowImplemented == Spec => ImplementsSortedWindow
<1> DEFINE Kept == Inv /\ Sorted(Between)
<1>1. Init => Kept
  BY InvInit, WindowInit
<1>2. Kept /\ [Next]_vars => Kept'
  BY InvNext, WindowNext
<1>3. Kept /\ Kept' /\ [Next]_vars => [Window!Next]_Between
  BY WindowNext
<1>4. Spec => Window!Init /\ [][Window!Next]_Between
  <2> HIDE DEF Kept
  <2>1. Init => Window!Init
    BY WindowInit
  <2>2. QED  BY <1>1, <1>2, <1>3, <2>1, PTL DEF Spec
<1>5. QED  BY <1>4, PTL DEF ImplementsSortedWindow, Window!Spec, Between
=============================================================================
