-------------------------- MODULE LoadBalancerProofs --------------------------
(***************************************************************************)
(* Theorems about module LoadBalancer: for all sets of factories and       *)
(* sockets, all apertures and all that may happen to the load balancer.    *)
(***************************************************************************)
EXTENDS LoadBalancer, FiniteSums

-----------------------------------------------------------------------------
(* The load balancer's state                                               *)

(* Balancers, without the bound on the copies of a factory.                *)
Books(b) ==
  b \in [free : [Factories -> Nat], building : [Factories -> Nat],
         sockets : SUBSET Sockets, pendings : Int, aperture : Nat,
         life : [Sockets -> Lives]]

Made(S, f) == {s \in S : maker[s] = f}
HasMakers(b) == \A s \in b.sockets : maker[s] \in Factories

LEMMA BooksFacts ==
  ASSUME NEW b, Books(b), NEW f \in Factories
  PROVE  /\ b.free[f] \in Nat /\ b.building[f] \in Nat
         /\ IsFiniteSet(Made(b.sockets, f)) /\ Cardinality(Made(b.sockets, f)) \in Nat
         /\ CopiesIn(b, f) = b.free[f] + b.building[f] + Cardinality(Made(b.sockets, f))
         /\ CopiesIn(b, f) \in Nat
<1>1. b.free[f] \in Nat /\ b.building[f] \in Nat /\ b.sockets \in SUBSET Sockets
  BY DEF Books
<1>2. Made(b.sockets, f) \in SUBSET Sockets
  BY <1>1 DEF Made
<1>3. IsFiniteSet(Made(b.sockets, f)) /\ Cardinality(Made(b.sockets, f)) \in Nat
  BY <1>2, LoadBalancerConstants, FS_Subset, FS_CardinalityType
<1>4. CopiesIn(b, f) = b.free[f] + b.building[f] + Cardinality(Made(b.sockets, f))
  BY DEF CopiesIn, Made
<1>5. QED  BY <1>1, <1>3, <1>4

LEMMA SocketsFinite ==
  ASSUME NEW S \in SUBSET Sockets
  PROVE  IsFiniteSet(S) /\ Cardinality(S) \in Nat
BY LoadBalancerConstants, FS_Subset, FS_CardinalityType

(* Sums of bags, and of the requests of the sockets.                       *)
LEMMA TotalType ==
  ASSUME NEW v \in [Factories -> Nat]
  PROVE  Total(v) \in Nat
<1>1. Total(v) = SumOf(v, Factories)
  BY DEF Total, SumOf, MapThenSumSet, MapThenFoldSet
<1>2. QED  BY <1>1, SumOfNatural, LoadBalancerConstants

LEMMA TotalChanges ==
  ASSUME NEW v \in [Factories -> Nat], NEW w \in [Factories -> Nat], NEW f \in Factories,
         \A g \in Factories \ {f} : w[g] = v[g]
  PROVE  Total(w) = Total(v) + w[f] - v[f]
<1>1. Total(v) = SumOf(v, Factories) /\ Total(w) = SumOf(w, Factories)
  BY DEF Total, SumOf, MapThenSumSet, MapThenFoldSet
<1>2. \A g \in Factories : v[g] \in Int /\ w[g] \in Int
  OBVIOUS
<1>3. SumOf(w, Factories) = SumOf(v, Factories) + w[f] - v[f]
  BY <1>2, SumOfChanges, LoadBalancerConstants
<1>4. QED  BY <1>1, <1>3

(* A set without one of its elements.                                      *)
LEMMA MadeWithout ==
  ASSUME NEW S \in SUBSET Sockets, NEW s \in S, NEW f \in Factories
  PROVE  Cardinality(Made(S \ {s}, f))
           = Cardinality(Made(S, f)) - (IF maker[s] = f THEN 1 ELSE 0)
<1>1. Made(S, f) \in SUBSET Sockets
  BY DEF Made
<1>2. IsFiniteSet(Made(S, f)) /\ Cardinality(Made(S, f)) \in Nat
  BY <1>1, SocketsFinite
<1>3. CASE maker[s] = f
  <2>1. Made(S \ {s}, f) = Made(S, f) \ {s} /\ s \in Made(S, f)
    BY <1>3 DEF Made
  <2>2. Cardinality(Made(S, f) \ {s}) = Cardinality(Made(S, f)) - 1
    BY <1>2, <2>1, FS_RemoveElement
  <2>3. QED  BY <1>3, <2>1, <2>2
<1>4. CASE maker[s] # f
  <2>1. Made(S \ {s}, f) = Made(S, f)
    BY <1>4 DEF Made
  <2>2. QED  BY <1>2, <1>4, <2>1
<1>5. QED  BY <1>3, <1>4

-----------------------------------------------------------------------------
(* _refreshSockets()                                                       *)

Most == IF InitialAperture > MaxAperture THEN InitialAperture ELSE MaxAperture
Size(b) == Cardinality(b.sockets) + Total(b.building)

(* The count of the builds under way is right, and the pool not too large. *)
Within(b) == b.aperture <= Most /\ b.pendings = Total(b.building) /\ Size(b) <= Most

(* From b to c sockets are lost, and those of S are told to close.         *)
Shuts(b, c, S) ==
  /\ Books(c)
  /\ c.sockets \subseteq b.sockets
  /\ c.life = Shut(b, S).life

(* What the load balancer's methods keep when they take it from b to c: as *)
(* many copies of each factory.  They close the sockets that they lose.    *)
Kept(b, c) ==
  /\ Shuts(b, c, b.sockets \ c.sockets)
  /\ \A f \in Factories : CopiesIn(c, f) = CopiesIn(b, f)
  /\ Within(b) => Within(c)

LEMMA ShutLife ==
  ASSUME NEW b, Books(b), NEW S
  PROVE  Shut(b, S).life
           = [s \in Sockets |-> IF s \in S /\ b.life[s] \in {"open", "draining"}
                                THEN AfterClose(s) ELSE b.life[s]]
BY DEF Shut, Books

LEMMA ShutsSame ==
  ASSUME NEW b, NEW c, Books(b), Books(c), c.sockets = b.sockets, c.life = b.life
  PROVE  Shuts(b, c, {}) /\ Shuts(b, c, b.sockets \ c.sockets)
<1>1. b.sockets \ c.sockets = {}
  OBVIOUS
<1>2. Shut(b, {}).life = b.life
  BY ShutLife DEF Books
<1>3. QED  BY <1>1, <1>2 DEF Shuts

(* To be told again changes nothing.                                       *)
LEMMA ShutsTrans ==
  ASSUME NEW b, NEW c, NEW d, NEW S, NEW T, Books(b), Shuts(b, c, S), Shuts(c, d, T)
  PROVE  Shuts(b, d, S \cup T)
<1>1. Books(c) /\ Books(d) /\ d.sockets \subseteq b.sockets
  BY DEF Shuts
<1>2. c.life = [s \in Sockets |-> IF s \in S /\ b.life[s] \in {"open", "draining"}
                                  THEN AfterClose(s) ELSE b.life[s]]
  BY ShutLife DEF Shuts
<1>3. d.life = [s \in Sockets |-> IF s \in T /\ c.life[s] \in {"open", "draining"}
                                  THEN AfterClose(s) ELSE c.life[s]]
  BY <1>1, ShutLife DEF Shuts
<1>4. d.life = [s \in Sockets |-> IF s \in S \cup T /\ b.life[s] \in {"open", "draining"}
                                  THEN AfterClose(s) ELSE b.life[s]]
  BY <1>2, <1>3 DEF AfterClose
<1>5. d.life = Shut(b, S \cup T).life
  BY <1>4, ShutLife
<1>6. QED  BY <1>1, <1>5 DEF Shuts

LEMMA KeptSame ==
  ASSUME NEW b, NEW c, Books(b), Books(c), c.free = b.free, c.building = b.building,
         c.sockets = b.sockets, c.pendings = b.pendings, c.life = b.life,
         b.aperture <= Most => c.aperture <= Most
  PROVE  Kept(b, c)
<1>1. \A f \in Factories : CopiesIn(c, f) = CopiesIn(b, f)
  BY DEF CopiesIn
<1>2. Within(b) => Within(c)
  BY DEF Within, Size
<1>3. QED  BY <1>1, <1>2, ShutsSame DEF Kept, Shuts

LEMMA KeptTrans ==
  ASSUME NEW b, NEW c, NEW d, Books(b), Kept(b, c), Kept(c, d)
  PROVE  Kept(b, d)
<1>1. Shuts(b, d, (b.sockets \ c.sockets) \cup (c.sockets \ d.sockets))
  BY ShutsTrans DEF Kept, Shuts
<1>2. (b.sockets \ c.sockets) \cup (c.sockets \ d.sockets) = b.sockets \ d.sockets
  BY DEF Kept, Shuts
<1>3. QED  BY <1>1, <1>2 DEF Kept, Shuts

(* _updateAperture()                                                       *)
LEMMA UpdatedStays ==
  ASSUME NEW b, Books(b), NEW due \in BOOLEAN
  PROVE  Kept(b, Updated(b, due)) /\ Updated(b, due).sockets = b.sockets
<1>1. NewAperture(b) \in Nat /\ (b.aperture <= Most => NewAperture(b) <= Most)
  <2>1. b.aperture \in Nat /\ {InitialAperture, MinAperture, MaxAperture} \subseteq Nat
    BY LoadBalancerConstants DEF Books
  <2>2. \/ NewAperture(b) = b.aperture
        \/ MinAperture < b.aperture /\ NewAperture(b) = b.aperture - 1
        \/ b.aperture < MaxAperture /\ NewAperture(b) = b.aperture + 1
    BY DEF NewAperture
  <2>3. QED  BY <2>1, <2>2 DEF Most
<1>2. CASE due
  <2> DEFINE c == [b EXCEPT !.aperture = NewAperture(b)]
  <2>1. /\ Books(c) /\ c.free = b.free /\ c.building = b.building /\ c.sockets = b.sockets
        /\ c.pendings = b.pendings /\ c.life = b.life /\ c.aperture = NewAperture(b)
    BY <1>1 DEF Books
  <2>2. Updated(b, due) = c
    BY <1>2 DEF Updated
  <2> HIDE DEF c
  <2>3. QED  BY <1>1, <2>1, <2>2, KeptSame
<1>3. CASE ~due
  BY <1>3, KeptSame DEF Updated
<1>4. QED  BY <1>2, <1>3

(* The close of a socket, and the removal of one without its factory.      *)
LEMMA ForgetFacts ==
  ASSUME NEW b, Books(b), NEW S \in SUBSET Sockets
  PROVE  /\ Books(Forget(b, S)) /\ Forget(b, S).free = b.free
         /\ Forget(b, S).building = b.building /\ Forget(b, S).pendings = b.pendings
         /\ Forget(b, S).aperture = b.aperture /\ Forget(b, S).sockets = b.sockets \ S
         /\ Forget(b, S).life = Shut(b, S).life
<1> DEFINE lives == [s \in Sockets |->
               IF s \in S /\ b.life[s] \in {"open", "draining"} THEN AfterClose(s) ELSE b.life[s]]
<1>1. \A s \in Sockets : AfterClose(s) \in Lives
  BY DEF AfterClose, Lives
<1>2. lives \in [Sockets -> Lives]
  BY <1>1 DEF Books
<1>3. Shut(b, S) = [b EXCEPT !.life = lives]
  BY DEF Shut
<1>4. Forget(b, S) = [[b EXCEPT !.life = lives] EXCEPT !.sockets = b.sockets \ S]
  BY <1>3 DEF Forget, Books
<1> HIDE DEF lives
<1>5. QED  BY <1>2, <1>3, <1>4 DEF Books

(* The removal of a socket whose factory is put back.                      *)
LEMMA RecycleStays ==
  ASSUME NEW b, Books(b), NEW s \in b.sockets, maker[s] \in Factories
  PROVE  Kept(b, Recycle(b, s)) /\ Recycle(b, s).sockets = b.sockets \ {s}
<1> DEFINE c == Recycle(b, s)
<1>0. s \in Sockets /\ b.sockets \in SUBSET Sockets
  BY DEF Books
<1>1. /\ Books(c) /\ c.free = [b.free EXCEPT ![maker[s]] = @ + 1]
      /\ c.building = b.building /\ c.pendings = b.pendings
      /\ c.aperture = b.aperture /\ c.sockets = b.sockets \ {s}
      /\ c.life = Shut(b, {s}).life
  <2> DEFINE d == Forget(b, {s})
  <2>1. /\ Books(d) /\ d.free = b.free /\ d.building = b.building /\ d.pendings = b.pendings
        /\ d.aperture = b.aperture /\ d.sockets = b.sockets \ {s} /\ d.life = Shut(b, {s}).life
    BY <1>0, ForgetFacts
  <2>2. c = [d EXCEPT !.free[maker[s]] = @ + 1]
    BY DEF Recycle, PutBack
  <2> HIDE DEF c, d
  <2>3. QED  BY <2>1, <2>2 DEF Books
<1>2. b.sockets \ c.sockets = {s}
  BY <1>0, <1>1
<1>3. ASSUME NEW f \in Factories PROVE CopiesIn(c, f) = CopiesIn(b, f)
  <2>1. Cardinality(Made(c.sockets, f))
          = Cardinality(Made(b.sockets, f)) - (IF maker[s] = f THEN 1 ELSE 0)
    BY <1>0, <1>1, MadeWithout
  <2>2. c.free[f] = b.free[f] + (IF maker[s] = f THEN 1 ELSE 0) /\ b.free[f] \in Nat
    BY <1>1 DEF Books
  <2>3. /\ CopiesIn(b, f) = b.free[f] + b.building[f] + Cardinality(Made(b.sockets, f))
        /\ b.building[f] \in Nat /\ Cardinality(Made(b.sockets, f)) \in Nat
    BY BooksFacts
  <2> HIDE DEF c
  <2>4. CopiesIn(c, f) = c.free[f] + b.building[f] + Cardinality(Made(c.sockets, f))
    BY <1>1, BooksFacts
  <2>5. QED  BY <2>1, <2>2, <2>3, <2>4
<1>4. Cardinality(c.sockets) = Cardinality(b.sockets) - 1
  BY <1>0, <1>1, SocketsFinite, FS_RemoveElement
<1>5. Within(b) => Within(c)
  <2>1. Cardinality(b.sockets) \in Nat /\ Total(b.building) \in Nat
    BY <1>0, SocketsFinite, TotalType DEF Books
  <2>2. Most \in Nat
    BY LoadBalancerConstants DEF Most
  <2> HIDE DEF c
  <2>3. QED  BY <1>1, <1>4, <2>1, <2>2 DEF Within, Size
<1> HIDE DEF c
<1>6. Kept(b, c)
  BY <1>1, <1>2, <1>3, <1>5 DEF Kept, Shuts
<1>7. QED  BY <1>1, <1>6 DEF c

(* A socket is built out of a factory of the list.                         *)
LEMMA BuildStays ==
  ASSUME NEW b, Books(b), NEW f \in FactoryPicks(b), Wants(Count(b), b.aperture)
  PROVE  Kept(b, Build(b, f))
<1> DEFINE c == Build(b, f)
<1>0. f \in Factories /\ b.free[f] \in Nat /\ b.free[f] > 0
  BY DEF FactoryPicks, In, Books
<1>1. /\ Books(c) /\ c.free = [b.free EXCEPT ![f] = @ - 1]
      /\ c.building = [b.building EXCEPT ![f] = @ + 1] /\ c.pendings = b.pendings + 1
      /\ c.aperture = b.aperture /\ c.sockets = b.sockets /\ c.life = b.life
  <2> DEFINE free == [b.free EXCEPT ![f] = @ - 1]
             building == [b.building EXCEPT ![f] = @ + 1]
  <2>1. free \in [Factories -> Nat] /\ building \in [Factories -> Nat] /\ b.pendings + 1 \in Int
    BY <1>0 DEF Books
  <2>2. c = [b EXCEPT !.free = free, !.building = building, !.pendings = @ + 1]
    BY <1>0 DEF Build, Books
  <2> HIDE DEF c, free, building
  <2>3. /\ Books(c) /\ c.free = free /\ c.building = building /\ c.pendings = b.pendings + 1
        /\ c.aperture = b.aperture /\ c.sockets = b.sockets /\ c.life = b.life
    BY <2>1, <2>2 DEF Books
  <2>4. QED  BY <2>3 DEF free, building
<1>2. ASSUME NEW g \in Factories PROVE CopiesIn(c, g) = CopiesIn(b, g)
  <2>1. /\ c.free[g] = b.free[g] - (IF g = f THEN 1 ELSE 0)
        /\ c.building[g] = b.building[g] + (IF g = f THEN 1 ELSE 0)
    BY <1>1 DEF Books
  <2>2. /\ CopiesIn(b, g) = b.free[g] + b.building[g] + Cardinality(Made(b.sockets, g))
        /\ b.free[g] \in Nat /\ b.building[g] \in Nat
        /\ Cardinality(Made(b.sockets, g)) \in Nat
    BY BooksFacts
  <2> HIDE DEF c
  <2>3. CopiesIn(c, g) = c.free[g] + c.building[g] + Cardinality(Made(c.sockets, g))
    BY <1>1, BooksFacts
  <2>4. c.sockets = b.sockets
    BY <1>1
  <2>5. QED  BY <2>1, <2>2, <2>3, <2>4
<1>3. Total(c.building) = Total(b.building) + 1
  <2>1. /\ b.building \in [Factories -> Nat] /\ c.building \in [Factories -> Nat]
        /\ c.building[f] = b.building[f] + 1 /\ b.building[f] \in Nat
        /\ \A g \in Factories \ {f} : c.building[g] = b.building[g]
    BY <1>0, <1>1 DEF Books
  <2>2. Total(c.building) = Total(b.building) + c.building[f] - b.building[f]
    BY <1>0, <2>1, TotalChanges
  <2>3. Total(b.building) \in Nat
    BY <2>1, TotalType
  <2> HIDE DEF c
  <2>4. QED  BY <2>1, <2>2, <2>3
<1>4. Within(b) => Within(c)
  <2>1. Cardinality(b.sockets) \in Nat /\ Total(b.building) \in Nat
    BY SocketsFinite, TotalType DEF Books
  <2>2. Cardinality(b.sockets) + b.pendings < b.aperture /\ b.aperture \in Nat
    BY DEF Wants, Count, Books
  <2>3. Most \in Nat
    BY LoadBalancerConstants DEF Most
  <2> HIDE DEF c
  <2>4. QED  BY <1>1, <1>3, <2>1, <2>2, <2>3 DEF Within, Size
<1>5. c.life = Shut(b, b.sockets \ c.sockets).life
  BY <1>1 DEF Shut, Books
<1> HIDE DEF c
<1>6. Kept(b, c)
  BY <1>1, <1>2, <1>4, <1>5 DEF Kept, Shuts
<1>7. QED  BY <1>6 DEF c

(* One call of _refreshSockets(), up to where it calls itself.             *)
LEMMA EndsStay ==
  ASSUME NEW b, Books(b), NEW due \in BOOLEAN, NEW c \in Ends(b, due)
  PROVE  Kept(b, c)
<1> DEFINE d == Updated(b, due)
<1>1. Kept(b, d) /\ Books(d)
  BY UpdatedStays DEF Kept, Shuts
<1>2. CASE c = b
  BY <1>2, KeptSame
<1>3. CASE c = d
  BY <1>1, <1>3
<1>4. ASSUME Wants(Count(d), d.aperture), NEW f \in FactoryPicks(d), c = Build(d, f)
      PROVE  Kept(b, c)
  <2> HIDE DEF d
  <2>1. Kept(d, c)
    BY <1>1, <1>4, BuildStays
  <2>2. QED  BY <1>1, <2>1, KeptTrans
<1>5. QED  BY <1>2, <1>3, <1>4 DEF Ends

LEMMA AgainStays ==
  ASSUME NEW b, Books(b), ~closed => HasMakers(b), NEW due \in BOOLEAN,
         NEW call \in Again(b, due)
  PROVE  Kept(b, call[1]) /\ call[2] \in BOOLEAN
<1> DEFINE d == Updated(b, due)
<1>1. Kept(b, d) /\ Books(d) /\ d.sockets = b.sockets
  BY UpdatedStays DEF Kept, Shuts
<1>2. PICK s \in d.sockets : /\ call = <<Recycle(d, s), due /\ ~Idle(b) /\ ~Busy(b)>>
                             /\ ~closed
  BY DEF Again, SocketPicks
<1>3. Kept(d, Recycle(d, s))
  <2>1. maker[s] \in Factories
    BY <1>1, <1>2 DEF HasMakers
  <2> HIDE DEF d
  <2>2. QED  BY <1>1, <2>1, RecycleStays
<1> HIDE DEF d
<1>4. Kept(b, Recycle(d, s))
  BY <1>1, <1>3, KeptTrans
<1>5. (due /\ ~Idle(b) /\ ~Busy(b)) \in BOOLEAN
  OBVIOUS
<1>6. QED  BY <1>2, <1>4, <1>5

(* The calls below it.                                                     *)
Descends(calls, b, due, D) ==
  calls = [n \in D |-> IF n = 0 THEN {<<b, due>>}
                       ELSE UNION {Again(call[1], call[2]) : call \in calls[n - 1]}]

LEMMA CallsExist ==
  ASSUME NEW b, NEW due, NEW n \in Nat
  PROVE  \E calls : Descends(calls, b, due, 0..n)
<1> DEFINE Bad == {k \in Nat : ~\E calls : Descends(calls, b, due, 0..k)}
<1>1. SUFFICES ASSUME Bad # {} PROVE FALSE
  OBVIOUS
<1>2. PICK k \in Bad : \A j \in Bad : k <= j
  <2>1. Bad \in SUBSET Nat
    OBVIOUS
  <2> HIDE DEF Bad
  <2>2. QED  BY <1>1, <2>1, LeastNatural
<1>3. PICK calls : k > 0 => Descends(calls, b, due, 0..(k - 1))
  <2>1. CASE k = 0
    BY <2>1
  <2>2. CASE k > 0
    <3>1. k - 1 \in Nat /\ k - 1 \notin Bad
      BY <1>2, <2>2
    <3>2. QED  BY <3>1
  <2>3. QED  BY <2>1, <2>2
<1> DEFINE Below(S) == UNION {Again(call[1], call[2]) : call \in S}
           new == [m \in 0..k |-> IF m = 0 THEN {<<b, due>>} ELSE Below(calls[m - 1])]
<1> HIDE DEF Below
<1>4. ASSUME NEW m \in 0..k, m # 0
      PROVE  new[m - 1] = calls[m - 1]
  <2>1. k > 0 /\ m - 1 \in 0..(k - 1) /\ m - 1 \in 0..k
    BY <1>4
  <2>2. calls = [j \in 0..(k - 1) |-> IF j = 0 THEN {<<b, due>>} ELSE Below(calls[j - 1])]
    BY <1>3, <2>1 DEF Descends, Below
  <2>3. calls[m - 1] = IF m - 1 = 0 THEN {<<b, due>>} ELSE Below(calls[(m - 1) - 1])
    <3>1. \A j \in 0..(k - 1) :
            calls[j] = IF j = 0 THEN {<<b, due>>} ELSE Below(calls[j - 1])
      BY <2>2
    <3>2. QED  BY <2>1, <3>1
  <2>4. QED  BY <2>1, <2>3
<1>5. new = [m \in 0..k |-> IF m = 0 THEN {<<b, due>>} ELSE Below(new[m - 1])]
  BY <1>4
<1>6. Descends(new, b, due, 0..k)
  <2> HIDE DEF new
  <2>1. QED  BY <1>5 DEF Descends, Below
<1>7. QED  BY <1>2, <1>6

LEMMA CallsUnfold ==
  ASSUME NEW b, Books(b), NEW due
  PROVE  Descends(Calls(b, due), b, due, 0..Cardinality(b.sockets))
<1>1. Cardinality(b.sockets) \in Nat
  BY SocketsFinite DEF Books
<1>2. \E calls : Descends(calls, b, due, 0..Cardinality(b.sockets))
  BY <1>1, CallsExist
<1>3. Calls(b, due) = CHOOSE calls : Descends(calls, b, due, 0..Cardinality(b.sockets))
  BY DEF Calls, Descends
<1>4. QED  BY <1>2, <1>3

LEMMA CallsStay ==
  ASSUME NEW b, Books(b), ~closed => HasMakers(b), NEW due \in BOOLEAN,
         NEW n \in DOMAIN Calls(b, due), NEW call \in Calls(b, due)[n]
  PROVE  Kept(b, call[1]) /\ call[2] \in BOOLEAN
<1> DEFINE calls == Calls(b, due)
           last == Cardinality(b.sockets)
           Fine(c) == Kept(b, c[1]) /\ c[2] \in BOOLEAN
           Bad == {k \in 0..last : ~\A c \in calls[k] : Fine(c)}
<1>0. last \in Nat
  BY SocketsFinite DEF Books
<1>1. /\ DOMAIN calls = 0..last
      /\ \A k \in 0..last :
           calls[k] = IF k = 0 THEN {<<b, due>>}
                      ELSE UNION {Again(c[1], c[2]) : c \in calls[k - 1]}
  <2>1. Descends(calls, b, due, 0..last)
    BY CallsUnfold
  <2> HIDE DEF calls, last
  <2>2. QED  BY <2>1 DEF Descends
<1> HIDE DEF calls, last
<1>2. ASSUME NEW k \in 0..last, k # 0, \A c \in calls[k - 1] : Fine(c), NEW c \in calls[k]
      PROVE  Fine(c)
  <2>1. PICK d \in calls[k - 1] : c \in Again(d[1], d[2])
    BY <1>1, <1>2
  <2>2. Kept(b, d[1]) /\ d[2] \in BOOLEAN
    BY <1>2
  <2>3. Books(d[1]) /\ (~closed => HasMakers(d[1]))
    BY <2>2 DEF Kept, Shuts, HasMakers
  <2>4. Kept(d[1], c[1]) /\ c[2] \in BOOLEAN
    BY <2>1, <2>2, <2>3, AgainStays
  <2>5. QED  BY <2>2, <2>4, KeptTrans
<1>3. \A c \in calls[0] : Fine(c)
  <2>1. calls[0] = {<<b, due>>}
    BY <1>0, <1>1
  <2>2. Kept(b, b)
    BY KeptSame
  <2>3. QED  BY <2>1, <2>2
<1> HIDE DEF Fine
<1>4. Bad = {}
  <2>1. SUFFICES ASSUME Bad # {} PROVE FALSE
    OBVIOUS
  <2>2. PICK k \in Bad : \A j \in Bad : k <= j
    <3>1. Bad \in SUBSET Nat
      BY <1>0
    <3> HIDE DEF Bad
    <3>2. QED  BY <2>1, <3>1, LeastNatural
  <2>3. k # 0
    BY <1>3
  <2>4. k - 1 \in 0..last /\ k \in 0..last /\ ~(k <= k - 1)
    BY <1>0, <2>3
  <2>5. k - 1 \notin Bad
    <3> HIDE DEF Bad
    <3>1. QED  BY <2>2, <2>4
  <2>6. \A c \in calls[k - 1] : Fine(c)
    BY <2>4, <2>5
  <2>7. QED  BY <1>2, <2>3, <2>4, <2>6
<1>5. n \in 0..last /\ call \in calls[n]
  BY <1>1 DEF calls
<1>6. QED  BY <1>4, <1>5 DEF Fine

LEMMA RefreshedStays ==
  ASSUME NEW b, Books(b), ~closed => HasMakers(b), NEW due \in BOOLEAN,
         NEW c \in Refreshed(b, due)
  PROVE  Kept(b, c)
<1>1. PICK n \in DOMAIN Calls(b, due) :
        c \in UNION {Ends(call[1], call[2]) : call \in Calls(b, due)[n]}
  BY DEF Refreshed
<1>2. PICK call \in Calls(b, due)[n] : c \in Ends(call[1], call[2])
  BY <1>1
<1>3. Kept(b, call[1]) /\ call[2] \in BOOLEAN
  BY CallsStay
<1>4. Books(call[1])
  BY <1>3 DEF Kept, Shuts
<1>5. Kept(call[1], c)
  BY <1>2, <1>3, <1>4, EndsStay
<1>6. QED  BY <1>3, <1>5, KeptTrans

(* A load balancer that is closed leaves all as it is.                     *)
LEMMA RefreshedClosed ==
  ASSUME NEW b, Books(b), closed, NEW due, NEW c \in Refreshed(b, due)
  PROVE  c = b
<1>1. PICK n \in DOMAIN Calls(b, due) :
        c \in UNION {Ends(call[1], call[2]) : call \in Calls(b, due)[n]}
  BY DEF Refreshed
<1>2. PICK call \in Calls(b, due)[n] : c \in Ends(call[1], call[2])
  BY <1>1
<1>3. /\ n \in 0..Cardinality(b.sockets) /\ Cardinality(b.sockets) \in Nat
      /\ Calls(b, due)[n] = IF n = 0 THEN {<<b, due>>}
                            ELSE UNION {Again(d[1], d[2]) : d \in Calls(b, due)[n - 1]}
  BY CallsUnfold, SocketsFinite DEF Descends, Books
<1>4. n = 0
  <2>1. \A d : Again(d[1], d[2]) = {}
    BY DEF Again
  <2>2. UNION {Again(d[1], d[2]) : d \in Calls(b, due)[n - 1]} = {}
    BY <2>1
  <2>3. QED  BY <1>3, <2>2
<1>5. call = <<b, due>>
  BY <1>3, <1>4
<1>6. QED  BY <1>2, <1>5 DEF Ends

-----------------------------------------------------------------------------
(* _addFactory() and _removeSocket()                                       *)

LEMMA PutBackFacts ==
  ASSUME NEW b, Books(b), NEW f \in Factories
  PROVE  /\ Books(PutBack(b, f)) /\ PutBack(b, f).building = b.building
         /\ PutBack(b, f).pendings = b.pendings /\ PutBack(b, f).aperture = b.aperture
         /\ PutBack(b, f).sockets = b.sockets /\ PutBack(b, f).life = b.life
         /\ \A g \in Factories :
              CopiesIn(PutBack(b, f), g) = CopiesIn(b, g) + (IF g = f THEN 1 ELSE 0)
<1> DEFINE c == PutBack(b, f)
<1>1. /\ Books(c) /\ c.free = [b.free EXCEPT ![f] = @ + 1] /\ c.building = b.building
      /\ c.pendings = b.pendings /\ c.aperture = b.aperture
      /\ c.sockets = b.sockets /\ c.life = b.life
  <2> DEFINE free == [b.free EXCEPT ![f] = @ + 1]
  <2>1. free \in [Factories -> Nat]
    BY DEF Books
  <2>2. c = [b EXCEPT !.free = free]
    BY DEF PutBack, Books
  <2> HIDE DEF c, free
  <2>3. /\ Books(c) /\ c.free = free /\ c.building = b.building
        /\ c.pendings = b.pendings /\ c.aperture = b.aperture
        /\ c.sockets = b.sockets /\ c.life = b.life
    BY <2>1, <2>2 DEF Books
  <2>4. QED  BY <2>3 DEF free
<1>2. ASSUME NEW g \in Factories
      PROVE  CopiesIn(c, g) = CopiesIn(b, g) + (IF g = f THEN 1 ELSE 0)
  <2>1. c.free[g] = b.free[g] + (IF g = f THEN 1 ELSE 0)
    BY <1>1 DEF Books
  <2>2. /\ CopiesIn(b, g) = b.free[g] + b.building[g] + Cardinality(Made(b.sockets, g))
        /\ b.free[g] \in Nat /\ b.building[g] \in Nat
        /\ Cardinality(Made(b.sockets, g)) \in Nat
    BY BooksFacts
  <2> HIDE DEF c
  <2>3. CopiesIn(c, g) = c.free[g] + c.building[g] + Cardinality(Made(c.sockets, g))
    BY <1>1, BooksFacts
  <2>4. c.building = b.building /\ c.sockets = b.sockets
    BY <1>1
  <2>5. QED  BY <2>1, <2>2, <2>3, <2>4
<1>3. QED  BY <1>1, <1>2 DEF c

LEMMA AddedStays ==
  ASSUME NEW b, Books(b), ~closed => HasMakers(b), NEW f \in Factories, NEW c \in FactoryAdded(b, f)
  PROVE  /\ Shuts(b, c, b.sockets \ c.sockets) /\ (Within(b) => Within(c))
         /\ closed => c = b
         /\ ~closed => \A g \in Factories :
              CopiesIn(c, g) = CopiesIn(b, g) + (IF g = f THEN 1 ELSE 0)
<1>1. CASE closed
  <2>1. c = b
    BY <1>1 DEF FactoryAdded
  <2>2. QED  BY <1>1, <2>1, ShutsSame
<1>2. CASE ~closed
  <2> DEFINE d == PutBack(b, f)
  <2>1. PICK due \in BOOLEAN : c \in Refreshed(d, due)
    BY <1>2 DEF FactoryAdded
  <2>2. /\ Books(d) /\ d.sockets = b.sockets /\ d.life = b.life
        /\ d.building = b.building /\ d.pendings = b.pendings /\ d.aperture = b.aperture
        /\ \A g \in Factories : CopiesIn(d, g) = CopiesIn(b, g) + (IF g = f THEN 1 ELSE 0)
    BY PutBackFacts
  <2> HIDE DEF d
  <2>3. Kept(d, c)
    <3>1. HasMakers(d)
      BY <1>2, <2>2 DEF HasMakers
    <3>2. QED  BY <2>1, <2>2, <3>1, RefreshedStays
  <2>4. Shuts(b, c, b.sockets \ c.sockets)
    <3>1. Shuts(b, d, {})
      BY <2>2, ShutsSame
    <3>2. Shuts(d, c, b.sockets \ c.sockets)
      BY <2>2, <2>3 DEF Kept
    <3>3. {} \cup (b.sockets \ c.sockets) = b.sockets \ c.sockets
      OBVIOUS
    <3>4. QED  BY <3>1, <3>2, <3>3, ShutsTrans
  <2>5. Within(b) => Within(c)
    <3>1. Within(b) => Within(d)
      BY <2>2 DEF Within, Size
    <3>2. QED  BY <2>3, <3>1 DEF Kept
  <2>6. \A g \in Factories : CopiesIn(c, g) = CopiesIn(b, g) + (IF g = f THEN 1 ELSE 0)
    BY <2>2, <2>3 DEF Kept
  <2>7. QED  BY <1>2, <2>4, <2>5, <2>6
<1>3. QED  BY <1>1, <1>2

LEMMA ForgetStays ==
  ASSUME NEW b, Books(b), NEW S \in SUBSET b.sockets
  PROVE  /\ Shuts(b, Forget(b, S), S) /\ Forget(b, S).sockets = b.sockets \ S
         /\ Forget(b, S).free = b.free /\ Forget(b, S).building = b.building
         /\ Within(b) => Within(Forget(b, S))
         /\ \A f \in Factories :
              /\ CopiesIn(Forget(b, S), f) <= CopiesIn(b, f)
              /\ (\A s \in S : maker[s] # f) => CopiesIn(Forget(b, S), f) = CopiesIn(b, f)
<1> DEFINE c == Forget(b, S)
<1>0. S \in SUBSET Sockets /\ b.sockets \in SUBSET Sockets
  BY DEF Books
<1>1. /\ Books(c) /\ c.free = b.free /\ c.building = b.building /\ c.pendings = b.pendings
      /\ c.aperture = b.aperture /\ c.sockets = b.sockets \ S /\ c.life = Shut(b, S).life
  BY <1>0, ForgetFacts
<1> HIDE DEF c
<1>2. Shuts(b, c, S)
  BY <1>1 DEF Shuts
<1>3. Within(b) => Within(c)
  <2>1. IsFiniteSet(b.sockets) /\ Cardinality(b.sockets) \in Nat
    BY <1>0, SocketsFinite
  <2>2. Cardinality(c.sockets) \in Nat /\ Cardinality(c.sockets) <= Cardinality(b.sockets)
    BY <1>1, <2>1, FS_Subset, FS_CardinalityType
  <2>3. Total(b.building) \in Nat /\ Most \in Nat
    BY TotalType, LoadBalancerConstants DEF Books, Most
  <2>4. QED  BY <1>1, <2>1, <2>2, <2>3 DEF Within, Size
<1>4. ASSUME NEW f \in Factories
      PROVE  /\ CopiesIn(c, f) <= CopiesIn(b, f)
             /\ (\A s \in S : maker[s] # f) => CopiesIn(c, f) = CopiesIn(b, f)
  <2>1. /\ CopiesIn(b, f) = b.free[f] + b.building[f] + Cardinality(Made(b.sockets, f))
        /\ b.free[f] \in Nat /\ b.building[f] \in Nat
        /\ IsFiniteSet(Made(b.sockets, f)) /\ Cardinality(Made(b.sockets, f)) \in Nat
    BY BooksFacts
  <2>2. /\ CopiesIn(c, f) = b.free[f] + b.building[f] + Cardinality(Made(c.sockets, f))
        /\ Cardinality(Made(c.sockets, f)) \in Nat
    BY <1>1, BooksFacts
  <2>3. Cardinality(Made(c.sockets, f)) <= Cardinality(Made(b.sockets, f))
    <3>1. Made(c.sockets, f) \subseteq Made(b.sockets, f)
      BY <1>1 DEF Made
    <3>2. QED  BY <2>1, <3>1, FS_Subset
  <2>4. (\A s \in S : maker[s] # f) => Made(c.sockets, f) = Made(b.sockets, f)
    BY <1>1 DEF Made
  <2>5. QED  BY <2>1, <2>2, <2>3, <2>4
<1>5. QED  BY <1>1, <1>2, <1>3, <1>4 DEF c

(* The removal of a socket, with its factory put back.                     *)
LEMMA RemovedStays ==
  ASSUME NEW b, Books(b), ~closed => HasMakers(b), NEW s \in Sockets, maker[s] \in Factories,
         NEW c \in SocketRemoved(b, s)
  PROVE  /\ Shuts(b, c, b.sockets \ c.sockets) /\ (Within(b) => Within(c))
         /\ s \notin c.sockets
         /\ closed => \A f \in Factories : CopiesIn(c, f) <= CopiesIn(b, f)
         /\ ~closed => \A f \in Factories :
              CopiesIn(c, f)
                = CopiesIn(b, f) + (IF f = maker[s] /\ s \notin b.sockets THEN 1 ELSE 0)
<1>1. CASE s \in b.sockets
  <2> DEFINE d == Forget(b, {s})
  <2>1. /\ Shuts(b, d, {s}) /\ d.sockets = b.sockets \ {s} /\ Books(d)
        /\ Within(b) => Within(d)
        /\ \A f \in Factories : CopiesIn(d, f) <= CopiesIn(b, f)
    BY <1>1, ForgetStays DEF Shuts
  <2>2. c \in FactoryAdded(d, maker[s])
    BY <1>1 DEF SocketRemoved
  <2>3. \A g \in Factories :
          CopiesIn(b, g) = CopiesIn(d, g) + (IF g = maker[s] THEN 1 ELSE 0)
    <3>1. Kept(b, PutBack(d, maker[s]))
      BY <1>1, RecycleStays DEF Recycle
    <3> HIDE DEF d
    <3>2. QED  BY <2>1, <3>1, PutBackFacts DEF Kept
  <2> HIDE DEF d
  <2>4. ~closed => HasMakers(d)
    BY <2>1 DEF HasMakers
  <2>5. /\ Shuts(d, c, d.sockets \ c.sockets) /\ (Within(d) => Within(c))
        /\ closed => c = d
        /\ ~closed => \A g \in Factories :
             CopiesIn(c, g) = CopiesIn(d, g) + (IF g = maker[s] THEN 1 ELSE 0)
    BY <2>1, <2>2, <2>4, AddedStays
  <2>6. Shuts(b, c, {s} \cup (d.sockets \ c.sockets))
    BY <2>1, <2>5, ShutsTrans
  <2>7. {s} \cup (d.sockets \ c.sockets) = b.sockets \ c.sockets /\ s \notin c.sockets
    BY <1>1, <2>1, <2>5 DEF Shuts
  <2>8. \A g \in Factories : (IF g = maker[s] /\ s \notin b.sockets THEN 1 ELSE 0) = 0
    BY <1>1
  <2>9. \A f \in Factories : CopiesIn(b, f) \in Nat
    BY BooksFacts
  <2>10. \A f \in Factories : ~closed => CopiesIn(c, f) = CopiesIn(b, f)
    BY <2>3, <2>5
  <2>11. closed => \A f \in Factories : CopiesIn(c, f) <= CopiesIn(b, f)
    BY <2>1, <2>5
  <2>12. ~closed => \A f \in Factories :
           CopiesIn(c, f)
             = CopiesIn(b, f) + (IF f = maker[s] /\ s \notin b.sockets THEN 1 ELSE 0)
    <3> HIDE DEF FactoryAdded
    <3>1. \A n \in Nat : n + 0 = n
      OBVIOUS
    <3>2. QED  BY <2>8, <2>9, <2>10, <3>1
  <2>13. Within(b) => Within(c)
    BY <2>1, <2>5
  <2>14. QED  BY <2>6, <2>7, <2>11, <2>12, <2>13
<1>2. CASE s \notin b.sockets
  <2>1. c \in FactoryAdded(b, maker[s])
    BY <1>2 DEF SocketRemoved
  <2>2. s \notin c.sockets
    BY <1>2, <2>1, AddedStays DEF Shuts
  <2>3. closed => \A f \in Factories : CopiesIn(c, f) <= CopiesIn(b, f)
    <3>1. closed => c = b
      BY <2>1, AddedStays
    <3>2. \A f \in Factories : CopiesIn(b, f) \in Nat
      BY BooksFacts
    <3>3. QED  BY <3>1, <3>2
  <2>4. QED  BY <1>2, <2>1, <2>2, <2>3, AddedStays
<1>3. QED  BY <1>1, <1>2

-----------------------------------------------------------------------------
(* The invariant                                                           *)

Typed ==
  /\ Books(lb)
  /\ listed \subseteq Factories
  /\ maker \in [Sockets -> Factories \cup {Nobody}]
  /\ open \in [Sockets -> Nat] /\ failing \in Nat
  /\ {drains, callback, unlatched} \subseteq SUBSET Sockets
  /\ {isReady, refreshing, closed, done} \subseteq BOOLEAN
  /\ lb.sockets # {} => isReady

Bound ==
  /\ \A f \in Factories : Copies(f) <= MaxCopies
  /\ Outstandings <= MaxOpen

(* Of a state of the load balancer, with timers running for D.             *)
Pool(b) == ~closed => \A s \in b.sockets : b.life[s] = "open"
Attended(b, D) ==
  \A s \in Sockets :
    /\ b.life[s] = "draining" => s \in D
    /\ b.life[s] = "open" => s \in b.sockets
Attributed(b) == \A s \in Sockets : b.life[s] # "gone" => maker[s] \in Factories

(* A callback is there only once close() has been called, so a socket that *)
(* is lost with requests under way has a timer.                            *)
Tended ==
  /\ Pool(lb) /\ Attended(lb, drains) /\ Attributed(lb)
  /\ callback # {} => closed

Inv == Typed /\ Bound /\ Tended

LEMMA InvParts ==
  ASSUME Inv
  PROVE  Books(lb) /\ (~closed => HasMakers(lb)) /\ Attributed(lb)
<1>1. lb.sockets \subseteq Sockets
  BY DEF Inv, Typed, Books
<1>2. QED  BY <1>1 DEF Inv, Typed, Tended, Pool, Attributed, HasMakers

(* What becomes of the sockets that are lost.                              *)
LEMMA ShutsTends ==
  ASSUME open \in [Sockets -> Nat], NEW b, NEW c, NEW S, Books(b), Shuts(b, c, S),
         b.sockets \ c.sockets \subseteq S, S \cap c.sockets = {},
         NEW D, Pool(b), Attended(b, D), Attributed(b)
  PROVE  /\ Pool(c) /\ Attributed(c)
         /\ Attended(c, D \cup {s \in S : open[s] > 0})
<1>1. c.life = [s \in Sockets |-> IF s \in S /\ b.life[s] \in {"open", "draining"}
                                  THEN AfterClose(s) ELSE b.life[s]]
  BY ShutLife DEF Shuts
<1>2. c.sockets \subseteq b.sockets /\ b.sockets \subseteq Sockets
  BY DEF Shuts, Books
<1>3. Pool(c)
  BY <1>1, <1>2 DEF Pool
<1>4. Attributed(c)
  BY <1>1 DEF Attributed
<1>5. ASSUME NEW s \in Sockets
      PROVE  /\ c.life[s] = "draining" => s \in D \cup {r \in S : open[r] > 0}
             /\ c.life[s] = "open" => s \in c.sockets
  <2>1. CASE s \in S /\ b.life[s] \in {"open", "draining"}
    <3>1. c.life[s] = IF open[s] = 0 THEN "ending" ELSE "draining"
      BY <1>1, <2>1 DEF AfterClose
    <3>2. open[s] # 0 => open[s] > 0
      OBVIOUS
    <3>3. QED  BY <2>1, <3>1, <3>2
  <2>2. CASE ~(s \in S /\ b.life[s] \in {"open", "draining"})
    <3>1. c.life[s] = b.life[s]
      BY <1>1, <2>2
    <3>2. QED  BY <2>2, <3>1 DEF Attended
  <2>3. QED  BY <2>1, <2>2
<1>6. QED  BY <1>3, <1>4, <1>5 DEF Attended

-----------------------------------------------------------------------------
(* What the steps do to the load balancer's state                          *)

LEMMA AddDoes ==
  ASSUME Inv, NEW f \in Factories, Add(f)
  PROVE  /\ Shuts(lb, lb', Shed(lb')) /\ (Within(lb) => Within(lb'))
         /\ \A g \in Factories : /\ CopiesIn(lb', g) >= CopiesIn(lb, g)
                                 /\ g # f => CopiesIn(lb', g) = CopiesIn(lb, g)
                                 /\ CopiesIn(lb', g) <= CopiesIn(lb, g) + 1
<1>1. lb' \in FactoryAdded(lb, f)
  BY DEF Add
<1>2. /\ Shuts(lb, lb', lb.sockets \ lb'.sockets) /\ (Within(lb) => Within(lb'))
      /\ closed => lb' = lb
      /\ ~closed => \A g \in Factories :
           CopiesIn(lb', g) = CopiesIn(lb, g) + (IF g = f THEN 1 ELSE 0)
  BY <1>1, InvParts, AddedStays
<1>3. \A g \in Factories : CopiesIn(lb, g) \in Nat
  BY InvParts, BooksFacts
<1>4. ASSUME NEW g \in Factories
      PROVE  /\ CopiesIn(lb', g) >= CopiesIn(lb, g)
             /\ g # f => CopiesIn(lb', g) = CopiesIn(lb, g)
             /\ CopiesIn(lb', g) <= CopiesIn(lb, g) + 1
  BY <1>2, <1>3
<1>5. QED  BY <1>2, <1>4 DEF Shed

LEMMA RemoveDoes ==
  ASSUME Inv, NEW f \in Factories, Remove(f)
  PROVE  /\ Shuts(lb, lb', Shed(lb')) /\ (Within(lb) => Within(lb'))
         /\ \A g \in Factories : /\ CopiesIn(lb', g) <= CopiesIn(lb, g)
                                 /\ g # f => CopiesIn(lb', g) = CopiesIn(lb, g)
         /\ Copies(f) <= 1 /\ lb.building[f] = 0 => CopiesIn(lb', f) = 0
<1> DEFINE b == [lb EXCEPT !.free[f] = IF @ > 0 THEN @ - 1 ELSE 0]
           S == Made(lb.sockets, f)
           c == Forget(b, S)
<1>1. PICK due \in BOOLEAN : lb' \in Refreshed(c, due)
  BY DEF Remove, Made
<1>2. /\ Books(b) /\ b.free = [lb.free EXCEPT ![f] = IF @ > 0 THEN @ - 1 ELSE 0]
      /\ b.building = lb.building /\ b.sockets = lb.sockets /\ b.pendings = lb.pendings
      /\ b.aperture = lb.aperture /\ b.life = lb.life
  <2> DEFINE free == [lb.free EXCEPT ![f] = IF @ > 0 THEN @ - 1 ELSE 0]
  <2>1. free \in [Factories -> Nat]
    BY InvParts DEF Books
  <2>2. b = [lb EXCEPT !.free = free]
    BY InvParts DEF Books
  <2> HIDE DEF b, free
  <2>3. /\ Books(b) /\ b.free = free
        /\ b.building = lb.building /\ b.sockets = lb.sockets /\ b.pendings = lb.pendings
        /\ b.aperture = lb.aperture /\ b.life = lb.life
    BY <2>1, <2>2, InvParts DEF Books
  <2>4. QED  BY <2>3 DEF free
<1>3. S \in SUBSET b.sockets
  BY <1>2 DEF Made
<1>4. ASSUME NEW g \in Factories
      PROVE  /\ CopiesIn(b, g) <= CopiesIn(lb, g) /\ CopiesIn(b, g) \in Nat
             /\ CopiesIn(lb, g) \in Nat
             /\ g # f => CopiesIn(b, g) = CopiesIn(lb, g)
  <2>1. b.free[g] = IF g = f THEN IF lb.free[f] > 0 THEN lb.free[f] - 1 ELSE 0 ELSE lb.free[g]
    BY <1>2, InvParts DEF Books
  <2>2. /\ CopiesIn(lb, g) = lb.free[g] + lb.building[g] + Cardinality(Made(lb.sockets, g))
        /\ lb.free[g] \in Nat /\ lb.building[g] \in Nat /\ lb.free[f] \in Nat
        /\ Cardinality(Made(lb.sockets, g)) \in Nat
    BY InvParts, BooksFacts
  <2> HIDE DEF b
  <2>3. CopiesIn(b, g) = b.free[g] + b.building[g] + Cardinality(Made(b.sockets, g))
    BY <1>2, BooksFacts
  <2>4. b.building = lb.building /\ b.sockets = lb.sockets
    BY <1>2
  <2>5. QED  BY <2>1, <2>2, <2>3, <2>4
<1>5. Shuts(lb, b, {}) /\ (Within(lb) => Within(b))
  <2> HIDE DEF b
  <2>1. QED  BY <1>2, InvParts, ShutsSame DEF Within, Size
<1> HIDE DEF b
<1>6. /\ Shuts(b, c, S) /\ Books(c) /\ c.sockets = lb.sockets \ S
      /\ c.free = b.free /\ c.building = lb.building /\ (Within(b) => Within(c))
      /\ \A g \in Factories :
           /\ CopiesIn(c, g) <= CopiesIn(b, g)
           /\ (\A s \in S : maker[s] # g) => CopiesIn(c, g) = CopiesIn(b, g)
  BY <1>2, <1>3, ForgetStays DEF Shuts
<1>7. \A g \in Factories : g # f => \A s \in S : maker[s] # g
  BY DEF Made
<1> HIDE DEF c
<1>8. Kept(c, lb')
  <2>1. ~closed => HasMakers(c)
    BY <1>6, InvParts DEF HasMakers
  <2>2. QED  BY <1>1, <1>6, <2>1, RefreshedStays
<1>9. Shuts(lb, lb', Shed(lb'))
  <2>1. Shuts(lb, c, {} \cup S)
    BY <1>5, <1>6, InvParts, ShutsTrans
  <2>2. Shuts(lb, lb', ({} \cup S) \cup (c.sockets \ lb'.sockets))
    BY <1>8, <2>1, InvParts, ShutsTrans DEF Kept
  <2>3. ({} \cup S) \cup (c.sockets \ lb'.sockets) = Shed(lb')
    BY <1>2, <1>3, <1>6, <1>8 DEF Shed, Kept, Shuts
  <2>4. QED  BY <2>2, <2>3
<1>10. ASSUME NEW g \in Factories
       PROVE  /\ CopiesIn(lb', g) <= CopiesIn(lb, g)
              /\ g # f => CopiesIn(lb', g) = CopiesIn(lb, g)
  <2>1. CopiesIn(lb', g) = CopiesIn(c, g) /\ CopiesIn(c, g) \in Nat
    BY <1>6, <1>8, BooksFacts DEF Kept
  <2>2. QED  BY <1>4, <1>6, <1>7, <2>1
<1>11. ASSUME Copies(f) <= 1, lb.building[f] = 0
       PROVE  CopiesIn(lb', f) = 0
  <2>1. /\ Copies(f) = lb.free[f] + lb.building[f] + Cardinality(Made(lb.sockets, f))
        /\ lb.free[f] \in Nat /\ Cardinality(Made(lb.sockets, f)) \in Nat
    BY InvParts, BooksFacts DEF Copies
  <2>2. b.free[f] = 0
    BY <1>2, <1>11, <2>1, InvParts DEF Books
  <2>3. Made(c.sockets, f) = {}
    BY <1>6 DEF Made
  <2>4. CopiesIn(c, f) = c.free[f] + c.building[f] + Cardinality(Made(c.sockets, f))
    BY <1>6, BooksFacts
  <2>5. CopiesIn(c, f) = 0
    BY <1>6, <1>11, <2>2, <2>3, <2>4, FS_EmptySet
  <2>6. QED  BY <1>8, <2>5 DEF Kept
<1>12. QED  BY <1>5, <1>6, <1>8, <1>9, <1>10, <1>11 DEF Kept

LEMMA RequestDoes ==
  ASSUME Inv, Request
  PROVE  Kept(lb, lb')
<1>1. PICK due \in BOOLEAN : lb' \in Refreshed(lb, due)
  BY DEF Request
<1>2. QED  BY <1>1, InvParts, RefreshedStays

LEMMA RefreshTickDoes ==
  ASSUME Inv, RefreshTick
  PROVE  Kept(lb, lb')
<1>1. PICK s \in lb.sockets : lb' \in SocketRemoved(lb, s)
  BY DEF RefreshTick, SocketPicks
<1>2. s \in Sockets /\ maker[s] \in Factories /\ ~closed
  BY InvParts DEF RefreshTick, HasMakers, Books
<1>3. /\ Shuts(lb, lb', lb.sockets \ lb'.sockets) /\ (Within(lb) => Within(lb'))
      /\ \A f \in Factories :
           CopiesIn(lb', f)
             = CopiesIn(lb, f) + (IF f = maker[s] /\ s \notin lb.sockets THEN 1 ELSE 0)
  BY <1>1, <1>2, InvParts, RemovedStays
<1>4. \A f \in Factories : CopiesIn(lb, f) \in Nat
  BY InvParts, BooksFacts
<1>5. \A f \in Factories : CopiesIn(lb', f) = CopiesIn(lb, f)
  BY <1>1, <1>3, <1>4
<1>6. QED  BY <1>3, <1>5 DEF Kept

(* Nothing but the lives of sockets is another in c.                       *)
LEMMA OnlyLives ==
  ASSUME NEW b, NEW c, c.free = b.free, c.building = b.building, c.sockets = b.sockets,
         c.pendings = b.pendings, c.aperture = b.aperture
  PROVE  /\ Within(b) => Within(c)
         /\ \A f \in Factories : CopiesIn(c, f) = CopiesIn(b, f)
BY DEF Within, Size, CopiesIn

(* The first of the two things that an error does.                         *)
LEMMA ErrorCloses ==
  ASSUME NEW b, Books(b), ~closed => HasMakers(b), NEW s \in Sockets, maker[s] \in Factories,
         NEW c \in IF open[s] = 0 /\ s \in b.sockets /\ ~closed
                  THEN SocketRemoved(b, s) ELSE {Shut(b, {s})}
  PROVE  /\ Shuts(b, c, (b.sockets \ c.sockets) \cup {s}) /\ (Within(b) => Within(c))
         /\ \A f \in Factories : CopiesIn(c, f) = CopiesIn(b, f)
<1>0. \A f \in Factories : CopiesIn(b, f) \in Nat
  BY BooksFacts
<1>1. CASE open[s] = 0 /\ s \in b.sockets /\ ~closed
  <2>1. /\ Shuts(b, c, b.sockets \ c.sockets) /\ (Within(b) => Within(c))
        /\ s \notin c.sockets
        /\ \A f \in Factories :
             CopiesIn(c, f)
               = CopiesIn(b, f) + (IF f = maker[s] /\ s \notin b.sockets THEN 1 ELSE 0)
    BY <1>1, RemovedStays
  <2>2. \A f \in Factories : CopiesIn(c, f) = CopiesIn(b, f)
    BY <1>0, <1>1, <2>1
  <2>3. (b.sockets \ c.sockets) \cup {s} = b.sockets \ c.sockets
    BY <1>1, <2>1
  <2>4. QED  BY <2>1, <2>2, <2>3
<1>2. CASE ~(open[s] = 0 /\ s \in b.sockets /\ ~closed)
  <2>1. c = Shut(b, {s})
    BY <1>2
  <2>2. /\ Books(c) /\ c.free = b.free /\ c.building = b.building /\ c.sockets = b.sockets
        /\ c.pendings = b.pendings /\ c.aperture = b.aperture
    BY <2>1 DEF Shut, Books, AfterClose, Lives
  <2>3. (b.sockets \ c.sockets) \cup {s} = {s}
    BY <2>2
  <2>4. Shuts(b, c, {s})
    BY <2>1, <2>2 DEF Shuts
  <2>5. QED  BY <2>2, <2>3, <2>4, OnlyLives
<1>3. QED  BY <1>1, <1>2

LEMMA ErrorDoes ==
  ASSUME Inv, NEW s \in Sockets, NEW ofTransport \in BOOLEAN, SocketError(s, ofTransport)
  PROVE  /\ Shuts(lb, lb', Shed(lb') \cup {s}) /\ s \notin lb'.sockets
         /\ ~ofTransport /\ Within(lb) => Within(lb')
         /\ ~closed => \A f \in Factories : CopiesIn(lb', f) >= CopiesIn(lb, f)
         /\ \A f \in Factories : CopiesIn(lb', f) <= MaxCopies
<1> DEFINE b == IF ofTransport THEN [lb EXCEPT !.pendings = @ - 1] ELSE lb
<1>1. /\ Books(b) /\ b.sockets = lb.sockets /\ b.life = lb.life
      /\ b.free = lb.free /\ b.building = lb.building /\ (~ofTransport => b = lb)
  BY InvParts DEF Books
<1>2. PICK c \in IF open[s] = 0 /\ s \in b.sockets /\ ~closed
                THEN SocketRemoved(b, s) ELSE {Shut(b, {s})} :
        lb' \in SocketRemoved(c, s) /\ Bounded(lb')
  BY <1>1 DEF SocketError
<1>3. maker[s] \in Factories
  <2>1. lb.life[s] # "gone"
    BY DEF SocketError
  <2>2. QED  BY <2>1, InvParts DEF Attributed
<1> HIDE DEF b
<1>4. /\ Shuts(lb, b, {}) /\ (~closed => HasMakers(b))
      /\ \A f \in Factories : CopiesIn(b, f) = CopiesIn(lb, f)
  BY <1>1, InvParts, ShutsSame DEF HasMakers, CopiesIn
<1>5. /\ Shuts(b, c, (b.sockets \ c.sockets) \cup {s}) /\ (Within(b) => Within(c))
      /\ \A f \in Factories : CopiesIn(c, f) = CopiesIn(b, f)
  BY <1>1, <1>2, <1>3, <1>4, ErrorCloses
<1>6. Books(c) /\ (~closed => HasMakers(c)) /\ c.sockets \subseteq b.sockets
  BY <1>4, <1>5 DEF Shuts, HasMakers
<1>7. /\ Shuts(c, lb', c.sockets \ lb'.sockets) /\ (Within(c) => Within(lb'))
      /\ s \notin lb'.sockets
      /\ ~closed => \A f \in Factories :
           CopiesIn(lb', f)
             = CopiesIn(c, f) + (IF f = maker[s] /\ s \notin c.sockets THEN 1 ELSE 0)
  BY <1>2, <1>3, <1>6, RemovedStays
<1>8. Shuts(lb, lb', Shed(lb') \cup {s})
  <2>1. Shuts(lb, c, {} \cup ((b.sockets \ c.sockets) \cup {s}))
    BY <1>4, <1>5, InvParts, ShutsTrans
  <2>2. Shuts(lb, lb', ({} \cup ((b.sockets \ c.sockets) \cup {s})) \cup (c.sockets \ lb'.sockets))
    BY <1>7, <2>1, InvParts, ShutsTrans
  <2>3. ({} \cup ((b.sockets \ c.sockets) \cup {s})) \cup (c.sockets \ lb'.sockets)
          = Shed(lb') \cup {s}
    BY <1>1, <1>6, <1>7 DEF Shed, Shuts
  <2>4. QED  BY <2>2, <2>3
<1>9. ASSUME ~closed, NEW f \in Factories
      PROVE  CopiesIn(lb', f) >= CopiesIn(lb, f)
  <2>1. CopiesIn(lb, f) \in Nat /\ CopiesIn(c, f) = CopiesIn(lb, f)
    BY <1>4, <1>5, InvParts, BooksFacts
  <2>2. QED  BY <1>7, <1>9, <2>1
<1>10. \A f \in Factories : CopiesIn(lb', f) <= MaxCopies
  BY <1>2 DEF Bounded
<1>11. QED  BY <1>1, <1>5, <1>7, <1>8, <1>9, <1>10

(* The socket's life ends, then it is removed unless that is done with.    *)
LEMMA TransportDoes ==
  ASSUME Inv, NEW s \in Sockets, TransportClosed(s), NEW gone,
         gone = [lb EXCEPT !.life[s] = "gone"]
  PROVE  /\ Books(gone) /\ Shuts(gone, lb', Shed(lb')) /\ (Within(lb) => Within(lb'))
         /\ (closed => lb' = gone) /\ (~closed => s \notin lb'.sockets)
         /\ \A f \in Factories : CopiesIn(lb', f) = CopiesIn(lb, f)
<1>1. lb' \in IF s \in lb.sockets /\ ~closed THEN SocketRemoved(gone, s) ELSE {gone}
  BY DEF TransportClosed
<1>2. /\ Books(gone) /\ gone.free = lb.free /\ gone.building = lb.building
      /\ gone.sockets = lb.sockets /\ gone.pendings = lb.pendings
      /\ gone.aperture = lb.aperture
  BY InvParts DEF Books, Lives
<1>3. /\ Within(lb) => Within(gone)
      /\ \A f \in Factories : CopiesIn(gone, f) = CopiesIn(lb, f) /\ CopiesIn(lb, f) \in Nat
  BY <1>2, OnlyLives, InvParts, BooksFacts
<1>4. CASE s \in lb.sockets /\ ~closed
  <2>1. /\ lb' \in SocketRemoved(gone, s) /\ (~closed => HasMakers(gone))
        /\ maker[s] \in Factories /\ Books(gone)
    BY <1>1, <1>2, <1>4, InvParts DEF HasMakers
  <2>2. /\ Shuts(gone, lb', gone.sockets \ lb'.sockets) /\ (Within(gone) => Within(lb'))
        /\ s \notin lb'.sockets
        /\ ~closed => \A f \in Factories :
             CopiesIn(lb', f)
               = CopiesIn(gone, f) + (IF f = maker[s] /\ s \notin gone.sockets THEN 1 ELSE 0)
    BY <2>1, RemovedStays
  <2>3. \A f \in Factories : CopiesIn(lb', f) = CopiesIn(lb, f)
    BY <1>2, <1>3, <1>4, <2>2
  <2>4. QED  BY <1>2, <1>3, <1>4, <2>2, <2>3 DEF Shed
<1>5. CASE ~(s \in lb.sockets /\ ~closed)
  <2>1. lb' = gone
    BY <1>1, <1>5
  <2>2. Shuts(gone, lb', gone.sockets \ lb'.sockets)
    BY <1>2, <2>1, ShutsSame
  <2>3. QED  BY <1>2, <1>3, <1>5, <2>1, <2>2 DEF Shed
<1>6. QED  BY <1>4, <1>5

(* Where the maker is forgotten with the socket, nobody's copies grow.     *)
LEMMA MakerGoes ==
  ASSUME Books(lb'), NEW s \in Sockets, maker \in [Sockets -> Factories \cup {Nobody}],
         maker' = [maker EXCEPT ![s] = Nobody], NEW f \in Factories
  PROVE  /\ Copies(f)' <= CopiesIn(lb', f)
         /\ s \notin lb'.sockets => Copies(f)' = CopiesIn(lb', f)
<1> DEFINE old == {r \in lb'.sockets : maker[r] = f}
           new == {r \in lb'.sockets : maker'[r] = f}
<1>1. lb'.sockets \in SUBSET Sockets
  BY DEF Books
<1>2. new = old \ {s}
  BY <1>1, LoadBalancerConstants
<1>3. /\ CopiesIn(lb', f) = lb'.free[f] + lb'.building[f] + Cardinality(old)
      /\ lb'.free[f] \in Nat /\ lb'.building[f] \in Nat
      /\ IsFiniteSet(old) /\ Cardinality(old) \in Nat
  BY BooksFacts DEF Made
<1>4. Copies(f)' = lb'.free[f] + lb'.building[f] + Cardinality(new)
  BY DEF Copies, CopiesIn
<1> HIDE DEF old, new
<1>5. Cardinality(new) \in Nat /\ Cardinality(new) <= Cardinality(old)
  BY <1>2, <1>3, FS_Subset, FS_CardinalityType
<1>6. s \notin lb'.sockets => new = old
  BY <1>2 DEF old
<1>7. QED  BY <1>3, <1>4, <1>5, <1>6

LEMMA SucceedsDoes ==
  ASSUME Inv, NEW f \in Factories, NEW s \in Sockets, BuildSucceeds(f, s)
  PROVE  /\ Books(lb') /\ lb'.sockets = lb.sockets \cup {s}
         /\ lb'.life = [lb.life EXCEPT ![s] = "open"]
         /\ Within(lb) => Within(lb')
         /\ \A g \in Factories : Copies(g)' = Copies(g)
<1>1. /\ Books(lb) /\ lb.building[f] \in Nat /\ lb.building[f] > 0 /\ s \notin lb.sockets
      /\ lb.sockets \in SUBSET Sockets
  BY InvParts DEF BuildSucceeds, Books
<1> DEFINE building == [lb.building EXCEPT ![f] = @ - 1]
           life == [lb.life EXCEPT ![s] = "open"]
<1>2. building \in [Factories -> Nat] /\ life \in [Sockets -> Lives]
  BY <1>1 DEF Books, Lives
<1>3. /\ Books(lb') /\ lb'.free = lb.free /\ lb'.building = building
      /\ lb'.sockets = lb.sockets \cup {s} /\ lb'.pendings = lb.pendings - 1
      /\ lb'.aperture = lb.aperture /\ lb'.life = life
  <2>1. lb' = [lb EXCEPT !.building = building, !.pendings = @ - 1, !.sockets = @ \cup {s},
                         !.life = life]
    BY <1>1 DEF BuildSucceeds, Built, Books
  <2> HIDE DEF building, life
  <2>2. lb.pendings - 1 \in Int /\ lb.sockets \cup {s} \in SUBSET Sockets
    BY <1>1 DEF Books
  <2>3. Books(lb')
    BY <1>1, <1>2, <2>1, <2>2 DEF Books
  <2>4. QED  BY <1>1, <2>1, <2>3 DEF Books
<1>4. Total(building) = Total(lb.building) - 1 /\ Total(lb.building) \in Nat
  <2>1. /\ building[f] = lb.building[f] - 1 /\ lb.building \in [Factories -> Nat]
        /\ \A g \in Factories \ {f} : building[g] = lb.building[g]
    BY <1>1 DEF Books
  <2>2. Total(building) = Total(lb.building) + building[f] - lb.building[f]
    BY <1>2, <2>1, TotalChanges
  <2>3. Total(lb.building) \in Nat
    BY <2>1, TotalType
  <2> HIDE DEF building
  <2>4. QED  BY <1>1, <2>1, <2>2, <2>3
<1>5. Cardinality(lb.sockets \cup {s}) = Cardinality(lb.sockets) + 1
      /\ Cardinality(lb.sockets) \in Nat
  BY <1>1, SocketsFinite, FS_AddElement
<1>6. Within(lb) => Within(lb')
  <2>1. Most \in Nat
    BY LoadBalancerConstants DEF Most
  <2> HIDE DEF building
  <2>2. QED  BY <1>3, <1>4, <1>5, <2>1 DEF Within, Size
<1>7. ASSUME NEW g \in Factories PROVE Copies(g)' = Copies(g)
  <2> DEFINE new == {r \in lb'.sockets : maker'[r] = g}
  <2>1. /\ Copies(g) = lb.free[g] + lb.building[g] + Cardinality(Made(lb.sockets, g))
        /\ lb.free[g] \in Nat /\ lb.building[g] \in Nat
        /\ IsFiniteSet(Made(lb.sockets, g)) /\ Cardinality(Made(lb.sockets, g)) \in Nat
    BY <1>1, BooksFacts DEF Copies
  <2>2. Copies(g)' = lb'.free[g] + lb'.building[g] + Cardinality(new)
    BY DEF Copies, CopiesIn
  <2>3. lb'.free[g] = lb.free[g]
        /\ lb'.building[g] = lb.building[g] - (IF g = f THEN 1 ELSE 0)
    BY <1>1, <1>3 DEF Books
  <2>4. new = IF g = f THEN Made(lb.sockets, g) \cup {s} ELSE Made(lb.sockets, g)
    <3>1. maker' = [maker EXCEPT ![s] = f] /\ maker \in [Sockets -> Factories \cup {Nobody}]
      BY DEF BuildSucceeds, Inv, Typed
    <3>2. QED  BY <1>1, <1>3, <3>1 DEF Made
  <2>5. s \notin Made(lb.sockets, g)
    BY <1>1 DEF Made
  <2> HIDE DEF new
  <2>6. Cardinality(new) = Cardinality(Made(lb.sockets, g)) + (IF g = f THEN 1 ELSE 0)
    BY <2>1, <2>4, <2>5, FS_AddElement
  <2>7. QED  BY <2>1, <2>2, <2>3, <2>6
<1>8. QED  BY <1>3, <1>6, <1>7

LEMMA FailsDoes ==
  ASSUME Inv, NEW f \in Factories, BuildFails(f)
  PROVE  /\ Books(lb') /\ lb'.sockets = lb.sockets /\ lb'.life = lb.life
         /\ Within(lb) => Within(lb')
         /\ lb'.building[f] < lb.building[f]
         /\ \A g \in Factories : /\ CopiesIn(lb', g) <= CopiesIn(lb, g)
                                 /\ g # f => CopiesIn(lb', g) = CopiesIn(lb, g)
<1>1. /\ Books(lb) /\ lb.building[f] \in Nat /\ lb.building[f] > 0
      /\ lb.sockets \in SUBSET Sockets
  BY InvParts DEF BuildFails, Books
<1> DEFINE building == [lb.building EXCEPT ![f] = @ - 1]
<1>2. building \in [Factories -> Nat]
  BY <1>1 DEF Books
<1>3. /\ Books(lb') /\ lb'.free = lb.free /\ lb'.building = building
      /\ lb'.sockets = lb.sockets /\ lb'.pendings = lb.pendings - 1
      /\ lb'.aperture = lb.aperture /\ lb'.life = lb.life
  <2>1. lb' = [lb EXCEPT !.building = building, !.pendings = @ - 1]
    BY <1>1 DEF BuildFails, Built, Books
  <2> HIDE DEF building
  <2>2. lb.pendings - 1 \in Int
    BY <1>1 DEF Books
  <2>3. Books(lb')
    BY <1>1, <1>2, <2>1, <2>2 DEF Books
  <2>4. QED  BY <1>1, <2>1, <2>3 DEF Books
<1>4. Total(building) = Total(lb.building) - 1 /\ Total(lb.building) \in Nat
  <2>1. /\ building[f] = lb.building[f] - 1 /\ lb.building \in [Factories -> Nat]
        /\ \A g \in Factories \ {f} : building[g] = lb.building[g]
    BY <1>1 DEF Books
  <2>2. Total(building) = Total(lb.building) + building[f] - lb.building[f]
    BY <1>2, <2>1, TotalChanges
  <2>3. Total(lb.building) \in Nat
    BY <2>1, TotalType
  <2> HIDE DEF building
  <2>4. QED  BY <1>1, <2>1, <2>2, <2>3
<1>5. Within(lb) => Within(lb')
  <2>1. Most \in Nat /\ Cardinality(lb.sockets) \in Nat
    BY <1>1, LoadBalancerConstants, SocketsFinite DEF Most
  <2> HIDE DEF building
  <2>2. QED  BY <1>3, <1>4, <2>1 DEF Within, Size
<1>6. \A g \in Factories : lb'.building[g] = lb.building[g] - (IF g = f THEN 1 ELSE 0)
  BY <1>1, <1>3 DEF Books
<1>7. ASSUME NEW g \in Factories
      PROVE  /\ CopiesIn(lb', g) <= CopiesIn(lb, g)
             /\ g # f => CopiesIn(lb', g) = CopiesIn(lb, g)
  <2>1. /\ CopiesIn(lb, g) = lb.free[g] + lb.building[g] + Cardinality(Made(lb.sockets, g))
        /\ lb.free[g] \in Nat /\ lb.building[g] \in Nat
        /\ Cardinality(Made(lb.sockets, g)) \in Nat
    BY <1>1, BooksFacts
  <2>2. CopiesIn(lb', g) = lb'.free[g] + lb'.building[g] + Cardinality(Made(lb.sockets, g))
    BY <1>3 DEF CopiesIn, Made
  <2>3. lb'.free[g] = lb.free[g]
    BY <1>3
  <2>4. QED  BY <1>6, <2>1, <2>2, <2>3
<1>8. lb'.building[f] < lb.building[f]
  BY <1>1, <1>6
<1>9. QED  BY <1>3, <1>5, <1>7, <1>8

-----------------------------------------------------------------------------
(* The steps keep the invariant                                            *)

LEMMA OutstandingsAre ==
  /\ Outstandings = failing + SumOf(open, Sockets)
  /\ Outstandings' = failing' + SumOf(open', Sockets)
BY DEF Outstandings, SumOf, MapThenSumSet, MapThenFoldSet

LEMMA OutstandingsType ==
  ASSUME Inv
  PROVE  /\ Outstandings \in Nat /\ failing <= Outstandings
         /\ \A s \in Sockets : open[s] <= Outstandings
<1>1. \A s \in Sockets : open[s] \in Nat
  BY DEF Inv, Typed
<1>2. /\ SumOf(open, Sockets) \in Nat
      /\ \A s \in Sockets : open[s] <= SumOf(open, Sockets)
  BY <1>1, LoadBalancerConstants, SumOfNatural
<1>3. failing \in Nat
  BY DEF Inv, Typed
<1>4. QED  BY <1>1, <1>2, <1>3, OutstandingsAre

LEMMA RequestsChange ==
  ASSUME NEW v \in [Sockets -> Nat], NEW w \in [Sockets -> Nat], NEW s \in Sockets,
         \A r \in Sockets \ {s} : w[r] = v[r]
  PROVE  /\ SumOf(v, Sockets) \in Nat
         /\ SumOf(w, Sockets) = SumOf(v, Sockets) + w[s] - v[s]
<1>1. \A r \in Sockets : v[r] \in Int /\ w[r] \in Int /\ v[r] \in Nat
  OBVIOUS
<1>2. SumOf(w, Sockets) = SumOf(v, Sockets) + w[s] - v[s]
  BY <1>1, LoadBalancerConstants, SumOfChanges
<1>3. SumOf(v, Sockets) \in Nat
  BY <1>1, LoadBalancerConstants, SumOfNatural
<1>4. QED  BY <1>2, <1>3

(* The requests of one socket change.                                      *)
LEMMA OutstandingsChange ==
  ASSUME Inv, NEW s \in Sockets, NEW n \in Nat, open' = [open EXCEPT ![s] = n],
         failing' = failing
  PROVE  open' \in [Sockets -> Nat] /\ Outstandings' = Outstandings + n - open[s]
<1>1. open \in [Sockets -> Nat] /\ failing \in Nat
  BY DEF Inv, Typed
<1>2. /\ open' \in [Sockets -> Nat] /\ open'[s] = n
      /\ \A r \in Sockets \ {s} : open'[r] = open[r]
  BY <1>1
<1>3. /\ SumOf(open, Sockets) \in Nat
      /\ SumOf(open', Sockets) = SumOf(open, Sockets) + open'[s] - open[s]
  BY <1>1, <1>2, RequestsChange
<1>4. open[s] \in Nat
  BY <1>1
<1>5. QED  BY <1>1, <1>2, <1>3, <1>4, OutstandingsAre

(* The steps that lose sockets, if any, but their makers.                  *)
LEMMA ShedsKeep ==
  ASSUME Inv, NEW S \in SUBSET Sockets, Shuts(lb, lb', S), Shed(lb') \subseteq S,
         S \cap lb'.sockets = {}, drains' = drains \cup {s \in S : open[s] > 0},
         maker' = maker, listed' \subseteq Factories, callback' \subseteq callback,
         UNCHANGED closing, open' \in [Sockets -> Nat], failing' \in Nat,
         \A f \in Factories : CopiesIn(lb', f) <= MaxCopies, Outstandings' <= MaxOpen
  PROVE  Inv'
<1>1. /\ Books(lb) /\ Pool(lb) /\ Attended(lb, drains) /\ Attributed(lb)
      /\ open \in [Sockets -> Nat] /\ lb.sockets \ lb'.sockets \subseteq S
  BY DEF Inv, Typed, Tended, Shed
<1>2. /\ Pool(lb') /\ Attributed(lb')
      /\ Attended(lb', drains \cup {s \in S : open[s] > 0})
  BY <1>1, ShutsTends
<1>3. Books(lb') /\ lb'.sockets \subseteq lb.sockets
  BY DEF Shuts
<1>4. Typed'
  BY <1>3 DEF Inv, Typed, Books, closing
<1>5. Bound'
  BY DEF Bound, Copies, CopiesIn
<1>6. Tended'
  <2>1. Pool(lb)' /\ Attributed(lb)' /\ Attended(lb, drains)'
    BY <1>2 DEF Pool, Attributed, Attended, closing
  <2>2. callback' # {} => closed'
    BY DEF Inv, Tended, closing
  <2>3. QED  BY <2>1, <2>2 DEF Tended
<1>7. QED  BY <1>4, <1>5, <1>6 DEF Inv

LEMMA ShedFacts ==
  ASSUME Inv, NEW S, Shuts(lb, lb', S)
  PROVE  Shed(lb') \in SUBSET Sockets /\ Shed(lb') \cap lb'.sockets = {}
BY InvParts DEF Shed, Books

LEMMA AddKeeps == ASSUME Inv, NEW f \in Factories, Add(f) PROVE Inv'
<1>1. Shuts(lb, lb', Shed(lb'))
  BY AddDoes
<1>2. /\ drains' = drains \cup {s \in Shed(lb') : open[s] > 0}
      /\ maker' = maker /\ listed' \subseteq Factories /\ callback' = callback
      /\ UNCHANGED closing /\ open' = open /\ failing' = failing /\ Bounded(lb')
  BY DEF Add, NewDrains, Inv, Typed
<1>3. Outstandings' <= MaxOpen
  BY <1>2, OutstandingsAre DEF Inv, Bound
<1>4. \A f1 \in Factories : CopiesIn(lb', f1) <= MaxCopies
  BY <1>2 DEF Bounded
<1>5. QED  BY <1>1, <1>2, <1>3, <1>4, ShedFacts, ShedsKeep DEF Inv, Typed

LEMMA RemoveKeeps == ASSUME Inv, NEW f \in Factories, Remove(f) PROVE Inv'
<1>1. /\ Shuts(lb, lb', Shed(lb'))
      /\ \A g \in Factories : CopiesIn(lb', g) <= CopiesIn(lb, g)
  BY RemoveDoes
<1>2. /\ drains' = drains \cup {s \in Shed(lb') : open[s] > 0}
      /\ maker' = maker /\ listed' \subseteq Factories /\ callback' = callback
      /\ UNCHANGED closing /\ open' = open /\ failing' = failing
  BY DEF Remove, NewDrains, Inv, Typed
<1>3. Outstandings' <= MaxOpen
  BY <1>2, OutstandingsAre DEF Inv, Bound
<1>4. ASSUME NEW g \in Factories PROVE CopiesIn(lb', g) <= MaxCopies
  <2>1. Books(lb') /\ CopiesIn(lb', g) \in Nat /\ CopiesIn(lb, g) \in Nat /\ MaxCopies \in Nat
    BY <1>1, InvParts, BooksFacts, LoadBalancerConstants DEF Shuts
  <2>2. CopiesIn(lb, g) <= MaxCopies
    BY DEF Inv, Bound, Copies
  <2>3. QED  BY <1>1, <2>1, <2>2
<1>5. QED  BY <1>1, <1>2, <1>3, <1>4, ShedFacts, ShedsKeep DEF Inv, Typed

LEMMA KeptBound ==
  ASSUME Inv, Kept(lb, lb')
  PROVE  Shuts(lb, lb', Shed(lb')) /\ \A g \in Factories : CopiesIn(lb', g) <= MaxCopies
BY DEF Kept, Shed, Inv, Bound, Copies

LEMMA RefreshTickKeeps == ASSUME Inv, RefreshTick PROVE Inv'
<1>1. /\ Shuts(lb, lb', Shed(lb')) /\ \A g \in Factories : CopiesIn(lb', g) <= MaxCopies
  BY RefreshTickDoes, KeptBound
<1>2. /\ drains' = drains \cup {s \in Shed(lb') : open[s] > 0}
      /\ maker' = maker /\ listed' \subseteq Factories /\ callback' = callback
      /\ UNCHANGED closing /\ open' = open /\ failing' = failing
  BY DEF RefreshTick, NewDrains, Inv, Typed
<1>3. Outstandings' <= MaxOpen
  BY <1>2, OutstandingsAre DEF Inv, Bound
<1>4. QED  BY <1>1, <1>2, <1>3, ShedFacts, ShedsKeep DEF Inv, Typed

LEMMA RequestKeeps == ASSUME Inv, Request PROVE Inv'
<1>1. /\ Shuts(lb, lb', Shed(lb')) /\ \A g \in Factories : CopiesIn(lb', g) <= MaxCopies
      /\ lb'.sockets \subseteq Sockets
  BY RequestDoes, KeptBound DEF Kept, Shuts, Books
<1>2. /\ drains' = drains \cup {s \in Shed(lb') : open[s] > 0}
      /\ maker' = maker /\ listed' \subseteq Factories /\ callback' = callback
      /\ UNCHANGED closing
  BY DEF Request, NewDrains, Inv, Typed
<1>3. \/ failing' = failing + 1 /\ open' = open
      \/ \E s \in lb'.sockets : open' = [open EXCEPT ![s] = @ + 1] /\ failing' = failing
  BY DEF Request, SocketPicks
<1>4. Outstandings' <= MaxOpen /\ open' \in [Sockets -> Nat] /\ failing' \in Nat
  <2>1. /\ Outstandings < MaxOpen /\ Outstandings \in Nat /\ failing \in Nat
        /\ open \in [Sockets -> Nat] /\ MaxOpen \in Nat
    BY OutstandingsType, LoadBalancerConstants DEF Request, Inv, Typed
  <2>2. CASE failing' = failing + 1 /\ open' = open
    <3>1. SumOf(open, Sockets) \in Nat
      BY <2>1, LoadBalancerConstants, SumOfNatural
    <3>2. QED  BY <2>1, <2>2, <3>1, OutstandingsAre
  <2>3. ASSUME NEW s \in lb'.sockets, open' = [open EXCEPT ![s] = @ + 1], failing' = failing
        PROVE  Outstandings' = Outstandings + 1 /\ open' \in [Sockets -> Nat]
    <3>1. s \in Sockets /\ open[s] \in Nat /\ open[s] + 1 \in Nat
      BY <1>1, <2>1
    <3>2. /\ open' \in [Sockets -> Nat]
          /\ Outstandings' = Outstandings + (open[s] + 1) - open[s]
      BY <2>3, <3>1, OutstandingsChange
    <3>3. QED  BY <2>1, <3>1, <3>2
  <2>4. QED  BY <1>3, <2>1, <2>2, <2>3
<1>5. QED  BY <1>1, <1>2, <1>4, ShedFacts, ShedsKeep

LEMMA ErrorKeeps ==
  ASSUME Inv, NEW s \in Sockets, NEW ofTransport \in BOOLEAN, SocketError(s, ofTransport)
  PROVE  Inv'
<1> DEFINE S == Shed(lb') \cup {s}
<1>1. /\ Shuts(lb, lb', S) /\ s \notin lb'.sockets
      /\ \A f \in Factories : CopiesIn(lb', f) <= MaxCopies
  BY ErrorDoes
<1>2. /\ drains' = drains \cup {r \in S : open[r] > 0}
      /\ maker' = maker /\ listed' \subseteq Factories /\ callback' \subseteq callback
      /\ UNCHANGED closing /\ open' = open /\ failing' = failing
  BY DEF SocketError, NewDrains, Inv, Typed
<1>3. Outstandings' <= MaxOpen
  BY <1>2, OutstandingsAre DEF Inv, Bound
<1>4. S \in SUBSET Sockets /\ S \cap lb'.sockets = {} /\ Shed(lb') \subseteq S
  BY <1>1, ShedFacts
<1> HIDE DEF S
<1>5. QED  BY <1>1, <1>2, <1>3, <1>4, ShedsKeep DEF Inv, Typed

LEMMA SucceedsKeeps ==
  ASSUME Inv, NEW f \in Factories, NEW s \in Sockets, BuildSucceeds(f, s)
  PROVE  Inv'
<1>1. /\ Books(lb') /\ lb'.sockets = lb.sockets \cup {s}
      /\ lb'.life = [lb.life EXCEPT ![s] = "open"]
      /\ \A g \in Factories : Copies(g)' = Copies(g)
  BY SucceedsDoes
<1>2. /\ maker' = [maker EXCEPT ![s] = f] /\ isReady' = TRUE
      /\ refreshing' = (refreshing \/ ~isReady)
      /\ UNCHANGED <<listed, open, failing, drains, callback, closed, unlatched, done>>
  BY DEF BuildSucceeds
<1>3. Typed'
  BY <1>1, <1>2 DEF Inv, Typed, Books
<1>4. Bound'
  BY <1>1, <1>2, OutstandingsAre DEF Inv, Bound
<1>5. Tended'
  <2>1. /\ lb.life \in [Sockets -> Lives] /\ maker \in [Sockets -> Factories \cup {Nobody}]
    BY DEF Inv, Typed, Books
  <2>2. Pool(lb)' /\ Attributed(lb)' /\ Attended(lb, drains)'
    BY <1>1, <1>2, <2>1 DEF Inv, Tended, Pool, Attributed, Attended
  <2>3. QED  BY <1>2, <2>2 DEF Inv, Tended
<1>6. QED  BY <1>3, <1>4, <1>5 DEF Inv

LEMMA FailsKeeps == ASSUME Inv, NEW f \in Factories, BuildFails(f) PROVE Inv'
<1>1. /\ Books(lb') /\ lb'.sockets = lb.sockets /\ lb'.life = lb.life
      /\ \A g \in Factories : CopiesIn(lb', g) <= CopiesIn(lb, g)
  BY FailsDoes
<1>2. UNCHANGED <<listed, maker, open, failing, drains, callback, closing>>
  BY DEF BuildFails
<1>3. Typed'
  BY <1>1, <1>2 DEF Inv, Typed, closing
<1>4. Bound'
  <2>1. ASSUME NEW g \in Factories PROVE Copies(g)' <= MaxCopies
    <3>1. Copies(g)' = CopiesIn(lb', g) /\ Copies(g) = CopiesIn(lb, g)
      BY <1>2 DEF Copies, CopiesIn
    <3>2. /\ CopiesIn(lb', g) \in Nat /\ CopiesIn(lb, g) \in Nat /\ MaxCopies \in Nat
      BY <1>1, InvParts, BooksFacts, LoadBalancerConstants
    <3>3. Copies(g) <= MaxCopies
      BY DEF Inv, Bound
    <3>4. QED  BY <1>1, <3>1, <3>2, <3>3
  <2>2. QED  BY <1>2, <2>1, OutstandingsAre DEF Inv, Bound
<1>5. Tended'
  BY <1>1, <1>2 DEF Inv, Tended, Pool, Attributed, Attended, closing
<1>6. QED  BY <1>3, <1>4, <1>5 DEF Inv

(* A socket that drains, perhaps, ends its transport.                      *)
LEMMA EndingFacts ==
  ASSUME Inv, NEW s \in Sockets,
         lb' = [lb EXCEPT !.life[s] = IF @ = "draining" THEN "ending" ELSE @]
  PROVE  /\ Books(lb') /\ lb'.sockets = lb.sockets /\ lb'.free = lb.free
         /\ lb'.building = lb.building /\ lb'.pendings = lb.pendings
         /\ lb'.aperture = lb.aperture
         /\ \A r \in Sockets : lb'.life[r] = IF r = s /\ lb.life[r] = "draining"
                                            THEN "ending" ELSE lb.life[r]
BY InvParts DEF Books, Lives

LEMMA EndingKeeps ==
  ASSUME Inv, NEW s \in Sockets,
         lb' = [lb EXCEPT !.life[s] = IF @ = "draining" THEN "ending" ELSE @],
         drains' = drains \ {s}, callback' \subseteq callback, Latch({s}),
         UNCHANGED <<listed, maker, isReady, refreshing, closed>>,
         open' \in [Sockets -> Nat], failing' \in Nat, Outstandings' <= MaxOpen
  PROVE  Inv'
<1>1. /\ Books(lb') /\ lb'.sockets = lb.sockets /\ lb'.free = lb.free
      /\ lb'.building = lb.building
      /\ \A r \in Sockets : lb'.life[r] = IF r = s /\ lb.life[r] = "draining"
                                         THEN "ending" ELSE lb.life[r]
  BY EndingFacts
<1>2. unlatched' \subseteq unlatched /\ done' \in BOOLEAN
  BY DEF Latch, Inv, Typed
<1>3. Typed'
  BY <1>1, <1>2 DEF Inv, Typed
<1>4. Bound'
  BY <1>1 DEF Inv, Bound, Copies, CopiesIn
<1>5. Tended'
  <2>1. Pool(lb)' /\ Attributed(lb)'
    BY <1>1, <1>3 DEF Inv, Tended, Pool, Attributed, Typed, Books
  <2>2. Attended(lb, drains)'
    BY <1>1 DEF Inv, Tended, Attended
  <2>3. QED  BY <2>1, <2>2 DEF Inv, Tended
<1>6. QED  BY <1>3, <1>4, <1>5 DEF Inv

LEMMA DrainTimeoutKeeps == ASSUME Inv, NEW s \in Sockets, DrainTimeout(s) PROVE Inv'
<1>1. Outstandings' <= MaxOpen
  BY OutstandingsAre DEF DrainTimeout, Inv, Bound
<1>2. open' \in [Sockets -> Nat] /\ failing' \in Nat
  BY DEF DrainTimeout, Inv, Typed
<1>3. QED  BY <1>1, <1>2, EndingKeeps DEF DrainTimeout

(* Nothing changes but the requests.                                       *)
LEMMA RequestsOnly ==
  ASSUME Inv, UNCHANGED <<listed, lb, maker, drains, callback, closing>>,
         open' \in [Sockets -> Nat], failing' \in Nat, Outstandings' <= MaxOpen
  PROVE  Inv'
<1>1. Typed'
  BY DEF Inv, Typed, closing
<1>2. Bound'
  BY DEF Inv, Bound, Copies, CopiesIn
<1>3. Tended'
  BY DEF Inv, Tended, Pool, Attributed, Attended, closing
<1>4. QED  BY <1>1, <1>2, <1>3 DEF Inv

LEMMA TerminateKeeps == ASSUME Inv, NEW s \in Sockets, Terminate(s) PROVE Inv'
<1>1. /\ open[s] \in Nat /\ open[s] > 0 /\ open[s] - 1 \in Nat
      /\ open' = [open EXCEPT ![s] = open[s] - 1] /\ failing' = failing /\ failing' \in Nat
  BY DEF Terminate, Inv, Typed
<1>2. /\ open' \in [Sockets -> Nat]
      /\ Outstandings' = Outstandings + (open[s] - 1) - open[s]
  BY <1>1, OutstandingsChange
<1>3. Outstandings' <= MaxOpen
  <2>1. Outstandings \in Nat /\ Outstandings <= MaxOpen /\ MaxOpen \in Nat
    BY OutstandingsType, LoadBalancerConstants DEF Inv, Bound
  <2>2. QED  BY <1>1, <1>2, <2>1
<1>4. CASE open[s] = 1 /\ s \in callback
  <2>1. /\ lb' = [lb EXCEPT !.life[s] = IF @ = "draining" THEN "ending" ELSE @]
        /\ drains' = drains \ {s} /\ Latch({s})
    BY <1>4 DEF Terminate
  <2>2. callback' = callback /\ UNCHANGED <<listed, maker, isReady, refreshing, closed>>
    BY DEF Terminate
  <2>3. QED  BY <1>1, <1>2, <1>3, <2>1, <2>2, EndingKeeps
<1>5. CASE ~(open[s] = 1 /\ s \in callback)
  <2>1. UNCHANGED <<listed, lb, maker, drains, callback, closing>>
    BY <1>5 DEF Terminate, closing
  <2>2. QED  BY <1>1, <1>2, <1>3, <2>1, RequestsOnly
<1>6. QED  BY <1>4, <1>5

LEMMA TerminateFailingKeeps == ASSUME Inv, TerminateFailing PROVE Inv'
<1>1. /\ failing' = failing - 1 /\ failing > 0 /\ failing \in Nat /\ open' = open
      /\ open \in [Sockets -> Nat] /\ Outstandings <= MaxOpen
      /\ UNCHANGED <<listed, lb, maker, drains, callback, closing>>
  BY DEF TerminateFailing, Inv, Typed, Bound
<1>2. SumOf(open, Sockets) \in Nat
  BY <1>1, LoadBalancerConstants, SumOfNatural
<1>3. Outstandings' <= MaxOpen /\ failing' \in Nat
  BY <1>1, <1>2, OutstandingsAre, LoadBalancerConstants
<1>4. QED  BY <1>1, <1>3, RequestsOnly

LEMMA CopiesNext ==
  ASSUME Books(lb'), NEW f \in Factories
  PROVE  Copies(f)' \in Nat
<1> DEFINE new == {r \in lb'.sockets : maker'[r] = f}
<1>1. new \in SUBSET Sockets
  BY DEF Books
<1> HIDE DEF new
<1>2. Cardinality(new) \in Nat
  BY <1>1, SocketsFinite
<1>3. Copies(f)' = lb'.free[f] + lb'.building[f] + Cardinality(new)
  BY DEF Copies, CopiesIn, new
<1>4. lb'.free[f] \in Nat /\ lb'.building[f] \in Nat
  BY BooksFacts
<1>5. QED  BY <1>2, <1>3, <1>4

LEMMA TransportKeeps == ASSUME Inv, NEW s \in Sockets, TransportClosed(s) PROVE Inv'
<1> DEFINE gone == [lb EXCEPT !.life[s] = "gone"]
           T == {r \in Shed(lb') : open[r] > 0}
<1>1. /\ Books(gone) /\ Shuts(gone, lb', Shed(lb'))
      /\ (closed => lb' = gone) /\ (~closed => s \notin lb'.sockets)
      /\ \A f \in Factories : CopiesIn(lb', f) = CopiesIn(lb, f)
  <2> HIDE DEF gone
  <2>1. QED  BY TransportDoes DEF gone
<1>2. /\ gone.sockets = lb.sockets /\ lb.sockets \subseteq Sockets
      /\ \A r \in Sockets : gone.life[r] = IF r = s THEN "gone" ELSE lb.life[r]
  BY InvParts DEF Books
<1> HIDE DEF gone
<1>3. /\ Books(lb') /\ lb'.sockets \subseteq lb.sockets
      /\ \A r \in Sockets :
           lb'.life[r] = IF r \in Shed(lb') /\ gone.life[r] \in {"open", "draining"}
                         THEN AfterClose(r) ELSE gone.life[r]
  <2>1. Books(lb') /\ lb'.sockets \subseteq gone.sockets /\ lb'.life = Shut(gone, Shed(lb')).life
    BY <1>1 DEF Shuts
  <2>2. Shut(gone, Shed(lb')).life
          = [r \in Sockets |-> IF r \in Shed(lb') /\ gone.life[r] \in {"open", "draining"}
                               THEN AfterClose(r) ELSE gone.life[r]]
    BY <1>1, ShutLife
  <2>3. QED  BY <1>2, <2>1, <2>2
<1>4. /\ maker' = [maker EXCEPT ![s] = Nobody] /\ open' = [open EXCEPT ![s] = 0]
      /\ maker \in [Sockets -> Factories \cup {Nobody}] /\ open \in [Sockets -> Nat]
      /\ UNCHANGED <<listed, failing, callback, isReady, refreshing, closed>>
      /\ unlatched' \subseteq unlatched /\ done' \in BOOLEAN
  BY DEF TransportClosed, Latch, Inv, Typed
<1>5. drains' \subseteq Sockets /\ (drains \cup T) \ {s} \subseteq drains'
  <2>1. drains \in SUBSET Sockets /\ T \subseteq Sockets
    BY <1>2 DEF Shed, Inv, Typed
  <2>2. CASE open[s] > 0 /\ s \in callback
    <3>1. drains' = drains \ {s}
      BY <2>2 DEF TransportClosed
    <3>2. lb' = gone
      BY <1>1, <2>2 DEF Inv, Tended
    <3>3. T = {}
      BY <1>2, <3>2 DEF Shed
    <3>4. QED  BY <2>1, <3>1, <3>3
  <2>3. CASE ~(open[s] > 0 /\ s \in callback)
    <3>1. drains' = drains \cup T
      BY <2>3 DEF TransportClosed, NewDrains
    <3>2. QED  BY <2>1, <3>1
  <2>4. QED  BY <2>2, <2>3
<1>6. Typed'
  <2>1. {drains', callback', unlatched'} \subseteq SUBSET Sockets
    BY <1>4, <1>5 DEF Inv, Typed
  <2>2. open' \in [Sockets -> Nat] /\ maker' \in [Sockets -> Factories \cup {Nobody}]
    BY <1>4
  <2>3. lb'.sockets # {} => isReady'
    BY <1>3, <1>4 DEF Inv, Typed
  <2>4. QED  BY <1>3, <1>4, <2>1, <2>2, <2>3 DEF Inv, Typed
<1>7. Bound'
  <2>1. ASSUME NEW f \in Factories PROVE Copies(f)' <= MaxCopies
    <3>1. Copies(f)' <= CopiesIn(lb', f) /\ CopiesIn(lb', f) = Copies(f)
      BY <1>1, <1>3, <1>4, MakerGoes DEF Copies
    <3>2. Copies(f) <= MaxCopies /\ Copies(f) \in Nat /\ MaxCopies \in Nat
      BY InvParts, BooksFacts, LoadBalancerConstants DEF Inv, Bound, Copies
    <3>3. Copies(f)' \in Nat
      BY <1>3, CopiesNext
    <3>4. QED  BY <3>1, <3>2, <3>3
  <2>2. Outstandings' <= MaxOpen
    <3>1. /\ Outstandings' = Outstandings + 0 - open[s] /\ open[s] \in Nat
          /\ Outstandings \in Nat /\ Outstandings <= MaxOpen /\ MaxOpen \in Nat
      BY <1>4, OutstandingsChange, OutstandingsType, LoadBalancerConstants DEF Inv, Bound
    <3>2. QED  BY <3>1
  <2>3. QED  BY <2>1, <2>2 DEF Bound
<1>8. Tended'
  <2>1. Pool(lb)'
    <3>1. SUFFICES ASSUME ~closed, NEW r \in lb'.sockets PROVE lb'.life[r] = "open"
      BY <1>4 DEF Pool
    <3>2. r # s /\ r \in Sockets /\ r \in lb.sockets /\ r \notin Shed(lb')
      BY <1>1, <1>2, <1>3, <3>1 DEF Shed
    <3>3. lb'.life[r] = lb.life[r]
      BY <1>2, <1>3, <3>2
    <3>4. QED  BY <3>1, <3>2, <3>3 DEF Inv, Tended, Pool
  <2>2. Attributed(lb)'
    <3>1. SUFFICES ASSUME NEW r \in Sockets, lb'.life[r] # "gone" PROVE maker'[r] \in Factories
      BY DEF Attributed
    <3>2. r # s /\ lb.life[r] # "gone"
      BY <1>2, <1>3, <3>1
    <3>3. QED  BY <1>4, <3>2 DEF Inv, Tended, Attributed
  <2>3. Attended(lb, drains)'
    <3>1. SUFFICES ASSUME NEW r \in Sockets
                   PROVE  /\ lb'.life[r] = "draining" => r \in drains'
                          /\ lb'.life[r] = "open" => r \in lb'.sockets
      BY DEF Attended
    <3>2. CASE r = s
      BY <1>2, <1>3, <3>2
    <3>3. CASE r # s /\ r \in Shed(lb') /\ lb.life[r] \in {"open", "draining"}
      <4>1. lb'.life[r] = IF open[r] = 0 THEN "ending" ELSE "draining"
        BY <1>2, <1>3, <3>3 DEF AfterClose
      <4>2. open[r] # 0 => open[r] > 0
        BY <1>4
      <4>3. QED  BY <1>5, <3>3, <4>1, <4>2
    <3>4. CASE r # s /\ ~(r \in Shed(lb') /\ lb.life[r] \in {"open", "draining"})
      <4>1. lb'.life[r] = lb.life[r]
        BY <1>2, <1>3, <3>4
      <4>2. QED  BY <1>5, <3>4, <4>1 DEF Inv, Tended, Attended, Shed
    <3>5. QED  BY <3>2, <3>3, <3>4
  <2>4. QED  BY <1>4, <2>1, <2>2, <2>3 DEF Inv, Tended
<1>9. QED  BY <1>6, <1>7, <1>8 DEF Inv

LEMMA CloseFacts ==
  ASSUME Inv, Close
  PROVE  /\ Books(lb') /\ lb'.free = lb.free /\ lb'.building = lb.building
         /\ lb'.sockets = lb.sockets /\ lb'.pendings = lb.pendings
         /\ lb'.aperture = lb.aperture
         /\ \A r \in Sockets :
              lb'.life[r] = IF r \in lb.sockets /\ lb.life[r] \in {"open", "draining"}
                            THEN AfterClose(r) ELSE lb.life[r]
<1>1. lb' = Shut(lb, lb.sockets) /\ Books(lb)
  BY InvParts DEF Close
<1>2. QED  BY <1>1 DEF Shut, Books, AfterClose, Lives

LEMMA CloseKeeps == ASSUME Inv, Close PROVE Inv'
<1>1. /\ Books(lb') /\ lb'.free = lb.free /\ lb'.building = lb.building
      /\ lb'.sockets = lb.sockets /\ lb.sockets \in SUBSET Sockets
      /\ \A r \in Sockets :
           lb'.life[r] = IF r \in lb.sockets /\ lb.life[r] \in {"open", "draining"}
                         THEN AfterClose(r) ELSE lb.life[r]
  BY CloseFacts, InvParts DEF Books
<1>2. /\ UNCHANGED <<listed, maker, open, failing, isReady>>
      /\ closed' = TRUE /\ refreshing' = FALSE /\ done' \in BOOLEAN
      /\ drains' = drains \cup {r \in lb.sockets : open[r] > 0}
      /\ callback' \subseteq callback \cup lb.sockets /\ unlatched' \subseteq lb.sockets
  BY DEF Close, NewDrains
<1>3. Typed'
  <2>1. drains' \subseteq Sockets /\ callback' \subseteq Sockets /\ unlatched' \subseteq Sockets
    BY <1>1, <1>2 DEF Inv, Typed
  <2>2. QED  BY <1>1, <1>2, <2>1 DEF Inv, Typed
<1>4. Bound'
  BY <1>1, <1>2, OutstandingsAre DEF Inv, Bound, Copies, CopiesIn
<1>5. Tended'
  <2>1. Pool(lb)' /\ (callback' # {} => closed')
    BY <1>2 DEF Pool
  <2>2. Attributed(lb)'
    BY <1>1, <1>2 DEF Inv, Tended, Attributed, AfterClose
  <2>3. ASSUME NEW r \in Sockets
        PROVE  /\ lb'.life[r] = "draining" => r \in drains'
               /\ lb'.life[r] = "open" => r \in lb'.sockets
    <3>1. open[r] \in Nat
      BY DEF Inv, Typed
    <3>2. QED  BY <1>1, <1>2, <3>1 DEF Inv, Tended, Attended, AfterClose
  <2>4. QED  BY <2>1, <2>2, <2>3 DEF Tended, Attended
<1>6. QED  BY <1>3, <1>4, <1>5 DEF Inv

LEMMA InvNext == ASSUME Inv, [Next]_vars PROVE Inv'
<1>1. ASSUME NEW f \in Factories, Factory(f) PROVE Inv'
  BY <1>1, AddKeeps, RemoveKeeps, FailsKeeps, SucceedsKeeps DEF Factory
<1>2. ASSUME NEW s \in Sockets, Socket(s) PROVE Inv'
  BY <1>2, TerminateKeeps, ErrorKeeps, TransportKeeps, DrainTimeoutKeeps DEF Socket
<1>3. CASE UNCHANGED vars
  <2>1. /\ UNCHANGED <<listed, lb, maker, drains, callback, closing>>
        /\ open' = open /\ failing' = failing
    BY <1>3 DEF vars
  <2>2. Outstandings' <= MaxOpen
    BY <2>1, OutstandingsAre DEF Inv, Bound
  <2>3. QED  BY <2>1, <2>2, RequestsOnly DEF Inv, Typed
<1>4. QED
  BY <1>1, <1>2, <1>3, RequestKeeps, TerminateFailingKeeps, RefreshTickKeeps, CloseKeeps
  DEF Next

LEMMA InitFacts ==
  ASSUME Init
  PROVE  /\ Books(lb) /\ Total(lb.building) = 0 /\ lb.sockets = {} /\ lb.pendings = 0
         /\ lb.aperture = InitialAperture /\ Outstandings = 0
         /\ \A f \in Factories : Copies(f) = 0
<1>1. /\ Nothing \in [Factories -> Nat] /\ \A f \in Factories : Nothing[f] = 0
      /\ InitialAperture \in Nat
  BY LoadBalancerConstants DEF Nothing
<1>2. Books(lb)
  BY <1>1 DEF Init, Books, Lives
<1>3. Total(Nothing) = 0
  <2>1. Total(Nothing) = SumOf(Nothing, Factories)
    BY DEF Total, SumOf, MapThenSumSet, MapThenFoldSet
  <2>2. QED  BY <1>1, <2>1, LoadBalancerConstants, SumOfNothing
<1>4. Outstandings = 0
  <2>1. \A s \in Sockets : open[s] = 0
    BY DEF Init
  <2>2. SumOf(open, Sockets) = 0
    BY <2>1, LoadBalancerConstants, SumOfNothing
  <2>3. QED  BY <2>2, OutstandingsAre DEF Init
<1>5. ASSUME NEW f \in Factories PROVE Copies(f) = 0
  <2>1. Copies(f) = lb.free[f] + lb.building[f] + Cardinality(Made(lb.sockets, f))
    BY <1>2, BooksFacts DEF Copies
  <2>2. lb.free[f] = 0 /\ lb.building[f] = 0 /\ Made(lb.sockets, f) = {}
    BY <1>1 DEF Init, Made
  <2>3. QED  BY <2>1, <2>2, FS_EmptySet
<1>6. QED  BY <1>2, <1>3, <1>4, <1>5 DEF Init

LEMMA InvInit == Init => Inv
<1> SUFFICES ASSUME Init PROVE Inv
  OBVIOUS
<1>1. Typed
  BY InitFacts DEF Init, Typed
<1>2. Bound
  BY InitFacts, LoadBalancerConstants DEF Bound
<1>3. Tended
  BY DEF Init, Tended, Pool, Attended, Attributed
<1>4. QED  BY <1>1, <1>2, <1>3 DEF Inv

(* The pool, its counts and its timers stay as the code keeps them: the    *)
(* invariant the theorems below are read from.                             *)
THEOREM Inductive == Spec => []Inv
BY InvInit, InvNext, PTL DEF Spec

-----------------------------------------------------------------------------
(* What that says                                                          *)

LEMMA LimitedSum ==
  ASSUME NEW x \in Nat, NEW y \in Nat, NEW z \in Nat, x <= y, y <= z
  PROVE  x \in 0..z
OBVIOUS

(* Every variable stays in its type, whatever happens to the load balancer *)
(* and with the copies of a factory that errors make.                      *)
THEOREM TypeCorrect == Spec => []TypeOK
<1>1. Inv => TypeOK
  <2> SUFFICES ASSUME Inv PROVE TypeOK
    OBVIOUS
  <2>1. MaxOpen \in Nat /\ Outstandings <= MaxOpen /\ Outstandings \in Nat
        /\ failing \in Nat /\ open \in [Sockets -> Nat]
    BY OutstandingsType, LoadBalancerConstants DEF Inv, Typed, Bound
  <2>2. failing \in 0..MaxOpen
    BY <2>1, OutstandingsType, LimitedSum
  <2>3. open \in [Sockets -> 0..MaxOpen]
    BY <2>1, OutstandingsType, LimitedSum
  <2>4. ASSUME NEW f \in Factories
        PROVE  lb.free[f] \in 0..MaxCopies /\ lb.building[f] \in 0..MaxCopies
    <3>1. /\ lb.free[f] \in Nat /\ lb.building[f] \in Nat /\ MaxCopies \in Nat
          /\ Cardinality(Made(lb.sockets, f)) \in Nat
          /\ Copies(f) = lb.free[f] + lb.building[f] + Cardinality(Made(lb.sockets, f))
      BY InvParts, BooksFacts, LoadBalancerConstants DEF Copies
    <3>2. Copies(f) <= MaxCopies
      BY DEF Inv, Bound
    <3>3. QED  BY <3>1, <3>2
  <2>5. lb \in Balancers
    BY <2>4, InvParts DEF Books, Balancers
  <2>6. QED  BY <2>2, <2>3, <2>5 DEF Inv, Typed, TypeOK
<1>2. QED  BY <1>1, Inductive, PTL

(* Until close() a request goes to a socket that is open, in whatever      *)
(* order errors, closes and recycling come.                                *)
THEOREM PoolStaysOpen == Spec => []PoolIsOpen
<1>1. Inv => PoolIsOpen
  BY DEF Inv, Tended, Pool, PoolIsOpen
<1>2. QED  BY <1>1, Inductive, PTL

(* A socket that has left the pool ends, or drains with a timer running    *)
(* that ends it, in whatever order errors, closes and answers come.        *)
THEOREM NoSocketIsForgotten == Spec => []NoneForgotten
<1>1. Inv => NoneForgotten
  BY DEF Inv, Tended, Attended, NoneForgotten
<1>2. QED  BY <1>1, Inductive, PTL

-----------------------------------------------------------------------------
(* The copies of a factory                                                 *)

LEMMA EndsOnly ==
  ASSUME Inv, NEW s \in Sockets, Terminate(s) \/ DrainTimeout(s)
  PROVE  /\ maker' = maker /\ listed' = listed /\ (Within(lb) => Within(lb'))
         /\ \A f \in Factories : CopiesIn(lb', f) = CopiesIn(lb, f)
<1>1. /\ maker' = maker /\ listed' = listed
      /\ \/ lb' = lb
         \/ lb' = [lb EXCEPT !.life[s] = IF @ = "draining" THEN "ending" ELSE @]
  BY DEF Terminate, DrainTimeout
<1>2. /\ lb'.sockets = lb.sockets /\ lb'.free = lb.free /\ lb'.building = lb.building
      /\ lb'.pendings = lb.pendings /\ lb'.aperture = lb.aperture
  BY <1>1, EndingFacts
<1>3. QED  BY <1>1, <1>2, OnlyLives

LEMMA ClosesOnly ==
  ASSUME Inv, Close
  PROVE  /\ maker' = maker /\ listed' = listed /\ (Within(lb) => Within(lb'))
         /\ \A f \in Factories : CopiesIn(lb', f) = CopiesIn(lb, f)
<1>1. maker' = maker /\ listed' = listed
  BY DEF Close
<1>2. QED  BY <1>1, CloseFacts, OnlyLives

(* The copies of f, as they were and as they are after a step of f's.      *)
LEMMA CopiesFacts ==
  ASSUME Inv, NEW f \in Factories
  PROVE  /\ Copies(f) \in Nat /\ Copies(f) = CopiesIn(lb, f)
         /\ maker' = maker => Copies(f)' = CopiesIn(lb', f)
BY InvParts, BooksFacts DEF Copies, CopiesIn

(* A step that leaves f listed takes no copy of it, but for the failure to *)
(* build one, until close().                                               *)
LEMMA FactoryTakes ==
  ASSUME Inv, NEW f \in listed \cap listed', NEW g \in Factories, Factory(g)
  PROVE  Copies(f)' >= Copies(f) \/ lb'.building[f] < lb.building[f]
<1>1. /\ f \in Factories /\ Copies(f) \in Nat /\ Copies(f) = CopiesIn(lb, f)
      /\ maker' = maker => Copies(f)' = CopiesIn(lb', f)
  BY CopiesFacts DEF Inv, Typed
<1>2. CASE Add(g)
  <2>1. maker' = maker /\ CopiesIn(lb', f) >= CopiesIn(lb, f)
    BY <1>1, <1>2, AddDoes DEF Add
  <2>2. QED  BY <1>1, <2>1
<1>3. CASE Remove(g)
  <2>1. maker' = maker /\ f # g
    BY <1>3 DEF Remove
  <2>2. CopiesIn(lb', f) = CopiesIn(lb, f)
    BY <1>1, <1>3, <2>1, RemoveDoes
  <2>3. QED  BY <1>1, <2>1, <2>2
<1>4. CASE BuildFails(g)
  <2>1. maker' = maker /\ (f # g => CopiesIn(lb', f) = CopiesIn(lb, f))
        /\ lb'.building[g] < lb.building[g]
    BY <1>1, <1>4, FailsDoes DEF BuildFails
  <2>2. QED  BY <1>1, <2>1
<1>5. ASSUME NEW s \in Sockets, BuildSucceeds(g, s)
      PROVE  Copies(f)' >= Copies(f)
  <2>1. Copies(f)' = Copies(f)
    BY <1>1, <1>5, SucceedsDoes
  <2>2. QED  BY <1>1, <2>1
<1>6. QED  BY <1>2, <1>3, <1>4, <1>5 DEF Factory

LEMMA SocketTakes ==
  ASSUME Inv, ~closed, NEW f \in Factories, NEW s \in Sockets, Socket(s)
  PROVE  Copies(f)' >= Copies(f)
<1>1. /\ Copies(f) \in Nat /\ Copies(f) = CopiesIn(lb, f)
      /\ maker' = maker => Copies(f)' = CopiesIn(lb', f)
  BY CopiesFacts
<1>2. CASE Terminate(s) \/ DrainTimeout(s)
  <2>1. maker' = maker /\ CopiesIn(lb', f) = CopiesIn(lb, f)
    BY <1>2, EndsOnly
  <2>2. QED  BY <1>1, <2>1
<1>3. ASSUME NEW ofTransport \in BOOLEAN, SocketError(s, ofTransport)
      PROVE  Copies(f)' >= Copies(f)
  <2>1. maker' = maker /\ CopiesIn(lb', f) >= CopiesIn(lb, f)
    BY <1>3, ErrorDoes DEF SocketError
  <2>2. QED  BY <1>1, <2>1
<1>4. CASE TransportClosed(s)
  <2> DEFINE gone == [lb EXCEPT !.life[s] = "gone"]
  <2>1. /\ Shuts(gone, lb', Shed(lb')) /\ s \notin lb'.sockets
        /\ CopiesIn(lb', f) = CopiesIn(lb, f)
    <3> HIDE DEF gone
    <3>1. QED  BY <1>4, TransportDoes DEF gone
  <2> HIDE DEF gone
  <2>2. Books(lb') /\ maker \in [Sockets -> Factories \cup {Nobody}]
        /\ maker' = [maker EXCEPT ![s] = Nobody]
    BY <1>4, <2>1 DEF Shuts, TransportClosed, Inv, Typed
  <2>3. Copies(f)' = CopiesIn(lb', f)
    BY <2>1, <2>2, MakerGoes
  <2>4. QED  BY <1>1, <2>1, <2>3
<1>5. QED  BY <1>2, <1>3, <1>4 DEF Socket

LEMMA OthersTake ==
  ASSUME Inv, NEW f \in Factories, Request \/ TerminateFailing \/ RefreshTick \/ Close
  PROVE  Copies(f)' = Copies(f)
<1>1. /\ Copies(f) = CopiesIn(lb, f)
      /\ maker' = maker => Copies(f)' = CopiesIn(lb', f)
  BY CopiesFacts
<1>2. maker' = maker
  BY DEF Request, TerminateFailing, RefreshTick, Close
<1>3. CopiesIn(lb', f) = CopiesIn(lb, f)
  <2>1. CASE Request \/ RefreshTick
    BY <2>1, RequestDoes, RefreshTickDoes DEF Kept
  <2>2. CASE TerminateFailing
    BY <2>2 DEF TerminateFailing
  <2>3. CASE Close
    BY <2>3, ClosesOnly
  <2>4. QED  BY <2>1, <2>2, <2>3
<1>4. QED  BY <1>1, <1>2, <1>3

(* Until close() only a build that fails takes from what the load balancer *)
(* has of a factory that stays listed, whatever else happens.              *)
THEOREM OnlyFailuresTake == Spec => OnlyFailuresEvict
<1> DEFINE Less(f) == Copies(f)' < Copies(f)
           Failed(f) == lb'.building[f] < lb.building[f]
           Step == ~closed => \A f \in listed \cap listed' : Less(f) => Failed(f)
<1>1. Inv /\ Inv' /\ [Next]_vars => [Step]_vars
  <2> SUFFICES ASSUME Inv, Inv', Next, ~closed, NEW f \in listed \cap listed', Less(f), ~Failed(f)
               PROVE  FALSE
    OBVIOUS
  <2>1. f \in Factories /\ Copies(f) \in Nat
    BY CopiesFacts DEF Inv, Typed
  <2>2. Copies(f)' \in Nat
    <3>1. Books(lb')
      BY DEF Inv, Typed, Books
    <3>2. QED  BY <2>1, <3>1, CopiesNext
  <2>3. Copies(f)' >= Copies(f) \/ Copies(f)' = Copies(f)
    <3> HIDE DEF Less
    <3>1. QED  BY <2>1, FactoryTakes, SocketTakes, OthersTake DEF Next, Failed
  <2> HIDE DEF Failed
  <2>4. QED  BY <2>1, <2>2, <2>3
<1>2. QED  BY <1>1, Inductive, PTL DEF OnlyFailuresEvict, Spec

(* With no errors of sockets, and no factory announced twice, or removed   *)
(* while one of it is built or drains, the load balancer has of each that  *)
(* is listed one at most.                                                  *)
Undisturbed == Uses \cap {"removeBusy", "again", "protocolError", "transportError"} = {}

LEMMA CopiesRise ==
  ASSUME Undisturbed, Inv, HeldOnce, [Next]_vars, NEW f \in Factories
  PROVE  Copies(f)' <= IF f \in listed' THEN 1 ELSE 0
<1>1. /\ Copies(f) \in Nat /\ Copies(f) = CopiesIn(lb, f)
      /\ Copies(f) <= (IF f \in listed THEN 1 ELSE 0)
      /\ maker' = maker => Copies(f)' = CopiesIn(lb', f)
  BY CopiesFacts DEF HeldOnce
<1> DEFINE Goal == Copies(f)' <= IF f \in listed' THEN 1 ELSE 0
<1>2. ASSUME listed' = listed, Copies(f)' = Copies(f)
      PROVE  Goal
  BY <1>1, <1>2
<1>3. ASSUME NEW g \in Factories, Add(g) PROVE Goal
  <2>1. /\ maker' = maker /\ g \notin listed /\ listed' = listed \cup {g}
    BY <1>3 DEF Add, Undisturbed
  <2>2. /\ f # g => CopiesIn(lb', f) = CopiesIn(lb, f)
        /\ CopiesIn(lb', f) <= CopiesIn(lb, f) + 1 /\ CopiesIn(lb', f) >= CopiesIn(lb, f)
    BY <1>3, AddDoes
  <2>3. CASE f = g
    <3>1. Copies(f) = 0
      BY <1>1, <2>1, <2>3
    <3>2. QED  BY <1>1, <2>1, <2>2, <2>3, <3>1
  <2>4. CASE f # g
    BY <1>1, <2>1, <2>2, <2>4
  <2>5. QED  BY <2>3, <2>4
<1>4. ASSUME NEW g \in Factories, Remove(g) PROVE Goal
  <2>1. /\ maker' = maker /\ g \in listed /\ listed' = listed \ {g} /\ lb.building[g] = 0
    BY <1>4 DEF Remove, Settled, Undisturbed
  <2>2. CASE f = g
    <3>1. CopiesIn(lb', f) = 0
      BY <1>1, <1>4, <2>1, <2>2, RemoveDoes
    <3>2. QED  BY <1>1, <2>1, <2>2, <3>1
  <2>3. CASE f # g
    <3>1. CopiesIn(lb', f) = CopiesIn(lb, f)
      BY <1>4, <2>3, RemoveDoes
    <3>2. QED  BY <1>1, <2>1, <2>3, <3>1
  <2>4. QED  BY <2>2, <2>3
<1>5. ASSUME NEW g \in Factories, NEW s \in Sockets, BuildSucceeds(g, s) PROVE Goal
  <2>1. Copies(f)' = Copies(f) /\ listed' = listed
    BY <1>5, SucceedsDoes DEF BuildSucceeds
  <2>2. QED  BY <1>2, <2>1
<1>6. ASSUME NEW g \in Factories, BuildFails(g) PROVE Goal
  <2>1. /\ CopiesIn(lb', f) <= CopiesIn(lb, f) /\ listed' = listed /\ maker' = maker
        /\ Books(lb')
    BY <1>6, FailsDoes DEF BuildFails
  <2>2. CopiesIn(lb', f) \in Nat
    BY <2>1, BooksFacts
  <2>3. QED  BY <1>1, <2>1, <2>2
<1>7. ASSUME NEW s \in Sockets, Socket(s) PROVE Goal
  <2>1. CASE Terminate(s) \/ DrainTimeout(s)
    BY <1>1, <1>2, <2>1, EndsOnly
  <2>2. CASE TransportClosed(s)
    <3> DEFINE gone == [lb EXCEPT !.life[s] = "gone"]
    <3>1. Shuts(gone, lb', Shed(lb')) /\ CopiesIn(lb', f) = CopiesIn(lb, f)
      <4> HIDE DEF gone
      <4>1. QED  BY <2>2, TransportDoes DEF gone
    <3> HIDE DEF gone
    <3>2. Books(lb') /\ maker \in [Sockets -> Factories \cup {Nobody}]
          /\ maker' = [maker EXCEPT ![s] = Nobody] /\ listed' = listed
      BY <2>2, <3>1 DEF Shuts, TransportClosed, Inv, Typed
    <3>3. Copies(f)' <= CopiesIn(lb', f) /\ Copies(f)' \in Nat
      BY <3>2, MakerGoes, CopiesNext
    <3>4. QED  BY <1>1, <3>1, <3>2, <3>3
  <2>3. \A ofTransport \in BOOLEAN : ~SocketError(s, ofTransport)
    BY DEF SocketError, Undisturbed
  <2>4. QED  BY <1>7, <2>1, <2>2, <2>3 DEF Socket
<1>8. ASSUME Request \/ TerminateFailing \/ RefreshTick \/ Close PROVE Goal
  <2>1. listed' = listed
    BY <1>8 DEF Request, TerminateFailing, RefreshTick, Close
  <2>2. QED  BY <1>2, <1>8, <2>1, OthersTake
<1>9. ASSUME UNCHANGED vars PROVE Goal
  <2>1. lb' = lb /\ maker' = maker /\ listed' = listed
    BY <1>9 DEF vars
  <2>2. QED  BY <1>1, <1>2, <2>1
<1> HIDE DEF Goal
<1>10. ASSUME NEW g \in Factories, Factory(g) PROVE Goal
  BY <1>3, <1>4, <1>5, <1>6, <1>10 DEF Factory
<1>11. Goal
  BY <1>7, <1>8, <1>9, <1>10 DEF Next
<1>12. QED  BY <1>11 DEF Goal

(* A factory is on the list, being built or in the pool, and that once; it *)
(* is nowhere when the source has not added it, or removed it.             *)
THEOREM HeldOnlyOnce == Undisturbed => (Spec => []HeldOnce)
<1> SUFFICES ASSUME Undisturbed PROVE Spec => []HeldOnce
  OBVIOUS
<1>1. Init => HeldOnce
  <2>1. ASSUME Init, NEW f \in Factories
        PROVE  Copies(f) <= IF f \in listed THEN 1 ELSE 0
    <3>1. Copies(f) = 0
      BY <2>1, InitFacts
    <3>2. QED  BY <3>1
  <2>2. QED  BY <2>1 DEF HeldOnce
<1>2. Inv /\ HeldOnce /\ [Next]_vars => HeldOnce'
  BY CopiesRise DEF HeldOnce
<1>3. QED  BY <1>1, <1>2, Inductive, PTL DEF Spec

LEMMA WithinKeeps ==
  ASSUME "transportError" \notin Uses, Inv, Within(lb), [Next]_vars
  PROVE  Within(lb')
<1>1. ASSUME NEW f \in Factories, Factory(f) PROVE Within(lb')
  BY <1>1, AddDoes, RemoveDoes, FailsDoes, SucceedsDoes DEF Factory
<1>2. ASSUME NEW s \in Sockets, Socket(s) PROVE Within(lb')
  <2>1. CASE Terminate(s) \/ DrainTimeout(s)
    BY <2>1, EndsOnly
  <2>2. ASSUME NEW ofTransport \in BOOLEAN, SocketError(s, ofTransport)
        PROVE  Within(lb')
    <3>1. ~ofTransport
      BY <2>2 DEF SocketError
    <3>2. QED  BY <2>2, <3>1, ErrorDoes
  <2>3. CASE TransportClosed(s)
    <3> DEFINE gone == [lb EXCEPT !.life[s] = "gone"]
    <3> HIDE DEF gone
    <3>1. QED  BY <2>3, TransportDoes DEF gone
  <2>4. QED  BY <1>2, <2>1, <2>2, <2>3 DEF Socket
<1>3. CASE Request \/ RefreshTick
  BY <1>3, RequestDoes, RefreshTickDoes DEF Kept
<1>4. CASE Close
  BY <1>4, ClosesOnly
<1>5. CASE TerminateFailing \/ UNCHANGED vars
  <2>1. lb' = lb
    BY <1>5 DEF TerminateFailing, vars
  <2>2. QED  BY <2>1
<1>6. QED  BY <1>1, <1>2, <1>3, <1>4, <1>5 DEF Next

(* While no transport fails once it is connected, sockets and builds under *)
(* way are no more than the aperture may be: the count of the builds is    *)
(* right, in whatever order they succeed, fail, are removed or recycled.   *)
THEOREM ApertureIsKept == "transportError" \notin Uses => (Spec => []ApertureKept)
<1> SUFFICES ASSUME "transportError" \notin Uses PROVE Spec => []ApertureKept
  OBVIOUS
<1> DEFINE Fits == Within(lb)
<1>1. Init => Fits
  <2> SUFFICES ASSUME Init PROVE Fits
    OBVIOUS
  <2>1. {InitialAperture, MaxAperture} \subseteq Nat /\ Most \in Nat /\ InitialAperture <= Most
    BY LoadBalancerConstants DEF Most
  <2>2. QED  BY <2>1, InitFacts, FS_EmptySet DEF Within, Size
<1>2. Inv /\ Fits /\ [Next]_vars => Fits'
  <2>1. Inv /\ Within(lb) /\ [Next]_vars => Within(lb')
    BY WithinKeeps
  <2>2. Total(lb.building)' = Total(lb'.building)
    BY DEF Total, MapThenSumSet, MapThenFoldSet
  <2>3. Within(lb') => Fits'
    BY <2>2 DEF Within, Size, Most
  <2> HIDE DEF Fits
  <2>4. QED  BY <2>1, <2>3 DEF Fits
<1>3. Fits => ApertureKept
  BY DEF Within, Size, Most, ApertureKept
<1> HIDE DEF Fits
<1>4. QED  BY <1>1, <1>2, <1>3, Inductive, PTL DEF Spec
=============================================================================
