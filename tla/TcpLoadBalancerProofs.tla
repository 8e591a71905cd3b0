----------------------- MODULE TcpLoadBalancerProofs -----------------------
(***************************************************************************)
(* Theorems about module TcpLoadBalancer, for every set of hosts, size of  *)
(* the pool and number of connections to a host.                           *)
(***************************************************************************)
EXTENDS TcpLoadBalancer, FiniteSetTheorems, TLAPS

-----------------------------------------------------------------------------
(* The inductive invariant                                                 *)

(* No host has been taken off the list while a connection to it was being  *)
(* opened: because the list has not changed, or because the application    *)
(* waits.                                                                  *)
Patient == {"impatient", "late"} \cap Uses = {}
Undisturbed == cloned => Patient

(* The maps ing and ed hold the connections st, each host in one of the    *)
(* maps or on the free list f, and no connection is one nobody hears of.   *)
Fits(f, ing, ed, st) ==
  /\ f \cap (KeysOf(ing) \cup KeysOf(ed)) = {}
  /\ KeysOf(ing) \cap KeysOf(ed) = {}
  /\ \A h \in Hosts : ed[h] # Undefined
  /\ \A h \in Hosts, k \in Numbers :
       /\ st[h][k] \in {"none", "opening", "setup", "ready"}
       /\ ing[h] = k <=> st[h][k] \in {"opening", "setup"}
       /\ ed[h] = k <=> st[h][k] = "ready"

InMaps(ing, ed) == Cardinality(KeysOf(ing)) + Cardinality(KeysOf(ed))

Exact ==
  /\ deaf = {}
  /\ Fits(free, connecting, connected, tcp)
  /\ GoneHostsLeave
  /\ PoolIsFull
  /\ ClosedStaysEmpty

Orderly == Undisturbed => Exact

(* What holds whatever the application does.                               *)
Lawful == TypeOK /\ FreeFollowsList

-----------------------------------------------------------------------------
(* Types                                                                   *)

Typed(f, ing, ed, st) ==
  /\ f \subseteq Hosts
  /\ ing \in [Hosts -> Slots \ {Undefined}]
  /\ ed \in [Hosts -> Slots]
  /\ st \in [Hosts -> [Numbers -> TcpStates]]

(* A number of a connection is neither of the values that are none.        *)
LEMMA SlotsDiffer ==
  /\ 1 \in Numbers /\ Numbers \subseteq Nat
  /\ \A k \in Numbers : k # NoKey /\ k # Undefined
  /\ NoKey # Undefined /\ {NoKey, Undefined} \subseteq Slots
  /\ Numbers \subseteq Slots \ {Undefined} /\ NoKey \in Slots \ {Undefined}
BY PoolConstants DEF Numbers, Slots, NoKey, Undefined

(* _connect() keeps the types, and takes only free hosts.                  *)
LEMMA ConnectTyped ==
  ASSUME NEW picked, NEW f, NEW ing, NEW ed, NEW st,
         Typed(f, ing, ed, st), picked \subseteq f, ConnectTo(picked, f, ing, st)
  PROVE  Typed(free', connecting', ed, tcp') /\ free' = f \ picked
<1>1. PICK number \in [picked -> Numbers] :
        /\ free' = f \ picked
        /\ connecting' = [h \in Hosts |-> IF h \in picked THEN number[h] ELSE ing[h]]
        /\ tcp' = [h \in Hosts |->
             IF h \in picked THEN [st[h] EXCEPT ![number[h]] = "opening"] ELSE st[h]]
  BY DEF ConnectTo, Unlist
<1>2. connecting' \in [Hosts -> Slots \ {Undefined}]
  BY <1>1, SlotsDiffer DEF Typed
<1>3. tcp' \in [Hosts -> [Numbers -> TcpStates]]
  BY <1>1 DEF Typed, TcpStates
<1>4. QED  BY <1>1, <1>2, <1>3 DEF Typed

LEMMA WithoutTyped ==
  ASSUME NEW S
  PROVE  /\ \A map \in [Hosts -> Slots \ {Undefined}] :
              Without(map, S) \in [Hosts -> Slots \ {Undefined}]
         /\ \A map \in [Hosts -> Slots] : Without(map, S) \in [Hosts -> Slots]
BY SlotsDiffer DEF Without

(* Both maps lose the keys of the hosts S, and what else they hold stays.  *)
LEMMA KeysWithout ==
  \A map, S : KeysOf(Without(map, S)) = KeysOf(map) \ S
BY DEF KeysOf, Without

(* The keys of connecting after _connect().                                *)
LEMMA KeysConnected ==
  ASSUME NEW picked, NEW f, NEW ing, NEW st, picked \subseteq Hosts,
         ConnectTo(picked, f, ing, st)
  PROVE  KeysOf(connecting') = KeysOf(ing) \cup picked
<1>1. PICK number \in [picked -> Numbers] :
        connecting' = [h \in Hosts |-> IF h \in picked THEN number[h] ELSE ing[h]]
  BY DEF ConnectTo
<1>2. \A h \in picked : number[h] # NoKey
  BY SlotsDiffer
<1>3. \A h \in Hosts : connecting'[h] # NoKey <=> (ing[h] # NoKey \/ h \in picked)
  BY <1>1, <1>2
<1>4. QED  BY <1>3 DEF KeysOf

(* The connections that updateHosts() closes are closed.                   *)
LEMMA ClosedTyped ==
  ASSUME TypeOK, NEW new, NEW S \in SUBSET Targets(new)
  PROVE  Closed(S) \in [Hosts -> [Numbers -> TcpStates]]
<1>1. ASSUME NEW h \in S
      PROVE  [tcp[h] EXCEPT ![Target(h)] = IF @ = "setup" THEN "leaving" ELSE "none"]
               \in [Numbers -> TcpStates]
  BY <1>1 DEF TypeOK, Targets, Gone, TcpStates
<1>2. QED  BY <1>1 DEF Closed, TypeOK

-----------------------------------------------------------------------------
(* What holds whatever the application does                                *)

(* One turn of the pool about the connections to the hosts of S: those go, *)
(* and some hosts are picked from the free list f.                         *)
Refilled(S, f, st) ==
  \E picked \in SUBSET f :
    /\ ConnectTo(picked, f, Without(connecting, S), st)
    /\ connected' = Without(connected, S)

LEMMA Refill ==
  ASSUME TypeOK, NEW S, NEW f, NEW st, f \subseteq Hosts,
         st \in [Hosts -> [Numbers -> TcpStates]], Refilled(S, f, st)
  PROVE  /\ Typed(free', connecting', connected', tcp')
         /\ free' \subseteq f
         /\ f \subseteq free' \cup Active'
         /\ Active \ S \subseteq Active'
<1> DEFINE ing == Without(connecting, S)
           ed == Without(connected, S)
<1>1. PICK picked \in SUBSET f : ConnectTo(picked, f, ing, st) /\ connected' = ed
  BY DEF Refilled
<1>2. Typed(f, ing, ed, st)
  BY WithoutTyped DEF Typed, TypeOK
<1>3. Typed(free', connecting', ed, tcp') /\ free' = f \ picked
  <2> HIDE DEF ing, ed
  <2> QED  BY <1>1, <1>2, ConnectTyped
<1>4. KeysOf(connecting') = KeysOf(ing) \cup picked
  <2> HIDE DEF ing, ed
  <2> QED  BY <1>1, KeysConnected
<1>5. KeysOf(ing) = KeysOf(connecting) \ S /\ KeysOf(ed) = KeysOf(connected) \ S
  BY KeysWithout
<1>6. Active' = KeysOf(ing) \cup KeysOf(ed) \cup picked
  BY <1>1, <1>4 DEF Active
<1>7. QED  BY <1>1, <1>3, <1>5, <1>6 DEF Active

(* 'close' of a TcpConnection, and the closes of updateHosts(), are such   *)
(* turns.                                                                  *)
Returned(h) == free \cup {g \in {h} : Includes(g, hosts, cloned)}

LEMMA CloseRefills ==
  ASSUME NEW h, NEW st, OnClose(h, st)
  PROVE  Refilled({h}, Returned(h), st)
<1>1. PICK picked \in IF isClosed THEN {{}}
                     ELSE Picks(Returned(h), Without(connecting, {h}),
                                Without(connected, {h}), 1) :
        ConnectTo(picked, Returned(h), Without(connecting, {h}), st)
  BY DEF OnClose, Returned
<1>2. picked \in SUBSET Returned(h)
  BY <1>1 DEF Picks
<1>3. QED  BY <1>1, <1>2 DEF OnClose, Refilled

LEMMA UpdateRefills ==
  ASSUME NEW S, NEW listed, NEW extra, CloseAndFill(S, listed, extra)
  PROVE  Refilled(S, listed, Closed(S))
<1> DEFINE ing == Without(connecting, S)
           ed == Without(connected, S)
<1>1. listed \cup {g \in S : Includes(g, hosts', TRUE)} = listed
  BY DEF Includes
<1>2. PICK instead \in Picks(listed, ing, ed, IF isClosed THEN 0 ELSE Cardinality(S)) :
        \E more \in Picks(listed \ instead,
             [h \in Hosts |-> IF h \in instead THEN 1 ELSE ing[h]], ed, extra) :
          ConnectTo(instead \cup more, listed, ing, Closed(S))
  BY <1>1 DEF CloseAndFill
<1>3. PICK more \in SUBSET (listed \ instead) :
        ConnectTo(instead \cup more, listed, ing, Closed(S))
  BY <1>2 DEF Picks
<1>4. instead \cup more \in SUBSET listed
  BY <1>2, <1>3 DEF Picks
<1>5. connected' = ed
  BY DEF CloseAndFill
<1>6. QED  BY <1>3, <1>4, <1>5 DEF Refilled

LEMMA LawfulInit == Init => Lawful
<1> SUFFICES ASSUME Init PROVE Lawful
  OBVIOUS
<1>1. PICK picked \in SUBSET Hosts :
        /\ free = Hosts \ picked
        /\ connecting = [h \in Hosts |-> IF h \in picked THEN 1 ELSE NoKey]
        /\ tcp = [h \in Hosts |-> [k \in Numbers |->
             IF h \in picked /\ k = 1 THEN "opening" ELSE "none"]]
  BY DEF Init
<1>2. connecting \in [Hosts -> Slots \ {Undefined}] /\ connected \in [Hosts -> Slots]
  BY <1>1, SlotsDiffer DEF Init
<1>3. tcp \in [Hosts -> [Numbers -> TcpStates]]
  BY <1>1 DEF TcpStates
<1>4. picked \subseteq KeysOf(connecting)
  BY <1>1, SlotsDiffer DEF KeysOf
<1>5. TypeOK
  BY <1>1, <1>2, <1>3 DEF TypeOK, Init
<1>6. QED  BY <1>1, <1>4, <1>5 DEF Init, Lawful, FreeFollowsList, HostsAreKept, Active

LEMMA LawfulEvent ==
  ASSUME Lawful, NEW h \in Hosts, NEW k \in Numbers, Connection(h, k)
  PROVE  Lawful'
<1> USE DEF Lawful
<1>1. ASSUME tcp' \in [Hosts -> [Numbers -> TcpStates]],
             UNCHANGED <<lists, flags, emptied, free, connecting, connected, deaf>>
      PROVE  Lawful'
  BY <1>1 DEF TypeOK, FreeFollowsList, HostsAreKept, Active, KeysOf, lists, flags
<1>2. ASSUME tcp' \in [Hosts -> [Numbers -> TcpStates]], OnReady(h)
      PROVE  Lawful'
  <2>1. connecting' \in [Hosts -> Slots \ {Undefined}] /\ connected' \in [Hosts -> Slots]
    BY <1>2, SlotsDiffer DEF OnReady, Move, TypeOK
  <2>2. isReady' = TRUE /\ isConnected' \in BOOLEAN
    BY <1>2 DEF OnReady, Announce
  <2>3. TypeOK'
    BY <1>2, <2>1, <2>2 DEF TypeOK, OnReady, lists
  <2>4. \A g \in Hosts :
          \/ connecting'[g] = connecting[g] /\ connected'[g] = connected[g]
          \/ g = h /\ connected'[g] # NoKey
    BY <1>2, SlotsDiffer DEF OnReady, Move, TypeOK
  <2>5. Active \subseteq Active'
    BY <2>4 DEF Active, KeysOf
  <2>6. QED
    BY <1>2, <2>3, <2>5 DEF OnReady, lists, FreeFollowsList, HostsAreKept
<1>3. CASE TcpConnected(h, k) \/ Leave(h, k) \/ DropUnheard(h, k)
  <2>1. tcp' \in [Hosts -> [Numbers -> TcpStates]]
    BY <1>3 DEF TypeOK, TcpStates, TcpConnected, Leave, DropUnheard
  <2>2. QED  BY <1>1, <1>3, <2>1 DEF TcpConnected, Leave, DropUnheard
<1>4. CASE Ready(h, k) \/ LateReady(h, k)
  <2>1. tcp' \in [Hosts -> [Numbers -> TcpStates]]
    BY <1>4 DEF TypeOK, TcpStates, Ready, LateReady
  <2>2. QED  BY <1>2, <1>4, <2>1 DEF Ready, LateReady
<1>5. CASE Drop(h, k)
  <2> DEFINE st == [tcp EXCEPT ![h][k] = "none"]
  <2>1. st \in [Hosts -> [Numbers -> TcpStates]]
    BY DEF TypeOK, TcpStates
  <2>2. Returned(h) \subseteq hosts /\ (~cloned /\ h \in hosts => h \in Returned(h))
        /\ free \subseteq Returned(h)
    BY DEF Returned, Includes, FreeFollowsList
  <2>3. Refilled({h}, Returned(h), st)
    BY <1>5, CloseRefills DEF Drop
  <2>4. /\ Typed(free', connecting', connected', tcp')
        /\ free' \subseteq Returned(h)
        /\ Returned(h) \subseteq free' \cup Active'
        /\ Active \ {h} \subseteq Active'
    <3> HIDE DEF st
    <3>1. Returned(h) \subseteq Hosts
      BY <2>2 DEF TypeOK
    <3>2. QED  BY <2>1, <2>3, <3>1, Refill
  <2>5. emptied' \in BOOLEAN /\ UNCHANGED <<lists, flags, deaf>>
    BY <1>5 DEF Drop, OnClose, Emptied, TypeOK
  <2>6. TypeOK'
    BY <2>4, <2>5 DEF TypeOK, Typed, lists, flags
  <2>7. QED
    BY <2>2, <2>4, <2>5, <2>6 DEF lists, FreeFollowsList, HostsAreKept
<1>6. QED  BY <1>3, <1>4, <1>5 DEF Connection

LEMMA LawfulUpdate ==
  ASSUME Lawful, NEW new \in SUBSET Hosts, UpdateHosts(new) \/ UpdateHostsThrows(new)
  PROVE  Lawful'
<1> USE DEF Lawful
<1>1. ListedFree(new) \subseteq new
  BY DEF ListedFree, Gone, FreeFollowsList
<1>2. PICK S \in SUBSET Targets(new), extra \in {0, Size} : CloseAndFill(S, ListedFree(new), extra)
  BY DEF UpdateHosts, UpdateHostsThrows
<1>3. Closed(S) \in [Hosts -> [Numbers -> TcpStates]]
  BY ClosedTyped
<1>4. /\ Typed(free', connecting', connected', tcp')
      /\ free' \subseteq new
  <2>1. Refilled(S, ListedFree(new), Closed(S))
    BY <1>2, UpdateRefills
  <2>2. QED  BY <1>1, <1>3, <2>1, Refill
<1>5. emptied' \in BOOLEAN
  BY <1>2 DEF CloseAndFill, Emptied, TypeOK
<1>6. \A h \in Targets(new) : <<h, Target(h)>> \in Hosts \X Numbers
  BY DEF Targets, Gone, TypeOK
<1>7. deaf' \subseteq Hosts \X Numbers
  <2>1. CASE UpdateHosts(new)
    BY <2>1 DEF UpdateHosts, TypeOK
  <2>2. CASE UpdateHostsThrows(new)
    BY <1>6, <2>2 DEF UpdateHostsThrows, TypeOK, Throwing
  <2>3. QED  BY <2>1, <2>2
<1>8. hosts' = new /\ cloned' = TRUE /\ UNCHANGED <<isClosed, flags>>
  BY DEF UpdateHosts, UpdateHostsThrows
<1>9. QED
  BY <1>4, <1>5, <1>7, <1>8 DEF TypeOK, Typed, flags, FreeFollowsList

LEMMA LawfulNext == Lawful /\ [Next]_vars => Lawful'
<1> SUFFICES ASSUME Lawful, [Next]_vars PROVE Lawful'
  OBVIOUS
<1>1. CASE \E h \in Hosts, k \in Numbers : Connection(h, k)
  BY <1>1, LawfulEvent
<1>2. CASE \E new \in SUBSET Hosts : UpdateHosts(new) \/ UpdateHostsThrows(new)
  BY <1>2, LawfulUpdate
<1>3. CASE Close
  BY <1>3 DEF Close, Lawful, TypeOK, FreeFollowsList, HostsAreKept, Active,
              KeysOf, flags
<1>4. CASE UNCHANGED vars
  BY <1>4 DEF vars, lists, flags, Lawful, TypeOK, FreeFollowsList,
              HostsAreKept, Active, KeysOf
<1>5. QED  BY <1>1, <1>2, <1>3, <1>4 DEF Next

(* Every variable stays in its type, for every use of the pool.            *)
THEOREM TypeCorrect == Spec => []TypeOK
<1>1. Lawful => TypeOK
  BY DEF Lawful
<1>2. QED  BY <1>1, LawfulInit, LawfulNext, PTL DEF Spec

(* However the connections to a host that has left the list end, the pool  *)
(* makes no new one to it: it is not on the free list.  And until          *)
(* updateHosts() is called for the first time no host of the list is lost: *)
(* each is free or in use, whatever connections come and go.               *)
THEOREM FreeListIsRight == Spec => []FreeFollowsList
<1>1. Lawful => FreeFollowsList
  BY DEF Lawful
<1>2. QED  BY <1>1, LawfulInit, LawfulNext, PTL DEF Spec

-----------------------------------------------------------------------------
(* Counting                                                                *)

LEMMA KeysFinite ==
  ASSUME NEW map
  PROVE  IsFiniteSet(KeysOf(map)) /\ Cardinality(KeysOf(map)) \in Nat
<1>1. KeysOf(map) \in SUBSET Hosts
  BY DEF KeysOf
<1>2. QED  BY <1>1, PoolConstants, FS_Subset, FS_CardinalityType

LEMMA HostsFinite ==
  ASSUME NEW S \in SUBSET Hosts
  PROVE  IsFiniteSet(S) /\ Cardinality(S) \in Nat
BY PoolConstants, FS_Subset, FS_CardinalityType

LEMMA DisjointCount ==
  ASSUME NEW S \in SUBSET Hosts, NEW T \in SUBSET Hosts, S \cap T = {}
  PROVE  Cardinality(S \cup T) = Cardinality(S) + Cardinality(T)
<1>1. Cardinality(S \cup T) = Cardinality(S) + Cardinality(T) - Cardinality(S \cap T)
  BY HostsFinite, FS_Union
<1>2. Cardinality(S \cap T) = 0
  BY FS_EmptySet
<1>3. QED  BY <1>1, <1>2, HostsFinite

(* _connect() adds to the pool as many as it picks.                        *)
LEMMA ConnectCount ==
  ASSUME NEW picked, NEW f, NEW ing, NEW st, picked \subseteq Hosts,
         picked \cap KeysOf(ing) = {}, ConnectTo(picked, f, ing, st)
  PROVE  Cardinality(KeysOf(connecting')) = Cardinality(KeysOf(ing)) + Cardinality(picked)
<1>1. KeysOf(connecting') = KeysOf(ing) \cup picked
  BY KeysConnected
<1>2. KeysOf(ing) \in SUBSET Hosts
  BY DEF KeysOf
<1>3. QED  BY <1>1, <1>2, DisjointCount

(* What calls of _connect(), at most limit of them, pick: no more than     *)
(* there is room for, and if less, all that is free or as many as they are.*)
LEMMA PicksCount ==
  ASSUME NEW f \in SUBSET Hosts, NEW ing, NEW ed, NEW limit \in Nat,
         NEW picked \in Picks(f, ing, ed, limit)
  PROVE  /\ picked \in SUBSET f /\ Cardinality(picked) \in Nat
         /\ Cardinality(picked) = 0 \/ InMaps(ing, ed) + Cardinality(picked) <= Size
         /\ \/ picked = f
            \/ Cardinality(picked) = limit
            \/ InMaps(ing, ed) + Cardinality(picked) >= Size
<1>1. picked \in SUBSET f /\ picked \in SUBSET Hosts
  BY DEF Picks
<1>2. Cardinality(picked) \in Nat
  BY <1>1, HostsFinite
<1>3. InMaps(ing, ed) \in Nat /\ Room(ing, ed) = Size - InMaps(ing, ed) /\ Size \in Nat
  BY KeysFinite, PoolConstants DEF InMaps, Room, ActiveConnCount
<1>4. Cardinality(picked) = 0 \/ Cardinality(picked) <= Room(ing, ed)
  BY FS_EmptySet DEF Picks
<1>5. \/ Cardinality(picked) = Cardinality(f)
      \/ Cardinality(picked) = limit
      \/ Cardinality(picked) >= Room(ing, ed)
  BY DEF Picks
<1>6. Cardinality(picked) = Cardinality(f) => picked = f
  BY <1>1, HostsFinite, FS_Subset
<1>7. QED  BY <1>1, <1>2, <1>3, <1>4, <1>5, <1>6

-----------------------------------------------------------------------------
(* The pool and the connections                                            *)

(* _connect() makes one connection for each host it picks, which had none. *)
LEMMA ConnectFits ==
  ASSUME NEW picked, NEW f, NEW ing, NEW ed, NEW st,
         Typed(f, ing, ed, st), Fits(f, ing, ed, st),
         picked \subseteq f, ConnectTo(picked, f, ing, st)
  PROVE  Fits(free', connecting', ed, tcp')
<1>1. PICK number \in [picked -> Numbers] :
        /\ \A h \in picked : st[h][number[h]] = "none"
        /\ free' = f \ picked
        /\ connecting' = [h \in Hosts |-> IF h \in picked THEN number[h] ELSE ing[h]]
        /\ tcp' = [h \in Hosts |->
             IF h \in picked THEN [st[h] EXCEPT ![number[h]] = "opening"] ELSE st[h]]
  BY DEF ConnectTo, Unlist
<1>2. KeysOf(connecting') = KeysOf(ing) \cup picked
  BY KeysConnected DEF Typed
<1>3. /\ free' \cap (KeysOf(connecting') \cup KeysOf(ed)) = {}
      /\ KeysOf(connecting') \cap KeysOf(ed) = {}
  BY <1>1, <1>2 DEF Fits
<1>4. ASSUME NEW h \in Hosts, NEW k \in Numbers
      PROVE  /\ tcp'[h][k] \in {"none", "opening", "setup", "ready"}
             /\ connecting'[h] = k <=> tcp'[h][k] \in {"opening", "setup"}
             /\ ed[h] = k <=> tcp'[h][k] = "ready"
  <2>1. /\ st[h][k] \in {"none", "opening", "setup", "ready"}
        /\ ing[h] = k <=> st[h][k] \in {"opening", "setup"}
        /\ ed[h] = k <=> st[h][k] = "ready"
    BY DEF Fits
  <2>2. CASE h \in picked
    <3>1. ing[h] = NoKey /\ ed[h] = NoKey
      BY <2>2 DEF Fits, KeysOf
    <3>2. st[h][k] = "none" /\ ed[h] # k
      BY <2>1, <3>1, SlotsDiffer
    <3>3. connecting'[h] = number[h]
          /\ tcp'[h][k] = IF k = number[h] THEN "opening" ELSE "none"
      BY <1>1, <2>2, <3>2 DEF Typed
    <3>4. QED  BY <3>2, <3>3
  <2>3. CASE h \notin picked
    BY <1>1, <2>1, <2>3
  <2>4. QED  BY <2>2, <2>3
<1>5. QED  BY <1>3, <1>4 DEF Fits

(* A connection that is in use is one of the pool, in one of the maps.     *)
LEMMA LiveIsActive ==
  ASSUME Lawful, Fits(free, connecting, connected, tcp),
         NEW h \in Hosts, NEW k \in Numbers, Live(h, k)
  PROVE  /\ \/ connecting[h] = k /\ connected[h] = NoKey /\ tcp[h][k] \in {"opening", "setup"}
            \/ connecting[h] = NoKey /\ connected[h] = k /\ tcp[h][k] = "ready"
         /\ h \in Active /\ h \notin free
<1>1. connecting[h] = NoKey \/ connected[h] = NoKey
  BY DEF Fits, KeysOf
<1>2. \/ connecting[h] = k /\ tcp[h][k] \in {"opening", "setup"}
      \/ connected[h] = k /\ tcp[h][k] = "ready"
  BY DEF Fits, Live
<1>3. h \in Active
  BY <1>2, SlotsDiffer DEF Active, KeysOf
<1>4. QED  BY <1>1, <1>2, <1>3, SlotsDiffer DEF Active, Fits

(* Without its connection, the pool fits the connections that are left.    *)
LEMMA DropFits ==
  ASSUME Lawful, Fits(free, connecting, connected, tcp),
         NEW h \in Hosts, NEW k \in Numbers, Live(h, k)
  PROVE  Fits(Returned(h), Without(connecting, {h}), Without(connected, {h}),
              [tcp EXCEPT ![h][k] = "none"])
<1> DEFINE ing == Without(connecting, {h})
           ed == Without(connected, {h})
           st == [tcp EXCEPT ![h][k] = "none"]
<1>1. KeysOf(ing) = KeysOf(connecting) \ {h} /\ KeysOf(ed) = KeysOf(connected) \ {h}
  BY KeysWithout
<1>2. Returned(h) \subseteq free \cup {h}
  BY DEF Returned
<1>3. /\ Returned(h) \cap (KeysOf(ing) \cup KeysOf(ed)) = {}
      /\ KeysOf(ing) \cap KeysOf(ed) = {}
  <2>1. /\ free \cap (KeysOf(connecting) \cup KeysOf(connected)) = {}
        /\ KeysOf(connecting) \cap KeysOf(connected) = {}
    BY DEF Fits
  <2> HIDE DEF ing, ed
  <2>2. QED  BY <1>1, <1>2, <2>1
<1>4. \A g \in Hosts : ed[g] # Undefined
  BY SlotsDiffer DEF Fits, Without
<1>5. ASSUME NEW g \in Hosts, NEW j \in Numbers
      PROVE  /\ st[g][j] \in {"none", "opening", "setup", "ready"}
             /\ ing[g] = j <=> st[g][j] \in {"opening", "setup"}
             /\ ed[g] = j <=> st[g][j] = "ready"
  <2>1. /\ tcp[g][j] \in {"none", "opening", "setup", "ready"}
        /\ connecting[g] = j <=> tcp[g][j] \in {"opening", "setup"}
        /\ connected[g] = j <=> tcp[g][j] = "ready"
    BY DEF Fits
  <2>2. CASE g = h
    <3>1. ing[g] = NoKey /\ ed[g] = NoKey
      BY <2>2 DEF Without
    <3>2. st[g][j] = IF j = k THEN "none" ELSE tcp[g][j]
      BY <2>2 DEF Lawful, TypeOK
    <3>3. j # k => connecting[h] # j /\ connected[h] # j
      BY LiveIsActive, SlotsDiffer
    <3>4. j # k => tcp[g][j] = "none"
      BY <2>1, <2>2, <3>3
    <3>5. QED  BY <3>1, <3>2, <3>4, SlotsDiffer
  <2>3. CASE g # h
    <3>1. ing[g] = connecting[g] /\ ed[g] = connected[g] /\ st[g] = tcp[g]
      BY <2>3 DEF Without, Lawful, TypeOK
    <3>2. QED  BY <2>1, <3>1
  <2>4. QED  BY <2>2, <2>3
<1>6. QED
  <2> HIDE DEF ing, ed, st
  <2>1. Fits(Returned(h), ing, ed, st)
    BY <1>3, <1>4, <1>5 DEF Fits
  <2>2. QED  BY <2>1 DEF ing, ed, st

-----------------------------------------------------------------------------
(* The steps of an undisturbed pool                                        *)

LEMMA ExactInit == Init => Exact
<1> SUFFICES ASSUME Init PROVE Exact
  OBVIOUS
<1>1. PICK picked \in SUBSET Hosts :
        /\ Cardinality(picked) <= Size
        /\ Cardinality(picked) < Size => picked = Hosts
        /\ free = Hosts \ picked
        /\ connecting = [h \in Hosts |-> IF h \in picked THEN 1 ELSE NoKey]
        /\ tcp = [h \in Hosts |-> [k \in Numbers |->
             IF h \in picked /\ k = 1 THEN "opening" ELSE "none"]]
  BY DEF Init
<1>2. /\ hosts = Hosts /\ deaf = {} /\ isClosed = FALSE /\ emptied = FALSE
      /\ connected = [h \in Hosts |-> NoKey]
  BY DEF Init
<1>3. KeysOf(connecting) = picked /\ KeysOf(connected) = {}
  BY <1>1, <1>2, SlotsDiffer DEF KeysOf
<1>4. Fits(free, connecting, connected, tcp)
  <2>1. ASSUME NEW h \in Hosts, NEW k \in Numbers
        PROVE  /\ tcp[h][k] \in {"none", "opening", "setup", "ready"}
               /\ connecting[h] = k <=> tcp[h][k] \in {"opening", "setup"}
               /\ connected[h] = k <=> tcp[h][k] = "ready"
    BY <1>1, <1>2, SlotsDiffer
  <2>2. \A h \in Hosts : connected[h] # Undefined
    BY <1>2, SlotsDiffer
  <2>3. QED  BY <1>1, <1>3, <2>1, <2>2 DEF Fits
<1>5. InPool = Cardinality(picked) /\ Cardinality(picked) \in Nat
  BY <1>3, HostsFinite, FS_EmptySet DEF InPool
<1>6. SizeBound /\ (free = {} \/ InPool >= Size)
  BY <1>1, <1>5, PoolConstants DEF SizeBound
<1>7. Active \subseteq hosts
  BY <1>2, <1>3 DEF Active
<1>8. QED
  BY <1>2, <1>4, <1>6, <1>7 DEF Exact, GoneHostsLeave, PoolIsFull, ClosedStaysEmpty, CloseIsLast

(* A connection moves between the maps: the pool keeps its size.           *)
LEMMA ExactReady ==
  ASSUME Lawful, Exact, NEW h \in Hosts, NEW k \in Numbers, Ready(h, k)
  PROVE  Exact'
<1>1. /\ tcp[h][k] = "setup" /\ tcp' = [tcp EXCEPT ![h][k] = "ready"]
      /\ UNCHANGED <<lists, emptied, free, deaf>>
  BY DEF Ready, OnReady
<1>2. connecting[h] = k /\ connected[h] = NoKey
  BY <1>1, LiveIsActive DEF Exact, Live
<1>3. /\ connecting' = [connecting EXCEPT ![h] = NoKey]
      /\ connected' = [connected EXCEPT ![h] = k]
  BY <1>2, SlotsDiffer DEF Ready, OnReady, Move
<1>4. /\ KeysOf(connecting') = KeysOf(connecting) \ {h} /\ h \in KeysOf(connecting)
      /\ KeysOf(connected') = KeysOf(connected) \cup {h} /\ h \notin KeysOf(connected)
  BY <1>2, <1>3, SlotsDiffer DEF KeysOf, Lawful, TypeOK
<1>5. Active' = Active
  BY <1>4 DEF Active
<1>6. InPool' = InPool
  <2>1. Cardinality(KeysOf(connecting')) = Cardinality(KeysOf(connecting)) - 1
    BY <1>4, KeysFinite, FS_RemoveElement
  <2>2. Cardinality(KeysOf(connected')) = Cardinality(KeysOf(connected)) + 1
    BY <1>4, KeysFinite, FS_AddElement
  <2>3. QED  BY <2>1, <2>2, KeysFinite DEF InPool
<1>7. Fits(free', connecting', connected', tcp')
  <2>1. /\ free \cap (KeysOf(connecting') \cup KeysOf(connected')) = {}
        /\ KeysOf(connecting') \cap KeysOf(connected') = {}
    BY <1>4 DEF Exact, Fits
  <2>2. ASSUME NEW g \in Hosts, NEW j \in Numbers
        PROVE  /\ tcp'[g][j] \in {"none", "opening", "setup", "ready"}
               /\ connecting'[g] = j <=> tcp'[g][j] \in {"opening", "setup"}
               /\ connected'[g] = j <=> tcp'[g][j] = "ready"
    <3>1. /\ tcp[g][j] \in {"none", "opening", "setup", "ready"}
          /\ connecting[g] = j <=> tcp[g][j] \in {"opening", "setup"}
          /\ connected[g] = j <=> tcp[g][j] = "ready"
      BY DEF Exact, Fits
    <3>2. tcp'[g][j] = IF g = h /\ j = k THEN "ready" ELSE tcp[g][j]
      BY <1>1 DEF Lawful, TypeOK
    <3>3. /\ connecting'[g] = IF g = h THEN NoKey ELSE connecting[g]
          /\ connected'[g] = IF g = h THEN k ELSE connected[g]
      BY <1>3 DEF Lawful, TypeOK
    <3>4. QED  BY <1>2, <3>1, <3>2, <3>3, SlotsDiffer
  <2>3. \A g \in Hosts : connected'[g] # Undefined
    BY <1>3, SlotsDiffer DEF Exact, Fits, Lawful, TypeOK
  <2>4. QED  BY <1>1, <2>1, <2>2, <2>3 DEF Fits
<1>8. QED
  BY <1>1, <1>5, <1>6, <1>7
  DEF Exact, GoneHostsLeave, PoolIsFull, SizeBound, ClosedStaysEmpty, CloseIsLast, lists

(* A connection that is lost is replaced by at most one.                   *)
LEMMA ExactDrop ==
  ASSUME Lawful, Exact, NEW h \in Hosts, NEW k \in Numbers, Drop(h, k)
  PROVE  Exact'
<1> DEFINE ing == Without(connecting, {h})
           ed == Without(connected, {h})
           f == Returned(h)
           st == [tcp EXCEPT ![h][k] = "none"]
<1>1. Live(h, k) /\ OnClose(h, st) /\ UNCHANGED <<lists, flags, deaf>>
  BY DEF Drop
<1>2. PICK picked \in IF isClosed THEN {{}} ELSE Picks(f, ing, ed, 1) :
        ConnectTo(picked, f, ing, st)
  BY <1>1 DEF OnClose, Returned
<1>3. connected' = ed /\ emptied' = (emptied \/ (isClosed /\ NoneActive(ing, ed)))
  BY <1>1 DEF OnClose, Emptied
<1>4. Fits(f, ing, ed, st)
  BY <1>1, DropFits DEF Exact
<1>5. Typed(f, ing, ed, st)
  <2>1. st \in [Hosts -> [Numbers -> TcpStates]]
    BY DEF Lawful, TypeOK, TcpStates
  <2>2. f \subseteq Hosts
    BY DEF Returned, Lawful, TypeOK
  <2>3. QED  BY <2>1, <2>2, WithoutTyped DEF Typed, Lawful, TypeOK
<1>6. h \in Active /\ InPool = InMaps(ing, ed) + 1 /\ InMaps(ing, ed) \in Nat
  <2>1. /\ h \in Active
        /\ \/ h \in KeysOf(connecting) /\ h \notin KeysOf(connected)
           \/ h \notin KeysOf(connecting) /\ h \in KeysOf(connected)
    BY <1>1, LiveIsActive DEF Exact, Fits, Active
  <2>2. KeysOf(ing) = KeysOf(connecting) \ {h} /\ KeysOf(ed) = KeysOf(connected) \ {h}
    BY KeysWithout
  <2>3. /\ Cardinality(KeysOf(ing)) = IF h \in KeysOf(connecting)
             THEN Cardinality(KeysOf(connecting)) - 1 ELSE Cardinality(KeysOf(connecting))
        /\ Cardinality(KeysOf(ed)) = IF h \in KeysOf(connected)
             THEN Cardinality(KeysOf(connected)) - 1 ELSE Cardinality(KeysOf(connected))
    BY <2>2, KeysFinite, FS_RemoveElement
  <2>4. QED  BY <2>1, <2>3, KeysFinite DEF InPool, InMaps
<1>7. /\ picked \in SUBSET f /\ Cardinality(picked) \in Nat
      /\ Cardinality(picked) = 0 \/ InMaps(ing, ed) + Cardinality(picked) <= Size
      /\ \/ isClosed \/ picked = f
         \/ Cardinality(picked) = 1
         \/ InMaps(ing, ed) + Cardinality(picked) >= Size
  <2> HIDE DEF ing, ed, f, st
  <2>1. CASE isClosed
    BY <1>2, <2>1, FS_EmptySet
  <2>2. CASE ~isClosed
    BY <1>2, <1>5, <2>2, PicksCount DEF Typed
  <2>3. QED  BY <2>1, <2>2
<1> HIDE DEF ing, ed, f, st
<1>8. /\ Fits(free', connecting', connected', tcp')
      /\ free' = f \ picked
      /\ KeysOf(connecting') = KeysOf(ing) \cup picked
      /\ InPool' = InMaps(ing, ed) + Cardinality(picked)
  <2>1. Fits(free', connecting', ed, tcp') /\ free' = f \ picked
    BY <1>2, <1>4, <1>5, <1>7, ConnectFits, ConnectTyped
  <2>2. picked \subseteq Hosts /\ picked \cap KeysOf(ing) = {}
    BY <1>4, <1>5, <1>7 DEF Typed, Fits
  <2>3. KeysOf(connecting') = KeysOf(ing) \cup picked
    BY <1>2, <2>2, KeysConnected
  <2>4. Cardinality(KeysOf(connecting')) = Cardinality(KeysOf(ing)) + Cardinality(picked)
    BY <1>2, <2>2, ConnectCount
  <2>5. QED  BY <1>3, <2>1, <2>3, <2>4, KeysFinite, <1>7 DEF InPool, InMaps
<1>9. SizeBound'
  BY <1>6, <1>7, <1>8, PoolConstants DEF Exact, PoolIsFull, SizeBound
<1>10. isClosed \/ free' = {} \/ InPool' >= Size
  <2>1. CASE Cardinality(picked) = 1 /\ free = {}
    <3>1. f \subseteq {h}
      BY <2>1 DEF f, Returned
    <3>2. picked = f
      BY <1>7, <2>1, <3>1, FS_EmptySet
    <3>3. QED  BY <1>8, <3>2
  <2>2. CASE Cardinality(picked) = 1 /\ free # {}
    BY <1>6, <1>8, <2>2, PoolConstants DEF Exact, PoolIsFull
  <2>3. CASE Cardinality(picked) # 1
    BY <1>7, <1>8, <2>3
  <2>4. QED  BY <2>1, <2>2, <2>3
<1>11. GoneHostsLeave'
  <2>1. f \subseteq hosts
    BY DEF f, Returned, Includes, Lawful, FreeFollowsList
  <2>2. KeysOf(ing) \cup KeysOf(ed) \subseteq Active
    BY KeysWithout DEF ing, ed, Active
  <2>3. Active' \subseteq hosts
    BY <1>3, <1>7, <1>8, <2>1, <2>2 DEF Active, Exact, GoneHostsLeave
  <2>4. QED  BY <1>1, <2>3 DEF GoneHostsLeave, lists
<1>12. ClosedStaysEmpty'
  <2>1. SUFFICES ASSUME ~cloned, emptied' PROVE Active' = {}
    BY <1>1 DEF ClosedStaysEmpty, CloseIsLast, lists
  <2>2. ~emptied
    BY <1>6, <2>1 DEF Exact, ClosedStaysEmpty, CloseIsLast
  <2>3. isClosed /\ KeysOf(ing) \cup KeysOf(ed) = {}
    BY <1>3, <2>1, <2>2 DEF NoneActive
  <2>4. picked = {}
    BY <1>2, <2>3
  <2>5. QED  BY <1>3, <1>8, <2>3, <2>4 DEF Active
<1>13. QED
  BY <1>1, <1>8, <1>9, <1>10, <1>11, <1>12 DEF Exact, PoolIsFull, lists

LEMMA ExactEvent ==
  ASSUME Lawful, Exact, NEW h \in Hosts, NEW k \in Numbers, Connection(h, k)
  PROVE  Exact'
<1>1. ~LateReady(h, k) /\ ~Leave(h, k) /\ ~DropUnheard(h, k)
  BY DEF LateReady, Leave, DropUnheard, Exact, Fits
<1>2. CASE TcpConnected(h, k)
  <2>1. /\ tcp[h][k] = "opening" /\ tcp' = [tcp EXCEPT ![h][k] = "setup"]
        /\ UNCHANGED <<lists, emptied, free, connecting, connected, deaf>>
    BY <1>2 DEF TcpConnected
  <2>2. ASSUME NEW g \in Hosts, NEW j \in Numbers
        PROVE  /\ tcp'[g][j] \in {"none", "opening", "setup", "ready"}
               /\ connecting[g] = j <=> tcp'[g][j] \in {"opening", "setup"}
               /\ connected[g] = j <=> tcp'[g][j] = "ready"
    <3>1. /\ tcp[g][j] \in {"none", "opening", "setup", "ready"}
          /\ connecting[g] = j <=> tcp[g][j] \in {"opening", "setup"}
          /\ connected[g] = j <=> tcp[g][j] = "ready"
      BY DEF Exact, Fits
    <3>2. tcp'[g][j] = IF g = h /\ j = k THEN "setup" ELSE tcp[g][j]
      BY <2>1 DEF Lawful, TypeOK
    <3>3. QED  BY <2>1, <3>1, <3>2
  <2>3. Fits(free, connecting, connected, tcp')
    BY <2>2 DEF Exact, Fits
  <2>4. QED
    BY <2>1, <2>3
    DEF Exact, GoneHostsLeave, PoolIsFull, SizeBound, InPool, Active, ClosedStaysEmpty,
        CloseIsLast, lists
<1>3. QED  BY <1>1, <1>2, ExactReady, ExactDrop DEF Connection
LEMMA ExactUpdate ==
  ASSUME Lawful, Exact, Patient, NEW new \in SUBSET Hosts, UpdateHosts(new)
  PROVE  Exact'
<1> DEFINE S == Targets(new)
           ing == Without(connecting, S)
           ed == Without(connected, S)
           f == ListedFree(new)
           st == Closed(S)
<1>1. /\ hosts' = new /\ cloned' = TRUE /\ isClosed' = isClosed
      /\ CloseAndFill(S, f, Size) /\ connected' = ed
      /\ deaf' = deaf \ {<<h, Target(h)>> : h \in Targets(new)}
  BY DEF UpdateHosts, CloseAndFill
<1>2. Active \ S \subseteq new /\ S \subseteq Gone(new)
  BY DEF Exact, GoneHostsLeave, Active, KeysOf, Targets, Target, Gone, Slots, Lawful, TypeOK,
         Fits
<1>3. \A h \in S : /\ h \in Hosts /\ connecting[h] = NoKey /\ connected[h] \in Numbers
                   /\ Target(h) = connected[h] /\ tcp[h][connected[h]] = "ready"
  <2>1. TAKE h \in S
  <2>2. h \in Hosts /\ Target(h) \in Numbers
    BY DEF Targets, Gone, Lawful, TypeOK
  <2>3. tcp[h][Target(h)] \notin {"opening", "refused", "setup"}
    BY DEF UpdateHosts, Throwing, State, Patient
  <2>4. connecting[h] \notin Numbers
    BY <2>2, <2>3 DEF Target, Exact, Fits
  <2>5. connecting[h] = NoKey /\ connected[h] \in Numbers /\ Target(h) = connected[h]
    BY <2>2, <2>4 DEF Target, Slots, Lawful, TypeOK
  <2>6. QED  BY <2>2, <2>5 DEF Exact, Fits
<1>4. KeysOf(ing) = KeysOf(connecting) \ S /\ KeysOf(ed) = KeysOf(connected) \ S
  BY KeysWithout
<1>5. f \subseteq new /\ f \cap (Active \ S) = {}
  <2>1. f \subseteq free \cup (new \ hosts)
    BY DEF ListedFree
  <2>2. free \cap Active = {} /\ Active \subseteq hosts
    BY DEF Exact, Fits, GoneHostsLeave, Active
  <2>3. f \subseteq new
    BY DEF ListedFree, Gone, Lawful, FreeFollowsList
  <2>4. QED  BY <2>1, <2>2, <2>3
<1>6. Typed(f, ing, ed, st)
  <2>1. st \in [Hosts -> [Numbers -> TcpStates]]
    BY ClosedTyped DEF Lawful
  <2>2. QED  BY <1>5, <2>1, WithoutTyped DEF Typed, Lawful, TypeOK
<1>7. Fits(f, ing, ed, st)
  <2>1. /\ f \cap (KeysOf(ing) \cup KeysOf(ed)) = {}
        /\ KeysOf(ing) \cap KeysOf(ed) = {}
    <3>1. KeysOf(connecting) \cap KeysOf(connected) = {}
      BY DEF Exact, Fits
    <3> HIDE DEF S, ing, ed, f
    <3>2. QED  BY <1>4, <1>5, <3>1 DEF Active
  <2>2. \A h \in Hosts : ed[h] # Undefined
    BY SlotsDiffer DEF Exact, Fits, Without
  <2>3. ASSUME NEW h \in Hosts, NEW k \in Numbers
        PROVE  /\ st[h][k] \in {"none", "opening", "setup", "ready"}
               /\ ing[h] = k <=> st[h][k] \in {"opening", "setup"}
               /\ ed[h] = k <=> st[h][k] = "ready"
    <3>1. /\ tcp[h][k] \in {"none", "opening", "setup", "ready"}
          /\ connecting[h] = k <=> tcp[h][k] \in {"opening", "setup"}
          /\ connected[h] = k <=> tcp[h][k] = "ready"
      BY DEF Exact, Fits
    <3>2. CASE h \in S
      <4>1. ing[h] = NoKey /\ ed[h] = NoKey
        BY <3>2 DEF Without
      <4>2. st[h] = [tcp[h] EXCEPT ![connected[h]] = "none"]
        BY <1>3, <3>2 DEF Closed, Lawful, TypeOK
      <4>3. st[h][k] = IF k = connected[h] THEN "none" ELSE tcp[h][k]
        BY <4>2 DEF Lawful, TypeOK
      <4>4. connecting[h] # k
        BY <1>3, <3>2, SlotsDiffer
      <4> HIDE DEF S, ing, ed, f, st
      <4>5. st[h][k] = "none"
        BY <3>1, <4>3, <4>4
      <4>6. QED  BY <4>1, <4>5, SlotsDiffer
    <3>3. CASE h \notin S
      <4>1. ing[h] = connecting[h] /\ ed[h] = connected[h] /\ st[h] = tcp[h]
        BY <3>3 DEF Without, Closed
      <4>2. QED  BY <3>1, <4>1
    <3>4. QED  BY <3>2, <3>3
  <2> HIDE DEF S, ing, ed, f, st
  <2>4. QED  BY <2>1, <2>2, <2>3 DEF Fits
<1>8. f \cup {g \in S : Includes(g, hosts', TRUE)} = f
  BY DEF Includes
<1> DEFINE n == IF isClosed THEN 0 ELSE Cardinality(S)
           With(T) == [h \in Hosts |-> IF h \in T THEN 1 ELSE ing[h]]
<1>9. PICK instead \in Picks(f, ing, ed, n) :
        \E more \in Picks(f \ instead, With(instead), ed, Size) :
          ConnectTo(instead \cup more, f, ing, st)
  BY <1>1, <1>8 DEF CloseAndFill
<1> DEFINE ing2 == With(instead)
<1>10. PICK more \in Picks(f \ instead, ing2, ed, Size) :
         ConnectTo(instead \cup more, f, ing, st)
  BY <1>9
<1>11. n \in Nat /\ Size \in Nat
  <2>1. S \in SUBSET Hosts
    BY <1>3
  <2> HIDE DEF S
  <2>2. QED  BY <2>1, HostsFinite, PoolConstants
<1>12. KeysOf(ing2) = KeysOf(ing) \cup (instead \cap Hosts)
  BY SlotsDiffer DEF KeysOf
<1> HIDE DEF S, ing, ed, f, st, With, ing2, n
<1>13. f \in SUBSET Hosts
  BY <1>6 DEF Typed
<1>14. /\ instead \in SUBSET f /\ Cardinality(instead) \in Nat
       /\ Cardinality(instead) = 0 \/ InMaps(ing, ed) + Cardinality(instead) <= Size
  BY <1>9, <1>11, <1>13, PicksCount
<1>15. InMaps(ing2, ed) = InMaps(ing, ed) + Cardinality(instead)
  <2>1. instead \in SUBSET Hosts /\ KeysOf(ing) \in SUBSET Hosts
    BY <1>13, <1>14 DEF KeysOf
  <2>2. KeysOf(ing) \cap instead = {}
    BY <1>7, <1>14 DEF Fits
  <2>3. Cardinality(KeysOf(ing2)) = Cardinality(KeysOf(ing)) + Cardinality(instead)
    BY <1>12, <2>1, <2>2, DisjointCount
  <2>4. QED  BY <1>14, <2>3, KeysFinite DEF InMaps
<1>16. /\ more \in SUBSET (f \ instead) /\ Cardinality(more) \in Nat
       /\ Cardinality(more) = 0 \/ InMaps(ing2, ed) + Cardinality(more) <= Size
       /\ \/ more = f \ instead
          \/ Cardinality(more) = Size
          \/ InMaps(ing2, ed) + Cardinality(more) >= Size
  <2>1. f \ instead \in SUBSET Hosts /\ more \in Picks(f \ instead, ing2, ed, Size)
    BY <1>13, <1>10
  <2>2. QED  BY <1>11, <2>1, PicksCount
<1>17. /\ Fits(free', connecting', connected', tcp')
       /\ free' = f \ (instead \cup more)
       /\ KeysOf(connecting') = KeysOf(ing) \cup instead \cup more
       /\ InPool' = InMaps(ing2, ed) + Cardinality(more)
  <2>1. instead \cup more \subseteq f
    BY <1>14, <1>16
  <2>2. Fits(free', connecting', ed, tcp') /\ free' = f \ (instead \cup more)
    BY <1>6, <1>7, <1>10, <2>1, ConnectFits, ConnectTyped
  <2>3. instead \cup more \subseteq Hosts /\ (instead \cup more) \cap KeysOf(ing) = {}
    BY <1>7, <1>13, <2>1 DEF Fits
  <2>4. KeysOf(connecting') = KeysOf(ing) \cup (instead \cup more)
    BY <1>10, <2>3, KeysConnected
  <2>5. Cardinality(KeysOf(connecting'))
          = Cardinality(KeysOf(ing)) + Cardinality(instead \cup more)
    BY <1>10, <2>3, ConnectCount
  <2>6. Cardinality(instead \cup more) = Cardinality(instead) + Cardinality(more)
    BY <1>16, <2>3, DisjointCount
  <2>7. InPool' = InMaps(ing2, ed) + Cardinality(more)
    BY <1>1, <1>14, <1>15, <1>16, <2>5, <2>6, KeysFinite DEF InPool, InMaps
  <2>8. QED  BY <1>1, <2>2, <2>4, <2>7
<1>18. InMaps(ing, ed) \in Nat /\ InMaps(ing, ed) <= InPool
  <2>1. Cardinality(KeysOf(ing)) <= Cardinality(KeysOf(connecting))
        /\ Cardinality(KeysOf(ed)) <= Cardinality(KeysOf(connected))
    BY <1>4, KeysFinite, FS_Subset
  <2>2. QED  BY <2>1, KeysFinite DEF InPool, InMaps
<1>19. PoolIsFull'
  <2>1. InPool' <= Size
    BY <1>11, <1>14, <1>15, <1>16, <1>17, <1>18, KeysFinite
    DEF Exact, PoolIsFull, SizeBound, InPool
  <2>2. free' = {} \/ InPool' >= Size
    BY <1>11, <1>14, <1>15, <1>16, <1>17, <1>18
  <2>3. QED  BY <2>1, <2>2 DEF PoolIsFull, SizeBound
<1>20. GoneHostsLeave'
  <2>1. KeysOf(ing) \cup KeysOf(ed) \subseteq new
    BY <1>2, <1>4 DEF Active
  <2>2. Active' = KeysOf(ing) \cup KeysOf(ed) \cup instead \cup more
    BY <1>1, <1>17 DEF Active
  <2>3. QED  BY <1>1, <1>5, <1>14, <1>16, <2>1, <2>2 DEF GoneHostsLeave
<1>21. QED
  BY <1>1, <1>17, <1>19, <1>20 DEF Exact, ClosedStaysEmpty

LEMMA OrderlyNext == Lawful /\ Orderly /\ [Next]_vars => Orderly'
<1> SUFFICES ASSUME Lawful, Orderly, [Next]_vars, Undisturbed' PROVE Exact'
  BY DEF Orderly
<1>1. CASE \E h \in Hosts, k \in Numbers : Connection(h, k)
  <2>1. UNCHANGED cloned
    BY <1>1 DEF Connection, TcpConnected, Ready, LateReady, Leave, Drop, DropUnheard,
                OnReady, lists
  <2>2. Exact
    BY <2>1 DEF Undisturbed, Orderly
  <2>3. QED  BY <1>1, <2>2, ExactEvent
<1>2. CASE \E new \in SUBSET Hosts : UpdateHosts(new) \/ UpdateHostsThrows(new)
  <2>1. cloned' = TRUE
    BY <1>2 DEF UpdateHosts, UpdateHostsThrows
  <2>2. Patient /\ Exact
    BY <2>1 DEF Undisturbed, Orderly
  <2>3. QED  BY <1>2, <2>2, ExactUpdate DEF UpdateHostsThrows, Patient
<1>3. CASE Close
  <2>1. Exact
    BY <1>3 DEF Close, Undisturbed, Orderly
  <2>2. QED
    BY <1>3, <2>1
    DEF Close, Exact, GoneHostsLeave, PoolIsFull, SizeBound, InPool, Active, ClosedStaysEmpty,
        CloseIsLast
<1>4. CASE UNCHANGED vars
  <2>1. Exact
    BY <1>4 DEF vars, lists, Undisturbed, Orderly
  <2>2. QED
    BY <1>4, <2>1
    DEF vars, lists, Exact, GoneHostsLeave, PoolIsFull, SizeBound, InPool, Active,
        ClosedStaysEmpty, CloseIsLast
<1>5. QED  BY <1>1, <1>2, <1>3, <1>4 DEF Next

(* The invariant of this module, for every use of the pool.                *)
THEOREM StaysOrderly == Spec => [](Lawful /\ Orderly)
<1>1. Init => Lawful /\ Orderly
  BY LawfulInit, ExactInit DEF Orderly
<1>2. Lawful /\ Orderly /\ [Next]_vars => (Lawful /\ Orderly)'
  BY LawfulNext, OrderlyNext
<1>3. QED  BY <1>1, <1>2, PTL DEF Spec

-----------------------------------------------------------------------------
(* What that says                                                          *)

LEMMA ExactPool == Lawful /\ Exact => PoolIsExact /\ PoolIsFull /\ GoneHostsLeave
BY DEF Exact, Fits, PoolIsExact, NoDuplicates, Active

(* In the hands of an application that takes no host off the list while a  *)
(* connection to it comes up, the pool holds exactly the connections that  *)
(* are open or being opened, each once and in the map that fits it.        *)
THEOREM PoolStaysExact == ASSUME Patient PROVE Spec => []PoolIsExact
<1>1. Lawful /\ Orderly => PoolIsExact
  BY ExactPool DEF Orderly, Undisturbed
<1>2. QED  BY <1>1, StaysOrderly, PTL

(* So it is never too large, and replaces each connection lost at once.    *)
THEOREM PoolStaysFull == ASSUME Patient PROVE Spec => []PoolIsFull
<1>1. Lawful /\ Orderly => PoolIsFull
  BY ExactPool DEF Orderly, Undisturbed
<1>2. QED  BY <1>1, StaysOrderly, PTL

(* A host that leaves the list leaves the pool.                            *)
THEOREM HostsLeave == ASSUME Patient PROVE Spec => []GoneHostsLeave
<1>1. Lawful /\ Orderly => GoneHostsLeave
  BY ExactPool DEF Orderly, Undisturbed
<1>2. QED  BY <1>1, StaysOrderly, PTL

(* Whoever uses it, a pool whose list was never replaced and that has      *)
(* emitted 'close' is empty, and no connection comes to it any more.       *)
THEOREM ClosedIsEmpty == Spec => []ClosedStaysEmpty
<1>1. Orderly => ClosedStaysEmpty
  BY DEF Orderly, Undisturbed, Exact, ClosedStaysEmpty
<1>2. QED  BY <1>1, StaysOrderly, PTL
=============================================================================
