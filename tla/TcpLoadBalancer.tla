--------------------------- MODULE TcpLoadBalancer ---------------------------
(***************************************************************************)
(* lib/connection/tcpLoadBalancer.js with the TcpConnection objects        *)
(* (lib/connection/tcpConnection.js) it keeps: a pool of at most Size      *)
(* connections to hosts taken from a list that the application replaces    *)
(* while connections come up and go down.                                  *)
(*                                                                         *)
(* An action is one turn of the event loop: a call of updateHosts() or     *)
(* close(), or an event of one connection with everything the pool's       *)
(* listeners do in answer.  ReactiveSocket.close() emits 'close' before it *)
(* returns, so what the pool does about a connection that it closes itself *)
(* is part of the call.                                                    *)
(*                                                                         *)
(* ActiveOfConnected, UnlistNever, IncludesAlways, NoneConnected,          *)
(* AnnounceFull and GoneOfNew are faulty variants of the definitions they  *)
(* stand next to.  No action uses them: they are there to show which       *)
(* property such a mistake would break (see README.md).                    *)
(***************************************************************************)
EXTENDS Integers, FiniteSets

CONSTANTS
  Hosts,     \* the hosts, each an 'ip:port'
  Size,      \* opts.size
  MaxLive,   \* bound: TcpConnections of one host at the same time
  Uses       \* what the application does

(* "update"     updateHosts() is called                                    *)
(* "impatient"  a host may go while its TCP connection is being opened     *)
(* "late"       a host may go while its ReactiveSocket is not ready        *)
(* "close"      close() is called                                          *)
ASSUME PoolConstants ==
  /\ IsFiniteSet(Hosts)
  /\ Size \in Nat \ {0}
  /\ MaxLive \in Nat \ {0}
  /\ Uses \subseteq {"update", "impatient", "late", "close"}

VARIABLES
  hosts,        \* _hosts
  cloned,       \* whether updateHosts() has replaced _hosts
  free,         \* the keys of _connections.free
  connecting,   \* _connections.connecting
  connected,    \* _connections.connected
  tcp,          \* tcp[h][k]: the TcpConnections, told apart by a number
  deaf,         \* those that will not emit 'close'
  isReady,      \* _ready
  isConnected,  \* _connected
  isClosed,     \* _closed
  emptied       \* whether the pool has emitted 'close'

lists == <<hosts, cloned, isClosed>>
flags == <<isReady, isConnected>>
vars == <<lists, flags, emptied, free, connecting, connected, tcp, deaf>>

(* What a map holds at a host: no such key, the value undefined, or a      *)
(* TcpConnection.                                                          *)
NoKey == 0
Undefined == -1
Numbers == 1..MaxLive
Slots == {NoKey, Undefined} \cup Numbers

(* "opening": _rsConnection is still null.  "setup": the ReactiveSocket is *)
(* not ready.  "leaving": it was closed before it was.  "refused", "gone": *)
(* over, without and with a ReactiveSocket, and nobody heard of it.        *)
TcpStates == {"none", "opening", "setup", "ready", "leaving", "refused", "gone"}

Live(h, k) == tcp[h][k] \in {"opening", "setup", "ready"}

KeysOf(map) == {h \in Hosts : map[h] # NoKey}

(* _getActiveConnCount()                                                   *)
ActiveOfConnected(ing, ed) == Cardinality(KeysOf(ed))
ActiveConnCount(ing, ed) == Cardinality(KeysOf(ing)) + Cardinality(KeysOf(ed))

-----------------------------------------------------------------------------
(* Connecting                                                              *)

Room(ing, ed) == Size - ActiveConnCount(ing, ed)

(* The hosts that calls of _connect(), at most limit of them, may sample   *)
(* from the free list f: as many as there is room for.                     *)
Picks(f, ing, ed, limit) ==
  {S \in SUBSET f :
    /\ Cardinality(S) <= limit
    /\ S # {} => Cardinality(S) <= Room(ing, ed)
    /\ \/ Cardinality(S) \in {Cardinality(f), limit}
       \/ Cardinality(S) >= Room(ing, ed)}

UnlistNever(f, picked) == f
Unlist(f, picked) == f \ picked

(* _connect(): each host picked leaves the free list f and gets a new      *)
(* TcpConnection.  ing and st are what connecting and tcp are by then.     *)
ConnectTo(picked, f, ing, st) ==
  \E number \in [picked -> Numbers] :
    /\ \A h \in picked : st[h][number[h]] = "none"
    /\ free' = Unlist(f, picked)
    /\ connecting' = [h \in Hosts |-> IF h \in picked THEN number[h] ELSE ing[h]]
    /\ tcp' = [h \in Hosts |->
         IF h \in picked THEN [st[h] EXCEPT ![number[h]] = "opening"] ELSE st[h]]

-----------------------------------------------------------------------------
(* The pool's listeners                                                    *)

Without(map, gone) == [h \in Hosts |-> IF h \in gone THEN NoKey ELSE map[h]]

(* _.includes(_hosts, connOpts) compares objects by identity.  Those of    *)
(* the free list are elements of the constructor's copy of the list, or    *)
(* the caller's own objects; updateHosts() makes _hosts a fresh copy.      *)
IncludesAlways(h, list, copied) == TRUE
Includes(h, list, copied) == ~copied /\ h \in list

NoneConnected(ing, ed) == KeysOf(ed) = {}
NoneActive(ing, ed) == KeysOf(ing) \cup KeysOf(ed) = {}

(* The pool emits 'close' when it has been closed and nothing is left.     *)
Emptied(ing, ed) == emptied' = (emptied \/ (isClosed /\ NoneActive(ing, ed)))

(* 'close' of a TcpConnection to h, which may be replaced by another.      *)
OnClose(h, st) ==
  LET ing == Without(connecting, {h})
      ed == Without(connected, {h})
      f == free \cup {g \in {h} : Includes(g, hosts, cloned)}
  IN /\ \E picked \in IF isClosed THEN {{}} ELSE Picks(f, ing, ed, 1) :
          ConnectTo(picked, f, ing, st)
     /\ connected' = ed
     /\ Emptied(ing, ed)

(* 'ready': what connecting holds at h, if anything, moves to connected.   *)
(* 'ready' is emitted for the first connection, 'connected' for the first  *)
(* time that all of them are there.                                        *)
Move(h) == connecting' = [connecting EXCEPT ![h] = NoKey]

AnnounceFull ==
  /\ isConnected' = (isConnected \/ Cardinality(KeysOf(connected')) = Size)
  /\ UNCHANGED isReady

Announce ==
  /\ isReady' = TRUE
  /\ isConnected' = (isConnected \/ Cardinality(KeysOf(connected')) = Size)

OnReady(h) ==
  /\ connected' = [connected EXCEPT
       ![h] = IF connecting[h] = NoKey THEN Undefined ELSE connecting[h]]
  /\ Move(h)
  /\ Announce
  /\ UNCHANGED <<lists, emptied, free, deaf>>

-----------------------------------------------------------------------------
(* Events of a TcpConnection                                               *)

(* The TCP connection is up and the ReactiveSocket is made.                *)
TcpConnected(h, k) ==
  /\ tcp[h][k] = "opening"
  /\ tcp' = [tcp EXCEPT ![h][k] = "setup"]
  /\ UNCHANGED <<lists, flags, emptied, free, connecting, connected, deaf>>

Ready(h, k) ==
  /\ tcp[h][k] = "setup"
  /\ tcp' = [tcp EXCEPT ![h][k] = "ready"]
  /\ OnReady(h)

(* 'ready' does not care whether the ReactiveSocket was closed before: the *)
(* setImmediate, or the first lease, may still come.                       *)
LateReady(h, k) ==
  /\ tcp[h][k] = "leaving"
  /\ tcp' = [tcp EXCEPT ![h][k] = "none"]
  /\ OnReady(h)

Leave(h, k) ==
  /\ tcp[h][k] = "leaving"
  /\ tcp' = [tcp EXCEPT ![h][k] = "none"]
  /\ UNCHANGED <<lists, flags, emptied, free, connecting, connected, deaf>>

(* The TCP connection closes or does not come up, and the TcpConnection    *)
(* emits 'close'.                                                          *)
Drop(h, k) ==
  /\ Live(h, k) /\ <<h, k>> \notin deaf
  /\ OnClose(h, [tcp EXCEPT ![h][k] = "none"])
  /\ UNCHANGED <<lists, flags, deaf>>

DropUnheard(h, k) ==
  /\ Live(h, k) /\ <<h, k>> \in deaf
  /\ tcp' = [tcp EXCEPT ![h][k] = IF @ = "opening" THEN "refused" ELSE "gone"]
  /\ UNCHANGED <<lists, flags, emptied, free, connecting, connected, deaf>>

-----------------------------------------------------------------------------
(* Calls of the application                                                *)

(* The TcpConnections that updateHosts() closes, of hosts that are gone.   *)
GoneOfNew(new) == new \ hosts
Gone(new) == hosts \ new

Target(h) == IF connecting[h] \in Numbers THEN connecting[h] ELSE connected[h]
Targets(new) == {h \in Gone(new) : Target(h) \in Numbers}
State(h) == tcp[h][Target(h)]

(* TcpConnection.close() takes _closeListener off the socket and listens   *)
(* to the ReactiveSocket instead.  While there is none it throws, between  *)
(* the two.                                                                *)
Throwing(new) == {h \in Targets(new) : State(h) \in {"opening", "refused"}}

Closed(S) == [h \in Hosts |->
  IF h \in S
  THEN [tcp[h] EXCEPT ![Target(h)] = IF @ = "setup" THEN "leaving" ELSE "none"]
  ELSE tcp[h]]

ListedFree(new) == (free \cup (new \ hosts)) \ Gone(new)

(* The connections to the hosts of S are closed, one after another, and    *)
(* each makes room for a new one; then up to extra others are made.        *)
CloseAndFill(S, listed, extra) ==
  LET f == listed \cup {g \in S : Includes(g, hosts', TRUE)}
      ing == Without(connecting, S)
      ed == Without(connected, S)
      n == IF isClosed THEN 0 ELSE Cardinality(S)
  IN /\ \E instead \in Picks(f, ing, ed, n) :
        LET ing2 == [h \in Hosts |-> IF h \in instead THEN 1 ELSE ing[h]]
        IN \E more \in Picks(f \ instead, ing2, ed, extra) :
             ConnectTo(instead \cup more, f, ing, Closed(S))
     /\ connected' = ed
     /\ IF S = {} THEN UNCHANGED emptied ELSE Emptied(ing, ed)

(* updateHosts(): the connections to hosts that are gone are closed and    *)
(* the pool is filled up.                                                  *)
UpdateHosts(new) ==
  /\ "update" \in Uses
  /\ Throwing(new) = {}
  /\ "late" \in Uses \/ \A h \in Targets(new) : State(h) # "setup"
  /\ hosts' = new
  /\ cloned' = TRUE
  /\ CloseAndFill(Targets(new), ListedFree(new), Size)
  /\ deaf' = deaf \ {<<h, Target(h)>> : h \in Targets(new)}
  /\ UNCHANGED <<isClosed, flags>>

(* One of the closes throws: the hosts before it in the list are dealt     *)
(* with, those after it are not, and the pool is not filled up.            *)
UpdateHostsThrows(new) ==
  /\ {"update", "impatient"} \subseteq Uses
  /\ "late" \in Uses \/ \A h \in Targets(new) : State(h) # "setup"
  /\ hosts' = new
  /\ cloned' = TRUE
  /\ \E h \in Throwing(new), before \in SUBSET (Targets(new) \ Throwing(new)) :
       /\ CloseAndFill(before, ListedFree(new), 0)
       /\ deaf' = (deaf \ {<<g, Target(g)>> : g \in before}) \cup {<<h, Target(h)>>}
  /\ UNCHANGED <<isClosed, flags>>

(* close() looks for connections with typeof (c) === TcpConnection, which  *)
(* nothing is, and closes none.                                            *)
Close ==
  /\ "close" \in Uses
  /\ ~isClosed
  /\ isClosed' = TRUE
  /\ UNCHANGED <<hosts, cloned, flags, emptied, free, connecting, connected, tcp,
                 deaf>>

-----------------------------------------------------------------------------

(* The constructor calls _connect() Size times.                            *)
Init ==
  /\ hosts = Hosts /\ cloned = FALSE
  /\ connected = [h \in Hosts |-> NoKey]
  /\ \E picked \in SUBSET Hosts :
       /\ Cardinality(picked) <= Size
       /\ Cardinality(picked) < Size => picked = Hosts
       /\ free = Hosts \ picked
       /\ connecting = [h \in Hosts |-> IF h \in picked THEN 1 ELSE NoKey]
       /\ tcp = [h \in Hosts |-> [k \in Numbers |->
            IF h \in picked /\ k = 1 THEN "opening" ELSE "none"]]
  /\ deaf = {}
  /\ isReady = FALSE /\ isConnected = FALSE
  /\ isClosed = FALSE /\ emptied = FALSE

Connection(h, k) ==
  \/ TcpConnected(h, k)
  \/ Ready(h, k)
  \/ LateReady(h, k)
  \/ Leave(h, k)
  \/ Drop(h, k)
  \/ DropUnheard(h, k)

Next ==
  \/ \E h \in Hosts, k \in Numbers : Connection(h, k)
  \/ \E new \in SUBSET Hosts : UpdateHosts(new) \/ UpdateHostsThrows(new)
  \/ Close

Spec == Init /\ [][Next]_vars

(* A connection that is being opened comes up or fails, and one that is up *)
(* sends its setup frame.                                                  *)
Starts(h, k) == tcp[h][k] \in {"opening", "setup"} /\ Connection(h, k)

FairSpec == Spec /\ \A h \in Hosts, k \in Numbers : WF_vars(Starts(h, k))

-----------------------------------------------------------------------------
(* Properties                                                              *)

Active == KeysOf(connecting) \cup KeysOf(connected)
InPool == Cardinality(KeysOf(connecting)) + Cardinality(KeysOf(connected))

(* Every variable stays in its type.                                       *)
TypeOK ==
  /\ hosts \subseteq Hosts /\ free \subseteq Hosts
  /\ connecting \in [Hosts -> Slots \ {Undefined}]
  /\ connected \in [Hosts -> Slots]
  /\ tcp \in [Hosts -> [Numbers -> TcpStates]]
  /\ deaf \subseteq Hosts \X Numbers
  /\ {cloned, isReady, isConnected, isClosed, emptied} \subseteq BOOLEAN
  /\ isConnected => isReady

(* "The maximum number of connections to maintain in the pool".            *)
SizeBound == InPool <= Size

(* updateHosts() takes "care to not duplicate any hosts that are already   *)
(* in the connecting and connected states".                                *)
NoDuplicates ==
  /\ free \cap Active = {}
  /\ KeysOf(connecting) \cap KeysOf(connected) = {}

(* Every connection that is open or being opened is in the pool, once and  *)
(* in the map that fits its state: none is leaked, and getConnection()     *)
(* hands out none that is not ready, nor null while there is one.          *)
PoolIsExact ==
  /\ NoDuplicates
  /\ \A h \in Hosts :
       /\ \A k \in Numbers :
            /\ connecting[h] = k <=> tcp[h][k] \in {"opening", "setup"}
            /\ connected[h] = k <=> tcp[h][k] = "ready"
       /\ connected[h] # Undefined

(* The pool is never too large, and while it is too small nothing is left  *)
(* on the free list: each connection lost is replaced at once.             *)
PoolIsFull == SizeBound /\ (isClosed \/ free = {} \/ InPool >= Size)

(* Every host of the list is free or in use ("#55 if this host is in       *)
(* self._hosts, we want to add it back into the free list").               *)
HostsAreKept == hosts \subseteq free \cup Active

(* The free list follows the list of hosts: no connection will be made to  *)
(* a host that has left it, however and whenever the last one to it ended, *)
(* and until the list is replaced for the first time no host of it is lost *)
(* by a connection that ends.                                              *)
FreeFollowsList == free \subseteq hosts /\ (~cloned => HostsAreKept)

(* Hosts that leave the list leave the pool ("close hosts that are no      *)
(* longer in discovery").                                                  *)
GoneHostsLeave == Active \subseteq hosts

(* getConnection() returns "null if there are currently no connections",   *)
(* and only then: no key of connected holds undefined.                     *)
NoHoles == \A h \in Hosts : connected[h] # Undefined

(* The pool emits 'close' when it is "completely closed and devoid of any  *)
(* connected connections", and no connection comes after that.             *)
CloseIsLast == emptied => Active = {}

(* So it is when the list of hosts is never replaced.                      *)
ClosedStaysEmpty == ~cloned => CloseIsLast

(* close() closes "the connection pool and all associated connections".    *)
CloseEmpties == isClosed ~> Active = {}
=============================================================================
