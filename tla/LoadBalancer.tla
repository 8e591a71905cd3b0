----------------------------- MODULE LoadBalancer -----------------------------
(***************************************************************************)
(* lib/connection/loadBalancer.js with what it builds its connections out  *)
(* of: ReactiveSocketFactory, DrainingReactiveSocket and getSemaphore.     *)
(* Factories come and go at the word of a source; the load balancer turns  *)
(* them into sockets, as many as its aperture, and back when a socket is   *)
(* lost or recycled.                                                       *)
(*                                                                         *)
(* An action is one turn of the event loop.  The sockets of this process   *)
(* emit 'close' before close() returns, so an action often runs listeners  *)
(* that run _refreshSockets(): what those may do is the set Refreshed(b,   *)
(* due) of the states they may leave the load balancer in.                 *)
(*                                                                         *)
(* BuildKeeps, ForgetNever, RecycleDrops, WantsMore, NewDrainsNever and    *)
(* LatchNever are faulty variants of the definitions they stand next to.   *)
(* No action uses them: they are there to show which property such a       *)
(* mistake would break (see README.md).                                    *)
(***************************************************************************)
EXTENDS Integers, FiniteSets, FiniteSetsExt

CONSTANTS
  Factories,        \* the factories the source announces
  Sockets,          \* bound: names for the sockets alive at the same time
  InitialAperture, MinAperture, MaxAperture,
  MaxCopies,        \* bound: copies of one factory in the load balancer's hands
  MaxOpen,          \* bound: requests outstanding at one time
  Uses              \* what happens to the load balancer

(* "remove"       the source removes factories                             *)
(* "removeBusy"   also while one is being built or its socket drains       *)
(* "again"        it adds a factory that it has added before               *)
(* "protocolError"  a socket emits 'error' for a frame its peer sent       *)
(* "transportError" a socket emits 'error' for its transport               *)
(* "lateError"    the same of a socket that has been told to close         *)
(* "close"        close() is called                                        *)
(* "closeBusy"    also while sockets are being built                       *)
AllUses == {"remove", "removeBusy", "again", "protocolError",
            "transportError", "lateError", "close", "closeBusy"}

Nobody == "nobody"

ASSUME LoadBalancerConstants ==
  /\ IsFiniteSet(Factories) /\ IsFiniteSet(Sockets) /\ Nobody \notin Factories
  /\ {InitialAperture, MinAperture, MaxAperture, MaxCopies} \subseteq Nat \ {0}
  /\ MaxOpen \in Nat
  /\ Uses \subseteq AllUses

VARIABLES
  listed,     \* the factories the source has added and not removed
  lb,         \* the load balancer, see Balancers
  maker,      \* the factory of each socket, until its transport has closed
  open,       \* requests outstanding on each socket
  failing,    \* requests outstanding on FAILING_SOCKET
  drains,     \* sockets with a timer of the DrainingReactiveSocket
  callback,   \* sockets whose _drainingClosedCb is a function
  isReady,    \* _isReady
  refreshing, \* whether _refreshTimer is running
  closed,     \* _closed
  unlatched,  \* sockets that close() still waits for
  done        \* whether close() has called back

closing == <<isReady, refreshing, closed, unlatched, done>>
vars == <<listed, lb, maker, open, failing, drains, callback, closing>>

(* What a socket is up to.  "draining" waits for the end of its requests   *)
(* or for its timer, "ending" has ended its transport.                     *)
Lives == {"open", "draining", "ending", "gone"}

(* free       _factories, as a bag                                         *)
(* building   the build() calls that have not answered, as a bag           *)
(* sockets    _sockets                                                     *)
(* pendings   _pendings                                                    *)
(* aperture   _targetAperture                                              *)
(* life       the state of each socket                                     *)
Balancers == [
  free : [Factories -> 0..MaxCopies],
  building : [Factories -> 0..MaxCopies],
  sockets : SUBSET Sockets,
  pendings : Int,
  aperture : Nat,
  life : [Sockets -> Lives]]

In(bag) == {f \in Factories : bag[f] > 0}
Total(bag) == MapThenSumSet(LAMBDA f : bag[f], Factories)
Outstandings == failing + MapThenSumSet(LAMBDA s : open[s], Sockets)

(* How often a factory is in the hands of the load balancer, and the bound *)
(* on that, without which repeated errors would add to it for ever.        *)
CopiesIn(b, f) ==
  b.free[f] + b.building[f] + Cardinality({s \in b.sockets : maker[s] = f})
Bounded(b) ==
  /\ \A f \in Factories : CopiesIn(b, f) <= MaxCopies
  /\ b.pendings >= -MaxCopies

-----------------------------------------------------------------------------
(* The private methods, as functions of the load balancer's state          *)

(* _updateAperture(): the apertures it may choose, and whether it may run  *)
(* again in this turn: its rate limit starts over unless the load is in    *)
(* the band that leaves the aperture alone.                                *)
Idle(b) == b.sockets = {} \/ 2 * Outstandings < 3 * Cardinality(b.sockets)
Busy(b) == b.sockets # {} /\ 2 * Outstandings > 5 * Cardinality(b.sockets)

NewAperture(b) ==
  IF Idle(b) THEN IF MinAperture < b.aperture THEN b.aperture - 1 ELSE b.aperture
  ELSE IF Busy(b) /\ b.aperture < MaxAperture
                  /\ b.aperture < Total(b.free) + Cardinality(b.sockets)
       THEN b.aperture + 1 ELSE b.aperture

(* _addSocket() with the factory that _selectFactory() took off the list.  *)
BuildKeeps(b, f) == [b EXCEPT !.building[f] = @ + 1, !.pendings = @ + 1]
Build(b, f) == [b EXCEPT !.free[f] = @ - 1, !.building[f] = @ + 1, !.pendings = @ + 1]

(* DrainingReactiveSocket.close()                                          *)
AfterClose(s) == IF open[s] = 0 THEN "ending" ELSE "draining"
Shut(b, S) == [b EXCEPT !.life = [s \in Sockets |->
  IF s \in S /\ b.life[s] \in {"open", "draining"} THEN AfterClose(s) ELSE b.life[s]]]

(* _removeSocket(), the factories apart, for each socket of S.             *)
ForgetNever(b, S) == Shut(b, S)
Forget(b, S) == [Shut(b, S) EXCEPT !.sockets = @ \ S]

(* _factories.push()                                                       *)
PutBack(b, f) == [b EXCEPT !.free[f] = @ + 1]

(* A socket over the aperture goes, and its factory is kept.               *)
RecycleDrops(b, s) == Forget(b, {s})
Recycle(b, s) == PutBack(Forget(b, {s}), maker[s])

WantsMore(n, aperture) == n <= aperture
Wants(n, aperture) == n < aperture

(* What _selectFactory(), _selectSocket() and _selectSlowSocket() pick: any*)
(* of them, for they compare the latencies of a few taken at random.       *)
FactoryPicks(b) == In(b.free)
SocketPicks(b) == b.sockets

(* _updateAperture(), when it is due.                                      *)
Updated(b, due) == IF due THEN [b EXCEPT !.aperture = NewAperture(b)] ELSE b

(* Sockets, those being built included.                                    *)
Count(b) == Cardinality(b.sockets) + b.pendings

(* _refreshSockets(): where it ends unless it recycles a socket, on which  *)
(* it runs again, and where that may find the load balancer.               *)
Ends(b, due) ==
  LET c == Updated(b, due)
  IN IF closed THEN {b}
     ELSE IF Wants(Count(c), c.aperture)
     THEN IF FactoryPicks(c) = {} THEN {c} ELSE {Build(c, f) : f \in FactoryPicks(c)}
     ELSE IF Count(c) > c.aperture /\ SocketPicks(c) # {} THEN {} ELSE {c}

Again(b, due) ==
  LET c == Updated(b, due)
  IN IF ~closed /\ Count(c) > c.aperture
     THEN {<<Recycle(c, s), due /\ ~Idle(b) /\ ~Busy(b)>> : s \in SocketPicks(c)}
     ELSE {}

(* The states it may be called in, n calls down, with what is due; a call  *)
(* recycles a socket, so there are no more of them than sockets.  What it  *)
(* may end in.                                                             *)
Calls(b, due) ==
  LET calls[n \in 0..Cardinality(b.sockets)] ==
        IF n = 0 THEN {<<b, due>>}
        ELSE UNION {Again(call[1], call[2]) : call \in calls[n - 1]}
  IN calls

Refreshed(b, due) ==
  UNION {UNION {Ends(call[1], call[2]) : call \in Calls(b, due)[n]} :
           n \in DOMAIN Calls(b, due)}

(* _addFactory()                                                           *)
FactoryAdded(b, f) ==
  IF closed THEN {b} ELSE UNION {Refreshed(PutBack(b, f), due) : due \in BOOLEAN}

(* _removeSocket(socket, true): the factory goes back on the list, whether *)
(* or not the socket was found.                                            *)
SocketRemoved(b, s) ==
  FactoryAdded(IF s \in b.sockets THEN Forget(b, {s}) ELSE b, maker[s])

(* Sockets that started to drain in this step, or drain again.             *)
NewDrainsNever(S) == UNCHANGED drains
NewDrains(S) == drains' = drains \cup {s \in S : open[s] > 0}
Shed(b) == lb.sockets \ b.sockets

-----------------------------------------------------------------------------
(* The source of factories                                                 *)

Add(f) ==
  /\ f \notin listed \/ "again" \in Uses
  /\ listed' = listed \cup {f}
  /\ \E b \in FactoryAdded(lb, f) :
       Bounded(b) /\ lb' = b /\ NewDrains(Shed(b))
  /\ UNCHANGED <<maker, open, failing, callback, closing>>

(* A factory of which everything is on the list or in the pool.            *)
Settled(f) ==
  /\ lb.building[f] = 0
  /\ \A s \in Sockets :
       maker[s] = f => s \in lb.sockets

(* _removeFactory(factory, false)                                          *)
Remove(f) ==
  LET b == [lb EXCEPT !.free[f] = IF @ > 0 THEN @ - 1 ELSE 0]
      S == {s \in lb.sockets : maker[s] = f}
  IN /\ "remove" \in Uses
     /\ f \in listed
     /\ "removeBusy" \in Uses \/ Settled(f)
     /\ listed' = listed \ {f}
     /\ \E due \in BOOLEAN : \E c \in Refreshed(Forget(b, S), due) :
          lb' = c /\ NewDrains(Shed(c))
     /\ UNCHANGED <<maker, open, failing, callback, closing>>

-----------------------------------------------------------------------------
(* ReactiveSocketFactory.build()                                           *)

Built(b, f) == [b EXCEPT !.building[f] = @ - 1, !.pendings = @ - 1]

(* 'reactivesocket': the socket is pushed, closed or not, and the first    *)
(* one starts the refresh timer.                                           *)
BuildSucceeds(f, s) ==
  /\ lb.building[f] > 0
  /\ lb.life[s] = "gone" /\ s \notin lb.sockets \cup drains
  /\ lb' = [Built(lb, f) EXCEPT !.sockets = @ \cup {s}, !.life[s] = "open"]
  /\ maker' = [maker EXCEPT ![s] = f]
  /\ isReady' = TRUE
  /\ refreshing' = (refreshing \/ ~isReady)
  /\ UNCHANGED <<listed, open, failing, drains, callback, closed, unlatched, done>>

(* 'error': the factory is not put back.                                   *)
BuildFails(f) ==
  /\ lb.building[f] > 0
  /\ lb' = Built(lb, f)
  /\ UNCHANGED <<listed, maker, open, failing, drains, callback, closing>>

-----------------------------------------------------------------------------
(* Requests                                                                *)

(* request(): one of the sockets, or FAILING_SOCKET when there is none.    *)
Request ==
  /\ ~closed
  /\ Outstandings < MaxOpen
  /\ \E due \in BOOLEAN : \E b \in Refreshed(lb, due) :
       /\ lb' = b
       /\ NewDrains(Shed(b))
       /\ IF SocketPicks(b) = {}
          THEN failing' = failing + 1 /\ UNCHANGED open
          ELSE /\ \E s \in SocketPicks(b) : open' = [open EXCEPT ![s] = @ + 1]
               /\ UNCHANGED failing
  /\ UNCHANGED <<listed, maker, callback, closing>>

Latch(S) ==
  /\ unlatched' = unlatched \ S
  /\ done' = (done \/ (unlatched \cap S # {} /\ unlatched \subseteq S))

(* A request ends.  The last one of a socket that drains for a callback    *)
(* closes it.                                                              *)
Terminate(s) ==
  LET last == open[s] = 1 /\ s \in callback
  IN /\ open[s] > 0
     /\ open' = [open EXCEPT ![s] = @ - 1]
     /\ IF last
        THEN /\ lb' = [lb EXCEPT !.life[s] = IF @ = "draining" THEN "ending" ELSE @]
             /\ drains' = drains \ {s}
             /\ Latch({s})
        ELSE UNCHANGED <<lb, drains, unlatched, done>>
     /\ UNCHANGED <<listed, maker, failing, callback, isReady, refreshing, closed>>

TerminateFailing ==
  /\ failing > 0
  /\ failing' = failing - 1
  /\ UNCHANGED <<listed, lb, maker, open, drains, callback, closing>>

-----------------------------------------------------------------------------
(* Events of a socket                                                      *)

(* 'error'.  The socket's own listener closes it, which when it is idle    *)
(* emits 'close' at once, on which the load balancer removes it; then the  *)
(* load balancer's listener for 'error' removes it, again.  When the error *)
(* is the transport's, build() has reported it as a failure to connect.    *)
SocketError(s, ofTransport) ==
  LET b0 == IF ofTransport THEN [lb EXCEPT !.pendings = @ - 1] ELSE lb
      afterClose == IF open[s] = 0 /\ s \in lb.sockets /\ ~closed
                    THEN SocketRemoved(b0, s) ELSE {Shut(b0, {s})}
  IN /\ lb.life[s] \in {"open", "draining", "ending"}
     /\ (IF ofTransport THEN "transportError" ELSE "protocolError") \in Uses
     /\ s \in lb.sockets \/ "lateError" \in Uses
     /\ \E b1 \in afterClose : \E b2 \in SocketRemoved(b1, s) :
          Bounded(b2) /\ lb' = b2 /\ NewDrains(Shed(b2) \cup {s})
     /\ callback' = IF open[s] > 0 THEN callback \ {s} ELSE callback
     /\ UNCHANGED <<listed, maker, open, failing, closing>>

(* The transport is closed: 'close', then the requests of the socket end.  *)
TransportClosed(s) ==
  LET b0 == [lb EXCEPT !.life[s] = "gone"]
      last == open[s] > 0 /\ s \in callback
  IN /\ lb.life[s] \in {"open", "draining", "ending"}
     /\ \E b \in IF s \in lb.sockets /\ ~closed THEN SocketRemoved(b0, s) ELSE {b0} :
          /\ lb' = b
          /\ IF last THEN drains' = drains \ {s} ELSE NewDrains(Shed(b))
     /\ IF last THEN Latch({s}) ELSE UNCHANGED <<unlatched, done>>
     /\ open' = [open EXCEPT ![s] = 0]
     /\ maker' = [maker EXCEPT ![s] = Nobody]
     /\ UNCHANGED <<listed, failing, callback, isReady, refreshing, closed>>

(* The timer of the DrainingReactiveSocket.                                *)
DrainTimeout(s) ==
  /\ s \in drains
  /\ drains' = drains \ {s}
  /\ callback' = callback \ {s}
  /\ lb' = [lb EXCEPT !.life[s] = IF @ = "draining" THEN "ending" ELSE @]
  /\ Latch({s})
  /\ UNCHANGED <<listed, maker, open, failing, isReady, refreshing, closed>>

-----------------------------------------------------------------------------
(* The refresh timer and close()                                           *)

(* A socket is recycled.                                                   *)
RefreshTick ==
  /\ refreshing /\ ~closed
  /\ lb.sockets # {} /\ In(lb.free) # {}
  /\ \E s \in SocketPicks(lb) : \E b \in SocketRemoved(lb, s) :
       lb' = b /\ NewDrains(Shed(b))
  /\ UNCHANGED <<listed, maker, open, failing, callback, closing>>

Close ==
  LET waiting == {s \in lb.sockets : open[s] > 0}
  IN /\ "close" \in Uses
     /\ ~closed
     /\ "closeBusy" \in Uses \/ In(lb.building) = {}
     /\ closed' = TRUE
     /\ refreshing' = FALSE
     /\ lb' = Shut(lb, lb.sockets)
     /\ NewDrains(lb.sockets)
     /\ callback' = callback \cup waiting
     /\ unlatched' = waiting
     /\ done' = (waiting = {})
     /\ UNCHANGED <<listed, maker, open, failing, isReady>>

-----------------------------------------------------------------------------

Nothing == [f \in Factories |-> 0]

Init ==
  /\ listed = {}
  /\ lb = [free |-> Nothing, building |-> Nothing, sockets |-> {}, pendings |-> 0,
           aperture |-> InitialAperture, life |-> [s \in Sockets |-> "gone"]]
  /\ maker = [s \in Sockets |-> Nobody]
  /\ open = [s \in Sockets |-> 0]
  /\ failing = 0
  /\ drains = {} /\ callback = {} /\ unlatched = {}
  /\ isReady = FALSE /\ refreshing = FALSE /\ closed = FALSE /\ done = FALSE

Socket(s) ==
  \/ Terminate(s)
  \/ \E ofTransport \in BOOLEAN : SocketError(s, ofTransport)
  \/ TransportClosed(s)
  \/ DrainTimeout(s)

Factory(f) ==
  \/ Add(f)
  \/ Remove(f)
  \/ BuildFails(f)
  \/ \E s \in Sockets : BuildSucceeds(f, s)

Next ==
  \/ \E f \in Factories : Factory(f)
  \/ \E s \in Sockets : Socket(s)
  \/ Request
  \/ TerminateFailing
  \/ RefreshTick
  \/ Close

Spec == Init /\ [][Next]_vars

(* Timers fire.                                                            *)
FairSpec == Spec /\ \A s \in Sockets : WF_vars(DrainTimeout(s))

-----------------------------------------------------------------------------
(* Properties                                                              *)

(* Every variable stays in its type.                                       *)
TypeOK ==
  /\ listed \subseteq Factories
  /\ lb \in Balancers
  /\ maker \in [Sockets -> Factories \cup {Nobody}]
  /\ open \in [Sockets -> 0..MaxOpen] /\ failing \in 0..MaxOpen
  /\ {drains, callback, unlatched} \subseteq SUBSET Sockets
  /\ {isReady, refreshing, closed, done} \subseteq BOOLEAN
  /\ lb.sockets # {} => isReady

Copies(f) == CopiesIn(lb, f)

(* A factory is on the list, being built or in the pool, and that once; it *)
(* is nowhere when the source has not added it, or removed it.  So it is   *)
(* when the source adds none twice, which it may ("again").                *)
HeldOnce == \A f \in Factories : Copies(f) <= IF f \in listed THEN 1 ELSE 0

(* "do not add back disabled server"                                       *)
RemovedStayOut == \A f \in Factories : f \notin listed => Copies(f) = 0

(* Until close(), a factory of the source's is lost only by failing to     *)
(* build.                                                                  *)
OnlyFailuresEvict ==
  [][~closed => \A f \in listed \cap listed' :
       Copies(f)' < Copies(f) => lb'.building[f] < lb.building[f]]_vars

(* "The max number of connections to maintain in the pool", those being    *)
(* built included.                                                         *)
ApertureKept ==
  LET most == IF InitialAperture > MaxAperture THEN InitialAperture ELSE MaxAperture
  IN Cardinality(lb.sockets) + Total(lb.building) <= most

(* A request goes to a socket that is open, never to one that has ended or *)
(* is about to.                                                            *)
PoolIsOpen == ~closed => \A s \in lb.sockets : lb.life[s] = "open"

(* A drained socket is told to end: none stays open outside of the pool    *)
(* with nothing that would close it.                                       *)
NoneForgotten ==
  \A s \in Sockets :
    /\ lb.life[s] = "draining" => s \in drains
    /\ lb.life[s] = "open" => s \in lb.sockets


(* close() closes "the underlying ReactiveSockets": none is open when it   *)
(* has called back.                                                        *)
ClosedClosesAll == done => \A s \in Sockets : lb.life[s] # "open"
=============================================================================
