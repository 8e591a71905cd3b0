--------------------------- MODULE ReactiveSocket ---------------------------
(***************************************************************************)
(* The two ends of one ReactiveSocket connection: the connection object    *)
(* (lib/connection/reactiveSocket.js), the RSStream objects it owns        *)
(* (lib/connection/stream.js) and the TCP transport between them.          *)
(*                                                                         *)
(* An action is one turn of one end's event loop: a call of the API by the *)
(* application, a frame handed over by the parse stream, a timer, or an    *)
(* event of the transport.  Either end may issue requests, so every        *)
(* variable that belongs to a connection is a function of the endpoint.    *)
(* Frames reach the parse stream one at a time and in order: module        *)
(* FramingStream is about why that is so on a byte stream.                 *)
(*                                                                         *)
(* MkErrorAsResponse, ArmWhenOpen, KnownOnceIssued, DisarmNever,           *)
(* ForgetNever, FirstLatestSame, IdsLeftByLatest, CancelForgets,           *)
(* FirstPhaseEager, AcceptsSetupTwice, StartTickerNever,                   *)
(* ReceiveFinHalfOpen and ToldFromTwo are faulty variants of the           *)
(* definitions they stand next to.  No action uses them: they are there to *)
(* show which property such a mistake would break (see README.md).         *)
(***************************************************************************)
EXTENDS Integers, Sequences

CONSTANTS
  MaxStreamId,   \* CONSTANTS.MAX_STREAM_ID, the largest stream id
  ErrorClasses,  \* the classes of error codes a responder answers with
  Listeners,     \* classes of connection wide errors the applications listen to
  Uses,          \* what the applications do and what the transport suffers
  LeaseBudget,   \* requests granted by one LEASE frame
  PeriodicCap    \* bound: frames of one ticker that may be in flight

Endpoints == {"client", "server"}
Peer(e) == IF e = "client" THEN "server" ELSE "client"
Ids == 1..MaxStreamId

(* The codes that RSStream.setError tells apart: the three setup codes,    *)
(* CONNECTION_ERROR, the five codes with an event of their own on the      *)
(* stream, and any other number.                                           *)
Classes == {"SETUP", "CONNECTION", "STREAM", "UNKNOWN"}

(* "lease"     the client asks for a lease        "follows" fragments      *)
(* "keepalive" the client's ticker runs           "cancel"  initiators     *)
(* "close"     applications close the connection            call cancel()  *)
(* "reset"     the transport may fail             "refuse"  responders do  *)
(* "serverRequests" the server end issues requests too                     *)
(* "setup"     the client application calls setup() again                  *)
AllUses == {"lease", "keepalive", "close", "reset", "serverRequests",
            "setup", "follows", "cancel", "refuse"}

ASSUME ConstantsOK ==
  /\ MaxStreamId \in Nat
  /\ ErrorClasses \subseteq Classes
  /\ Listeners \subseteq {"SETUP", "CONNECTION"}
  /\ Uses \subseteq AllUses
  /\ LeaseBudget \in Nat \ {0}
  /\ PeriodicCap \in Nat \ {0}

VARIABLES
  latest,     \* _streams.latest
  streams,    \* the ids that are keys of _streams.streams
  issued,     \* ids of the streams this end created in request()
  timer,      \* initiated streams whose request timeout is armed
  expired,    \* initiated streams with _expired set
  events,     \* what each initiated stream has emitted, in order
  inbound,    \* what became of each stream the peer initiated
  cancelled,  \* streams the application called cancel() on
  isSetup,    \* _isSetup
  isClosed,   \* _isClosed
  phase,      \* progress of the constructor towards the 'ready' event
  ticking,    \* whether _timers holds a running keepalive or lease ticker
  leaseLeft,  \* the client's _leaseNumberOfRequests
  leaseLive,  \* whether the client's _leaseExpirationDate is ahead
  transport,  \* the transport stream
  wire        \* wire[e]: frames on their way to e

streamVars == <<latest, streams, issued, timer, expired, events, inbound,
                cancelled>>
sessionVars == <<isSetup, phase, ticking, leaseLeft, leaseLive>>
linkVars == <<isClosed, transport, wire>>
vars == <<streamVars, sessionVars, linkVars>>

-----------------------------------------------------------------------------
(* Frames.  The bit 0x2000 of the flags is FOLLOWS on a request or a       *)
(* response, LEASE on a setup and KEEPALIVE_RESPONSE on a keepalive.  FIN  *)
(* is the transport's own end of stream mark.                              *)

FrameTypes == {"SETUP", "LEASE", "KEEPALIVE", "REQUEST_RESPONSE", "CANCEL",
               "RESPONSE", "ERROR", "FIN"}
Frame == [type : FrameTypes, id : Ids \cup {0}, flag : BOOLEAN,
          code : Classes \cup {"NONE"}]

Mk(type, id, flag) == [type |-> type, id |-> id, flag |-> flag, code |-> "NONE"]
MkErrorAsResponse(id, class) == Mk("RESPONSE", id, FALSE)
MkError(id, class) == [type |-> "ERROR", id |-> id, flag |-> FALSE, code |-> class]
Fin == Mk("FIN", 0, FALSE)

InboundStates == {"none", "partial", "pending", "streaming", "responded", "errored"}

TransportStates == {"open", "ended", "finished", "broken", "closed", "crashed"}

Alive(e) == transport[e] # "crashed"
Reading(e) == transport[e] \in {"open", "ended"}

(* What send() gets through.  A write after this end's FIN is lost, and so *)
(* is one to a peer that no longer reads.                                  *)
Outgoing(e, frames) ==
  IF transport[e] = "open" /\ Reading(Peer(e)) THEN frames ELSE <<>>

(* send() outside of a frame handler.                                      *)
Send(e, frames) ==
  /\ wire' = [wire EXCEPT ![Peer(e)] = @ \o Outgoing(e, frames)]
  /\ UNCHANGED <<isClosed, transport>>

(* Frames of this type on their way to e.                                  *)
InFlight(e, type) == Len(SelectSeq(wire[e], LAMBDA f : f.type = type))

Receives(e, type) ==
  /\ Reading(e)
  /\ wire[e] # <<>>
  /\ Head(wire[e]).type = type

(* The part of a frame handler that touches the link: the frame is taken   *)
(* and frames are sent; when closes holds close() runs.                    *)
TakeFrame(e, frames, closes) ==
  /\ wire' = [wire EXCEPT
       ![e] = Tail(@),
       ![Peer(e)] = @ \o Outgoing(e, IF closes THEN Append(frames, Fin) ELSE frames)]
  /\ isClosed' = [isClosed EXCEPT ![e] = @ \/ closes]
  /\ transport' = [transport EXCEPT
       ![e] = IF closes /\ @ = "open" THEN "ended" ELSE @]

(* An error of this class with no listener for it on the connection is     *)
(* emitted as 'error', on which the connection closes itself.              *)
ClosesConnection(class) == class \in {"SETUP", "CONNECTION"} \ Listeners

(* What the initiated stream id of e emits.                                *)
Emit(e, id, names) == events' = [events EXCEPT ![e][id] = @ \o names]

(* startTimeout(), and clearTimeout() in setResponse() and setError().     *)
ArmWhenOpen(e, id) ==
  timer' = IF transport[e] = "open" THEN [timer EXCEPT ![e] = @ \cup {id}] ELSE timer
Arm(e, id) == timer' = [timer EXCEPT ![e] = @ \cup {id}]

(* _getStream(id) answers with the stream in the table or with a fresh     *)
(* one, which nobody listens to: what a handler emits on that is lost.     *)
KnownOnceIssued(e, id) == id \in issued[e] \cup {0}
Known(e, id) == id \in streams[e] /\ id \notin expired[e]

DisarmNever(e, id) == UNCHANGED timer
Disarm(e, id) ==
  timer' = IF Known(e, id) THEN [timer EXCEPT ![e] = @ \ {id}] ELSE timer

(* _deleteStream().                                                        *)
ForgetNever(e, id) == UNCHANGED streams
Forget(e, id) == streams' = [streams EXCEPT ![e] = @ \ {id}]

-----------------------------------------------------------------------------
(* The application's calls                                                 *)

(* The initial value of _streams.latest, and _getNewStream().              *)
FirstLatestSame(e) == 0
FirstLatest(e) == IF e = "client" THEN -1 ELSE 0
NextId(e) == latest[e] + 2
IdsLeftByLatest(e) == latest[e] <= MaxStreamId
IdsLeft(e) == NextId(e) <= MaxStreamId

(* request().  Beyond MAX_STREAM_ID it throws and nothing changes.  The    *)
(* server end has no encodings to serialize with before the setup frame.   *)
Request(e, follows) ==
  LET id == NextId(e)
  IN /\ Alive(e)
     /\ e = "server" => "serverRequests" \in Uses /\ isSetup[e]
     /\ follows => "follows" \in Uses
     /\ IdsLeft(e)
     /\ latest' = [latest EXCEPT ![e] = id]
     /\ streams' = [streams EXCEPT ![e] = @ \cup {id}]
     /\ issued' = [issued EXCEPT ![e] = @ \cup {id}]
     /\ Arm(e, id)
     /\ leaseLeft' = IF "lease" \in Uses /\ e = "client" /\ leaseLeft > 0
                     THEN leaseLeft - 1 ELSE leaseLeft
     /\ Send(e, <<Mk("REQUEST_RESPONSE", id, follows)>>)
     /\ UNCHANGED <<expired, events, inbound, cancelled, isSetup, phase,
                    ticking, leaseLive>>

(* stream.response(): the 'response' it emits makes the connection forget  *)
(* the stream, whether or not more fragments follow.                       *)
Respond(e, id, follows) ==
  /\ Alive(e)
  /\ follows => "follows" \in Uses /\ inbound[e][id] = "pending"
  /\ inbound[e][id] \in {"pending", "streaming"}
  /\ inbound' = [inbound EXCEPT ![e][id] = IF follows THEN "streaming" ELSE "responded"]
  /\ Forget(e, id)
  /\ Send(e, <<Mk("RESPONSE", id, follows)>>)
  /\ UNCHANGED <<latest, issued, timer, expired, events, cancelled, sessionVars>>

(* stream.error(): sends the frame and does nothing else.                  *)
RespondError(e, id, class) ==
  /\ Alive(e)
  /\ inbound[e][id] \in {"pending", "streaming"}
  /\ inbound' = [inbound EXCEPT ![e][id] = "errored"]
  /\ Send(e, <<MkError(id, class)>>)
  /\ UNCHANGED <<latest, streams, issued, timer, expired, events, cancelled,
                 sessionVars>>

(* stream.cancel(), by the initiator or (a use of its own) the responder.  *)
CancelForgets(e, id) ==
  /\ Alive(e)
  /\ \/ "cancel" \in Uses /\ id \in issued[e]
     \/ "refuse" \in Uses /\ inbound[e][id] = "pending"
  /\ id \notin cancelled[e]
  /\ cancelled' = [cancelled EXCEPT ![e] = @ \cup {id}]
  /\ Send(e, <<Mk("CANCEL", id, FALSE)>>)
  /\ Forget(e, id)
  /\ UNCHANGED <<latest, issued, timer, expired, events, inbound,
                 sessionVars>>

Cancel(e, id) ==
  /\ Alive(e)
  /\ \/ "cancel" \in Uses /\ id \in issued[e]
     \/ "refuse" \in Uses /\ inbound[e][id] = "pending"
  /\ id \notin cancelled[e]
  /\ cancelled' = [cancelled EXCEPT ![e] = @ \cup {id}]
  /\ Send(e, <<Mk("CANCEL", id, FALSE)>>)
  /\ UNCHANGED <<latest, streams, issued, timer, expired, events, inbound,
                 sessionVars>>

(* close(): ends the transport, whatever is outstanding.                   *)
Close(e) ==
  /\ Alive(e)
  /\ "close" \in Uses
  /\ ~isClosed[e]
  /\ isClosed' = [isClosed EXCEPT ![e] = TRUE]
  /\ transport' = [transport EXCEPT ![e] = IF @ = "open" THEN "ended" ELSE @]
  /\ wire' = [wire EXCEPT ![Peer(e)] = @ \o Outgoing(e, <<Fin>>)]
  /\ UNCHANGED <<streamVars, sessionVars>>

(* setup() called again by the client's application.                       *)
SetupAgain ==
  /\ Alive("client")
  /\ "setup" \in Uses
  /\ InFlight("server", "SETUP") < PeriodicCap
  /\ Send("client", <<Mk("SETUP", 0, "lease" \in Uses)>>)
  /\ streams' = [streams EXCEPT !["client"] = @ \cup {0}]
  /\ UNCHANGED <<latest, issued, timer, expired, events, inbound, cancelled,
                 sessionVars>>

(* The server's 'setup' listener answers on stream 0 with a setup error.   *)
RejectSetup ==
  /\ Alive("server")
  /\ "setup" \in Uses
  /\ isSetup["server"]
  /\ InFlight("client", "ERROR") < PeriodicCap
  /\ Send("server", <<MkError(0, "SETUP")>>)
  /\ UNCHANGED <<streamVars, sessionVars>>

-----------------------------------------------------------------------------
(* Timers                                                                  *)

(* The request timeout: the stream expires, a CANCEL frame is sent,        *)
(* 'timeout' (on which the connection forgets the stream) and 'terminate'. *)
Timeout(e, id) ==
  /\ Alive(e)
  /\ id \in timer[e]
  /\ timer' = [timer EXCEPT ![e] = @ \ {id}]
  /\ expired' = [expired EXCEPT ![e] = @ \cup {id}]
  /\ Forget(e, id)
  /\ Emit(e, id, <<"timeout", "terminate">>)
  /\ Send(e, <<Mk("CANCEL", id, FALSE)>>)
  /\ UNCHANGED <<latest, issued, inbound, cancelled, sessionVars>>

KeepaliveTick ==
  /\ Alive("client") /\ ticking["client"]
  /\ "keepalive" \in Uses
  /\ \A e \in Endpoints : InFlight(e, "KEEPALIVE") < PeriodicCap
  /\ Send("client", <<Mk("KEEPALIVE", 0, TRUE)>>)
  /\ UNCHANGED <<streamVars, sessionVars>>

LeaseTick ==
  /\ Alive("server") /\ ticking["server"]
  /\ InFlight("client", "LEASE") < PeriodicCap
  /\ Send("server", <<Mk("LEASE", 0, FALSE)>>)
  /\ UNCHANGED <<streamVars, sessionVars>>

(* The clock passes _leaseExpirationDate.                                  *)
LeaseExpires ==
  /\ leaseLive /\ "lease" \in Uses
  /\ leaseLive' = FALSE
  /\ UNCHANGED <<streamVars, isSetup, phase, ticking, leaseLeft, linkVars>>

(* The setImmediate of the constructor, for the client once the setup      *)
(* frame is written: 'ready', or the wait for a first 'lease' event.       *)
FirstPhaseEager(e) == "ready"
FirstPhase(e) == IF e = "client" /\ "lease" \in Uses THEN "leaseWait" ELSE "ready"

Constructed(e) ==
  /\ Alive(e)
  /\ phase[e] = "new"
  /\ phase' = [phase EXCEPT ![e] = FirstPhase(e)]
  /\ UNCHANGED <<streamVars, isSetup, ticking, leaseLeft, leaseLive, linkVars>>

-----------------------------------------------------------------------------
(* Frame handlers                                                          *)

(* A setup frame that is not an extra one, and the lease ticker it starts. *)
AcceptsSetupTwice(e) == isSetup[e] /\ e = "server"
AcceptsSetup(e) == ~isSetup[e] /\ e = "server"
StartTickerNever(e) == UNCHANGED ticking
StartTicker(e) == ticking' = [ticking EXCEPT ![e] = TRUE]

HandleSetup(e) ==
  LET grants == AcceptsSetup(e) /\ Head(wire[e]).flag
  IN /\ Receives(e, "SETUP")
     /\ streams' = [streams EXCEPT ![e] = @ \cup {0}]
     /\ isSetup' = [isSetup EXCEPT ![e] = @ \/ AcceptsSetup(e)]
     /\ IF grants THEN StartTicker(e) ELSE UNCHANGED ticking
     /\ TakeFrame(e, IF grants THEN <<Mk("LEASE", 0, FALSE)>> ELSE <<>>,
                  ~AcceptsSetup(e) /\ ClosesConnection("SETUP"))
     /\ UNCHANGED <<latest, issued, timer, expired, events, inbound, cancelled,
                    phase, leaseLeft, leaseLive>>

HandleLease(e) ==
  /\ Receives(e, "LEASE")
  /\ leaseLeft' = LeaseBudget
  /\ leaseLive' = TRUE
  /\ phase' = [phase EXCEPT ![e] = IF @ = "leaseWait" THEN "ready" ELSE @]
  /\ TakeFrame(e, <<>>, FALSE)
  /\ UNCHANGED <<streamVars, isSetup, ticking>>

HandleKeepalive(e) ==
  /\ Receives(e, "KEEPALIVE")
  /\ TakeFrame(e, IF Head(wire[e]).flag THEN <<Mk("KEEPALIVE", 0, FALSE)>> ELSE <<>>,
               FALSE)
  /\ UNCHANGED <<streamVars, sessionVars>>

(* A server that has had no setup frame ignores the request.               *)
HandleRequest(e) ==
  LET f == Head(wire[e])
      heard == isSetup[e] \/ e = "client"
  IN /\ Receives(e, "REQUEST_RESPONSE")
     /\ streams' = IF heard THEN [streams EXCEPT ![e] = @ \cup {f.id}] ELSE streams
     /\ inbound' = IF heard
                   THEN [inbound EXCEPT ![e][f.id] = IF f.flag THEN "partial" ELSE "pending"]
                   ELSE inbound
     /\ TakeFrame(e, <<>>, FALSE)
     /\ UNCHANGED <<latest, issued, timer, expired, events, cancelled, sessionVars>>

(* The timer is cleared and the stream forgotten even when the frame is    *)
(* only a fragment; the events wait for a frame without FOLLOWS.           *)
HandleResponse(e) ==
  LET f == Head(wire[e])
  IN /\ Receives(e, "RESPONSE")
     /\ Disarm(e, f.id)
     /\ IF Known(e, f.id) /\ ~f.flag
        THEN Emit(e, f.id, <<"response", "terminate">>) ELSE UNCHANGED events
     /\ Forget(e, f.id)
     /\ TakeFrame(e, <<>>, FALSE)
     /\ UNCHANGED <<latest, issued, expired, inbound, cancelled, sessionVars>>

(* CONNECTION_ERROR has an event on the connection and none on the stream. *)
HandleError(e) ==
  LET f == Head(wire[e])
  IN /\ Receives(e, "ERROR")
     /\ f.id \in streams[e] \/ f.code # "UNKNOWN"
     /\ Disarm(e, f.id)
     /\ IF Known(e, f.id) /\ f.id # 0
        THEN Emit(e, f.id, IF f.code = "CONNECTION" THEN <<"terminate">>
                           ELSE <<"error", "terminate">>)
        ELSE UNCHANGED events
     /\ Forget(e, f.id)
     /\ TakeFrame(e, <<>>, ClosesConnection(f.code))
     /\ UNCHANGED <<latest, issued, expired, inbound, cancelled, sessionVars>>

(* A code without an event of its own is emitted as 'error': on the fresh  *)
(* stream of an unknown id that has no listener and throws, which ends the *)
(* process.  The operating system then closes the socket.                  *)
UnheardError(e) ==
  LET f == Head(wire[e])
  IN /\ Receives(e, "ERROR")
     /\ f.id \notin streams[e] /\ f.code = "UNKNOWN"
     /\ transport' = [transport EXCEPT ![e] = "crashed"]
     /\ wire' = [wire EXCEPT ![e] = <<>>, ![Peer(e)] = @ \o Outgoing(e, <<Fin>>)]
     /\ UNCHANGED <<streamVars, sessionVars, isClosed>>

(* setCancel looks neither at _expired nor at the timer.                   *)
HandleCancel(e) ==
  LET f == Head(wire[e])
  IN /\ Receives(e, "CANCEL")
     /\ IF f.id \in streams[e] \cap issued[e]
        THEN Emit(e, f.id, <<"cancel", "terminate">>) ELSE UNCHANGED events
     /\ Forget(e, f.id)
     /\ TakeFrame(e, <<>>, FALSE)
     /\ UNCHANGED <<latest, issued, timer, expired, inbound, cancelled, sessionVars>>

-----------------------------------------------------------------------------
(* The transport: a TCP socket with allowHalfOpen off                      *)

(* 'end': the socket ends its own side too.                                *)
ReceiveFinHalfOpen(e) ==
  /\ Receives(e, "FIN")
  /\ transport' = [transport EXCEPT ![e] = "ended"]
  /\ wire' = [wire EXCEPT ![e] = Tail(@)]
  /\ UNCHANGED <<streamVars, sessionVars, isClosed>>

ReceiveFin(e) ==
  /\ Receives(e, "FIN")
  /\ transport' = [transport EXCEPT ![e] = "finished"]
  /\ wire' = [wire EXCEPT ![e] = Tail(@), ![Peer(e)] = @ \o Outgoing(e, <<Fin>>)]
  /\ UNCHANGED <<streamVars, sessionVars, isClosed>>

(* 'error': nothing more is read, and the connection closes itself.  The   *)
(* peer may or may not learn of it.  A write after the peer's FIN is one   *)
(* such error.                                                             *)
TransportError(e, seen) ==
  /\ "reset" \in Uses
  /\ transport[e] \in {"open", "ended", "finished"}
  /\ transport' = [transport EXCEPT ![e] = "broken"]
  /\ wire' = [wire EXCEPT ![e] = <<>>,
       ![Peer(e)] = @ \o Outgoing(e, IF seen THEN <<Fin>> ELSE <<>>)]
  /\ isClosed' = [isClosed EXCEPT ![e] = TRUE]
  /\ UNCHANGED <<streamVars, sessionVars>>

(* Of the streams in the table, those that get an outcome when the         *)
(* transport closes, and those whose 'error' listener deletes them.        *)
ToldFromTwo(e) == {id \in streams[e] \cap issued[e] : id > 1}
Told(e) == {id \in streams[e] \cap issued[e] : id \notin expired[e]}
Freed(e) == {id \in streams[e] \cap Ids : inbound[e][id] # "none"}

(* 'close': every stream of the table is told.  An initiated one stays in  *)
(* the table; an inbound one has a listener that removes it.  The tickers  *)
(* are stopped.  _isClosed is not touched.                                 *)
TransportClose(e) ==
  LET told == Told(e)
  IN /\ transport[e] \in {"finished", "broken"}
     /\ transport' = [transport EXCEPT ![e] = "closed"]
     /\ events' = [events EXCEPT ![e] = [id \in Ids |->
          IF id \in told THEN events[e][id] \o <<"error", "terminate">>
          ELSE events[e][id]]]
     /\ timer' = [timer EXCEPT ![e] = @ \ told]
     /\ streams' = [streams EXCEPT ![e] = @ \ Freed(e)]
     /\ ticking' = [ticking EXCEPT ![e] = FALSE]
     /\ UNCHANGED <<latest, issued, expired, inbound, cancelled, isSetup, phase,
                    leaseLeft, leaseLive, isClosed, wire>>

-----------------------------------------------------------------------------

(* Both ends have run their constructors: the client has written its setup *)
(* frame and holds stream 0.                                               *)
Init ==
  /\ latest = [e \in Endpoints |-> FirstLatest(e)]
  /\ streams = [e \in Endpoints |-> IF e = "client" THEN {0} ELSE {}]
  /\ issued = [e \in Endpoints |-> {}]
  /\ timer = [e \in Endpoints |-> {}]
  /\ expired = [e \in Endpoints |-> {}]
  /\ events = [e \in Endpoints |-> [id \in Ids |-> <<>>]]
  /\ inbound = [e \in Endpoints |-> [id \in Ids |-> "none"]]
  /\ cancelled = [e \in Endpoints |-> {}]
  /\ isSetup = [e \in Endpoints |-> FALSE]
  /\ isClosed = [e \in Endpoints |-> FALSE]
  /\ phase = [e \in Endpoints |-> "new"]
  /\ ticking = [e \in Endpoints |-> e = "client"]
  /\ leaseLeft = IF "lease" \in Uses THEN 0 ELSE LeaseBudget
  /\ leaseLive = ("lease" \notin Uses)
  /\ transport = [e \in Endpoints |-> "open"]
  /\ wire = [e \in Endpoints |->
       IF e = "server" THEN <<Mk("SETUP", 0, "lease" \in Uses)>> ELSE <<>>]

Application(e) ==
  \/ \E follows \in BOOLEAN : Request(e, follows)
  \/ \E id \in Ids, follows \in BOOLEAN : Respond(e, id, follows)
  \/ \E id \in Ids, class \in ErrorClasses : RespondError(e, id, class)
  \/ \E id \in Ids : Cancel(e, id)
  \/ Close(e)

Handle(e) ==
  \/ HandleSetup(e)
  \/ HandleLease(e)
  \/ HandleKeepalive(e)
  \/ HandleRequest(e)
  \/ HandleResponse(e)
  \/ HandleError(e)
  \/ UnheardError(e)
  \/ HandleCancel(e)
  \/ ReceiveFin(e)

Next ==
  \/ \E e \in Endpoints :
       \/ Application(e)
       \/ Handle(e)
       \/ \E id \in Ids : Timeout(e, id)
       \/ Constructed(e)
       \/ \E seen \in BOOLEAN : TransportError(e, seen)
       \/ TransportClose(e)
  \/ SetupAgain
  \/ RejectSetup
  \/ KeepaliveTick
  \/ LeaseTick
  \/ LeaseExpires

Spec == Init /\ [][Next]_vars

(* The event loops turn: what has arrived is handled, timers fire, sockets *)
(* that are done close.  Applications and failures owe nothing.            *)
Fairness ==
  /\ \A e \in Endpoints :
       /\ WF_vars(Handle(e))
       /\ WF_vars(Constructed(e))
       /\ WF_vars(TransportClose(e))
       /\ \A id \in Ids : WF_vars(Timeout(e, id))
  /\ WF_vars(LeaseTick)

FairSpec == Spec /\ Fairness

-----------------------------------------------------------------------------
(* Properties                                                              *)

(* availability(): a lease matters to a client that asked for one.         *)
Availability(e) ==
  IF isClosed[e] \/ (e = "client" /\ "lease" \in Uses /\ ~(leaseLeft > 0 /\ leaseLive))
  THEN 0 ELSE 1

EventNames == {"response", "error", "timeout", "cancel", "terminate"}

Settlements == {<<"terminate">>} \cup
  {<<name, "terminate">> : name \in {"response", "error", "timeout"}}

Unresolved(e) == {id \in issued[e] : events[e][id] = <<>>}

(* Every variable stays in its type.                                       *)
TypeOK ==
  /\ latest \in [Endpoints -> -1..MaxStreamId]
  /\ streams \in [Endpoints -> SUBSET (Ids \cup {0})]
  /\ issued \in [Endpoints -> SUBSET Ids]
  /\ timer \in [Endpoints -> SUBSET Ids]
  /\ expired \in [Endpoints -> SUBSET Ids]
  /\ events \in [Endpoints -> [Ids -> Seq(EventNames)]]
  /\ inbound \in [Endpoints -> [Ids -> InboundStates]]
  /\ cancelled \in [Endpoints -> SUBSET Ids]
  /\ isSetup \in [Endpoints -> BOOLEAN]
  /\ isClosed \in [Endpoints -> BOOLEAN]
  /\ phase \in [Endpoints -> {"new", "leaseWait", "ready"}]
  /\ ticking \in [Endpoints -> BOOLEAN]
  /\ leaseLeft \in 0..LeaseBudget
  /\ leaseLive \in BOOLEAN
  /\ transport \in [Endpoints -> TransportStates]
  /\ wire \in [Endpoints -> Seq(Frame)]

(* A request is settled once: a stream emits one outcome and 'terminate'   *)
(* in one turn, and nothing after it, whichever of a response, an error, a *)
(* timeout and the closing of the transport comes first and whatever comes *)
(* later.  ('terminate' alone: an error meant for the whole connection.)   *)
SettledOnce ==
  \A e \in Endpoints, id \in Ids :
    events[e][id] \in Settlements \cup {<<>>}

(* A request is waited for exactly as long as its timeout is armed: no     *)
(* outcome leaves the timer behind, none is lost because it was cleared.   *)
WaitingIsTimed == \A e \in Endpoints : timer[e] = Unresolved(e)

(* Every entry of the table of streams is accounted for.  A request waited *)
(* for is in it, so that its answer is heard.  What else is in it is       *)
(* stream 0, an inbound request that nobody has answered, or one of the    *)
(* two that the code leaves behind: an inbound request answered with       *)
(* error(), until the transport closes, and an own request that the        *)
(* closing of the transport has settled.                                   *)
LeftBehind(e, id) ==
  IF id \in issued[e] THEN transport[e] = "closed"
  ELSE transport[e] # "closed" /\ inbound[e][id] = "errored"

TableIsAccountedFor ==
  \A e \in Endpoints :
    /\ Unresolved(e) \subseteq streams[e]
    /\ \A id \in streams[e] \ (Unresolved(e) \cup {0}) :
         \/ transport[e] # "closed" /\ inbound[e][id] \in {"partial", "pending"}
         \/ LeftBehind(e, id)

(* The two ends never use the same id, and an end that holds an inbound    *)
(* request holds one its peer made.                                        *)
IdsAreOwned ==
  /\ issued["client"] \cap issued["server"] = {}
  /\ \A e \in Endpoints, id \in Ids :
       inbound[e][id] # "none" => id \in issued[Peer(e)]

(* What a request emits has a cause at the other end.  A 'response' was    *)
(* given to that very request by the peer's application, and in full; a    *)
(* 'cancel' is a refusal of it; an 'error' was given to it, or is the loss *)
(* of the transport.                                                       *)
OutcomeHasCause ==
  \A e \in Endpoints, id \in Ids : \A i \in DOMAIN events[e][id] :
    /\ events[e][id][i] = "response" => inbound[Peer(e)][id] = "responded"
    /\ events[e][id][i] = "cancel" => id \in cancelled[Peer(e)]
    /\ events[e][id][i] = "error" =>
         inbound[Peer(e)][id] = "errored" \/ transport[e] = "closed"

(* All that ends the process is an error of unknown code that has come too *)
(* late: the request it was given to has timed out, so that there is no    *)
(* stream of it to emit the error on.                                      *)
OnlyLateErrorsCrash ==
  \A e \in Endpoints :
    ~Alive(e) => \E id \in expired[e] : inbound[Peer(e)][id] = "errored"

(* No request is dropped for arriving before the setup frame.              *)
SetupFirst ==
  Receives("server", "REQUEST_RESPONSE") => isSetup["server"]

(* A client that asked for a lease is 'ready' only when the server has set *)
(* the connection up and granted it requests.                              *)
ReadyIsLeased ==
  phase["client"] = "ready" /\ "lease" \in Uses =>
    isSetup["server"] /\ (leaseLeft > 0 \/ issued["client"] # {})

(* The inductive invariant behind SettledOnce, WaitingIsTimed and          *)
(* TableIsAccountedFor, which hold together or not at all: that a late     *)
(* frame finds no stream rests on the table, the table rests on who may    *)
(* use which id, and that rests on what is on the wire.  It is one when    *)
(* neither "follows" nor "refuse" is used.                                 *)
OwnIds(e) == {id \in Ids : id % 2 = IF e = "client" THEN 1 ELSE 0}

FramesTo(e) == {f \in Frame :
  /\ f.type \in {"REQUEST_RESPONSE", "CANCEL"} => f.id \in OwnIds(Peer(e))
  /\ f.type = "RESPONSE" => f.id \in OwnIds(e) /\ ~f.flag
  /\ f.type = "ERROR" => f.id \in OwnIds(e) \cup {0}}

Books(e) ==
  /\ latest[e] % 2 = IF e = "client" THEN 1 ELSE 0
  /\ \A id \in issued[e] : id \in OwnIds(e) /\ id <= latest[e]
  /\ \A id \in Ids : 
       events[e][id] # <<>> => events[e][id] \in Settlements /\ id \in issued[e]
  /\ timer[e] = Unresolved(e)
  /\ \A id \in expired[e] : events[e][id] # <<>>
  /\ \A id \in Ids : inbound[e][id] # "none" => id \in OwnIds(Peer(e))
  /\ streams[e] \cap OwnIds(e) \subseteq issued[e]
  /\ Unresolved(e) \subseteq streams[e]
  /\ transport[e] # "closed" => streams[e] \cap issued[e] \subseteq Unresolved(e)
  /\ \A id \in streams[e] \ (OwnIds(e) \cup {0}) :
       transport[e] # "closed" /\ inbound[e][id] \in {"partial", "pending", "errored"}

IndInv ==
  /\ TypeOK
  /\ \A e \in Endpoints : Books(e) /\ wire[e] \in Seq(FramesTo(e))

(* When the transport closes every request waited for gets its outcome in  *)
(* that step, no timeout is left armed and no ticker left running.         *)
CloseSettles ==
  [][\A e \in Endpoints :
       transport'[e] = "closed" /\ transport[e] # "closed" =>
         /\ \A id \in Unresolved(e) : events'[e][id] = <<"error", "terminate">>
         /\ timer'[e] = {}
         /\ ~ticking'[e]]_vars

(* Every request comes to an end, unless the process does.                 *)
RequestsTerminate ==
  \A e \in Endpoints, id \in Ids :
    id \in issued[e] ~> (events[e][id] # <<>> \/ ~Alive(e))

(* An end that closes its transport brings the other end's down too.       *)
ClosePropagates ==
  \A e \in Endpoints :
    transport[e] = "ended" ~> transport[Peer(e)] \in {"closed", "crashed"}

(* The client becomes ready, or its transport goes.                        *)
EventuallyReady ==
  <>(phase["client"] = "ready" \/ transport["client"] # "open" \/ transport["server"] # "open")

-----------------------------------------------------------------------------
(* What comments and documentation say and the code does not do            *)

(* stream.js: after cancel() "ignore any subsequent responses".            *)
CancelledHearNothing ==
  [][\A e \in Endpoints : \A id \in cancelled[e] :
       events'[e][id] # events[e][id] => events'[e][id] # <<"response", "terminate">>]_vars

(* stream.js: 'terminate' is the "last event".                             *)
TerminateIsLast ==
  \A e \in Endpoints, id \in Ids :
    \A i \in DOMAIN events[e][id] :
      events[e][id][i] = "terminate" => i = Len(events[e][id])

(* stream.js: "connection-error When an error is received by this stream". *)
ErrorsAreEmitted ==
  \A e \in Endpoints, id \in Ids : events[e][id] # <<"terminate">>

(* framedConnection.test.js: once all requests are answered, "we should    *)
(* only have the setup stream cached in the connection".                   *)
AnsweredIsForgotten ==
  \A e \in Endpoints : \A id \in streams[e] \cap Ids :
    inbound[e][id] \notin {"responded", "errored"}

(* README: availability() is 0 when the connection cannot take requests.   *)
ClosedIsUnavailable ==
  \A e \in Endpoints : transport[e] = "closed" => Availability(e) = 0

(* parseFrame.js: "we just ignore an error code that we don't know".       *)
UnknownCodesAreIgnored == \A e \in Endpoints : Alive(e)
=============================================================================
