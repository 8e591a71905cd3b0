------------------------ MODULE ReactiveSocketProofs ------------------------
(***************************************************************************)
(* Theorems about module ReactiveSocket, for every number of streams and   *)
(* every set of uses, with their proofs.                                   *)
(***************************************************************************)
EXTENDS ReactiveSocket, SequenceTheorems, TLAPS

-----------------------------------------------------------------------------
(* Type correctness                                                        *)

(* The part of TypeOK about the link between the two ends.                 *)
LinkTypeOK ==
  /\ isClosed \in [Endpoints -> BOOLEAN]
  /\ transport \in [Endpoints -> TransportStates]
  /\ wire \in [Endpoints -> Seq(Frame)]

(* The peer of an endpoint is the other endpoint.                          *)
LEMMA PeerType ==
  \A e \in Endpoints : Peer(e) \in Endpoints /\ Peer(e) # e
BY DEF Endpoints, Peer

(* The frames the actions make are frames.                                 *)
LEMMA FramesType ==
  /\ \A type \in FrameTypes, id \in Ids \cup {0}, flag \in BOOLEAN :
       Mk(type, id, flag) \in Frame
  /\ \A id \in Ids \cup {0}, class \in Classes : MkError(id, class) \in Frame
  /\ Mk("SETUP", 0, "lease" \in Uses) \in Frame
  /\ Fin \in Frame
BY DEF Mk, MkError, Fin, Frame, FrameTypes, Classes

(* Appending what gets through of some frames leaves a queue of frames.    *)
LEMMA OutgoingType ==
  ASSUME NEW S, NEW q \in Seq(S), NEW frames \in Seq(S), NEW e
  PROVE  q \o Outgoing(e, frames) \in Seq(S)
<1>1. Outgoing(e, frames) \in Seq(S)
  BY EmptySeq DEF Outgoing
<1> QED
  BY <1>1, ConcatProperties

(* send() outside of a frame handler keeps the link in its type.           *)
LEMMA SendType ==
  ASSUME LinkTypeOK, NEW e \in Endpoints, NEW f \in Frame, Send(e, <<f>>)
  PROVE  LinkTypeOK'
<1>1. <<f>> \in Seq(Frame) /\ wire[Peer(e)] \in Seq(Frame)
  BY PeerType DEF LinkTypeOK
<1>2. wire[Peer(e)] \o Outgoing(e, <<f>>) \in Seq(Frame)
  BY <1>1, OutgoingType
<1> QED
  BY <1>2, PeerType DEF LinkTypeOK, Send

(* Taking a frame and sending others keeps the link in its type, whether   *)
(* or not the connection closes itself over it.                            *)
LEMMA TakeFrameType ==
  ASSUME LinkTypeOK, NEW e \in Endpoints, NEW frames \in Seq(Frame),
         NEW closes \in BOOLEAN, wire[e] # <<>>, TakeFrame(e, frames, closes)
  PROVE  LinkTypeOK'
<1> DEFINE sent == IF closes THEN Append(frames, Fin) ELSE frames
<1>1. sent \in Seq(Frame)
  BY FramesType, AppendProperties
<1>2. Tail(wire[e]) \in Seq(Frame)
  BY HeadTailProperties DEF LinkTypeOK
<1>3. wire[Peer(e)] \o Outgoing(e, sent) \in Seq(Frame)
  BY <1>1, OutgoingType, PeerType DEF LinkTypeOK
<1> HIDE DEF sent
<1>4. wire' = [wire EXCEPT ![e] = Tail(@), ![Peer(e)] = @ \o Outgoing(e, sent)]
  BY DEF TakeFrame, sent
<1>5. wire' \in [Endpoints -> Seq(Frame)]
  BY <1>2, <1>3, <1>4, PeerType DEF LinkTypeOK
<1>6. isClosed' \in [Endpoints -> BOOLEAN] /\ transport' \in [Endpoints -> TransportStates]
  BY DEF LinkTypeOK, TakeFrame, TransportStates
<1> QED
  BY <1>5, <1>6 DEF LinkTypeOK

(* The part of TypeOK about the streams.                                   *)
StreamTypeOK ==
  /\ latest \in [Endpoints -> -1..MaxStreamId]
  /\ streams \in [Endpoints -> SUBSET (Ids \cup {0})]
  /\ issued \in [Endpoints -> SUBSET Ids]
  /\ timer \in [Endpoints -> SUBSET Ids]
  /\ expired \in [Endpoints -> SUBSET Ids]
  /\ events \in [Endpoints -> [Ids -> Seq(EventNames)]]
  /\ inbound \in [Endpoints -> [Ids -> InboundStates]]
  /\ cancelled \in [Endpoints -> SUBSET Ids]

(* The part of TypeOK about setup, leases and tickers.                     *)
SessionTypeOK ==
  /\ isSetup \in [Endpoints -> BOOLEAN]
  /\ phase \in [Endpoints -> {"new", "leaseWait", "ready"}]
  /\ ticking \in [Endpoints -> BOOLEAN]
  /\ leaseLeft \in 0..LeaseBudget
  /\ leaseLive \in BOOLEAN

(* TypeOK is its three parts, before a step and after it.                  *)
LEMMA TypeParts ==
  /\ TypeOK <=> StreamTypeOK /\ SessionTypeOK /\ LinkTypeOK
  /\ TypeOK' <=> StreamTypeOK' /\ SessionTypeOK' /\ LinkTypeOK'
BY DEF TypeOK, StreamTypeOK, SessionTypeOK, LinkTypeOK

(* A function is not changed by an update outside of its domain.           *)
LEMMA ExceptElsewhere ==
  ASSUME NEW D, NEW S, NEW g \in [D -> S], NEW x, x \notin D, NEW v
  PROVE  [g EXCEPT ![x] = v] = g
OBVIOUS

(* The empty sequence is a queue of whatever it should hold.               *)
LEMMA NoFrames == \A S : <<>> \in Seq(S)
OBVIOUS

(* A sequence of one element of a set is a sequence over that set.         *)
LEMMA OneOf ==
  ASSUME NEW S, NEW f \in S
  PROVE  <<f>> \in Seq(S)
OBVIOUS

(* Emitting events keeps the histories of events in their type.            *)
LEMMA EmitType ==
  ASSUME events \in [Endpoints -> [Ids -> Seq(EventNames)]],
         NEW e \in Endpoints, NEW id \in Ids, NEW names \in Seq(EventNames),
         Emit(e, id, names)
  PROVE  events' \in [Endpoints -> [Ids -> Seq(EventNames)]]
<1>1. events[e][id] \o names \in Seq(EventNames)
  BY ConcatProperties
<1> QED
  BY <1>1 DEF Emit

(* The event lists that one turn of a stream emits are in the type of the  *)
(* histories.                                                              *)
LEMMA EventPairs ==
  /\ <<"terminate">> \in Seq(EventNames)
  /\ \A name \in EventNames : <<name, "terminate">> \in Seq(EventNames)
BY DEF EventNames

(* A step in which none of the variables of a group changes.               *)
LEMMA Unchanged ==
  /\ StreamTypeOK /\ UNCHANGED streamVars => StreamTypeOK'
  /\ SessionTypeOK /\ UNCHANGED sessionVars => SessionTypeOK'
  /\ LinkTypeOK /\ UNCHANGED linkVars => LinkTypeOK'
BY DEF StreamTypeOK, SessionTypeOK, LinkTypeOK, streamVars, sessionVars, linkVars

(* The head of a queue of frames is a frame.                               *)
LEMMA HeadType ==
  ASSUME LinkTypeOK, NEW e \in Endpoints, NEW type, Receives(e, type)
  PROVE  /\ wire[e] # <<>>
         /\ Head(wire[e]) \in Frame
         /\ Head(wire[e]).type = type
         /\ Head(wire[e]).id \in Ids \cup {0}
         /\ Head(wire[e]).flag \in BOOLEAN
<1>1. wire[e] \in Seq(Frame) /\ wire[e] # <<>> /\ Head(wire[e]).type = type
  BY DEF LinkTypeOK, Receives
<1>2. Head(wire[e]) \in Frame
  BY <1>1, HeadTailProperties
<1> QED
  BY <1>1, <1>2 DEF Frame

(* Two ends that have just been constructed are of the declared type.      *)
LEMMA TypeInit == Init => TypeOK
<1> SUFFICES ASSUME Init PROVE TypeOK
  OBVIOUS
<1>1. StreamTypeOK
  <2>1. Ids \in SUBSET Nat /\ -1 \in -1..MaxStreamId /\ 0 \in -1..MaxStreamId
    BY ConstantsOK DEF Ids
  <2>2. <<>> \in Seq(EventNames)
    OBVIOUS
  <2> QED
    BY <2>1, <2>2 DEF Init, StreamTypeOK, FirstLatest, InboundStates, Endpoints
<1>2. SessionTypeOK
  BY ConstantsOK DEF Init, SessionTypeOK
<1>3. LinkTypeOK
  <2>1. Mk("SETUP", 0, "lease" \in Uses) \in Frame
    BY FramesType
  <2>2. \A e \in Endpoints :
          (IF e = "server" THEN <<Mk("SETUP", 0, "lease" \in Uses)>> ELSE <<>>) \in Seq(Frame)
    BY <2>1
  <2> QED
    BY <2>2 DEF Init, LinkTypeOK, TransportStates
<1> QED
  BY <1>1, <1>2, <1>3, TypeParts

(* The applications' calls keep every variable in its type.                *)
LEMMA TypeApplication ==
  ASSUME TypeOK, NEW e \in Endpoints, Application(e)
  PROVE  TypeOK'
<1> USE TypeParts
<1>1. ASSUME NEW follows \in BOOLEAN, Request(e, follows)
      PROVE  TypeOK'
  <2>1. NextId(e) \in Ids /\ NextId(e) \in -1..MaxStreamId
    BY <1>1, ConstantsOK DEF Request, NextId, IdsLeft, StreamTypeOK, Ids
  <2>2. StreamTypeOK'
    BY <1>1, <2>1 DEF StreamTypeOK, Request, Arm
  <2>3. SessionTypeOK'
    BY <1>1, ConstantsOK DEF SessionTypeOK, Request
  <2>4. Mk("REQUEST_RESPONSE", NextId(e), follows) \in Frame
    BY <2>1, FramesType DEF FrameTypes
  <2>5. LinkTypeOK'
    BY <1>1, <2>4, SendType DEF Request
  <2> QED
    BY <2>2, <2>3, <2>5
<1>2. ASSUME NEW id \in Ids, NEW follows \in BOOLEAN, Respond(e, id, follows)
      PROVE  TypeOK'
  <2>1. StreamTypeOK'
    BY <1>2 DEF StreamTypeOK, Respond, Forget, InboundStates
  <2>2. Mk("RESPONSE", id, follows) \in Frame
    BY FramesType DEF FrameTypes
  <2>3. LinkTypeOK'
    BY <1>2, <2>2, SendType DEF Respond
  <2> QED
    BY <1>2, <2>1, <2>3, Unchanged DEF Respond
<1>3. ASSUME NEW id \in Ids, NEW class \in ErrorClasses, RespondError(e, id, class)
      PROVE  TypeOK'
  <2>1. StreamTypeOK'
    BY <1>3 DEF StreamTypeOK, RespondError, InboundStates
  <2>2. MkError(id, class) \in Frame
    BY FramesType, ConstantsOK
  <2>3. LinkTypeOK'
    BY <1>3, <2>2, SendType DEF RespondError
  <2> QED
    BY <1>3, <2>1, <2>3, Unchanged DEF RespondError
<1>4. ASSUME NEW id \in Ids, Cancel(e, id)
      PROVE  TypeOK'
  <2>1. StreamTypeOK'
    BY <1>4 DEF StreamTypeOK, Cancel
  <2>2. Mk("CANCEL", id, FALSE) \in Frame
    BY FramesType DEF FrameTypes
  <2>3. LinkTypeOK'
    BY <1>4, <2>2, SendType DEF Cancel
  <2> QED
    BY <1>4, <2>1, <2>3, Unchanged DEF Cancel
<1>5. CASE Close(e)
  <2>1. <<Fin>> \in Seq(Frame) /\ wire[Peer(e)] \in Seq(Frame)
    BY FramesType, PeerType DEF LinkTypeOK
  <2>2. wire[Peer(e)] \o Outgoing(e, <<Fin>>) \in Seq(Frame)
    BY <2>1, OutgoingType
  <2>3. LinkTypeOK'
    BY <1>5, <2>2, PeerType DEF Close, LinkTypeOK, TransportStates
  <2> QED
    BY <1>5, <2>3, Unchanged DEF Close
<1> QED
  BY <1>1, <1>2, <1>3, <1>4, <1>5 DEF Application

(* So do the timers, the second setup() and its refusal.                   *)
LEMMA TypeTimers ==
  ASSUME TypeOK,
         \/ SetupAgain \/ RejectSetup \/ KeepaliveTick \/ LeaseTick \/ LeaseExpires
         \/ \E e \in Endpoints : Constructed(e) \/ \E id \in Ids : Timeout(e, id)
  PROVE  TypeOK'
<1> USE TypeParts
<1>c. "client" \in Endpoints /\ "server" \in Endpoints
  BY DEF Endpoints
<1>1. CASE SetupAgain
  <2>1. StreamTypeOK'
    BY <1>1 DEF StreamTypeOK, SetupAgain
  <2>2. Mk("SETUP", 0, "lease" \in Uses) \in Frame
    BY FramesType
  <2>3. LinkTypeOK'
    BY <1>1, <1>c, <2>2, SendType DEF SetupAgain
  <2> QED
    BY <1>1, <2>1, <2>3, Unchanged DEF SetupAgain
<1>2. CASE RejectSetup
  <2>1. MkError(0, "SETUP") \in Frame
    BY FramesType DEF Classes
  <2>2. LinkTypeOK'
    BY <1>2, <1>c, <2>1, SendType DEF RejectSetup
  <2> QED
    BY <1>2, <2>2, Unchanged DEF RejectSetup
<1>3. CASE KeepaliveTick
  <2>1. Mk("KEEPALIVE", 0, TRUE) \in Frame
    BY FramesType DEF FrameTypes
  <2>2. LinkTypeOK'
    BY <1>3, <1>c, <2>1, SendType DEF KeepaliveTick
  <2> QED
    BY <1>3, <2>2, Unchanged DEF KeepaliveTick
<1>4. CASE LeaseTick
  <2>1. Mk("LEASE", 0, FALSE) \in Frame
    BY FramesType DEF FrameTypes
  <2>2. LinkTypeOK'
    BY <1>4, <1>c, <2>1, SendType DEF LeaseTick
  <2> QED
    BY <1>4, <2>2, Unchanged DEF LeaseTick
<1>5. CASE LeaseExpires
  <2>1. SessionTypeOK'
    BY <1>5 DEF SessionTypeOK, LeaseExpires
  <2> QED
    BY <1>5, <2>1, Unchanged DEF LeaseExpires
<1>6. ASSUME NEW e \in Endpoints, Constructed(e)
      PROVE  TypeOK'
  <2>1. SessionTypeOK'
    BY <1>6 DEF SessionTypeOK, Constructed, FirstPhase
  <2> QED
    BY <1>6, <2>1, Unchanged DEF Constructed
<1>7. ASSUME NEW e \in Endpoints, NEW id \in Ids, Timeout(e, id)
      PROVE  TypeOK'
  <2>1. events' \in [Endpoints -> [Ids -> Seq(EventNames)]]
    <3>1. <<"timeout", "terminate">> \in Seq(EventNames)
      BY EventPairs DEF EventNames
    <3> QED
      BY <1>7, <3>1, EmitType DEF Timeout, StreamTypeOK
  <2>2. StreamTypeOK'
    <3>1. timer' \in [Endpoints -> SUBSET Ids] /\ expired' \in [Endpoints -> SUBSET Ids]
      BY <1>7 DEF StreamTypeOK, Timeout
    <3>2. streams' \in [Endpoints -> SUBSET (Ids \cup {0})]
      BY <1>7 DEF StreamTypeOK, Timeout, Forget
    <3> QED
      BY <1>7, <2>1, <3>1, <3>2 DEF StreamTypeOK, Timeout
  <2>3. Mk("CANCEL", id, FALSE) \in Frame
    BY FramesType DEF FrameTypes
  <2>4. LinkTypeOK'
    BY <1>7, <2>3, SendType DEF Timeout
  <2> QED
    BY <1>7, <2>2, <2>4, Unchanged DEF Timeout
<1> QED
  BY <1>1, <1>2, <1>3, <1>4, <1>5, <1>6, <1>7

(* The parts of a frame handler: the frame at the head of the queue is     *)
(* taken and frames are sent.                                              *)
LEMMA TypeHandle ==
  ASSUME TypeOK, NEW e \in Endpoints, Handle(e)
  PROVE  TypeOK'
<1> USE TypeParts
<1> DEFINE f == Head(wire[e])
<1>e. <<>> \in Seq(Frame)
  OBVIOUS
<1>1. CASE HandleSetup(e)
  <2>1. wire[e] # <<>> /\ f.flag \in BOOLEAN
    BY <1>1, HeadType DEF HandleSetup
  <2>2. StreamTypeOK' /\ SessionTypeOK'
    BY <1>1 DEF StreamTypeOK, SessionTypeOK, HandleSetup, AcceptsSetup, StartTicker
  <2>3. <<Mk("LEASE", 0, FALSE)>> \in Seq(Frame)
    <3>1. Mk("LEASE", 0, FALSE) \in Frame
      BY FramesType DEF FrameTypes
    <3> QED
      BY <3>1, OneOf
  <2>4. LinkTypeOK'
    <3> DEFINE sent == IF AcceptsSetup(e) /\ f.flag THEN <<Mk("LEASE", 0, FALSE)>> ELSE <<>>
               closes == ~AcceptsSetup(e) /\ ClosesConnection("SETUP")
    <3>1. sent \in Seq(Frame) /\ closes \in BOOLEAN
      BY <1>e, <2>3
    <3>2. TakeFrame(e, sent, closes)
      BY <1>1 DEF HandleSetup
    <3> HIDE DEF sent, closes
    <3> QED
      BY <2>1, <3>1, <3>2, TakeFrameType
  <2> QED
    BY <2>2, <2>4
<1>2. CASE HandleLease(e)
  <2>1. wire[e] # <<>>
    BY <1>2, HeadType DEF HandleLease
  <2>2. SessionTypeOK'
    BY <1>2, ConstantsOK DEF SessionTypeOK, HandleLease
  <2>3. LinkTypeOK'
    BY <1>2, <1>e, <2>1, TakeFrameType DEF HandleLease
  <2> QED
    BY <1>2, <2>2, <2>3, Unchanged DEF HandleLease
<1>3. CASE HandleKeepalive(e)
  <2>1. wire[e] # <<>>
    BY <1>3, HeadType DEF HandleKeepalive
  <2>2. <<Mk("KEEPALIVE", 0, FALSE)>> \in Seq(Frame)
    <3>1. Mk("KEEPALIVE", 0, FALSE) \in Frame
      BY FramesType DEF FrameTypes
    <3> QED
      BY <3>1, OneOf
  <2>3. LinkTypeOK'
    BY <1>3, <1>e, <2>1, <2>2, TakeFrameType DEF HandleKeepalive
  <2> QED
    BY <1>3, <2>3, Unchanged DEF HandleKeepalive
<1>4. CASE HandleRequest(e)
  <2>1. wire[e] # <<>> /\ f.id \in Ids \cup {0}
    BY <1>4, HeadType DEF HandleRequest
  <2>2. StreamTypeOK'
    BY <1>4, <2>1 DEF StreamTypeOK, HandleRequest, InboundStates
  <2>3. LinkTypeOK'
    BY <1>4, <1>e, <2>1, TakeFrameType DEF HandleRequest
  <2> QED
    BY <1>4, <2>2, <2>3, Unchanged DEF HandleRequest
<1>5. CASE HandleResponse(e)
  <2>1. wire[e] # <<>> /\ f.id \in Ids \cup {0}
    BY <1>5, HeadType DEF HandleResponse
  <2>2. events' \in [Endpoints -> [Ids -> Seq(EventNames)]]
    <3>1. <<"response", "terminate">> \in Seq(EventNames)
      BY EventPairs DEF EventNames
    <3>2. UNCHANGED events \/ Emit(e, f.id, <<"response", "terminate">>)
      BY <1>5 DEF HandleResponse
    <3>3. CASE f.id = 0
      <4>1. 0 \notin Ids
        BY ConstantsOK DEF Ids
      <4>2. events[e] \in [Ids -> Seq(EventNames)]
        BY DEF StreamTypeOK
      <4>3. [events[e] EXCEPT ![0] = @ \o <<"response", "terminate">>] = events[e]
        BY <4>1, <4>2, ExceptElsewhere
      <4>4. CASE Emit(e, f.id, <<"response", "terminate">>)
        <5>1. Emit(e, 0, <<"response", "terminate">>)
          BY <3>3, <4>4
        <5>2. events' = [events EXCEPT ![e] = [events[e] EXCEPT ![0] = events[e][0] \o <<"response", "terminate">>]]
          BY <5>1, Zenon DEF Emit
        <5>3. events' = [events EXCEPT ![e] = events[e]]
          BY <4>3, <5>2, Zenon
        <5> QED
          BY <4>2, <5>3 DEF StreamTypeOK
      <4> QED
        BY <3>2, <4>4 DEF StreamTypeOK
    <3> QED
      BY <2>1, <3>1, <3>2, <3>3, EmitType DEF StreamTypeOK
  <2>3. StreamTypeOK'
    <3>1. timer' \in [Endpoints -> SUBSET Ids]
      BY <1>5 DEF StreamTypeOK, HandleResponse, Disarm
    <3>2. streams' \in [Endpoints -> SUBSET (Ids \cup {0})]
      BY <1>5 DEF StreamTypeOK, HandleResponse, Forget
    <3> QED
      BY <1>5, <2>2, <3>1, <3>2 DEF StreamTypeOK, HandleResponse
  <2>4. LinkTypeOK'
    BY <1>5, <1>e, <2>1, TakeFrameType DEF HandleResponse
  <2> QED
    BY <1>5, <2>3, <2>4, Unchanged DEF HandleResponse
<1>6. CASE HandleError(e)
  <2>1. wire[e] # <<>> /\ f.id \in Ids \cup {0}
    BY <1>6, HeadType DEF HandleError
  <2>2. events' \in [Endpoints -> [Ids -> Seq(EventNames)]]
    <3>1. <<"error", "terminate">> \in Seq(EventNames) /\ <<"terminate">> \in Seq(EventNames)
      BY EventPairs DEF EventNames
    <3>2. UNCHANGED events \/ \E names \in {<<"error", "terminate">>, <<"terminate">>} :
                                 f.id # 0 /\ Emit(e, f.id, names)
      BY <1>6 DEF HandleError
    <3> QED
      BY <2>1, <3>1, <3>2, EmitType DEF StreamTypeOK
  <2>3. StreamTypeOK'
    <3>1. timer' \in [Endpoints -> SUBSET Ids]
      BY <1>6 DEF StreamTypeOK, HandleError, Disarm
    <3>2. streams' \in [Endpoints -> SUBSET (Ids \cup {0})]
      BY <1>6 DEF StreamTypeOK, HandleError, Forget
    <3> QED
      BY <1>6, <2>2, <3>1, <3>2 DEF StreamTypeOK, HandleError
  <2>4. LinkTypeOK'
    <3>1. ClosesConnection(f.code) \in BOOLEAN
      BY DEF ClosesConnection
    <3>2. TakeFrame(e, <<>>, ClosesConnection(f.code))
      BY <1>6 DEF HandleError
    <3> QED
      BY <1>e, <2>1, <3>1, <3>2, TakeFrameType
  <2> QED
    BY <1>6, <2>3, <2>4, Unchanged DEF HandleError
<1>7. CASE UnheardError(e)
  <2>1. <<Fin>> \in Seq(Frame) /\ wire[Peer(e)] \in Seq(Frame)
    BY FramesType, PeerType DEF LinkTypeOK
  <2>2. wire[Peer(e)] \o Outgoing(e, <<Fin>>) \in Seq(Frame)
    BY <2>1, OutgoingType
  <2>3. LinkTypeOK'
    BY <1>7, <1>e, <2>2, PeerType DEF UnheardError, LinkTypeOK, TransportStates
  <2> QED
    BY <1>7, <2>3, Unchanged DEF UnheardError
<1>8. CASE HandleCancel(e)
  <2>1. wire[e] # <<>> /\ f.id \in Ids \cup {0}
    BY <1>8, HeadType DEF HandleCancel
  <2>2. events' \in [Endpoints -> [Ids -> Seq(EventNames)]]
    <3>1. <<"cancel", "terminate">> \in Seq(EventNames)
      BY EventPairs DEF EventNames
    <3>2. CASE f.id \in issued[e] /\ Emit(e, f.id, <<"cancel", "terminate">>)
      BY <3>1, <3>2, EmitType DEF StreamTypeOK
    <3>3. CASE UNCHANGED events
      BY <3>3 DEF StreamTypeOK
    <3> QED
      BY <1>8, <3>2, <3>3 DEF HandleCancel
  <2>3. StreamTypeOK'
    <3>1. streams' \in [Endpoints -> SUBSET (Ids \cup {0})]
      BY <1>8 DEF StreamTypeOK, HandleCancel, Forget
    <3> QED
      BY <1>8, <2>2, <3>1 DEF StreamTypeOK, HandleCancel
  <2>4. LinkTypeOK'
    BY <1>8, <1>e, <2>1, TakeFrameType DEF HandleCancel
  <2> QED
    BY <1>8, <2>3, <2>4, Unchanged DEF HandleCancel
<1>9. CASE ReceiveFin(e)
  <2>1. wire[e] # <<>>
    BY <1>9, HeadType DEF ReceiveFin
  <2>2. <<Fin>> \in Seq(Frame) /\ wire[Peer(e)] \in Seq(Frame) /\ Tail(wire[e]) \in Seq(Frame)
    BY <2>1, FramesType, PeerType, HeadTailProperties DEF LinkTypeOK
  <2>3. wire[Peer(e)] \o Outgoing(e, <<Fin>>) \in Seq(Frame)
    BY <2>2, OutgoingType
  <2>4. LinkTypeOK'
    BY <1>9, <2>2, <2>3, PeerType DEF ReceiveFin, LinkTypeOK, TransportStates
  <2> QED
    BY <1>9, <2>4, Unchanged DEF ReceiveFin
<1> QED
  BY <1>1, <1>2, <1>3, <1>4, <1>5, <1>6, <1>7, <1>8, <1>9 DEF Handle

(* So do the failure and the closing of a transport.                       *)
LEMMA TypeTransport ==
  ASSUME TypeOK, NEW e \in Endpoints,
         TransportClose(e) \/ \E seen \in BOOLEAN : TransportError(e, seen)
  PROVE  TypeOK'
<1> USE TypeParts
<1>1. CASE TransportClose(e)
  <2>1. events' \in [Endpoints -> [Ids -> Seq(EventNames)]]
    <3>1. <<"error", "terminate">> \in Seq(EventNames)
      BY EventPairs DEF EventNames
    <3>2. \A id \in Ids : events[e][id] \o <<"error", "terminate">> \in Seq(EventNames)
      BY <3>1, ConcatProperties DEF StreamTypeOK
    <3>3. [id \in Ids |-> IF id \in Told(e) THEN events[e][id] \o <<"error", "terminate">>
                          ELSE events[e][id]] \in [Ids -> Seq(EventNames)]
      BY <3>2 DEF StreamTypeOK
    <3> QED
      BY <1>1, <3>3 DEF StreamTypeOK, TransportClose
  <2>2. StreamTypeOK'
    <3>1. timer' \in [Endpoints -> SUBSET Ids]
      BY <1>1 DEF StreamTypeOK, TransportClose
    <3>2. streams' \in [Endpoints -> SUBSET (Ids \cup {0})]
      BY <1>1 DEF StreamTypeOK, TransportClose
    <3> QED
      BY <1>1, <2>1, <3>1, <3>2 DEF StreamTypeOK, TransportClose
  <2>3. SessionTypeOK'
    BY <1>1 DEF SessionTypeOK, TransportClose
  <2>4. LinkTypeOK'
    BY <1>1 DEF LinkTypeOK, TransportClose, TransportStates
  <2> QED
    BY <2>2, <2>3, <2>4
<1>2. ASSUME NEW seen \in BOOLEAN, TransportError(e, seen)
      PROVE  TypeOK'
  <2> DEFINE fin == IF seen THEN <<Fin>> ELSE <<>>
  <2>1. fin \in Seq(Frame) /\ wire[Peer(e)] \in Seq(Frame) /\ <<>> \in Seq(Frame)
    BY FramesType, PeerType DEF LinkTypeOK
  <2> HIDE DEF fin
  <2>2. wire[Peer(e)] \o Outgoing(e, fin) \in Seq(Frame)
    BY <2>1, OutgoingType
  <2>3. LinkTypeOK'
    BY <1>2, <2>1, <2>2, PeerType DEF TransportError, LinkTypeOK, TransportStates, fin
  <2> QED
    BY <1>2, <2>3, Unchanged DEF TransportError
<1> QED
  BY <1>1, <1>2

(* Every reachable state is of the declared type.                          *)
THEOREM TypeCorrect == Spec => []TypeOK
<1>1. TypeOK /\ [Next]_vars => TypeOK'
  <2> SUFFICES ASSUME TypeOK, [Next]_vars PROVE TypeOK'
    OBVIOUS
  <2>1. CASE UNCHANGED vars
    BY <2>1, TypeParts, Unchanged DEF vars
  <2>2. CASE Next
    BY <2>2, TypeApplication, TypeHandle, TypeTimers, TypeTransport DEF Next
  <2> QED
    BY <2>1, <2>2
<1> QED
  BY <1>1, TypeInit, PTL DEF Spec

-----------------------------------------------------------------------------
(* The inductive invariant                                                 *)

(* Every frame under way is one that may be sent to the end it goes to.    *)
Routed == \A e \in Endpoints : wire[e] \in Seq(FramesTo(e))

(* Parity keeps the ids of the two ends apart.                             *)
LEMMA IdsApart ==
  ASSUME NEW e \in Endpoints
  PROVE  /\ OwnIds(e) \cap OwnIds(Peer(e)) = {}
         /\ OwnIds(e) \cup OwnIds(Peer(e)) = Ids
         /\ OwnIds(e) \subseteq Ids /\ OwnIds(Peer(e)) \subseteq Ids
         /\ 0 \notin Ids
         /\ Peer(Peer(e)) = e
<1>1. \A id \in Ids : id % 2 = 0 \/ id % 2 = 1
  BY ConstantsOK DEF Ids
<1> QED
  BY <1>1, ConstantsOK DEF OwnIds, Peer, Endpoints, Ids

(* Which frames may be sent to whom.                                       *)
LEMMA FramesToType ==
  ASSUME NEW e \in Endpoints
  PROVE  /\ Fin \in FramesTo(e)
         /\ Mk("SETUP", 0, "lease" \in Uses) \in FramesTo(e)
         /\ Mk("LEASE", 0, FALSE) \in FramesTo(e)
         /\ \A flag \in BOOLEAN : Mk("KEEPALIVE", 0, flag) \in FramesTo(e)
         /\ \A id \in OwnIds(Peer(e)), flag \in BOOLEAN :
              Mk("REQUEST_RESPONSE", id, flag) \in FramesTo(e)
         /\ \A id \in OwnIds(Peer(e)) : Mk("CANCEL", id, FALSE) \in FramesTo(e)
         /\ \A id \in OwnIds(e) : Mk("RESPONSE", id, FALSE) \in FramesTo(e)
         /\ \A id \in OwnIds(e) \cup {0}, class \in Classes :
              MkError(id, class) \in FramesTo(e)
BY FramesType, IdsApart, PeerType DEF FramesTo, Mk, MkError, Fin, FrameTypes

(* Sending frames that may be sent keeps the link in its type and the      *)
(* frames routed.                                                          *)
LEMMA RoutedSend ==
  ASSUME LinkTypeOK, Routed, NEW e \in Endpoints, NEW f \in FramesTo(Peer(e)),
         Send(e, <<f>>)
  PROVE  Routed'
<1>1. <<f>> \in Seq(FramesTo(Peer(e))) /\ wire[Peer(e)] \in Seq(FramesTo(Peer(e)))
  BY PeerType DEF Routed
<1>2. wire[Peer(e)] \o Outgoing(e, <<f>>) \in Seq(FramesTo(Peer(e)))
  BY <1>1, OutgoingType
<1> QED
  BY <1>2, PeerType DEF LinkTypeOK, Routed, Send

(* Taking a frame and answering with frames that may be sent does too.     *)
LEMMA RoutedTake ==
  ASSUME LinkTypeOK, Routed, NEW e \in Endpoints,
         NEW frames \in Seq(FramesTo(Peer(e))), NEW closes \in BOOLEAN,
         wire[e] # <<>>, TakeFrame(e, frames, closes)
  PROVE  Routed'
<1> DEFINE sent == IF closes THEN Append(frames, Fin) ELSE frames
<1>1. sent \in Seq(FramesTo(Peer(e)))
  BY FramesToType, PeerType, AppendProperties
<1>2. Tail(wire[e]) \in Seq(FramesTo(e))
  BY HeadTailProperties DEF Routed
<1>3. wire[Peer(e)] \o Outgoing(e, sent) \in Seq(FramesTo(Peer(e)))
  BY <1>1, OutgoingType, PeerType DEF Routed
<1>4. wire' = [wire EXCEPT ![e] = Tail(@), ![Peer(e)] = @ \o Outgoing(e, sent)]
  BY DEF TakeFrame
<1> HIDE DEF sent
<1>5. wire'[e] = Tail(wire[e]) /\ wire'[Peer(e)] = wire[Peer(e)] \o Outgoing(e, sent)
  BY <1>4, PeerType DEF LinkTypeOK
<1> QED
  BY <1>2, <1>3, <1>5, PeerType DEF Routed, Endpoints, Peer

(* The frame that a handler is given is one that may be sent to it.        *)
LEMMA RoutedHead ==
  ASSUME LinkTypeOK, Routed, NEW e \in Endpoints, NEW type, Receives(e, type)
  PROVE  Head(wire[e]) \in FramesTo(e)
BY HeadTailProperties DEF Routed, Receives

(* Books(e) speaks of the streams of e only, and of whether its transport  *)
(* is closed.                                                              *)
Kept(e) ==
  /\ latest'[e] = latest[e] /\ streams'[e] = streams[e] /\ issued'[e] = issued[e]
  /\ timer'[e] = timer[e] /\ expired'[e] = expired[e] /\ events'[e] = events[e]
  /\ inbound'[e] = inbound[e]

(* What an end keeps about its streams stands as long as they do.          *)
LEMMA BooksKept ==
  ASSUME NEW e \in Endpoints, Books(e), Kept(e),
         transport[e] = "closed" <=> transport'[e] = "closed"
  PROVE  Books(e)'
<1>1. Unresolved(e)' = Unresolved(e)
  BY DEF Unresolved, Kept
<1> QED
  BY <1>1 DEF Books, Kept

(* send() outside of a frame handler leaves the transports alone.          *)
LEMMA SendKeepsOpen ==
  ASSUME LinkTypeOK, NEW e \in Endpoints, NEW frames, Send(e, frames)
  PROVE  transport' = transport
BY DEF Send

(* No frame handler closes a transport for good: only its close event      *)
(* does.                                                                   *)
LEMMA TakeKeepsOpen ==
  ASSUME LinkTypeOK, NEW e \in Endpoints, NEW frames, NEW closes,
         TakeFrame(e, frames, closes)
  PROVE  \A x \in Endpoints : transport[x] = "closed" <=> transport'[x] = "closed"
BY DEF LinkTypeOK, TakeFrame

(* The invariant holds of two ends that have just been constructed.        *)
LEMMA IndInit == Init => IndInv
<1> SUFFICES ASSUME Init PROVE IndInv
  OBVIOUS
<1>1. TypeOK
  BY TypeInit
<1>2. ASSUME NEW e \in Endpoints PROVE Books(e)
  <2>1. 0 \notin Ids /\ OwnIds(e) \subseteq Ids
    BY IdsApart
  <2>2. latest[e] % 2 = IF e = "client" THEN 1 ELSE 0
    BY DEF Init, FirstLatest, Endpoints
  <2> QED
    BY <2>1, <2>2 DEF Init, Books, Unresolved
<1>3. ASSUME NEW e \in Endpoints PROVE wire[e] \in Seq(FramesTo(e))
  <2>1. Mk("SETUP", 0, "lease" \in Uses) \in FramesTo(e)
    BY FramesToType
  <2>2. <<Mk("SETUP", 0, "lease" \in Uses)>> \in Seq(FramesTo(e)) /\ <<>> \in Seq(FramesTo(e))
    BY <2>1
  <2> QED
    BY <2>2 DEF Init
<1> QED
  BY <1>1, <1>2, <1>3 DEF IndInv

(* What the two ends keep is kept when each keeps its own.                 *)
LEMMA IndParts ==
  /\ IndInv <=> TypeOK /\ Routed /\ \A x \in Endpoints : Books(x)
  /\ IndInv' <=> TypeOK' /\ Routed' /\ \A x \in Endpoints : Books(x)'
BY DEF IndInv, Routed

(* There are no endpoints but an end and its peer.                         *)
LEMMA BothEnds ==
  ASSUME NEW e \in Endpoints, Books(e)', Books(Peer(e))'
  PROVE  \A x \in Endpoints : Books(x)'
BY DEF Endpoints, Peer

(* A step that leaves every stream alone, and opens or closes no transport *)
(* for good.                                                               *)
LEMMA BooksUnchanged ==
  ASSUME IndInv, UNCHANGED streamVars,
         \A x \in Endpoints : transport[x] = "closed" <=> transport'[x] = "closed"
  PROVE  \A x \in Endpoints : Books(x)'
<1> SUFFICES ASSUME NEW x \in Endpoints PROVE Books(x)'
  OBVIOUS
<1>1. Kept(x) /\ Books(x)
  BY IndParts DEF Kept, streamVars
<1> QED
  BY <1>1, BooksKept

(* A step of e that leaves its peer's streams alone.                       *)
PeerKept(e) == Kept(Peer(e)) /\ (transport[Peer(e)] = "closed" <=> transport'[Peer(e)] = "closed")

(* A step that keeps an end's own books, and its peer's streams, keeps the *)
(* books of both.                                                          *)
LEMMA BooksOfPeer ==
  ASSUME IndInv, NEW e \in Endpoints, PeerKept(e), Books(e)'
  PROVE  \A x \in Endpoints : Books(x)'
BY IndParts, BooksKept, BothEnds, PeerType DEF PeerKept

(* No response in fragments, and no responder that cancels.                *)
Calm == "follows" \notin Uses /\ "refuse" \notin Uses

(* request() keeps the invariant: the id it takes is new and the timer it  *)
(* arms is for a request nobody has answered.                              *)
LEMMA IndRequest ==
  ASSUME IndInv, NEW e \in Endpoints, NEW follows \in BOOLEAN, Request(e, follows)
  PROVE  Routed' /\ \A x \in Endpoints : Books(x)'
<1> DEFINE id == NextId(e)
<1> USE TypeParts, IndParts, IdsApart
<1>1. id \in OwnIds(e) /\ id = latest[e] + 2 /\ latest[e] \in Int
  <2>1. latest[e] \in -1..MaxStreamId /\ (latest[e] % 2 = IF e = "client" THEN 1 ELSE 0)
    BY DEF StreamTypeOK, Books
  <2>2. id \in Ids
    BY <2>1, ConstantsOK DEF Request, NextId, IdsLeft, Ids
  <2>3. (latest[e] + 2) % 2 = latest[e] % 2
    BY <2>1
  <2> QED
    BY <2>1, <2>2, <2>3 DEF NextId, OwnIds
<1>2. Routed'
  <2>1. Mk("REQUEST_RESPONSE", id, follows) \in FramesTo(Peer(e))
    BY <1>1, FramesToType, PeerType
  <2> QED
    BY <2>1, RoutedSend DEF Request
<1>3. PeerKept(e)
  BY PeerType, SendKeepsOpen DEF Request, Arm, StreamTypeOK, Kept, PeerKept
<1>4. /\ latest'[e] = id /\ streams'[e] = streams[e] \cup {id}
      /\ issued'[e] = issued[e] \cup {id} /\ timer'[e] = timer[e] \cup {id}
      /\ expired' = expired /\ events' = events /\ inbound' = inbound
      /\ transport' = transport
  BY SendKeepsOpen DEF Request, Arm, StreamTypeOK
<1>5. events[e][id] = <<>>
  BY <1>1 DEF Books, OwnIds, Ids
<1>6. Unresolved(e)' = Unresolved(e) \cup {id}
  BY <1>4, <1>5 DEF Unresolved
<1> HIDE DEF id
<1>7. Books(e)'
  <2>1. latest'[e] % 2 = IF e = "client" THEN 1 ELSE 0
    BY <1>1, <1>4 DEF OwnIds
  <2>2. \A i \in issued'[e] : i \in OwnIds(e) /\ i <= latest'[e]
    BY <1>1, <1>4, ConstantsOK DEF Books, OwnIds, Ids
  <2> QED
    BY <1>1, <1>4, <1>6, <2>1, <2>2 DEF Books
<1> QED
  BY <1>2, <1>3, <1>7, BooksOfPeer

(* The applications' calls keep the invariant.                             *)
LEMMA IndApplication ==
  ASSUME Calm, IndInv, NEW e \in Endpoints, Application(e)
  PROVE  IndInv'
<1> USE TypeParts, IndParts, IdsApart
<1>1. TypeOK'
  BY TypeApplication
<1>2. ASSUME NEW follows \in BOOLEAN, Request(e, follows)
      PROVE  IndInv'
  BY <1>1, <1>2, IndRequest
<1>3. ASSUME NEW id \in Ids, NEW follows \in BOOLEAN, Respond(e, id, follows)
      PROVE  IndInv'
  <2>1. ~follows /\ id \in OwnIds(Peer(e))
    BY <1>3 DEF Calm, Respond, Books
  <2>2. Routed'
    <3>1. Mk("RESPONSE", id, FALSE) \in FramesTo(Peer(e))
      BY <2>1, FramesToType, PeerType
    <3> QED
      BY <1>3, <2>1, <3>1, RoutedSend DEF Respond
  <2>3. PeerKept(e)
    BY <1>3, PeerType, SendKeepsOpen DEF Respond, Forget, StreamTypeOK, Kept, PeerKept
  <2>4. /\ latest' = latest /\ streams'[e] = streams[e] \ {id} /\ issued' = issued
        /\ timer' = timer /\ expired' = expired /\ events' = events /\ transport' = transport
        /\ \A i \in Ids : inbound'[e][i] = IF i = id THEN "responded" ELSE inbound[e][i]
    BY <1>3, <2>1, SendKeepsOpen DEF Respond, Forget, StreamTypeOK
  <2>5. Unresolved(e)' = Unresolved(e)
    BY <2>4 DEF Unresolved
  <2>6. Books(e)'
    <3>1. \A i \in Ids : inbound'[e][i] # "none" => i \in OwnIds(Peer(e))
      BY <2>1, <2>4 DEF Books
    <3>2. \A i \in streams'[e] \ (OwnIds(e) \cup {0}) :
            transport'[e] # "closed" /\ inbound'[e][i] \in {"partial", "pending", "errored"}
      BY <2>4 DEF Books, StreamTypeOK
    <3>3. Unresolved(e) \subseteq streams'[e]
      BY <2>1, <2>4 DEF Books, Unresolved
    <3> QED
      BY <2>1, <2>4, <2>5, <3>1, <3>2, <3>3 DEF Books
  <2> QED
    BY <1>1, <2>2, <2>3, <2>6, BooksOfPeer
<1>4. ASSUME NEW id \in Ids, NEW class \in ErrorClasses, RespondError(e, id, class)
      PROVE  IndInv'
  <2>1. id \in OwnIds(Peer(e)) /\ class \in Classes
    BY <1>4, ConstantsOK DEF RespondError, Books
  <2>2. Routed'
    <3>1. MkError(id, class) \in FramesTo(Peer(e))
      BY <2>1, FramesToType, PeerType
    <3> QED
      BY <1>4, <3>1, RoutedSend DEF RespondError
  <2>3. PeerKept(e)
    BY <1>4, PeerType, SendKeepsOpen DEF RespondError, StreamTypeOK, Kept, PeerKept
  <2>4. /\ latest' = latest /\ streams' = streams /\ issued' = issued
        /\ timer' = timer /\ expired' = expired /\ events' = events /\ transport' = transport
        /\ \A i \in Ids : inbound'[e][i] = IF i = id THEN "errored" ELSE inbound[e][i]
    BY <1>4, SendKeepsOpen DEF RespondError, StreamTypeOK
  <2>5. Unresolved(e)' = Unresolved(e)
    BY <2>4 DEF Unresolved
  <2>6. Books(e)'
    <3>1. \A i \in Ids : inbound'[e][i] # "none" => i \in OwnIds(Peer(e))
      BY <2>1, <2>4 DEF Books
    <3>2. \A i \in streams'[e] \ (OwnIds(e) \cup {0}) :
            transport'[e] # "closed" /\ inbound'[e][i] \in {"partial", "pending", "errored"}
      BY <2>4 DEF Books, StreamTypeOK
    <3>3. Unresolved(e) \subseteq streams'[e]
      BY <2>1, <2>4 DEF Books, Unresolved
    <3> QED
      BY <2>1, <2>4, <2>5, <3>1, <3>2, <3>3 DEF Books
  <2> QED
    BY <1>1, <2>2, <2>3, <2>6, BooksOfPeer
<1>5. ASSUME NEW id \in Ids, Cancel(e, id)
      PROVE  IndInv'
  <2>1. Routed'
    <3>1. id \in OwnIds(e)
      BY <1>5 DEF Calm, Cancel, Books
    <3>2. Mk("CANCEL", id, FALSE) \in FramesTo(Peer(e))
      BY <3>1, FramesToType, PeerType
    <3> QED
      BY <1>5, <3>2, RoutedSend DEF Cancel
  <2>2. \A x \in Endpoints : Kept(x) /\ transport'[x] = transport[x]
    BY <1>5, SendKeepsOpen DEF Cancel, Kept
  <2>3. \A x \in Endpoints : Books(x)'
    BY <2>2, BooksKept
  <2> QED
    BY <1>1, <2>1, <2>3
<1>6. CASE Close(e)
  <2>1. Routed'
    <3>0. Fin \in FramesTo(Peer(e)) /\ Peer(e) \in Endpoints
      BY FramesToType, PeerType
    <3>1. <<Fin>> \in Seq(FramesTo(Peer(e))) /\ wire[Peer(e)] \in Seq(FramesTo(Peer(e)))
      BY <3>0, OneOf DEF Routed
    <3>2. wire[Peer(e)] \o Outgoing(e, <<Fin>>) \in Seq(FramesTo(Peer(e)))
      BY <3>1, OutgoingType
    <3> QED
      BY <1>6, <3>2, PeerType DEF Routed, LinkTypeOK, Close
  <2>2. \A x \in Endpoints : transport[x] = "closed" <=> transport'[x] = "closed"
    BY <1>6 DEF Close, LinkTypeOK
  <2> QED
    BY <1>1, <1>6, <2>1, <2>2, BooksUnchanged DEF Close
<1> QED
  BY <1>2, <1>3, <1>4, <1>5, <1>6 DEF Application

(* A settled request has emitted something.                                *)
LEMMA SettlementsNotEmpty == \A names \in Settlements : names # <<>>
<1>1. Len(<<"terminate">>) = 1 /\ Len(<<>>) = 0
  OBVIOUS
<1>2. \A name : Len(<<name, "terminate">>) = 2
  OBVIOUS
<1> QED
  BY <1>1, <1>2 DEF Settlements

(* A request waited for is settled and forgotten.                          *)
Settles(e, id, names) ==
  /\ id \in Unresolved(e) /\ names \in Settlements
  /\ events'[e] = [events[e] EXCEPT ![id] = names]
  /\ streams'[e] = streams[e] \ {id} /\ timer'[e] = timer[e] \ {id}
  /\ expired'[e] \subseteq expired[e] \cup {id}
  /\ latest'[e] = latest[e] /\ issued'[e] = issued[e] /\ inbound'[e] = inbound[e]

(* A request that is waited for may be settled: its outcome is emitted,    *)
(* its timer stopped and its stream forgotten.                             *)
LEMMA BooksSettled ==
  ASSUME IndInv, NEW e \in Endpoints, NEW id \in Ids, NEW names, Settles(e, id, names),
         transport[e] = "closed" <=> transport'[e] = "closed"
  PROVE  Books(e)'
<1> USE TypeParts, IndParts, IdsApart DEF Settles
<1>1. events[e] \in [Ids -> Seq(EventNames)] /\ id \in issued[e] /\ id \in OwnIds(e)
  BY DEF StreamTypeOK, Unresolved, Books
<1>2. names # <<>>
  BY SettlementsNotEmpty
<1>3. \A i \in Ids : events'[e][i] = IF i = id THEN names ELSE events[e][i]
  BY <1>1
<1>4. Unresolved(e)' = Unresolved(e) \ {id}
  BY <1>2, <1>3 DEF Unresolved, StreamTypeOK
<1>5. \A i \in expired'[e] : events'[e][i] # <<>>
  BY <1>2, <1>3 DEF Books, StreamTypeOK
<1>6. \A i \in Ids : events'[e][i] # <<>> => events'[e][i] \in Settlements /\ i \in issued'[e]
  BY <1>1, <1>3 DEF Books
<1> QED
  BY <1>1, <1>4, <1>5, <1>6 DEF Books

(* A stream that nobody waits for, or none at all, is forgotten.           *)
Forgets(e, id) ==
  /\ id \notin Unresolved(e)
  /\ streams'[e] = streams[e] \ {id}
  /\ events'[e] = events[e] /\ timer'[e] = timer[e] /\ expired'[e] = expired[e]
  /\ latest'[e] = latest[e] /\ issued'[e] = issued[e] /\ inbound'[e] = inbound[e]

(* An id that nobody waits for may be dropped from the table.              *)
LEMMA BooksForgotten ==
  ASSUME IndInv, NEW e \in Endpoints, NEW id, Forgets(e, id),
         transport[e] = "closed" <=> transport'[e] = "closed"
  PROVE  Books(e)'
<1>1. Unresolved(e)' = Unresolved(e)
  BY DEF Unresolved, Forgets
<1> QED
  BY <1>1, IndParts DEF Books, Forgets

(* What is emitted on a stream that has emitted nothing.                   *)
LEMMA EmitFirst ==
  ASSUME TypeOK, NEW e \in Endpoints, NEW id \in Ids, NEW names \in Seq(EventNames),
         events[e][id] = <<>>, Emit(e, id, names)
  PROVE  /\ events'[e] = [events[e] EXCEPT ![id] = names]
         /\ events'[Peer(e)] = events[Peer(e)]
<1>1. events \in [Endpoints -> [Ids -> Seq(EventNames)]]
  BY TypeParts DEF StreamTypeOK
<1>2. events[e][id] \o names = names
  BY ConcatEmptySeq
<1> QED
  BY <1>1, <1>2, PeerType DEF Emit

(* The request timeout keeps the invariant.                                *)
LEMMA IndTimeout ==
  ASSUME IndInv, NEW e \in Endpoints, NEW id \in Ids, Timeout(e, id)
  PROVE  Routed' /\ \A x \in Endpoints : Books(x)'
<1> USE TypeParts, IndParts, IdsApart
<1>1. id \in Unresolved(e) /\ id \in OwnIds(e) /\ events[e][id] = <<>>
  BY DEF Timeout, Books, Unresolved
<1>2. Routed'
  <2>1. Mk("CANCEL", id, FALSE) \in FramesTo(Peer(e))
    BY <1>1, FramesToType, PeerType
  <2> QED
    BY <2>1, RoutedSend DEF Timeout
<1>3. <<"timeout", "terminate">> \in Seq(EventNames) /\ <<"timeout", "terminate">> \in Settlements
  BY EventPairs DEF EventNames, Settlements
<1>4. /\ events'[e] = [events[e] EXCEPT ![id] = <<"timeout", "terminate">>]
      /\ events'[Peer(e)] = events[Peer(e)]
  BY <1>1, <1>3, EmitFirst DEF Timeout
<1>5. transport' = transport
  BY SendKeepsOpen DEF Timeout
<1>6. Settles(e, id, <<"timeout", "terminate">>)
  BY <1>1, <1>3, <1>4 DEF Timeout, Forget, Settles, StreamTypeOK
<1>7. PeerKept(e)
  BY <1>4, <1>5, PeerType DEF Timeout, Forget, StreamTypeOK, Kept, PeerKept
<1> QED
  BY <1>2, <1>5, <1>6, <1>7, BooksSettled, BooksOfPeer

(* The timers, the second setup() and its refusal keep the invariant.      *)
LEMMA IndTimers ==
  ASSUME IndInv,
         \/ SetupAgain \/ RejectSetup \/ KeepaliveTick \/ LeaseTick \/ LeaseExpires
         \/ \E e \in Endpoints : Constructed(e) \/ \E id \in Ids : Timeout(e, id)
  PROVE  IndInv'
<1> USE TypeParts, IndParts, IdsApart
<1>1. TypeOK'
  BY TypeTimers
<1>c. "client" \in Endpoints /\ "server" \in Endpoints
      /\ Peer("client") = "server" /\ Peer("server") = "client"
  BY DEF Endpoints, Peer
<1>2. CASE SetupAgain
  <2>1. Routed'
    <3>1. Mk("SETUP", 0, "lease" \in Uses) \in FramesTo("server")
      BY <1>c, FramesToType
    <3> QED
      BY <1>2, <1>c, <3>1, RoutedSend DEF SetupAgain
  <2>2. transport' = transport
    BY <1>2, <1>c, SendKeepsOpen DEF SetupAgain
  <2>3. PeerKept("client")
    BY <1>2, <1>c, <2>2 DEF SetupAgain, StreamTypeOK, Kept, PeerKept
  <2>4. Books("client")'
    <3>1. streams'["client"] = streams["client"] \cup {0}
      BY <1>2, <1>c DEF SetupAgain, StreamTypeOK
    <3>2. Unresolved("client")' = Unresolved("client")
      BY <1>2 DEF Unresolved, SetupAgain
    <3>3. 0 \notin OwnIds("client") /\ 0 \notin issued["client"]
      BY <1>c DEF StreamTypeOK
    <3> QED
      BY <1>2, <1>c, <2>2, <3>1, <3>2, <3>3 DEF Books, SetupAgain
  <2> QED
    BY <1>1, <1>c, <2>1, <2>3, <2>4, BooksOfPeer
<1>3. CASE RejectSetup
  <2>1. Routed'
    <3>1. MkError(0, "SETUP") \in FramesTo("client")
      BY <1>c, FramesToType DEF Classes
    <3> QED
      BY <1>3, <1>c, <3>1, RoutedSend DEF RejectSetup
  <2>2. transport' = transport
    BY <1>3, <1>c, SendKeepsOpen DEF RejectSetup
  <2> QED
    BY <1>1, <1>3, <2>1, <2>2, BooksUnchanged DEF RejectSetup
<1>4. CASE KeepaliveTick
  <2>1. Routed'
    <3>1. Mk("KEEPALIVE", 0, TRUE) \in FramesTo("server")
      BY <1>c, FramesToType
    <3> QED
      BY <1>4, <1>c, <3>1, RoutedSend DEF KeepaliveTick
  <2>2. transport' = transport
    BY <1>4, <1>c, SendKeepsOpen DEF KeepaliveTick
  <2> QED
    BY <1>1, <1>4, <2>1, <2>2, BooksUnchanged DEF KeepaliveTick
<1>5. CASE LeaseTick
  <2>1. Routed'
    <3>1. Mk("LEASE", 0, FALSE) \in FramesTo("client")
      BY <1>c, FramesToType
    <3> QED
      BY <1>5, <1>c, <3>1, RoutedSend DEF LeaseTick
  <2>2. transport' = transport
    BY <1>5, <1>c, SendKeepsOpen DEF LeaseTick
  <2> QED
    BY <1>1, <1>5, <2>1, <2>2, BooksUnchanged DEF LeaseTick
<1>6. CASE LeaseExpires
  BY <1>1, <1>6, BooksUnchanged DEF LeaseExpires, linkVars, Routed
<1>7. ASSUME NEW e \in Endpoints, Constructed(e)
      PROVE  IndInv'
  BY <1>1, <1>7, BooksUnchanged DEF Constructed, linkVars, Routed
<1>8. ASSUME NEW e \in Endpoints, NEW id \in Ids, Timeout(e, id)
      PROVE  IndInv'
  BY <1>1, <1>8, IndTimeout
<1> QED
  BY <1>2, <1>3, <1>4, <1>5, <1>6, <1>7, <1>8

(* So does a response: it finds a stream that waits for it, or none.       *)
LEMMA IndHandleResponse ==
  ASSUME IndInv, NEW e \in Endpoints, HandleResponse(e)
  PROVE  Routed' /\ \A x \in Endpoints : Books(x)'
<1> USE TypeParts, IndParts, IdsApart
<1> DEFINE f == Head(wire[e])
           names == <<"response", "terminate">>
<1>1. wire[e] # <<>> /\ f \in FramesTo(e) /\ f.type = "RESPONSE" /\ transport[e] # "closed"
  BY HeadType, RoutedHead DEF HandleResponse, Receives, Reading
<1>2. f.id \in OwnIds(e) /\ ~f.flag
  BY <1>1 DEF FramesTo
<1>e. <<>> \in Seq(FramesTo(Peer(e))) /\ FALSE \in BOOLEAN
  BY NoFrames
<1>3. TakeFrame(e, <<>>, FALSE)
  BY DEF HandleResponse
<1>4. Routed'
  BY <1>1, <1>3, <1>e, RoutedTake
<1>5. \A x \in Endpoints : transport[x] = "closed" <=> transport'[x] = "closed"
  BY <1>3, TakeKeepsOpen
<1>6. names \in Seq(EventNames) /\ names \in Settlements
  BY EventPairs DEF EventNames, Settlements
<1>7. CASE Known(e, f.id)
  <2>1. f.id \in Unresolved(e) /\ events[e][f.id] = <<>>
    BY <1>1, <1>2, <1>7 DEF Known, Books, Unresolved
  <2>2. Emit(e, f.id, names)
    BY <1>2, <1>7 DEF HandleResponse
  <2> HIDE DEF names
  <2>3. /\ events'[e] = [events[e] EXCEPT ![f.id] = names]
        /\ events'[Peer(e)] = events[Peer(e)]
    BY <1>2, <1>6, <2>1, <2>2, EmitFirst
  <2>4. Settles(e, f.id, names)
    BY <1>6, <1>7, <2>1, <2>3 DEF HandleResponse, Forget, Disarm, Settles, StreamTypeOK
  <2>5. PeerKept(e)
    BY <1>5, <2>3, PeerType DEF HandleResponse, Forget, Disarm, StreamTypeOK, Kept, PeerKept
  <2> QED
    BY <1>2, <1>4, <1>5, <2>4, <2>5, BooksSettled, BooksOfPeer
<1>8. CASE ~Known(e, f.id)
  <2>1. f.id \notin Unresolved(e)
    BY <1>2, <1>8 DEF Known, Books, Unresolved
  <2>2. Forgets(e, f.id)
    BY <1>8, <2>1 DEF HandleResponse, Forget, Disarm, Forgets, StreamTypeOK
  <2>3. PeerKept(e)
    BY <1>5, <1>8, PeerType DEF HandleResponse, Forget, Disarm, StreamTypeOK, Kept, PeerKept
  <2> QED
    BY <1>4, <1>5, <2>2, <2>3, BooksForgotten, BooksOfPeer
<1> QED
  BY <1>7, <1>8

(* What the handler of an ERROR frame does to the link, whether or not the *)
(* connection closes itself.                                               *)
LEMMA RoutedError ==
  ASSUME LinkTypeOK, Routed, NEW e \in Endpoints, HandleError(e)
  PROVE  Routed' /\ \A x \in Endpoints : transport[x] = "closed" <=> transport'[x] = "closed"
<1> DEFINE closes == ClosesConnection(Head(wire[e]).code)
<1>1. wire[e] # <<>> /\ TakeFrame(e, <<>>, closes)
  BY DEF HandleError, Receives
<1>2. closes \in BOOLEAN
  BY DEF ClosesConnection
<1>3. <<>> \in Seq(FramesTo(Peer(e)))
  BY NoFrames
<1> HIDE DEF closes
<1> QED
  BY <1>1, <1>2, <1>3, RoutedTake, TakeKeepsOpen

(* An error keeps the invariant, for a stream that waits for it or none.   *)
LEMMA IndHandleError ==
  ASSUME IndInv, NEW e \in Endpoints, HandleError(e)
  PROVE  Routed' /\ \A x \in Endpoints : Books(x)'
<1> USE TypeParts, IndParts, IdsApart
<1> DEFINE f == Head(wire[e])
           names == IF f.code = "CONNECTION" THEN <<"terminate">> ELSE <<"error", "terminate">>
<1>1. wire[e] # <<>> /\ f \in FramesTo(e) /\ f.type = "ERROR" /\ transport[e] # "closed"
  BY HeadType, RoutedHead DEF HandleError, Receives, Reading
<1>2. f.id \in OwnIds(e) \cup {0}
  BY <1>1 DEF FramesTo
<1>4. Routed'
  BY RoutedError
<1>5. \A x \in Endpoints : transport[x] = "closed" <=> transport'[x] = "closed"
  BY RoutedError
<1>6. names \in Seq(EventNames) /\ names \in Settlements
  BY EventPairs DEF EventNames, Settlements
<1>7. CASE Known(e, f.id) /\ f.id # 0
  <2>1. f.id \in Unresolved(e) /\ events[e][f.id] = <<>>
    BY <1>1, <1>2, <1>7 DEF Known, Books, Unresolved
  <2>2. Emit(e, f.id, names)
    BY <1>7 DEF HandleError
  <2> HIDE DEF names
  <2>3. /\ events'[e] = [events[e] EXCEPT ![f.id] = names]
        /\ events'[Peer(e)] = events[Peer(e)]
    BY <1>2, <1>6, <1>7, <2>1, <2>2, EmitFirst
  <2>4. Settles(e, f.id, names)
    BY <1>6, <1>7, <2>1, <2>3 DEF HandleError, Forget, Disarm, Settles, StreamTypeOK
  <2>5. PeerKept(e)
    BY <1>5, <2>3, PeerType DEF HandleError, Forget, Disarm, StreamTypeOK, Kept, PeerKept
  <2> QED
    BY <1>2, <1>4, <1>5, <1>7, <2>4, <2>5, BooksSettled, BooksOfPeer
<1>8. CASE ~(Known(e, f.id) /\ f.id # 0)
  <2>1. (f.id \notin Unresolved(e) /\ f.id \notin timer[e]) \/ ~Known(e, f.id)
    BY <1>2, <1>8 DEF Known, Books, Unresolved, StreamTypeOK
  <2>2. timer' = timer /\ events' = events
    BY <1>8, <2>1 DEF HandleError, Disarm, StreamTypeOK
  <2>3. f.id \notin Unresolved(e)
    BY <1>2, <1>8 DEF Known, Books, Unresolved, StreamTypeOK
  <2>4. Forgets(e, f.id)
    BY <2>2, <2>3 DEF HandleError, Forget, Forgets, StreamTypeOK
  <2>5. PeerKept(e)
    BY <1>5, <2>2, PeerType DEF HandleError, Forget, StreamTypeOK, Kept, PeerKept
  <2> QED
    BY <1>4, <1>5, <2>4, <2>5, BooksForgotten, BooksOfPeer
<1> QED
  BY <1>7, <1>8

(* So does a CANCEL frame, which without "refuse" only responders get.     *)
LEMMA IndHandleCancel ==
  ASSUME IndInv, NEW e \in Endpoints, HandleCancel(e)
  PROVE  Routed' /\ \A x \in Endpoints : Books(x)'
<1> USE TypeParts, IndParts, IdsApart
<1> DEFINE f == Head(wire[e])
<1>1. wire[e] # <<>> /\ f \in FramesTo(e) /\ f.type = "CANCEL"
  BY HeadType, RoutedHead DEF HandleCancel
<1>2. f.id \in OwnIds(Peer(e)) /\ f.id \notin issued[e]
  <2>1. f.id \in OwnIds(Peer(e))
    BY <1>1 DEF FramesTo
  <2> QED
    BY <2>1 DEF Books
<1>e. <<>> \in Seq(FramesTo(Peer(e))) /\ FALSE \in BOOLEAN
  BY NoFrames
<1>3. TakeFrame(e, <<>>, FALSE)
  BY DEF HandleCancel
<1>4. Routed'
  BY <1>1, <1>3, <1>e, RoutedTake
<1>5. \A x \in Endpoints : transport[x] = "closed" <=> transport'[x] = "closed"
  BY <1>3, TakeKeepsOpen
<1>6. Forgets(e, f.id)
  BY <1>2 DEF HandleCancel, Forget, Forgets, StreamTypeOK, Unresolved
<1>7. PeerKept(e)
  BY <1>2, <1>5, PeerType DEF HandleCancel, Forget, StreamTypeOK, Kept, PeerKept
<1> QED
  BY <1>4, <1>5, <1>6, <1>7, BooksForgotten, BooksOfPeer

(* So does a request, whose id is the peer's.                              *)
LEMMA IndHandleRequest ==
  ASSUME IndInv, NEW e \in Endpoints, HandleRequest(e)
  PROVE  Routed' /\ \A x \in Endpoints : Books(x)'
<1> USE TypeParts, IndParts, IdsApart
<1> DEFINE f == Head(wire[e])
           heard == isSetup[e] \/ e = "client"
<1>1. wire[e] # <<>> /\ f \in FramesTo(e) /\ f.type = "REQUEST_RESPONSE" /\ transport[e] # "closed"
  BY HeadType, RoutedHead DEF HandleRequest, Receives, Reading
<1>2. f.id \in OwnIds(Peer(e)) /\ f.id \in Ids /\ f.id \notin issued[e] /\ f.id \notin OwnIds(e)
  <2>1. f.id \in OwnIds(Peer(e))
    BY <1>1 DEF FramesTo
  <2> QED
    BY <2>1 DEF Books
<1>e. <<>> \in Seq(FramesTo(Peer(e))) /\ FALSE \in BOOLEAN
  BY NoFrames
<1>3. TakeFrame(e, <<>>, FALSE)
  BY DEF HandleRequest
<1>4. Routed'
  BY <1>1, <1>3, <1>e, RoutedTake
<1>5. \A x \in Endpoints : transport[x] = "closed" <=> transport'[x] = "closed"
  BY <1>3, TakeKeepsOpen
<1>6. CASE heard
  <2>1. /\ latest' = latest /\ issued' = issued /\ timer' = timer
        /\ expired' = expired /\ events' = events
        /\ streams'[e] = streams[e] \cup {f.id}
        /\ \A i \in Ids : inbound'[e][i] =
             IF i = f.id THEN IF f.flag THEN "partial" ELSE "pending" ELSE inbound[e][i]
    BY <1>2, <1>6 DEF HandleRequest, StreamTypeOK
  <2>2. Unresolved(e)' = Unresolved(e)
    BY <2>1 DEF Unresolved
  <2>3. \A i \in Ids : inbound'[e][i] # "none" => i \in OwnIds(Peer(e))
    BY <1>2, <2>1 DEF Books
  <2>4. ASSUME NEW i \in streams'[e] \ (OwnIds(e) \cup {0})
        PROVE  transport'[e] # "closed" /\ inbound'[e][i] \in {"partial", "pending", "errored"}
    <3>1. i \in Ids /\ (i = f.id \/ i \in streams[e] \ (OwnIds(e) \cup {0}))
      BY <1>2, <2>1, <2>4 DEF StreamTypeOK
    <3>2. i = f.id \/ inbound[e][i] \in {"partial", "pending", "errored"}
      BY <3>1 DEF Books
    <3> QED
      BY <1>1, <1>5, <2>1, <3>1, <3>2
  <2>5. streams'[e] \cap OwnIds(e) \subseteq issued[e]
    BY <1>2, <2>1 DEF Books
  <2>6. streams'[e] \cap issued[e] = streams[e] \cap issued[e]
    BY <1>2, <2>1
  <2>7. Books(e)'
    BY <1>5, <2>1, <2>2, <2>3, <2>4, <2>5, <2>6 DEF Books
  <2>8. PeerKept(e)
    BY <1>5, <1>6, PeerType DEF HandleRequest, StreamTypeOK, Kept, PeerKept
  <2> QED
    BY <1>4, <2>7, <2>8, BooksOfPeer
<1>7. CASE ~heard
  <2>1. UNCHANGED streamVars
    BY <1>7 DEF HandleRequest, streamVars
  <2> QED
    BY <1>4, <1>5, <2>1, BooksUnchanged
<1> QED
  BY <1>6, <1>7

(* Every frame handler keeps the invariant.                                *)
LEMMA IndHandle ==
  ASSUME IndInv, NEW e \in Endpoints, Handle(e)
  PROVE  IndInv'
<1> USE TypeParts, IndParts, IdsApart
<1>1. TypeOK'
  BY TypeHandle
<1>2. CASE HandleSetup(e)
  <2> DEFINE grants == AcceptsSetup(e) /\ Head(wire[e]).flag
             sent == IF grants THEN <<Mk("LEASE", 0, FALSE)>> ELSE <<>>
             closes == ~AcceptsSetup(e) /\ ClosesConnection("SETUP")
  <2>1. wire[e] # <<>> /\ transport[e] # "closed"
    BY <1>2, HeadType DEF HandleSetup, Receives, Reading
  <2>2. sent \in Seq(FramesTo(Peer(e))) /\ closes \in BOOLEAN
    <3>1. Mk("LEASE", 0, FALSE) \in FramesTo(Peer(e))
      BY FramesToType, PeerType
    <3> QED
      BY <3>1, OneOf, NoFrames
  <2>3. TakeFrame(e, sent, closes)
    BY <1>2 DEF HandleSetup
  <2> HIDE DEF sent, closes
  <2>4. Routed' /\ \A x \in Endpoints : transport[x] = "closed" <=> transport'[x] = "closed"
    BY <2>1, <2>2, <2>3, RoutedTake, TakeKeepsOpen
  <2>5. streams'[e] = streams[e] \cup {0} /\ streams'[Peer(e)] = streams[Peer(e)]
    BY <1>2, PeerType DEF HandleSetup, StreamTypeOK
  <2>6. Unresolved(e)' = Unresolved(e) /\ 0 \notin issued[e] /\ 0 \notin OwnIds(e)
    BY <1>2 DEF HandleSetup, Unresolved, StreamTypeOK
  <2>7. Books(e)'
    BY <1>2, <2>4, <2>5, <2>6 DEF HandleSetup, Books
  <2>8. PeerKept(e)
    BY <1>2, <2>4, <2>5, PeerType DEF HandleSetup, Kept, PeerKept
  <2> QED
    BY <1>1, <2>4, <2>7, <2>8, BooksOfPeer
<1>3. CASE HandleLease(e)
  <2>1. wire[e] # <<>> /\ TakeFrame(e, <<>>, FALSE) /\ UNCHANGED streamVars
    BY <1>3, HeadType DEF HandleLease
  <2>2. <<>> \in Seq(FramesTo(Peer(e))) /\ FALSE \in BOOLEAN
    BY NoFrames
  <2> QED
    BY <1>1, <2>1, <2>2, RoutedTake, TakeKeepsOpen, BooksUnchanged
<1>4. CASE HandleKeepalive(e)
  <2> DEFINE sent == IF Head(wire[e]).flag THEN <<Mk("KEEPALIVE", 0, FALSE)>> ELSE <<>>
  <2>1. wire[e] # <<>> /\ TakeFrame(e, sent, FALSE) /\ UNCHANGED streamVars
    BY <1>4, HeadType DEF HandleKeepalive
  <2>2. sent \in Seq(FramesTo(Peer(e))) /\ FALSE \in BOOLEAN
    <3>1. Mk("KEEPALIVE", 0, FALSE) \in FramesTo(Peer(e))
      BY FramesToType, PeerType
    <3> QED
      BY <3>1, OneOf, NoFrames
  <2> HIDE DEF sent
  <2> QED
    BY <1>1, <2>1, <2>2, RoutedTake, TakeKeepsOpen, BooksUnchanged
<1>5. CASE HandleRequest(e) \/ HandleResponse(e) \/ HandleError(e) \/ HandleCancel(e)
  BY <1>1, <1>5, IndHandleRequest, IndHandleResponse, IndHandleError, IndHandleCancel
<1>6. CASE UnheardError(e)
  <2>1. Fin \in FramesTo(Peer(e)) /\ Peer(e) \in Endpoints /\ Peer(e) # e
    BY FramesToType, PeerType
  <2>2. wire[Peer(e)] \o Outgoing(e, <<Fin>>) \in Seq(FramesTo(Peer(e)))
    BY <2>1, OneOf, OutgoingType DEF Routed
  <2>3. wire'[Peer(e)] = wire[Peer(e)] \o Outgoing(e, <<Fin>>) /\ wire'[e] = <<>>
    BY <1>6, <2>1 DEF UnheardError, LinkTypeOK
  <2>4. Routed'
    <3>1. <<>> \in Seq(FramesTo(e))
      BY NoFrames
    <3> QED
      BY <2>2, <2>3, <3>1 DEF Routed, Endpoints, Peer
  <2>5. \A x \in Endpoints : transport[x] = "closed" <=> transport'[x] = "closed"
    BY <1>6 DEF UnheardError, Receives, Reading, LinkTypeOK
  <2> QED
    BY <1>1, <1>6, <2>4, <2>5, BooksUnchanged DEF UnheardError
<1>7. CASE ReceiveFin(e)
  <2>1. Fin \in FramesTo(Peer(e)) /\ Peer(e) \in Endpoints /\ Peer(e) # e /\ wire[e] # <<>>
    BY <1>7, FramesToType, PeerType, HeadType DEF ReceiveFin
  <2>2. wire[Peer(e)] \o Outgoing(e, <<Fin>>) \in Seq(FramesTo(Peer(e)))
    BY <2>1, OneOf, OutgoingType DEF Routed
  <2>3. wire'[Peer(e)] = wire[Peer(e)] \o Outgoing(e, <<Fin>>) /\ wire'[e] = Tail(wire[e])
    BY <1>7, <2>1 DEF ReceiveFin, LinkTypeOK
  <2>4. Tail(wire[e]) \in Seq(FramesTo(e))
    BY <2>1, HeadTailProperties DEF Routed
  <2>5. Routed'
    BY <2>2, <2>3, <2>4 DEF Routed, Endpoints, Peer
  <2>6. \A x \in Endpoints : transport[x] = "closed" <=> transport'[x] = "closed"
    BY <1>7 DEF ReceiveFin, Receives, Reading, LinkTypeOK
  <2> QED
    BY <1>1, <1>7, <2>5, <2>6, BooksUnchanged DEF ReceiveFin
<1> QED
  BY <1>2, <1>3, <1>4, <1>5, <1>6, <1>7 DEF Handle

(* So do the failure and the closing of a transport.                       *)
LEMMA IndTransport ==
  ASSUME IndInv, NEW e \in Endpoints,
         TransportClose(e) \/ \E seen \in BOOLEAN : TransportError(e, seen)
  PROVE  IndInv'
<1> USE TypeParts, IndParts, IdsApart
<1>1. TypeOK'
  BY TypeTransport
<1>2. ASSUME NEW seen \in BOOLEAN, TransportError(e, seen)
      PROVE  IndInv'
  <2> DEFINE fin == IF seen THEN <<Fin>> ELSE <<>>
  <2>1. Fin \in FramesTo(Peer(e)) /\ Peer(e) \in Endpoints /\ Peer(e) # e
    BY FramesToType, PeerType
  <2>2. fin \in Seq(FramesTo(Peer(e)))
    BY <2>1, OneOf, NoFrames
  <2>3. wire[Peer(e)] \o Outgoing(e, fin) \in Seq(FramesTo(Peer(e)))
    BY <2>1, <2>2, OutgoingType DEF Routed
  <2>4. wire'[Peer(e)] = wire[Peer(e)] \o Outgoing(e, fin) /\ wire'[e] = <<>>
    BY <1>2, <2>1 DEF TransportError, LinkTypeOK
  <2> HIDE DEF fin
  <2>5. Routed'
    <3>1. <<>> \in Seq(FramesTo(e))
      BY NoFrames
    <3> QED
      BY <2>3, <2>4, <3>1 DEF Routed, Endpoints, Peer
  <2>6. \A x \in Endpoints : transport[x] = "closed" <=> transport'[x] = "closed"
    BY <1>2 DEF TransportError, LinkTypeOK
  <2> QED
    BY <1>1, <1>2, <2>5, <2>6, BooksUnchanged DEF TransportError
<1>3. CASE TransportClose(e)
  <2> DEFINE names == <<"error", "terminate">>
  <2>1. names \in Seq(EventNames) /\ names \in Settlements /\ names # <<>>
    BY EventPairs, SettlementsNotEmpty DEF EventNames, Settlements
  <2>2. transport[e] # "closed" /\ transport'[e] = "closed" /\ Routed'
    BY <1>3 DEF TransportClose, LinkTypeOK, Routed
  <2>3. Told(e) = Unresolved(e)
    BY <2>2 DEF Told, Books, Unresolved
  <2>4. \A i \in Ids : events'[e][i] = IF i \in Unresolved(e) THEN events[e][i] \o names
                                        ELSE events[e][i]
    BY <1>3, <2>3 DEF TransportClose, StreamTypeOK
  <2>5. \A i \in Unresolved(e) : events[e][i] = <<>> /\ i \in Ids
    BY DEF Unresolved, StreamTypeOK
  <2>6. \A i \in Ids : events'[e][i] = IF i \in Unresolved(e) THEN names ELSE events[e][i]
    BY <2>1, <2>4, <2>5, ConcatEmptySeq
  <2> HIDE DEF names
  <2>7. /\ latest' = latest /\ issued' = issued /\ expired' = expired /\ inbound' = inbound
        /\ timer'[e] = timer[e] \ Unresolved(e) /\ streams'[e] = streams[e] \ Freed(e)
    BY <1>3, <2>3 DEF TransportClose, StreamTypeOK
  <2>8. Unresolved(e)' = {}
    BY <2>1, <2>6, <2>7 DEF Unresolved, StreamTypeOK
  <2>9. streams'[e] \subseteq OwnIds(e) \cup {0}
    BY <2>7 DEF Books, Freed, StreamTypeOK
  <2>10. \A i \in Ids : events'[e][i] # <<>> => events'[e][i] \in Settlements /\ i \in issued'[e]
    BY <2>1, <2>6, <2>7 DEF Books, Unresolved
  <2>11. \A i \in expired'[e] : events'[e][i] # <<>>
    BY <2>1, <2>6, <2>7 DEF Books, StreamTypeOK
  <2>12. Books(e)'
    BY <2>2, <2>7, <2>8, <2>9, <2>10, <2>11 DEF Books
  <2>13. PeerKept(e)
    BY <1>3, PeerType DEF TransportClose, StreamTypeOK, LinkTypeOK, Kept, PeerKept
  <2> QED
    BY <1>1, <2>2, <2>12, <2>13, BooksOfPeer
<1> QED
  BY <1>2, <1>3

(* Without "follows" and "refuse" the invariant is inductive.              *)
THEOREM Inductive == ASSUME Calm PROVE Spec => []IndInv
<1>1. IndInv /\ [Next]_vars => IndInv'
  <2> SUFFICES ASSUME IndInv, [Next]_vars PROVE IndInv'
    OBVIOUS
  <2>1. CASE UNCHANGED vars
    <3>1. TypeOK' /\ Routed'
      BY <2>1, IndParts, TypeParts, Unchanged DEF vars, linkVars, Routed
    <3> QED
      BY <2>1, <3>1, IndParts, BooksUnchanged DEF vars, linkVars
  <2>2. CASE Next
    BY <2>2, IndApplication, IndHandle, IndTimers, IndTransport DEF Next
  <2> QED
    BY <2>1, <2>2
<1> QED
  BY <1>1, IndInit, PTL DEF Spec

(* The three properties are parts or consequences of the invariant.        *)
LEMMA IndImplies == IndInv => SettledOnce /\ WaitingIsTimed /\ TableIsAccountedFor
<1> SUFFICES ASSUME IndInv PROVE SettledOnce /\ WaitingIsTimed /\ TableIsAccountedFor
  OBVIOUS
<1>1. SettledOnce
  BY IndParts DEF Books, SettledOnce
<1>2. WaitingIsTimed
  BY IndParts DEF Books, WaitingIsTimed
<1>3. TableIsAccountedFor
  <2> SUFFICES ASSUME NEW e \in Endpoints
               PROVE  /\ Unresolved(e) \subseteq streams[e]
                      /\ \A id \in streams[e] \ (Unresolved(e) \cup {0}) :
                           \/ transport[e] # "closed" /\ inbound[e][id] \in {"partial", "pending"}
                           \/ LeftBehind(e, id)
    BY DEF TableIsAccountedFor
  <2>1. Books(e)
    BY IndParts
  <2>2. ASSUME NEW id \in streams[e], id \notin Unresolved(e), id # 0, id \in OwnIds(e)
        PROVE  LeftBehind(e, id)
    BY <2>1, <2>2 DEF Books, LeftBehind
  <2>3. ASSUME NEW id \in streams[e], id # 0, id \notin OwnIds(e)
        PROVE  \/ transport[e] # "closed" /\ inbound[e][id] \in {"partial", "pending"}
               \/ LeftBehind(e, id)
    BY <2>1, <2>3 DEF Books, LeftBehind
  <2> QED
    BY <2>1, <2>2, <2>3 DEF Books
<1> QED
  BY <1>1, <1>2, <1>3

(* A request is settled at most once, for any number of requests.          *)
THEOREM SettlesOnce == ASSUME Calm PROVE Spec => []SettledOnce
BY Inductive, IndImplies, PTL

(* A request is waited for exactly as long as its timeout is armed.        *)
THEOREM TimersFollowRequests == ASSUME Calm PROVE Spec => []WaitingIsTimed
BY Inductive, IndImplies, PTL

(* A request waited for is in the table of streams, and what else the      *)
(* table holds is stream 0, an inbound request that nobody has answered,   *)
(* or one of the two kinds of stream that the code leaves behind.          *)
THEOREM TableIsExplained == ASSUME Calm PROVE Spec => []TableIsAccountedFor
BY Inductive, IndImplies, PTL

-----------------------------------------------------------------------------
(* The closing of a transport                                              *)

(* A transport closes in its own close event and in no other step.         *)
LEMMA OnlyCloseCloses ==
  ASSUME LinkTypeOK, Next, NEW e \in Endpoints,
         transport[e] # "closed", transport'[e] = "closed"
  PROVE  TransportClose(e)
<1>1. ASSUME NEW x \in Endpoints, NEW frames, Send(x, frames) PROVE FALSE
  BY <1>1, SendKeepsOpen
<1>2. ASSUME NEW x \in Endpoints, NEW frames, NEW closes, TakeFrame(x, frames, closes) PROVE FALSE
  BY <1>2, TakeKeepsOpen
<1>c. "client" \in Endpoints /\ "server" \in Endpoints
  BY DEF Endpoints
<1>3. ASSUME NEW x \in Endpoints, Application(x) PROVE FALSE
  <2>1. CASE Close(x)
    BY <2>1 DEF Close, LinkTypeOK
  <2>2. CASE \E frames : Send(x, frames)
    BY <1>1, <2>2
  <2> QED
    BY <1>3, <2>1, <2>2 DEF Application, Request, Respond, RespondError, Cancel
<1>4. ASSUME NEW x \in Endpoints, Handle(x) PROVE FALSE
  <2>1. CASE \E frames, closes : TakeFrame(x, frames, closes)
    BY <1>2, <2>1
  <2>2. CASE UnheardError(x) \/ ReceiveFin(x)
    BY <2>2 DEF UnheardError, ReceiveFin, LinkTypeOK
  <2> QED
    BY <1>4, <2>1, <2>2 DEF Handle, HandleSetup, HandleLease, HandleKeepalive, HandleRequest,
       HandleResponse, HandleError, HandleCancel
<1>5. ASSUME NEW x \in Endpoints, NEW id \in Ids, Timeout(x, id) PROVE FALSE
  BY <1>1, <1>5 DEF Timeout
<1>6. ASSUME NEW x \in Endpoints, Constructed(x) PROVE FALSE
  BY <1>6 DEF Constructed, linkVars
<1>7. ASSUME NEW x \in Endpoints, NEW seen \in BOOLEAN, TransportError(x, seen) PROVE FALSE
  BY <1>7 DEF TransportError, LinkTypeOK
<1>8. ASSUME NEW x \in Endpoints, TransportClose(x) PROVE TransportClose(e)
  BY <1>8 DEF TransportClose, LinkTypeOK
<1>9. CASE SetupAgain \/ RejectSetup \/ KeepaliveTick \/ LeaseTick
  BY <1>1, <1>c, <1>9 DEF SetupAgain, RejectSetup, KeepaliveTick, LeaseTick
<1>10. CASE LeaseExpires
  BY <1>10 DEF LeaseExpires, linkVars
<1> QED
  BY <1>3, <1>4, <1>5, <1>6, <1>7, <1>8, <1>9, <1>10 DEF Next

(* In it every request waited for gets its outcome, and no timeout and no  *)
(* ticker is left.                                                         *)
LEMMA CloseStep ==
  ASSUME IndInv, NEW e \in Endpoints, TransportClose(e)
  PROVE  /\ \A id \in Unresolved(e) : events'[e][id] = <<"error", "terminate">>
         /\ timer'[e] = {}
         /\ ~ticking'[e]
<1> USE TypeParts, IndParts
<1> DEFINE names == <<"error", "terminate">>
<1>1. Told(e) = Unresolved(e)
  BY DEF TransportClose, Told, Books, Unresolved
<1>2. \A id \in Unresolved(e) : id \in Ids /\ events[e][id] = <<>>
  BY DEF Unresolved, StreamTypeOK
<1>3. \A id \in Ids : events'[e][id] = IF id \in Unresolved(e) THEN events[e][id] \o names
                                        ELSE events[e][id]
  BY <1>1 DEF TransportClose, StreamTypeOK
<1>4. names \in Seq(EventNames)
  BY EventPairs DEF EventNames
<1> HIDE DEF names
<1>5. \A id \in Unresolved(e) : events'[e][id] = names
  BY <1>2, <1>3, <1>4, ConcatEmptySeq
<1>6. timer'[e] = {}
  BY <1>1 DEF TransportClose, StreamTypeOK, Books
<1>7. ~ticking'[e]
  BY DEF TransportClose, SessionTypeOK
<1> QED
  BY <1>5, <1>6, <1>7 DEF names

(* When a transport closes, all that waited for it is settled at once.     *)
THEOREM ClosingSettles == ASSUME Calm PROVE Spec => CloseSettles
<1> DEFINE Settling ==
      \A e \in Endpoints :
        transport'[e] = "closed" /\ transport[e] # "closed" =>
          /\ \A id \in Unresolved(e) : events'[e][id] = <<"error", "terminate">>
          /\ timer'[e] = {}
          /\ ~ticking'[e]
<1>1. IndInv /\ [Next]_vars => [Settling]_vars
  BY IndParts, TypeParts, OnlyCloseCloses, CloseStep
<1>2. Spec => [][Settling]_vars
  <2> HIDE DEF Settling
  <2> QED
    BY <1>1, Inductive, PTL DEF Spec
<1> QED
  BY <1>2 DEF CloseSettles
=============================================================================
