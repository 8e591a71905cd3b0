--------------------- MODULE ReactiveSocketSessionProofs ---------------------
(***************************************************************************)
(* Theorems about module ReactiveSocket that hold whatever the             *)
(* applications do, fragments and responders that cancel included: where   *)
(* the outcomes of a request come from, and the order of setup and lease.  *)
(* At the end two that need neither of those: that the connection          *)
(* implements RequestResponse, and what may end the process.               *)
(***************************************************************************)
EXTENDS ReactiveSocketRefinement, ReactiveSocketProofs

-----------------------------------------------------------------------------
(* What is on the wire                                                     *)

(* A frame on its way to an end agrees with what its sender has done:      *)
(* asked are the ids the sender has issued, refused those it has called    *)
(* cancel() on, here and there what became of inbound requests at the      *)
(* receiver and at the sender.                                             *)
Genuine(f, asked, refused, here, there) ==
  /\ f.type = "REQUEST_RESPONSE" => f.id \in asked /\ here[f.id] = "none"
  /\ f.type = "RESPONSE" => f.id \in Ids /\ (f.flag \/ there[f.id] = "responded")
  /\ f.type = "ERROR" => f.id = 0 \/ there[f.id] = "errored"
  /\ f.type = "CANCEL" => f.id \in asked \cup refused

IsRequest(f, id) == f.type = "REQUEST_RESPONSE" /\ f.id = id

(* So do all the frames of a queue, and a request is under way once.       *)
Fit(q, asked, refused, here, there) ==
  /\ \A i \in DOMAIN q : Genuine(q[i], asked, refused, here, there)
  /\ \A i, j \in DOMAIN q : i # j =>
       ~(IsRequest(q[i], q[i].id) /\ IsRequest(q[j], q[i].id))

Traffic(e) ==
  Fit(wire[e], issued[Peer(e)], cancelled[Peer(e)], inbound[e], inbound[Peer(e)])

(* The ids an end has used, those it waits for and those its peer knows.   *)
Issues(e) ==
  /\ latest[e] % 2 = IF e = "client" THEN 1 ELSE 0
  /\ \A id \in issued[e] : id \in OwnIds(e) /\ id <= latest[e]
  /\ timer[e] \subseteq issued[e]
  /\ \A id \in Ids : inbound[Peer(e)][id] # "none" => id \in issued[e]

(* What is in a history has a cause: what the peer did, or that the        *)
(* transport is gone.                                                      *)
Caused(names, answer, refused, gone) ==
  \A i \in DOMAIN names :
    /\ names[i] = "response" => answer = "responded"
    /\ names[i] = "cancel" => refused
    /\ names[i] = "error" => answer = "errored" \/ gone

Outcomes(e) ==
  \A id \in Ids : Caused(events[e][id], inbound[Peer(e)][id],
                         id \in cancelled[Peer(e)], transport[e] = "closed")

(* The inductive invariant behind IdsAreOwned and OutcomeHasCause: an      *)
(* answer in flight is one that was given, what was given is not taken     *)
(* back because no request in flight has an id the receiver has seen, and  *)
(* that is because each end takes its ids from a series of its own.        *)
Causes ==
  /\ TypeOK
  /\ \A e \in Endpoints : Issues(e) /\ Traffic(e) /\ Outcomes(e)

(* The inductive invariant behind SetupFirst: as long as the server has    *)
(* not been set up, a setup frame is the next it reads.                    *)
SetupIsNext ==
  \/ isSetup["server"]
  \/ ~Reading("server")
  \/ wire["server"] # <<>> /\ Head(wire["server"]).type = "SETUP"

(* The one behind ReadyIsLeased: leases come from a server that is set up. *)
LeasesAreGranted ==
  /\ ticking["server"] => isSetup["server"]
  /\ \A i \in DOMAIN wire["client"] : wire["client"][i].type = "LEASE" => isSetup["server"]

Session == TypeOK /\ SetupIsNext /\ LeasesAreGranted /\ ReadyIsLeased

-----------------------------------------------------------------------------
(* Queues                                                                  *)

(* A queue that loses its first frame still fits.                          *)
LEMMA FitTail ==
  ASSUME NEW q \in Seq(Frame), q # <<>>, NEW asked, NEW refused, NEW here, NEW there,
         Fit(q, asked, refused, here, there)
  PROVE  /\ Tail(q) \in Seq(Frame)
         /\ Fit(Tail(q), asked, refused, here, there)
         /\ \A i \in DOMAIN Tail(q) :
              ~(IsRequest(Head(q), Head(q).id) /\ IsRequest(Tail(q)[i], Head(q).id))
<1>1. /\ Tail(q) \in Seq(Frame) /\ Len(q) \in Nat \ {0} /\ DOMAIN q = 1..Len(q)
      /\ DOMAIN Tail(q) = 1..(Len(q) - 1) /\ Head(q) = q[1]
      /\ \A i \in DOMAIN Tail(q) : Tail(q)[i] = q[i + 1]
  BY HeadTailProperties, EmptySeq
<1>2. \A i \in DOMAIN Tail(q) : i + 1 \in DOMAIN q /\ i + 1 # 1 /\ 1 \in DOMAIN q
  BY <1>1
<1>3. \A i, j \in DOMAIN Tail(q) : i # j => i + 1 # j + 1
  BY <1>1
<1> QED
  BY <1>1, <1>2, <1>3 DEF Fit

(* A queue fits that a genuine frame is added to.                          *)
LEMMA FitAppend ==
  ASSUME NEW q \in Seq(Frame), NEW f \in Frame, NEW asked, NEW refused, NEW here, NEW there,
         Fit(q, asked, refused, here, there), Genuine(f, asked, refused, here, there),
         \A i \in DOMAIN q : ~(IsRequest(f, f.id) /\ IsRequest(q[i], f.id))
  PROVE  Fit(q \o <<f>>, asked, refused, here, there)
<1> DEFINE r == q \o <<f>>
<1>1. /\ Len(q) \in Nat /\ DOMAIN q = 1..Len(q) /\ DOMAIN r = 1..(Len(q) + 1)
      /\ \A i \in DOMAIN q : r[i] = q[i]
      /\ r[Len(q) + 1] = f
  OBVIOUS
<1>2. \A i \in DOMAIN r : i \in DOMAIN q \/ i = Len(q) + 1
  BY <1>1
<1> HIDE DEF r
<1>3. \A i \in DOMAIN r : Genuine(r[i], asked, refused, here, there)
  BY <1>1, <1>2 DEF Fit
<1>4. ASSUME NEW i \in DOMAIN r, NEW j \in DOMAIN r, i # j,
             IsRequest(r[i], r[i].id), IsRequest(r[j], r[i].id)
      PROVE  FALSE
  <2>1. CASE i \in DOMAIN q /\ j \in DOMAIN q
    BY <1>1, <1>4, <2>1 DEF Fit
  <2>2. CASE i \notin DOMAIN q
    BY <1>1, <1>2, <1>4, <2>2
  <2>3. CASE j \notin DOMAIN q
    BY <1>1, <1>2, <1>4, <2>3 DEF IsRequest
  <2> QED
    BY <2>1, <2>2, <2>3
<1>5. Fit(r, asked, refused, here, there)
  BY <1>3, <1>4 DEF Fit
<1> QED
  BY <1>5 DEF r

(* What is in flight stays genuine when more ids are issued, no id that    *)
(* the receiver has not seen is seen, and what was answered stays so.      *)
LEMMA FitKept ==
  ASSUME NEW q \in Seq(Frame), NEW asked, NEW refused, NEW here, NEW there,
         Fit(q, asked, refused, here, there), NEW asked2, NEW refused2, NEW here2, NEW there2,
         asked \subseteq asked2, refused \subseteq refused2,
         \A i \in DOMAIN q : IsRequest(q[i], q[i].id) /\ here[q[i].id] = "none" =>
           here2[q[i].id] = "none",
         \A id \in Ids : there[id] \in {"responded", "errored"} => there2[id] = there[id]
  PROVE  Fit(q, asked2, refused2, here2, there2)
<1>1. \A i \in DOMAIN q : q[i] \in Frame
  OBVIOUS
<1>2. \A i \in DOMAIN q : q[i].id \in Ids \cup {0}
  BY <1>1 DEF Frame
<1>3. \A i \in DOMAIN q : Genuine(q[i], asked2, refused2, here2, there2)
  BY <1>2 DEF Fit, Genuine, IsRequest
<1> QED
  BY <1>3 DEF Fit

(* What a turn of e does to the wire: it sends a frame f or none, and what *)
(* was on its way to e stays, loses its first frame or is lost.            *)
Writes(e, f) == wire'[Peer(e)] \in {wire[Peer(e)], wire[Peer(e)] \o <<f>>}
Stays(e) == wire'[e] = wire[e]
Takes(e) == wire[e] # <<>> /\ wire'[e] = Tail(wire[e])
Drops(e) == wire'[e] = <<>>

LEMMA WritesOutgoing ==
  ASSUME LinkTypeOK, NEW e \in Endpoints, NEW f, NEW frames \in {<<>>, <<f>>},
         wire'[Peer(e)] = wire[Peer(e)] \o Outgoing(e, frames)
  PROVE  Writes(e, f)
<1>1. wire[Peer(e)] \in Seq(Frame)
  BY PeerType DEF LinkTypeOK
<1>2. wire[Peer(e)] \o <<>> = wire[Peer(e)]
  BY <1>1, ConcatEmptySeq
<1>3. Outgoing(e, frames) \in {<<>>, <<f>>}
  BY DEF Outgoing
<1> QED
  BY <1>2, <1>3 DEF Writes

(* send() outside of a frame handler takes nothing.                        *)
LEMMA SendWrites ==
  ASSUME LinkTypeOK, NEW e \in Endpoints, NEW f, Send(e, <<f>>)
  PROVE  Stays(e) /\ Writes(e, f) /\ transport' = transport
<1>1. /\ wire'[e] = wire[e] /\ transport' = transport
      /\ wire'[Peer(e)] = wire[Peer(e)] \o Outgoing(e, <<f>>)
  BY PeerType DEF Send, LinkTypeOK
<1> QED
  BY <1>1, WritesOutgoing DEF Stays

(* A frame handler takes a frame, and no transport closes in it.           *)
LEMMA TakeWrites ==
  ASSUME LinkTypeOK, NEW e \in Endpoints, NEW f, NEW frames, NEW closes \in BOOLEAN,
         (IF closes THEN Append(frames, Fin) ELSE frames) \in {<<>>, <<f>>},
         wire[e] # <<>>, TakeFrame(e, frames, closes)
  PROVE  /\ Takes(e) /\ Writes(e, f)
         /\ \A x \in Endpoints : transport[x] = "closed" => transport'[x] = "closed"
<1> DEFINE sent == IF closes THEN Append(frames, Fin) ELSE frames
<1>1. wire' = [wire EXCEPT ![e] = Tail(@), ![Peer(e)] = @ \o Outgoing(e, sent)]
  BY DEF TakeFrame
<1>2. sent \in {<<>>, <<f>>}
  OBVIOUS
<1> HIDE DEF sent
<1>3. wire'[e] = Tail(wire[e]) /\ wire'[Peer(e)] = wire[Peer(e)] \o Outgoing(e, sent)
  BY <1>1, PeerType DEF LinkTypeOK
<1>4. \A x \in Endpoints : transport[x] = "closed" => transport'[x] = "closed"
  BY DEF TakeFrame, LinkTypeOK
<1> QED
  BY <1>2, <1>3, <1>4, WritesOutgoing DEF Takes

(* An end's turn changes only its own books: ids are issued and inbound    *)
(* requests answered, for good.                                            *)
Lasts(e) ==
  /\ issued'[Peer(e)] = issued[Peer(e)] /\ inbound'[Peer(e)] = inbound[Peer(e)]
  /\ issued[e] \subseteq issued'[e]
  /\ \A id \in Ids : inbound[e][id] \in {"responded", "errored"} =>
       inbound'[e][id] = inbound[e][id]

(* Nor does it take back a call of cancel().                               *)
Refuses(e) ==
  cancelled'[Peer(e)] = cancelled[Peer(e)] /\ cancelled[e] \subseteq cancelled'[e]

(* A turn that does no more than take a frame and send one that fits keeps *)
(* what is on the wire in agreement with the books.                        *)
LEMMA TrafficStep ==
  ASSUME LinkTypeOK, LinkTypeOK', NEW e \in Endpoints, NEW f \in Frame,
         \A x \in Endpoints : Traffic(x),
         Stays(e) \/ Takes(e) \/ Drops(e), Writes(e, f), Lasts(e), Refuses(e),
         Genuine(f, issued'[e], cancelled'[e], inbound[Peer(e)], inbound'[e]),
         \A i \in DOMAIN wire[Peer(e)] :
           ~(IsRequest(f, f.id) /\ IsRequest(wire[Peer(e)][i], f.id)),
         \A i \in DOMAIN wire'[e] :
           IsRequest(wire'[e][i], wire'[e][i].id) /\ inbound[e][wire'[e][i].id] = "none" =>
             inbound'[e][wire'[e][i].id] = "none"
  PROVE  \A x \in Endpoints : Traffic(x)'
<1> DEFINE p == Peer(e)
<1>1. p \in Endpoints /\ p # e /\ Peer(p) = e
  BY PeerType, IdsApart
<1>2. wire[e] \in Seq(Frame) /\ wire[p] \in Seq(Frame) /\ wire'[e] \in Seq(Frame)
  BY <1>1 DEF LinkTypeOK
<1>3. Traffic(e)'
  <2>1. Fit(wire[e], issued[p], cancelled[p], inbound[e], inbound[p])
    BY DEF Traffic
  <2>2. Fit(wire'[e], issued[p], cancelled[p], inbound[e], inbound[p])
    <3>1. Fit(<<>>, issued[p], cancelled[p], inbound[e], inbound[p])
      BY DEF Fit
    <3> QED
      BY <1>2, <2>1, <3>1, FitTail DEF Stays, Takes, Drops
  <2>3. Fit(wire'[e], issued'[p], cancelled'[p], inbound'[e], inbound'[p])
    BY <1>2, <2>2, FitKept DEF Lasts, Refuses
  <2> QED
    BY <2>3 DEF Traffic
<1>4. Traffic(p)'
  <2>1. Fit(wire[p], issued[e], cancelled[e], inbound[p], inbound[e])
    BY <1>1 DEF Traffic
  <2>2. Fit(wire[p], issued'[e], cancelled'[e], inbound'[p], inbound'[e])
    <3>1. /\ issued[e] \subseteq issued'[e] /\ cancelled[e] \subseteq cancelled'[e]
          /\ inbound'[p] = inbound[p]
          /\ \A id \in Ids : inbound[e][id] \in {"responded", "errored"} =>
               inbound'[e][id] = inbound[e][id]
      BY DEF Lasts, Refuses
    <3> HIDE DEF p
    <3> QED
      BY <1>2, <2>1, <3>1, FitKept
  <2>3. Fit(wire[p] \o <<f>>, issued'[e], cancelled'[e], inbound'[p], inbound'[e])
    BY <1>2, <2>2, FitAppend DEF Lasts, Refuses
  <2>4. Fit(wire'[p], issued'[e], cancelled'[e], inbound'[p], inbound'[e])
    BY <2>2, <2>3 DEF Writes
  <2> QED
    BY <1>1, <2>4 DEF Traffic
<1> QED
  BY <1>3, <1>4 DEF Endpoints, Peer

-----------------------------------------------------------------------------
(* The causes of outcomes                                                  *)

(* A history that goes on with something that has a cause is fine.         *)
LEMMA CausedAppend ==
  ASSUME NEW q \in Seq(EventNames), NEW names \in Seq(EventNames),
         NEW answer, NEW refused, NEW gone,
         Caused(q, answer, refused, gone), Caused(names, answer, refused, gone)
  PROVE  Caused(q \o names, answer, refused, gone)
<1> DEFINE r == q \o names
<1>1. \A i \in DOMAIN r :
        \/ i \in DOMAIN q /\ r[i] = q[i]
        \/ i - Len(q) \in DOMAIN names /\ r[i] = names[i - Len(q)]
  OBVIOUS
<1> HIDE DEF r
<1>2. Caused(r, answer, refused, gone)
  BY <1>1 DEF Caused
<1> QED
  BY <1>2 DEF r

(* The histories of an end that emits nothing stay as they are, and their  *)
(* causes with them.                                                       *)
LEMMA OutcomesKept ==
  ASSUME NEW e \in Endpoints, Outcomes(e), events'[e] = events[e],
         \A id \in Ids : inbound[Peer(e)][id] \in {"responded", "errored"} =>
           inbound'[Peer(e)][id] = inbound[Peer(e)][id],
         cancelled[Peer(e)] \subseteq cancelled'[Peer(e)],
         transport[e] = "closed" => transport'[e] = "closed"
  PROVE  Outcomes(e)'
BY DEF Outcomes, Caused

(* So do those of an end that emits an outcome with a cause.               *)
LEMMA OutcomesEmit ==
  ASSUME TypeOK, NEW e \in Endpoints, Outcomes(e), NEW id \in Ids,
         NEW names \in Seq(EventNames), Emit(e, id, names),
         Caused(names, inbound[Peer(e)][id], id \in cancelled[Peer(e)], transport[e] = "closed"),
         inbound'[Peer(e)] = inbound[Peer(e)], cancelled[Peer(e)] \subseteq cancelled'[Peer(e)],
         transport[e] = "closed" => transport'[e] = "closed"
  PROVE  Outcomes(e)' /\ events'[Peer(e)] = events[Peer(e)]
<1>1. events \in [Endpoints -> [Ids -> Seq(EventNames)]]
  BY TypeParts DEF StreamTypeOK
<1>2. /\ events'[e] = [events[e] EXCEPT ![id] = events[e][id] \o names]
      /\ events'[Peer(e)] = events[Peer(e)]
  BY <1>1, PeerType DEF Emit
<1>3. Caused(events[e][id] \o names, inbound[Peer(e)][id], id \in cancelled[Peer(e)],
             transport[e] = "closed")
  <2>1. events[e][id] \in Seq(EventNames)
    BY <1>1
  <2> QED
    BY <2>1, CausedAppend DEF Outcomes
<1>4. ASSUME NEW i \in Ids
      PROVE  Caused(events'[e][i], inbound[Peer(e)][i], i \in cancelled[Peer(e)],
                    transport[e] = "closed")
  <2>1. CASE i = id
    BY <1>1, <1>2, <1>3, <2>1
  <2>2. CASE i # id
    BY <1>1, <1>2, <2>2 DEF Outcomes
  <2> QED
    BY <2>1, <2>2
<1>5. ASSUME NEW i \in Ids
      PROVE  Caused(events'[e][i], inbound'[Peer(e)][i], i \in cancelled'[Peer(e)],
                    transport'[e] = "closed")
  BY <1>4 DEF Caused
<1> QED
  BY <1>2, <1>5 DEF Outcomes

(* A turn of e keeps the invariant when it keeps the wire in agreement     *)
(* with the books and the outcomes of e with their causes.                 *)
LEMMA CausesStep ==
  ASSUME Causes, TypeOK', NEW e \in Endpoints, NEW f \in Frame,
         Stays(e) \/ Takes(e) \/ Drops(e), Writes(e, f), Lasts(e), Refuses(e),
         Genuine(f, issued'[e], cancelled'[e], inbound[Peer(e)], inbound'[e]),
         \A i \in DOMAIN wire[Peer(e)] :
           ~(IsRequest(f, f.id) /\ IsRequest(wire[Peer(e)][i], f.id)),
         \A i \in DOMAIN wire'[e] :
           IsRequest(wire'[e][i], wire'[e][i].id) /\ inbound[e][wire'[e][i].id] = "none" =>
             inbound'[e][wire'[e][i].id] = "none",
         \A x \in Endpoints : Issues(x)',
         Outcomes(e)', events'[Peer(e)] = events[Peer(e)],
         transport[Peer(e)] = "closed" => transport'[Peer(e)] = "closed"
  PROVE  Causes'
<1>1. LinkTypeOK /\ LinkTypeOK' /\ (\A x \in Endpoints : Traffic(x) /\ Outcomes(x))
  BY TypeParts DEF Causes
<1>2. \A x \in Endpoints : Traffic(x)'
  BY <1>1, TrafficStep
<1>3. Outcomes(Peer(e))'
  BY <1>1, PeerType, IdsApart, OutcomesKept DEF Lasts, Refuses
<1>4. \A x \in Endpoints : Outcomes(x)'
  BY <1>3 DEF Endpoints, Peer
<1> QED
  BY <1>2, <1>4 DEF Causes

(* The same for a turn that issues no id and answers nothing, and sends no *)
(* frame about one request but, maybe, one that cancels it.                *)
Quiet(e) ==
  /\ UNCHANGED <<latest, issued, inbound>>
  /\ Refuses(e)
  /\ timer'[Peer(e)] = timer[Peer(e)] /\ timer'[e] \subseteq timer[e]
Bland(f) ==
  /\ f.type \notin {"REQUEST_RESPONSE", "RESPONSE", "CANCEL"}
  /\ f.type = "ERROR" => f.id = 0
Withdraws(e, f) == f.type = "CANCEL" /\ f.id \in issued[e] \cup cancelled'[e]

LEMMA CausesQuiet ==
  ASSUME Causes, TypeOK', NEW e \in Endpoints, NEW f \in Frame, Bland(f) \/ Withdraws(e, f),
         Stays(e) \/ Takes(e) \/ Drops(e), Writes(e, f), Quiet(e),
         Outcomes(e)', events'[Peer(e)] = events[Peer(e)],
         transport[Peer(e)] = "closed" => transport'[Peer(e)] = "closed"
  PROVE  Causes'
<1>1. Lasts(e) /\ Refuses(e)
  BY DEF Lasts, Quiet
<1>2. Genuine(f, issued'[e], cancelled'[e], inbound[Peer(e)], inbound'[e])
  BY DEF Genuine, Bland, Withdraws, Quiet
<1>3. \A x \in Endpoints : Issues(x)'
  <2>1. \A x \in Endpoints : timer'[x] \subseteq timer[x]
    BY DEF Quiet, Endpoints, Peer
  <2> QED
    BY <2>1 DEF Causes, Issues, Quiet
<1>4. ~IsRequest(f, f.id)
  BY DEF IsRequest, Bland, Withdraws
<1>5. inbound' = inbound
  BY DEF Quiet
<1> QED
  BY <1>1, <1>2, <1>3, <1>4, <1>5, CausesStep

(* And for one that emits nothing either.                                  *)
LEMMA CausesSilent ==
  ASSUME Causes, TypeOK', NEW e \in Endpoints, NEW f \in Frame, Bland(f) \/ Withdraws(e, f),
         Stays(e) \/ Takes(e) \/ Drops(e), Writes(e, f), Quiet(e), UNCHANGED events,
         \A x \in Endpoints : transport[x] = "closed" => transport'[x] = "closed"
  PROVE  Causes'
<1>1. Outcomes(e)'
  BY PeerType, OutcomesKept DEF Causes, Quiet, Refuses
<1> QED
  BY <1>1, PeerType, CausesQuiet DEF Quiet

(* It holds of two ends that have just been constructed.                   *)
LEMMA CausesInit == Init => Causes
<1> SUFFICES ASSUME Init PROVE Causes
  OBVIOUS
<1>1. TypeOK
  BY TypeInit
<1>2. ASSUME NEW e \in Endpoints PROVE Issues(e)
  BY PeerType DEF Init, FirstLatest, Endpoints, Issues
<1>3. ASSUME NEW e \in Endpoints PROVE Traffic(e)
  <2> DEFINE s == Mk("SETUP", 0, "lease" \in Uses)
  <2>1. s.type = "SETUP" /\ wire[e] \in {<<s>>, <<>>}
    BY DEF Init, Mk
  <2> HIDE DEF s
  <2>2. \A i \in DOMAIN wire[e] : wire[e][i].type = "SETUP"
    BY <2>1
  <2> QED
    BY <2>2 DEF Traffic, Fit, Genuine, IsRequest
<1>4. ASSUME NEW e \in Endpoints PROVE Outcomes(e)
  <2>1. \A id \in Ids : events[e][id] = <<>>
    BY DEF Init
  <2>2. \A answer, refused, gone : Caused(<<>>, answer, refused, gone)
    BY DEF Caused
  <2> QED
    BY <2>1, <2>2 DEF Outcomes
<1> QED
  BY <1>1, <1>2, <1>3, <1>4 DEF Causes

(* The id request() takes is one of the end's own, and above all it used.  *)
LEMMA NextIdNew ==
  ASSUME TypeOK, NEW e \in Endpoints, Issues(e), IdsLeft(e)
  PROVE  NextId(e) \in OwnIds(e) /\ NextId(e) \notin issued[e]
<1>1. latest[e] \in -1..MaxStreamId /\ (latest[e] % 2 = IF e = "client" THEN 1 ELSE 0)
  BY TypeParts DEF StreamTypeOK, Issues
<1>2. NextId(e) \in Ids /\ NextId(e) = latest[e] + 2
  BY <1>1, ConstantsOK DEF NextId, IdsLeft, Ids
<1>3. (latest[e] + 2) % 2 = latest[e] % 2
  BY <1>1
<1>4. NextId(e) \in OwnIds(e)
  BY <1>1, <1>2, <1>3 DEF OwnIds
<1>5. ~(latest[e] + 2 <= latest[e])
  BY <1>1
<1> QED
  BY <1>2, <1>4, <1>5 DEF Issues

(* request() keeps the invariant: nobody has seen the id it takes.         *)
LEMMA CausesRequest ==
  ASSUME Causes, NEW e \in Endpoints, NEW follows \in BOOLEAN, Request(e, follows)
  PROVE  Causes'
<1> DEFINE id == NextId(e)
           f == Mk("REQUEST_RESPONSE", id, follows)
<1>1. TypeOK' /\ TypeOK /\ LinkTypeOK /\ (\A x \in Endpoints : Issues(x) /\ Traffic(x) /\ Outcomes(x))
  BY TypeApplication, TypeParts DEF Application, Causes
<1>2. id \in OwnIds(e) /\ id \in Ids /\ id \notin issued[e] /\ latest'[e] = id
  BY <1>1, NextIdNew, TypeParts DEF Request, OwnIds, StreamTypeOK
<1>3. /\ issued'[e] = issued[e] \cup {id} /\ latest'[Peer(e)] = latest[Peer(e)]
      /\ issued'[Peer(e)] = issued[Peer(e)] /\ inbound' = inbound /\ events' = events
      /\ timer'[e] = timer[e] \cup {id} /\ timer'[Peer(e)] = timer[Peer(e)]
      /\ cancelled' = cancelled
  BY <1>1, PeerType, TypeParts DEF Request, StreamTypeOK, Arm
<1>4. f \in Frame /\ f.id = id /\ f.type = "REQUEST_RESPONSE"
  BY <1>2, FramesType DEF FrameTypes, Mk
<1>5. Stays(e) /\ Writes(e, f) /\ transport' = transport
  BY <1>1, SendWrites DEF Request
<1> HIDE DEF f
<1>6. Genuine(f, issued'[e], cancelled'[e], inbound[Peer(e)], inbound'[e])
  BY <1>1, <1>2, <1>3, <1>4 DEF Genuine, Issues
<1>7. \A i \in DOMAIN wire[Peer(e)] : ~IsRequest(wire[Peer(e)][i], f.id)
  BY <1>1, <1>2, <1>4, PeerType, IdsApart DEF Traffic, Fit, Genuine, IsRequest
<1>8. Issues(e)'
  <2>1. latest[e] \in Int /\ latest'[e] = latest[e] + 2 /\ \A i \in issued[e] : i \in Int
    BY <1>1, <1>2, TypeParts, ConstantsOK DEF StreamTypeOK, NextId, Ids
  <2>2. \A i \in issued'[e] : i \in OwnIds(e) /\ i <= latest'[e]
    BY <1>1, <1>2, <1>3, <2>1 DEF Issues
  <2>3. latest'[e] % 2 = IF e = "client" THEN 1 ELSE 0
    BY <1>2 DEF OwnIds
  <2> QED
    BY <1>1, <1>3, <2>2, <2>3 DEF Issues
<1>9. Issues(Peer(e))'
  BY <1>1, <1>3, PeerType DEF Issues
<1>10. \A x \in Endpoints : Issues(x)'
  BY <1>8, <1>9 DEF Endpoints, Peer
<1>11. Lasts(e) /\ Refuses(e) /\ Outcomes(e)' /\ transport'[Peer(e)] = transport[Peer(e)]
  BY <1>1, <1>3, <1>5, OutcomesKept DEF Lasts, Refuses
<1> QED
  BY <1>1, <1>3, <1>4, <1>5, <1>6, <1>7, <1>10, <1>11, CausesStep

(* So does an answer, of either kind: what was answered is not pending.    *)
Answers(e, id, state) ==
  /\ inbound[e][id] \in {"pending", "streaming"}
  /\ inbound' = [inbound EXCEPT ![e][id] = state]
  /\ UNCHANGED <<latest, issued, timer, events, cancelled>>

LEMMA CausesAnswer ==
  ASSUME Causes, TypeOK', NEW e \in Endpoints, NEW id \in Ids, NEW state,
         Answers(e, id, state),
         NEW f \in Frame, f.type # "REQUEST_RESPONSE", Send(e, <<f>>),
         Genuine(f, issued[e], cancelled[e], inbound[Peer(e)], inbound'[e])
  PROVE  Causes'
<1>1. TypeOK /\ LinkTypeOK /\ (\A x \in Endpoints : Issues(x) /\ Traffic(x) /\ Outcomes(x))
  BY TypeParts DEF Causes
<1>2. /\ inbound'[Peer(e)] = inbound[Peer(e)]
      /\ \A i \in Ids : inbound'[e][i] = IF i = id THEN state ELSE inbound[e][i]
  BY <1>1, PeerType, TypeParts DEF StreamTypeOK, Answers
<1>3. Stays(e) /\ Writes(e, f) /\ transport' = transport
  BY <1>1, SendWrites
<1> USE DEF Answers
<1>4. Lasts(e) /\ Refuses(e) /\ Outcomes(e)'
  <2>1. Lasts(e) /\ Refuses(e)
    BY <1>2 DEF Lasts, Refuses
  <2> QED
    BY <1>1, <1>2, <1>3, <2>1, OutcomesKept
<1>5. \A x \in Endpoints : Issues(x)'
  <2>1. Issues(e)'
    BY <1>1, <1>2 DEF Issues
  <2>2. Issues(Peer(e))'
    BY <1>1, <1>2, PeerType, IdsApart DEF Issues
  <2> QED
    BY <2>1, <2>2 DEF Endpoints, Peer
<1>6. ~IsRequest(f, f.id)
  BY DEF IsRequest
<1>7. \A i \in DOMAIN wire[e] : IsRequest(wire[e][i], wire[e][i].id) => wire[e][i].id \in Ids
  BY <1>1, PeerType, TypeParts DEF Traffic, Fit, Genuine, IsRequest, StreamTypeOK
<1>8. \A i \in DOMAIN wire'[e] :
        IsRequest(wire'[e][i], wire'[e][i].id) /\ inbound[e][wire'[e][i].id] = "none" =>
          inbound'[e][wire'[e][i].id] = "none"
  BY <1>2, <1>3, <1>7 DEF Stays
<1>9. issued' = issued /\ events' = events /\ cancelled' = cancelled
  OBVIOUS
<1> QED
  BY <1>3, <1>4, <1>5, <1>6, <1>8, <1>9, CausesStep

(* The other end's events: the applications' calls keep the invariant.     *)
LEMMA CausesApplication ==
  ASSUME Causes, NEW e \in Endpoints, Application(e)
  PROVE  Causes'
<1>1. TypeOK /\ TypeOK' /\ LinkTypeOK
  BY TypeApplication, TypeParts DEF Causes
<1>2. ASSUME NEW follows \in BOOLEAN, Request(e, follows)
      PROVE  Causes'
  BY <1>2, CausesRequest
<1>3. ASSUME NEW id \in Ids, NEW follows \in BOOLEAN, Respond(e, id, follows)
      PROVE  Causes'
  <2> DEFINE f == Mk("RESPONSE", id, follows)
             state == IF follows THEN "streaming" ELSE "responded"
  <2>1. f \in Frame /\ f.type = "RESPONSE" /\ f.id = id /\ f.flag = follows
    BY FramesType DEF FrameTypes, Mk
  <2>2. Answers(e, id, state)
    BY <1>3 DEF Respond, Answers
  <2>3. ~follows => inbound'[e][id] = "responded"
    BY <1>1, <2>2, TypeParts DEF StreamTypeOK, Answers
  <2>4. Genuine(f, issued[e], cancelled[e], inbound[Peer(e)], inbound'[e])
    BY <2>1, <2>3 DEF Genuine
  <2>5. Send(e, <<f>>)
    BY <1>3 DEF Respond
  <2> HIDE DEF f, state
  <2> QED
    BY <1>1, <2>1, <2>2, <2>4, <2>5, CausesAnswer
<1>4. ASSUME NEW id \in Ids, NEW class \in ErrorClasses, RespondError(e, id, class)
      PROVE  Causes'
  <2> DEFINE f == MkError(id, class)
  <2>1. f \in Frame /\ f.type = "ERROR" /\ f.id = id
    BY FramesType, ConstantsOK DEF MkError
  <2>2. Answers(e, id, "errored")
    BY <1>4 DEF RespondError, Answers
  <2>3. inbound'[e][id] = "errored"
    BY <1>1, <2>2, TypeParts DEF StreamTypeOK, Answers
  <2>4. Genuine(f, issued[e], cancelled[e], inbound[Peer(e)], inbound'[e])
    BY <2>1, <2>3 DEF Genuine
  <2>5. Send(e, <<f>>)
    BY <1>4 DEF RespondError
  <2> HIDE DEF f
  <2> QED
    BY <1>1, <2>1, <2>2, <2>4, <2>5, CausesAnswer
<1>5. ASSUME NEW id \in Ids, Cancel(e, id)
      PROVE  Causes'
  <2>1. Mk("CANCEL", id, FALSE) \in Frame /\ Withdraws(e, Mk("CANCEL", id, FALSE))
    BY <1>1, <1>5, FramesType, TypeParts DEF FrameTypes, Mk, Withdraws, Cancel, StreamTypeOK
  <2>2. Stays(e) /\ Writes(e, Mk("CANCEL", id, FALSE)) /\ transport' = transport
    BY <1>1, <1>5, SendWrites DEF Cancel
  <2>3. Quiet(e) /\ UNCHANGED events
    BY <1>1, <1>5, PeerType, TypeParts DEF Cancel, Quiet, Refuses, StreamTypeOK
  <2> QED
    BY <1>1, <2>1, <2>2, <2>3, CausesSilent
<1>6. CASE Close(e)
  <2>1. Fin \in Frame /\ Bland(Fin)
    BY FramesType DEF Fin, Mk, Bland
  <2>2. Stays(e) /\ wire'[Peer(e)] = wire[Peer(e)] \o Outgoing(e, <<Fin>>)
    BY <1>1, <1>6, PeerType DEF Close, LinkTypeOK, Stays
  <2>3. Writes(e, Fin)
    BY <1>1, <2>2, WritesOutgoing
  <2>4. \A x \in Endpoints : transport[x] = "closed" => transport'[x] = "closed"
    BY <1>1, <1>6 DEF Close, LinkTypeOK
  <2> QED
    BY <1>1, <1>6, <2>1, <2>2, <2>3, <2>4, CausesSilent DEF Close, Quiet, Refuses, streamVars
<1> QED
  BY <1>2, <1>3, <1>4, <1>5, <1>6 DEF Application

(* The frames that are neither requests nor answers to one.                *)
LEMMA BlandFrames ==
  /\ Bland(Fin) /\ Fin \in Frame
  /\ Bland(Mk("SETUP", 0, "lease" \in Uses)) /\ Mk("SETUP", 0, "lease" \in Uses) \in Frame
  /\ \A type \in {"SETUP", "LEASE", "KEEPALIVE"}, id \in Ids \cup {0}, flag \in BOOLEAN :
       Bland(Mk(type, id, flag)) /\ Mk(type, id, flag) \in Frame
  /\ \A class \in Classes : Bland(MkError(0, class)) /\ MkError(0, class) \in Frame
BY FramesType DEF FrameTypes, Fin, Mk, MkError, Bland

(* Timers and the second setup() keep the invariant.                       *)
LEMMA CausesTimers ==
  ASSUME Causes,
         \/ SetupAgain \/ RejectSetup \/ KeepaliveTick \/ LeaseTick \/ LeaseExpires
         \/ \E e \in Endpoints : Constructed(e) \/ \E id \in Ids : Timeout(e, id)
  PROVE  Causes'
<1>1. TypeOK /\ TypeOK' /\ LinkTypeOK
  BY TypeTimers, TypeParts DEF Causes
<1>c. "client" \in Endpoints /\ "server" \in Endpoints
  BY DEF Endpoints
<1>2. ASSUME NEW e \in Endpoints, NEW f \in Frame, Bland(f), Send(e, <<f>>),
             Quiet(e), UNCHANGED events
      PROVE  Causes'
  BY <1>1, <1>2, SendWrites, CausesSilent
<1>3. CASE SetupAgain
  BY <1>c, <1>2, <1>3, BlandFrames DEF SetupAgain, Quiet, Refuses
<1>4. CASE RejectSetup
  BY <1>c, <1>2, <1>4, BlandFrames DEF RejectSetup, Quiet, Refuses, streamVars, Classes
<1>5. CASE KeepaliveTick
  BY <1>c, <1>2, <1>5, BlandFrames DEF KeepaliveTick, Quiet, Refuses, streamVars
<1>6. CASE LeaseTick
  BY <1>c, <1>2, <1>6, BlandFrames DEF LeaseTick, Quiet, Refuses, streamVars
<1>7. ASSUME UNCHANGED <<streamVars, linkVars>>
      PROVE  Causes'
  BY <1>1, <1>7 DEF streamVars, linkVars, Causes, Issues, Traffic, Outcomes
<1>8. CASE LeaseExpires
  BY <1>7, <1>8 DEF LeaseExpires
<1>9. ASSUME NEW e \in Endpoints, Constructed(e)
      PROVE  Causes'
  BY <1>7, <1>9 DEF Constructed
<1>10. ASSUME NEW e \in Endpoints, NEW id \in Ids, Timeout(e, id)
       PROVE  Causes'
  <2> DEFINE names == <<"timeout", "terminate">>
             f == Mk("CANCEL", id, FALSE)
  <2>1. f \in Frame /\ Withdraws(e, f)
    BY <1>10, FramesType DEF FrameTypes, Mk, Withdraws, Timeout, Causes, Issues
  <2>2. Stays(e) /\ Writes(e, f) /\ transport' = transport
    BY <1>1, <1>10, SendWrites DEF Timeout
  <2>3. names \in Seq(EventNames) /\ Len(names) = 2 /\ names[2] = "terminate" /\ names[1] = "timeout"
    BY EventPairs DEF EventNames
  <2>4. Emit(e, id, names) /\ Quiet(e)
    BY <1>1, <1>10, PeerType, TypeParts DEF Timeout, Quiet, Refuses, StreamTypeOK
  <2> HIDE DEF names, f
  <2>5. \A answer, refused, gone : Caused(names, answer, refused, gone)
    BY <2>3 DEF Caused
  <2>6. Outcomes(e)' /\ events'[Peer(e)] = events[Peer(e)]
    BY <1>1, <2>2, <2>3, <2>4, <2>5, OutcomesEmit DEF Causes, Quiet, Refuses
  <2> QED
    BY <1>1, <2>1, <2>2, <2>4, <2>6, CausesQuiet
<1> QED
  BY <1>3, <1>4, <1>5, <1>6, <1>8, <1>9, <1>10

(* So do the frames that are not about one request.                        *)
LEMMA CausesHandleSession ==
  ASSUME Causes, TypeOK', NEW e \in Endpoints,
         HandleSetup(e) \/ HandleLease(e) \/ HandleKeepalive(e)
  PROVE  Causes'
<1>1. LinkTypeOK
  BY TypeParts DEF Causes
<1>2. Append(<<>>, Fin) = <<Fin>>
  OBVIOUS
<1>3. ASSUME NEW f \in Frame, Bland(f), NEW frames, NEW closes \in BOOLEAN, wire[e] # <<>>,
             (IF closes THEN Append(frames, Fin) ELSE frames) \in {<<>>, <<f>>},
             TakeFrame(e, frames, closes), Quiet(e), UNCHANGED events
      PROVE  Causes'
  BY <1>1, <1>3, TakeWrites, CausesSilent
<1>4. CASE HandleSetup(e)
  <2> DEFINE grants == AcceptsSetup(e) /\ Head(wire[e]).flag
             closes == ~AcceptsSetup(e) /\ ClosesConnection("SETUP")
             frames == IF grants THEN <<Mk("LEASE", 0, FALSE)>> ELSE <<>>
  <2>1. TakeFrame(e, frames, closes) /\ wire[e] # <<>> /\ Quiet(e) /\ UNCHANGED events
    BY <1>4 DEF HandleSetup, Receives, Quiet, Refuses
  <2>2. CASE closes
    <3>1. Append(frames, Fin) = <<Fin>> /\ closes \in BOOLEAN
      BY <1>2, <2>2
    <3> HIDE DEF closes, frames
    <3> QED
      BY <1>3, <2>1, <2>2, <3>1, BlandFrames
  <2>3. CASE ~closes
    <3>1. frames \in {<<>>, <<Mk("LEASE", 0, FALSE)>>} /\ closes \in BOOLEAN
      OBVIOUS
    <3> HIDE DEF closes, frames
    <3> QED
      BY <1>3, <2>1, <2>3, <3>1, BlandFrames
  <2> QED
    BY <2>2, <2>3
<1>5. CASE HandleLease(e)
  <2>1. TakeFrame(e, <<>>, FALSE) /\ wire[e] # <<>> /\ Quiet(e) /\ UNCHANGED events
    BY <1>5 DEF HandleLease, Receives, Quiet, Refuses, streamVars
  <2> QED
    BY <1>3, <2>1, BlandFrames
<1>6. CASE HandleKeepalive(e)
  <2> DEFINE frames == IF Head(wire[e]).flag THEN <<Mk("KEEPALIVE", 0, FALSE)>> ELSE <<>>
  <2>1. TakeFrame(e, frames, FALSE) /\ wire[e] # <<>> /\ Quiet(e) /\ UNCHANGED events
    BY <1>6 DEF HandleKeepalive, Receives, Quiet, Refuses, streamVars
  <2>2. frames \in {<<>>, <<Mk("KEEPALIVE", 0, FALSE)>>}
    OBVIOUS
  <2> HIDE DEF frames
  <2> QED
    BY <1>3, <2>1, <2>2, BlandFrames
<1> QED
  BY <1>4, <1>5, <1>6

(* A request is taken: its id was not known to the receiver, and no other  *)
(* request under way has it.                                               *)
LEMMA CausesHandleRequest ==
  ASSUME Causes, TypeOK', NEW e \in Endpoints, HandleRequest(e)
  PROVE  Causes'
<1> DEFINE f == Head(wire[e])
           heard == isSetup[e] \/ e = "client"
           state == IF f.flag THEN "partial" ELSE "pending"
<1>1. TypeOK /\ LinkTypeOK /\ (\A x \in Endpoints : Issues(x) /\ Traffic(x) /\ Outcomes(x))
  BY TypeParts DEF Causes
<1>2. wire[e] \in Seq(Frame) /\ wire[e] # <<>> /\ f.type = "REQUEST_RESPONSE" /\ f = wire[e][1]
      /\ 1 \in DOMAIN wire[e]
  BY <1>1, EmptySeq DEF HandleRequest, Receives, LinkTypeOK
<1>3. Genuine(f, issued[Peer(e)], cancelled[Peer(e)], inbound[e], inbound[Peer(e)])
  BY <1>1, <1>2 DEF Traffic, Fit
<1>4. f.id \in issued[Peer(e)] /\ inbound[e][f.id] = "none" /\ f.id \in Ids
  BY <1>1, <1>2, <1>3, PeerType, TypeParts DEF Genuine, StreamTypeOK
<1>5. /\ inbound'[Peer(e)] = inbound[Peer(e)]
      /\ \A i \in Ids : inbound'[e][i] = IF heard /\ i = f.id THEN state ELSE inbound[e][i]
      /\ inbound' = inbound \/ inbound' = [inbound EXCEPT ![e][f.id] = state]
  BY <1>1, <1>4, PeerType, TypeParts DEF HandleRequest, StreamTypeOK
<1>6. TakeFrame(e, <<>>, FALSE) /\ UNCHANGED <<latest, issued, timer, events, cancelled>>
  BY DEF HandleRequest
<1>7. /\ Takes(e) /\ Writes(e, Fin)
      /\ \A x \in Endpoints : transport[x] = "closed" => transport'[x] = "closed"
  BY <1>1, <1>2, <1>6, TakeWrites
<1>8. \A i \in DOMAIN wire'[e] : ~IsRequest(wire'[e][i], f.id)
  <2>1. IsRequest(f, f.id)
    BY <1>2 DEF IsRequest
  <2> QED
    BY <1>1, <1>2, <1>7, <2>1, FitTail DEF Takes, Traffic
<1> HIDE DEF f, heard, state
<1>9. \A i \in DOMAIN wire'[e] :
        IsRequest(wire'[e][i], wire'[e][i].id) => wire'[e][i].id \in Ids /\ wire'[e][i].id # f.id
  <2>1. Fit(wire'[e], issued[Peer(e)], cancelled[Peer(e)], inbound[e], inbound[Peer(e)])
    BY <1>1, <1>2, <1>7, FitTail DEF Takes, Traffic
  <2>2. \A i \in DOMAIN wire'[e] :
          IsRequest(wire'[e][i], wire'[e][i].id) => wire'[e][i].id \in Ids
    BY <1>1, <2>1, PeerType, TypeParts DEF Fit, Genuine, IsRequest, StreamTypeOK
  <2> QED
    BY <1>8, <2>2
<1>10. /\ Lasts(e) /\ Refuses(e) /\ ~IsRequest(Fin, Fin.id)
       /\ Genuine(Fin, issued'[e], cancelled'[e], inbound[Peer(e)], inbound'[e])
  BY <1>4, <1>5, <1>6 DEF Lasts, Refuses, Genuine, Fin, Mk, IsRequest
<1>11. \A x \in Endpoints : Issues(x)'
  <2>1. Issues(e)'
    BY <1>1, <1>5, <1>6 DEF Issues
  <2>2. Issues(Peer(e))'
    BY <1>1, <1>4, <1>5, <1>6, PeerType, IdsApart DEF Issues
  <2> QED
    BY <2>1, <2>2 DEF Endpoints, Peer
<1>12. Outcomes(e)'
  BY <1>1, <1>5, <1>6, <1>7, OutcomesKept
<1>13. \A i \in DOMAIN wire'[e] :
         IsRequest(wire'[e][i], wire'[e][i].id) /\ inbound[e][wire'[e][i].id] = "none" =>
           inbound'[e][wire'[e][i].id] = "none"
  BY <1>5, <1>9
<1> QED
  BY <1>6, <1>7, <1>10, <1>11, <1>12, <1>13, PeerType, BlandFrames, CausesStep

(* Taking a frame that answers or cancels keeps the invariant when what    *)
(* the stream emits over it, if anything, has a cause.                     *)
LEMMA CausesTaken ==
  ASSUME Causes, TypeOK', NEW e \in Endpoints, wire[e] # <<>>, NEW closes \in BOOLEAN,
         TakeFrame(e, <<>>, closes), Quiet(e),
         \/ UNCHANGED events
         \/ \E id \in Ids, names \in Seq(EventNames) :
              Emit(e, id, names) /\ Caused(names, inbound[Peer(e)][id], id \in cancelled[Peer(e)], transport[e] = "closed")
  PROVE  Causes'
<1>1. /\ TypeOK /\ LinkTypeOK /\ Outcomes(e) /\ inbound'[Peer(e)] = inbound[Peer(e)]
      /\ cancelled'[Peer(e)] = cancelled[Peer(e)]
  BY TypeParts DEF Causes, Quiet, Refuses
<1>2. (IF closes THEN Append(<<>>, Fin) ELSE <<>>) \in {<<>>, <<Fin>>}
  OBVIOUS
<1>3. /\ Takes(e) /\ Writes(e, Fin)
      /\ \A x \in Endpoints : transport[x] = "closed" => transport'[x] = "closed"
  BY <1>1, <1>2, TakeWrites
<1>4. CASE UNCHANGED events
  BY <1>3, <1>4, CausesSilent, BlandFrames
<1>5. ASSUME NEW id \in Ids, NEW names \in Seq(EventNames), Emit(e, id, names),
             Caused(names, inbound[Peer(e)][id], id \in cancelled[Peer(e)], transport[e] = "closed")
      PROVE  Causes'
  <2>1. Outcomes(e)' /\ events'[Peer(e)] = events[Peer(e)]
    BY <1>1, <1>3, <1>5, OutcomesEmit
  <2> QED
    BY <1>3, <2>1, PeerType, CausesQuiet, BlandFrames
<1> QED
  BY <1>4, <1>5

(* The frame an end takes is genuine.                                      *)
LEMMA GenuineHead ==
  ASSUME Causes, NEW e \in Endpoints, NEW type, Receives(e, type)
  PROVE  /\ wire[e] # <<>> /\ Head(wire[e]).type = type
         /\ Genuine(Head(wire[e]), issued[Peer(e)], cancelled[Peer(e)], inbound[e],
                    inbound[Peer(e)])
<1>1. wire[e] \in Seq(Frame) /\ wire[e] # <<>> /\ Head(wire[e]).type = type
  BY TypeParts DEF Causes, LinkTypeOK, Receives
<1>2. 1 \in DOMAIN wire[e] /\ Head(wire[e]) = wire[e][1]
  BY <1>1, EmptySeq
<1>3. Traffic(e)
  BY DEF Causes
<1> QED
  BY <1>1, <1>2, <1>3 DEF Traffic, Fit

(* What a stream emits in one turn, and what is asked of its causes.       *)
LEMMA PairsCaused ==
  /\ \A name : <<name, "terminate">> # <<>>
  /\ \A name \in EventNames : <<name, "terminate">> \in Seq(EventNames)
  /\ <<"terminate">> \in Seq(EventNames)
  /\ \A answer, refused, gone : Caused(<<"terminate">>, answer, refused, gone)
  /\ \A answer, refused, gone, name :
       /\ name = "response" => answer = "responded"
       /\ name = "cancel" => refused
       /\ name = "error" => answer = "errored" \/ gone
       => Caused(<<name, "terminate">>, answer, refused, gone)
<1>1. /\ <<"terminate">> \in Seq(EventNames)
      /\ \A name \in EventNames : <<name, "terminate">> \in Seq(EventNames)
  BY EventPairs
<1>2. /\ Len(<<"terminate">>) = 1 /\ <<"terminate">>[1] = "terminate"
      /\ \A name : /\ Len(<<name, "terminate">>) = 2
                   /\ <<name, "terminate">>[1] = name /\ <<name, "terminate">>[2] = "terminate"
  OBVIOUS
<1>3. \A a, b : <<a, "terminate">> = <<b, "terminate">> => a = b
  OBVIOUS
<1>4. \A a : <<"terminate">> # <<a, "terminate">>
  BY <1>2
<1>5. <<"terminate">> # <<>> /\ \A name : <<name, "terminate">> # <<>>
  OBVIOUS
<1> QED
  BY <1>1, <1>2, <1>3, <1>4, <1>5 DEF Caused

(* The handlers of answers and cancellations.                              *)
LEMMA CausesHandleAnswer ==
  ASSUME Causes, TypeOK', NEW e \in Endpoints,
         HandleResponse(e) \/ HandleError(e) \/ HandleCancel(e)
  PROVE  Causes'
<1> DEFINE f == Head(wire[e])
<1>1. TypeOK /\ LinkTypeOK /\ StreamTypeOK
  BY TypeParts DEF Causes
<1>2. CASE HandleResponse(e)
  <2> DEFINE names == <<"response", "terminate">>
  <2>1. wire[e] # <<>> /\ f.id \in Ids /\ (f.flag \/ inbound[Peer(e)][f.id] = "responded")
    BY <1>2, GenuineHead DEF HandleResponse, Genuine
  <2>2. TakeFrame(e, <<>>, FALSE) /\ Quiet(e)
    BY <1>1, <1>2, PeerType DEF HandleResponse, Quiet, Refuses, Disarm, StreamTypeOK
  <2>3. UNCHANGED events \/ (~f.flag /\ Emit(e, f.id, names))
    BY <1>2 DEF HandleResponse
  <2>4. names \in Seq(EventNames)
    BY PairsCaused DEF EventNames
  <2>5. ~f.flag => Caused(names, inbound[Peer(e)][f.id], f.id \in cancelled[Peer(e)],
                           transport[e] = "closed")
    BY <2>1, PairsCaused
  <2> HIDE DEF f, names
  <2> QED
    BY <2>1, <2>2, <2>3, <2>4, <2>5, CausesTaken
<1>3. CASE HandleError(e)
  <2> DEFINE names == IF f.code = "CONNECTION" THEN <<"terminate">> ELSE <<"error", "terminate">>
             closes == ClosesConnection(f.code)
  <2>1. wire[e] # <<>> /\ (f.id = 0 \/ inbound[Peer(e)][f.id] = "errored")
    BY <1>3, GenuineHead DEF HandleError, Genuine
  <2>2. TakeFrame(e, <<>>, closes) /\ Quiet(e) /\ closes \in BOOLEAN
    BY <1>1, <1>3, PeerType DEF HandleError, Quiet, Refuses, Disarm, StreamTypeOK, ClosesConnection
  <2>3. UNCHANGED events \/ (f.id # 0 /\ Emit(e, f.id, names))
    BY <1>3 DEF HandleError
  <2>4. f.id \in Ids \cup {0}
    BY <1>1, <1>3, HeadType DEF HandleError
  <2>5. names \in Seq(EventNames)
    BY PairsCaused DEF EventNames
  <2>6. f.id # 0 => Caused(names, inbound[Peer(e)][f.id], f.id \in cancelled[Peer(e)],
                           transport[e] = "closed")
    BY <2>1, PairsCaused
  <2> HIDE DEF f, names, closes
  <2> QED
    BY <2>1, <2>2, <2>3, <2>4, <2>5, <2>6, CausesTaken
<1>4. CASE HandleCancel(e)
  <2> DEFINE names == <<"cancel", "terminate">>
  <2>1. wire[e] # <<>> /\ TakeFrame(e, <<>>, FALSE) /\ Quiet(e)
    BY <1>4 DEF HandleCancel, Receives, Quiet, Refuses
  <2>2. UNCHANGED events \/ (f.id \in issued[e] /\ f.id \in Ids /\ Emit(e, f.id, names))
    BY <1>1, <1>4 DEF HandleCancel, StreamTypeOK
  <2>3. names \in Seq(EventNames)
    BY PairsCaused DEF EventNames
  <2>4. f.id \in issued[e] => f.id \in cancelled[Peer(e)]
    <3>1. f.id \in issued[Peer(e)] \cup cancelled[Peer(e)]
      BY <1>4, GenuineHead DEF HandleCancel, Genuine
    <3>2. issued[e] \subseteq OwnIds(e) /\ issued[Peer(e)] \subseteq OwnIds(Peer(e))
      BY PeerType DEF Causes, Issues
    <3> QED
      BY <3>1, <3>2, IdsApart
  <2>5. f.id \in issued[e] =>
          Caused(names, inbound[Peer(e)][f.id], f.id \in cancelled[Peer(e)],
                 transport[e] = "closed")
    BY <2>4, PairsCaused
  <2> HIDE DEF f, names
  <2> QED
    BY <2>1, <2>2, <2>3, <2>5, CausesTaken
<1> QED
  BY <1>2, <1>3, <1>4

(* The transport's events: the failure of an end and the close tell the    *)
(* streams of an 'error' only once the transport is gone.                  *)
LEMMA CausesTransport ==
  ASSUME Causes, TypeOK', NEW e \in Endpoints,
         \/ UnheardError(e) \/ ReceiveFin(e) \/ TransportClose(e)
         \/ \E seen \in BOOLEAN : TransportError(e, seen)
  PROVE  Causes'
<1>1. TypeOK /\ LinkTypeOK /\ StreamTypeOK
  BY TypeParts DEF Causes
<1>2. Peer(e) \in Endpoints /\ Peer(e) # e
  BY PeerType
<1>3. CASE UnheardError(e)
  <2>1. Drops(e) /\ wire'[Peer(e)] = wire[Peer(e)] \o Outgoing(e, <<Fin>>)
    BY <1>1, <1>2, <1>3 DEF UnheardError, LinkTypeOK, Drops
  <2>2. \A x \in Endpoints : transport[x] = "closed" => transport'[x] = "closed"
    BY <1>1, <1>3 DEF UnheardError, Receives, Reading, LinkTypeOK
  <2>3. Quiet(e) /\ UNCHANGED events
    BY <1>3 DEF UnheardError, Quiet, Refuses, streamVars
  <2> QED
    BY <1>1, <2>1, <2>2, <2>3, WritesOutgoing, CausesSilent, BlandFrames
<1>4. CASE ReceiveFin(e)
  <2>1. Takes(e) /\ wire'[Peer(e)] = wire[Peer(e)] \o Outgoing(e, <<Fin>>)
    BY <1>1, <1>2, <1>4 DEF ReceiveFin, Receives, LinkTypeOK, Takes
  <2>2. \A x \in Endpoints : transport[x] = "closed" => transport'[x] = "closed"
    BY <1>1, <1>4 DEF ReceiveFin, Receives, Reading, LinkTypeOK
  <2>3. Quiet(e) /\ UNCHANGED events
    BY <1>4 DEF ReceiveFin, Quiet, Refuses, streamVars
  <2> QED
    BY <1>1, <2>1, <2>2, <2>3, WritesOutgoing, CausesSilent, BlandFrames
<1>5. ASSUME NEW seen \in BOOLEAN, TransportError(e, seen)
      PROVE  Causes'
  <2> DEFINE frames == IF seen THEN <<Fin>> ELSE <<>>
  <2>1. Drops(e) /\ wire'[Peer(e)] = wire[Peer(e)] \o Outgoing(e, frames)
    BY <1>1, <1>2, <1>5 DEF TransportError, LinkTypeOK, Drops
  <2>2. \A x \in Endpoints : transport[x] = "closed" => transport'[x] = "closed"
    BY <1>1, <1>5 DEF TransportError, LinkTypeOK
  <2>3. Quiet(e) /\ UNCHANGED events /\ frames \in {<<>>, <<Fin>>}
    BY <1>5 DEF TransportError, Quiet, Refuses, streamVars
  <2> HIDE DEF frames
  <2> QED
    BY <1>1, <2>1, <2>2, <2>3, WritesOutgoing, CausesSilent, BlandFrames
<1>6. CASE TransportClose(e)
  <2> DEFINE names == <<"error", "terminate">>
  <2>1. /\ \A id \in Ids : events'[e][id] \in {events[e][id], events[e][id] \o names}
        /\ events'[Peer(e)] = events[Peer(e)]
    BY <1>1, <1>2, <1>6 DEF TransportClose, StreamTypeOK
  <2>2. transport'[e] = "closed" /\ transport'[Peer(e)] = transport[Peer(e)]
    BY <1>1, <1>2, <1>6 DEF TransportClose, LinkTypeOK
  <2>3. Quiet(e) /\ Stays(e) /\ Writes(e, Fin)
    BY <1>1, <1>2, <1>6 DEF TransportClose, Quiet, Refuses, StreamTypeOK, Stays, Writes
  <2>4. names \in Seq(EventNames) /\ \A answer, refused : Caused(names, answer, refused, TRUE)
    BY PairsCaused DEF EventNames
  <2> HIDE DEF names
  <2>5. ASSUME NEW id \in Ids
        PROVE  Caused(events'[e][id], inbound[Peer(e)][id], id \in cancelled[Peer(e)], TRUE)
    <3>1. /\ events[e][id] \in Seq(EventNames)
          /\ Caused(events[e][id], inbound[Peer(e)][id], id \in cancelled[Peer(e)], TRUE)
      BY <1>1 DEF StreamTypeOK, Causes, Outcomes, Caused
    <3> QED
      BY <2>1, <2>4, <3>1, CausedAppend
  <2>6. Outcomes(e)'
    BY <2>2, <2>3, <2>5 DEF Outcomes, Quiet, Refuses
  <2> QED
    BY <2>1, <2>2, <2>3, <2>6, CausesQuiet, BlandFrames
<1> QED
  BY <1>3, <1>4, <1>5, <1>6

(* Whatever the applications do, every answer and outcome has its cause.   *)
THEOREM CausesHold == Spec => []Causes
<1>1. Causes /\ [Next]_vars => Causes'
  <2> SUFFICES ASSUME Causes, [Next]_vars PROVE Causes'
    OBVIOUS
  <2>1. CASE UNCHANGED vars
    <3>1. TypeOK'
      BY <2>1, TypeParts, Unchanged DEF vars, Causes
    <3> QED
      BY <2>1, <3>1 DEF vars, streamVars, linkVars, Causes, Issues, Traffic, Outcomes
  <2>2. ASSUME NEW e \in Endpoints, Handle(e)
        PROVE  Causes'
    <3>1. TypeOK'
      BY <2>2, TypeHandle DEF Causes
    <3> QED
      BY <2>2, <3>1, CausesHandleSession, CausesHandleRequest, CausesHandleAnswer,
         CausesTransport DEF Handle
  <2>3. ASSUME NEW e \in Endpoints, TransportClose(e) \/ \E seen \in BOOLEAN : TransportError(e, seen)
        PROVE  Causes'
    <3>1. TypeOK'
      BY <2>3, TypeTransport DEF Causes
    <3> QED
      BY <2>3, <3>1, CausesTransport
  <2>4. CASE Next
    BY <2>2, <2>3, <2>4, CausesApplication, CausesTimers DEF Next
  <2> QED
    BY <2>1, <2>4
<1> QED
  BY <1>1, CausesInit, PTL DEF Spec

(* The two ends never use the same id, and an inbound request is one the   *)
(* peer made.                                                              *)
THEOREM IdsKeepApart == Spec => []IdsAreOwned
<1>1. Causes => IdsAreOwned
  <2> SUFFICES ASSUME Causes PROVE IdsAreOwned
    OBVIOUS
  <2>1. \A e \in Endpoints, id \in Ids : inbound[e][id] # "none" => id \in issued[Peer(e)]
    BY PeerType, IdsApart DEF Causes, Issues
  <2>2. issued["client"] \cap issued["server"] = {}
    <3>1. OwnIds("client") \cap OwnIds("server") = {}
      BY IdsApart DEF Endpoints, Peer
    <3> QED
      BY <3>1 DEF Causes, Issues, Endpoints
  <2> QED
    BY <2>1, <2>2 DEF IdsAreOwned
<1> QED
  BY <1>1, CausesHold, PTL

(* What a request emits has a cause at the other end: a 'response' was     *)
(* given to that very request there, and in full, a 'cancel' is a refusal  *)
(* of it, and an 'error' was given to it or is the loss of the transport.  *)
THEOREM OutcomesAreCaused == Spec => []OutcomeHasCause
<1>1. Causes => OutcomeHasCause
  BY DEF Causes, Outcomes, Caused, OutcomeHasCause
<1> QED
  BY <1>1, CausesHold, PTL

-----------------------------------------------------------------------------
(* Setup and lease                                                         *)

(* A turn that takes nothing from the wire to the server before the setup  *)
(* frame, and sends no lease from a server that is not set up.             *)
LEMMA SessionStep ==
  ASSUME Session, TypeOK', NEW e \in Endpoints, NEW f \in Frame,
         Stays(e) \/ Takes(e) \/ Drops(e), Writes(e, f),
         isSetup["server"] => isSetup'["server"],
         Reading("server")' => Reading("server"),
         e = "server" => Stays(e) \/ ~Reading(e)' \/ isSetup'["server"],
         e = "server" /\ f.type = "LEASE" => isSetup'["server"],
         ticking'["server"] => isSetup'["server"],
         ReadyIsLeased'
  PROVE  Session'
<1>1. \A x \in Endpoints : wire[x] \in Seq(Frame)
  BY TypeParts DEF Session, LinkTypeOK
<1>2. SetupIsNext'
  <2>1. CASE e = "server"
    BY <2>1 DEF Session, SetupIsNext, Stays
  <2>2. CASE e = "client"
    <3>1. wire["server"] \in Seq(Frame) /\ Peer(e) = "server"
      BY <1>1, <2>2 DEF Endpoints, Peer
    <3>2. wire["server"] # <<>> =>
            wire["server"] \o <<f>> # <<>> /\ Head(wire["server"] \o <<f>>) = Head(wire["server"])
      BY <3>1
    <3> QED
      BY <3>1, <3>2 DEF Session, SetupIsNext, Writes
  <2> QED
    BY <2>1, <2>2 DEF Endpoints
<1>3. \A i \in DOMAIN wire'["client"] : wire'["client"][i].type = "LEASE" => isSetup'["server"]
  <2>1. CASE e = "server"
    <3>1. wire["client"] \in Seq(Frame) /\ Peer(e) = "client"
      BY <1>1, <2>1 DEF Endpoints, Peer
    <3> DEFINE r == wire["client"] \o <<f>>
    <3>2. \A i \in DOMAIN r : r[i] = f \/ (i \in DOMAIN wire["client"] /\ r[i] = wire["client"][i])
      BY <3>1
    <3> HIDE DEF r
    <3>3. wire'["client"] \in {wire["client"], r}
      BY <3>1 DEF Writes, r
    <3> QED
      BY <2>1, <3>2, <3>3 DEF Session, LeasesAreGranted
  <2>2. CASE e = "client"
    <3>1. wire["client"] \in Seq(Frame)
      BY <1>1 DEF Endpoints
    <3>2. CASE Takes(e)
      <4>1. \A i \in DOMAIN Tail(wire["client"]) :
              i + 1 \in DOMAIN wire["client"] /\ Tail(wire["client"])[i] = wire["client"][i + 1]
        BY <2>2, <3>1, <3>2, HeadTailProperties DEF Takes
      <4> QED
        BY <2>2, <3>2, <4>1 DEF Session, LeasesAreGranted, Takes
    <3>3. CASE Stays(e) \/ Drops(e)
      BY <2>2, <3>3 DEF Session, LeasesAreGranted, Stays, Drops
    <3> QED
      BY <3>2, <3>3
  <2> QED
    BY <2>1, <2>2 DEF Endpoints
<1> QED
  BY <1>2, <1>3 DEF Session, LeasesAreGranted

(* A turn that leaves setup, leases and tickers alone, and issues ids at   *)
(* most.                                                                   *)
Idle == UNCHANGED <<isSetup, phase, leaseLeft>> /\ issued["client"] \subseteq issued'["client"]

LEMMA SessionIdle ==
  ASSUME Session, TypeOK', NEW e \in Endpoints, NEW f \in Frame, Idle,
         Stays(e) \/ Takes(e) \/ Drops(e), Writes(e, f),
         Reading("server")' => Reading("server"),
         e = "server" => Stays(e) \/ ~Reading(e)' \/ isSetup["server"],
         e = "server" /\ f.type = "LEASE" => isSetup["server"],
         ticking'["server"] => ticking["server"]
  PROVE  Session'
<1>1. ReadyIsLeased'
  BY DEF Session, ReadyIsLeased, Idle
<1>2. ticking'["server"] => isSetup'["server"]
  BY DEF Session, LeasesAreGranted, Idle
<1> QED
  BY <1>1, <1>2, SessionStep DEF Idle

(* A turn that sends a frame, a lease only when the server is set up.      *)
LEMMA SessionSend ==
  ASSUME Session, TypeOK', NEW e \in Endpoints, NEW f \in Frame, Send(e, <<f>>), Idle,
         UNCHANGED ticking, e = "server" /\ f.type = "LEASE" => isSetup["server"]
  PROVE  Session'
<1>1. Stays(e) /\ Writes(e, f) /\ transport' = transport
  BY SendWrites, TypeParts DEF Session
<1> QED
  BY <1>1, SessionIdle DEF Reading

(* The server has been set up, or the frame it takes is the setup frame.   *)
LEMMA SetupTaken ==
  ASSUME Session, NEW type, Receives("server", type)
  PROVE  isSetup["server"] \/ type = "SETUP"
BY DEF Session, SetupIsNext, Receives

(* A turn that takes a frame other than a setup frame and closes or not.   *)
LEMMA SessionTake ==
  ASSUME Session, TypeOK', NEW e \in Endpoints, NEW type, type # "SETUP", Receives(e, type),
         NEW f \in Frame, f.type # "LEASE", NEW frames, NEW closes \in BOOLEAN,
         (IF closes THEN Append(frames, Fin) ELSE frames) \in {<<>>, <<f>>},
         TakeFrame(e, frames, closes), Idle, UNCHANGED ticking
  PROVE  Session'
<1>1. LinkTypeOK /\ wire[e] # <<>>
  BY TypeParts DEF Session, Receives
<1>2. Takes(e) /\ Writes(e, f)
  BY <1>1, TakeWrites
<1>3. Reading("server")' => Reading("server")
  BY <1>1 DEF TakeFrame, LinkTypeOK, Reading
<1>4. e = "server" => isSetup["server"]
  BY SetupTaken
<1> QED
  BY <1>2, <1>3, <1>4, SessionIdle

LEMMA SessionInit == Init => Session
<1> SUFFICES ASSUME Init PROVE Session
  OBVIOUS
<1>1. TypeOK
  BY TypeInit
<1>2. "client" \in Endpoints /\ "server" \in Endpoints
  BY DEF Endpoints
<1>3. wire["server"] = <<Mk("SETUP", 0, "lease" \in Uses)>> /\ wire["client"] = <<>>
  BY <1>2 DEF Init
<1>4. SetupIsNext
  BY <1>3 DEF SetupIsNext, Mk
<1>5. LeasesAreGranted
  <2>1. ticking = [e \in Endpoints |-> e = "client"]
    BY DEF Init
  <2>2. ~ticking["server"]
    BY <1>2, <2>1
  <2> QED
    BY <1>3, <2>2 DEF LeasesAreGranted
<1>6. ReadyIsLeased
  BY <1>2 DEF ReadyIsLeased, Init
<1> QED
  BY <1>1, <1>4, <1>5, <1>6 DEF Session

(* The applications' calls: request() uses up a lease, and counts.         *)
LEMMA SessionApplication ==
  ASSUME Session, NEW e \in Endpoints, Application(e)
  PROVE  Session'
<1>1. TypeOK /\ TypeOK' /\ StreamTypeOK /\ LinkTypeOK /\ SessionTypeOK
  BY TypeApplication, TypeParts DEF Session
<1>2. ASSUME NEW follows \in BOOLEAN, Request(e, follows)
      PROVE  Session'
  <2> DEFINE f == Mk("REQUEST_RESPONSE", NextId(e), follows)
  <2>1. f \in Frame /\ f.type # "LEASE"
    <3>1. NextId(e) \in Ids
      BY <1>1, <1>2, ConstantsOK DEF Request, NextId, IdsLeft, StreamTypeOK, Ids
    <3> QED
      BY <3>1, FramesType DEF FrameTypes, Mk
  <2>2. Stays(e) /\ Writes(e, f) /\ transport' = transport
    BY <1>1, <1>2, SendWrites DEF Request
  <2>3. ReadyIsLeased'
    <3>1. /\ UNCHANGED <<isSetup, phase>> /\ issued'[e] = issued[e] \cup {NextId(e)}
          /\ leaseLeft' = leaseLeft \/ e = "client"
          /\ issued["client"] \subseteq issued'["client"]
      BY <1>1, <1>2 DEF Request, StreamTypeOK
    <3> QED
      BY <3>1 DEF Session, ReadyIsLeased
  <2>4. UNCHANGED <<isSetup, ticking>>
    BY <1>2 DEF Request
  <2> HIDE DEF f
  <2>5. ticking'["server"] => isSetup'["server"]
    BY <2>4 DEF Session, LeasesAreGranted
  <2>6. Reading("server")' => Reading("server")
    BY <2>2 DEF Reading
  <2> QED
    BY <1>1, <2>1, <2>2, <2>3, <2>4, <2>5, <2>6, SessionStep
<1>3. ASSUME NEW f \in Frame, f.type # "LEASE", Send(e, <<f>>), UNCHANGED <<issued, sessionVars>>
      PROVE  Session'
  BY <1>1, <1>3, SessionSend DEF Idle, sessionVars
<1>4. ASSUME NEW id \in Ids, NEW follows \in BOOLEAN, Respond(e, id, follows)
      PROVE  Session'
  <2>1. Mk("RESPONSE", id, follows) \in Frame /\ Mk("RESPONSE", id, follows).type # "LEASE"
    BY FramesType DEF FrameTypes, Mk
  <2> QED
    BY <1>3, <1>4, <2>1 DEF Respond
<1>5. ASSUME NEW id \in Ids, NEW class \in ErrorClasses, RespondError(e, id, class)
      PROVE  Session'
  <2>1. MkError(id, class) \in Frame /\ MkError(id, class).type # "LEASE"
    BY FramesType, ConstantsOK DEF MkError
  <2> QED
    BY <1>3, <1>5, <2>1 DEF RespondError
<1>6. ASSUME NEW id \in Ids, Cancel(e, id)
      PROVE  Session'
  <2>1. Mk("CANCEL", id, FALSE) \in Frame /\ Mk("CANCEL", id, FALSE).type # "LEASE"
    BY FramesType DEF FrameTypes, Mk
  <2> QED
    BY <1>3, <1>6, <2>1 DEF Cancel
<1>7. CASE Close(e)
  <2>1. Stays(e) /\ wire'[Peer(e)] = wire[Peer(e)] \o Outgoing(e, <<Fin>>)
    BY <1>1, <1>7, PeerType DEF Close, LinkTypeOK, Stays
  <2>2. Writes(e, Fin) /\ Fin \in Frame /\ Fin.type # "LEASE"
    BY <1>1, <2>1, WritesOutgoing, FramesType DEF Fin, Mk
  <2>3. Reading("server")' => Reading("server")
    BY <1>1, <1>7 DEF Close, LinkTypeOK, Reading
  <2> QED
    BY <1>1, <1>7, <2>1, <2>2, <2>3, SessionIdle DEF Close, Idle, sessionVars, streamVars
<1> QED
  BY <1>2, <1>4, <1>5, <1>6, <1>7 DEF Application

(* The timers: the lease ticker runs at a server that is set up, and the   *)
(* client that waits for a lease is not ready when it is constructed.      *)
LEMMA SessionTimers ==
  ASSUME Session,
         \/ SetupAgain \/ RejectSetup \/ KeepaliveTick \/ LeaseTick \/ LeaseExpires
         \/ \E e \in Endpoints : Constructed(e) \/ \E id \in Ids : Timeout(e, id)
  PROVE  Session'
<1>1. TypeOK /\ TypeOK' /\ StreamTypeOK /\ LinkTypeOK /\ SessionTypeOK
  BY TypeTimers, TypeParts DEF Session
<1>c. "client" \in Endpoints /\ "server" \in Endpoints
  BY DEF Endpoints
<1>2. ASSUME NEW e \in Endpoints, NEW f \in Frame, Send(e, <<f>>),
             e = "server" /\ f.type = "LEASE" => isSetup["server"],
             UNCHANGED <<issued, sessionVars>>
      PROVE  Session'
  BY <1>1, <1>2, SessionSend DEF Idle, sessionVars
<1>3. CASE SetupAgain
  <2>1. Mk("SETUP", 0, "lease" \in Uses) \in Frame
    BY BlandFrames
  <2> QED
    BY <1>c, <1>2, <1>3, <2>1 DEF SetupAgain
<1>4. CASE RejectSetup
  <2>1. MkError(0, "SETUP") \in Frame /\ MkError(0, "SETUP").type # "LEASE"
    BY BlandFrames DEF Classes, MkError
  <2> QED
    BY <1>c, <1>2, <1>4, <2>1 DEF RejectSetup, streamVars
<1>5. CASE KeepaliveTick
  <2>1. Mk("KEEPALIVE", 0, TRUE) \in Frame
    BY BlandFrames
  <2> QED
    BY <1>c, <1>2, <1>5, <2>1 DEF KeepaliveTick, streamVars
<1>6. CASE LeaseTick
  <2>1. Mk("LEASE", 0, FALSE) \in Frame /\ isSetup["server"]
    BY <1>6, BlandFrames DEF LeaseTick, Session, LeasesAreGranted
  <2> QED
    BY <1>c, <1>2, <1>6, <2>1 DEF LeaseTick, streamVars
<1>7. CASE LeaseExpires
  BY <1>1, <1>7 DEF LeaseExpires, streamVars, linkVars, Session, SetupIsNext, Reading,
     LeasesAreGranted, ReadyIsLeased
<1>8. ASSUME NEW e \in Endpoints, Constructed(e)
      PROVE  Session'
  <2>1. phase'["client"] = "ready" /\ "lease" \in Uses => phase["client"] = "ready"
    BY <1>1, <1>c, <1>8 DEF Constructed, FirstPhase, SessionTypeOK
  <2> QED
    BY <1>1, <1>8, <2>1 DEF Constructed, streamVars, linkVars, Session, SetupIsNext, Reading,
       LeasesAreGranted, ReadyIsLeased
<1>9. ASSUME NEW e \in Endpoints, NEW id \in Ids, Timeout(e, id)
      PROVE  Session'
  <2>1. Mk("CANCEL", id, FALSE) \in Frame /\ Mk("CANCEL", id, FALSE).type # "LEASE"
    BY FramesType DEF FrameTypes, Mk
  <2> QED
    BY <1>2, <1>9, <2>1 DEF Timeout
<1> QED
  BY <1>3, <1>4, <1>5, <1>6, <1>7, <1>8, <1>9

(* The frame handlers: the setup frame sets the server up, and a lease     *)
(* that arrives was granted.                                               *)
LEMMA SessionHandle ==
  ASSUME Session, TypeOK', NEW e \in Endpoints, Handle(e)
  PROVE  Session'
<1>1. TypeOK /\ StreamTypeOK /\ LinkTypeOK /\ SessionTypeOK
  BY TypeParts DEF Session
<1>2. Fin \in Frame /\ Fin.type # "LEASE" /\ Append(<<>>, Fin) = <<Fin>>
  BY FramesType DEF Fin, Mk
<1>3. CASE HandleSetup(e)
  <2> DEFINE grants == AcceptsSetup(e) /\ Head(wire[e]).flag
             closes == ~AcceptsSetup(e) /\ ClosesConnection("SETUP")
             f == IF grants THEN Mk("LEASE", 0, FALSE) ELSE Fin
             frames == IF grants THEN <<Mk("LEASE", 0, FALSE)>> ELSE <<>>
  <2>1. wire[e] # <<>> /\ TakeFrame(e, frames, closes) /\ UNCHANGED <<issued, phase, leaseLeft>>
    BY <1>3 DEF HandleSetup, Receives
  <2>2. (IF closes THEN Append(frames, Fin) ELSE frames) \in {<<>>, <<f>>} /\ closes \in BOOLEAN
    BY <1>2
  <2>3. f \in Frame
    BY <1>2, BlandFrames
  <2>4. /\ isSetup["server"] => isSetup'["server"]
        /\ e = "server" => isSetup'["server"]
        /\ ticking'["server"] => ticking["server"] \/ e = "server"
    BY <1>1, <1>3 DEF HandleSetup, AcceptsSetup, StartTicker, SessionTypeOK, Endpoints
  <2> HIDE DEF f, frames, closes
  <2>5. Takes(e) /\ Writes(e, f)
    BY <1>1, <2>1, <2>2, TakeWrites
  <2>6. Reading("server")' => Reading("server")
    BY <1>1, <2>1 DEF TakeFrame, LinkTypeOK, Reading
  <2>7. ReadyIsLeased' /\ (ticking'["server"] => isSetup'["server"])
    BY <2>1, <2>4 DEF Session, ReadyIsLeased, LeasesAreGranted
  <2> QED
    BY <2>3, <2>4, <2>5, <2>6, <2>7, SessionStep
<1>4. CASE HandleLease(e)
  <2>1. /\ wire[e] # <<>> /\ Receives(e, "LEASE") /\ TakeFrame(e, <<>>, FALSE)
        /\ UNCHANGED <<issued, isSetup, ticking>> /\ leaseLeft' > 0
    <3>1. Receives(e, "LEASE") /\ TakeFrame(e, <<>>, FALSE) /\ leaseLeft' = LeaseBudget
          /\ UNCHANGED <<issued, isSetup, ticking>>
      BY <1>4 DEF HandleLease, streamVars
    <3>2. LeaseBudget > 0
      BY ConstantsOK
    <3> QED
      BY <3>1, <3>2 DEF Receives
  <2>2. Takes(e) /\ Writes(e, Fin)
    BY <1>1, <1>2, <2>1, TakeWrites
  <2>3. Reading("server")' => Reading("server")
    BY <1>1, <2>1 DEF TakeFrame, LinkTypeOK, Reading
  <2>4. e = "server" => isSetup["server"]
    BY <2>1, SetupTaken
  <2>5. e = "client" => isSetup["server"]
    <3>1. wire[e] \in Seq(Frame)
      BY <1>1 DEF LinkTypeOK
    <3>2. 1 \in DOMAIN wire[e] /\ wire[e][1].type = "LEASE"
      BY <2>1, <3>1, EmptySeq DEF Receives
    <3> QED
      BY <3>2 DEF Session, LeasesAreGranted
  <2>6. ReadyIsLeased'
    BY <2>1, <2>4, <2>5 DEF ReadyIsLeased, Endpoints
  <2>7. ticking'["server"] => isSetup'["server"]
    BY <2>1 DEF Session, LeasesAreGranted
  <2> QED
    BY <1>2, <2>1, <2>2, <2>3, <2>4, <2>6, <2>7, SessionStep
<1>5. ASSUME NEW type, type # "SETUP", Receives(e, type), NEW closes \in BOOLEAN,
             TakeFrame(e, <<>>, closes), UNCHANGED <<issued, sessionVars>>
      PROVE  Session'
  <2>1. (IF closes THEN Append(<<>>, Fin) ELSE <<>>) \in {<<>>, <<Fin>>} /\ Idle /\ UNCHANGED ticking
    BY <1>2, <1>5 DEF Idle, sessionVars
  <2> QED
    BY <1>2, <1>5, <2>1, SessionTake
<1>6. CASE HandleKeepalive(e)
  <2> DEFINE f == Mk("KEEPALIVE", 0, FALSE)
             frames == IF Head(wire[e]).flag THEN <<f>> ELSE <<>>
  <2>1. /\ Receives(e, "KEEPALIVE") /\ TakeFrame(e, frames, FALSE)
        /\ Idle /\ UNCHANGED ticking
    BY <1>6 DEF HandleKeepalive, streamVars, sessionVars, Idle
  <2>2. f \in Frame /\ f.type # "LEASE" /\ frames \in {<<>>, <<f>>}
    BY BlandFrames DEF Mk
  <2> HIDE DEF f, frames
  <2> QED
    BY <2>1, <2>2, SessionTake
<1>7. CASE HandleRequest(e)
  BY <1>5, <1>7 DEF HandleRequest
<1>8. CASE HandleResponse(e)
  BY <1>5, <1>8 DEF HandleResponse
<1>9. CASE HandleError(e)
  <2>1. \A class : ClosesConnection(class) \in BOOLEAN
    BY DEF ClosesConnection
  <2> QED
    BY <1>5, <1>9, <2>1 DEF HandleError
<1>10. CASE HandleCancel(e)
  BY <1>5, <1>10 DEF HandleCancel
<1>11. CASE UnheardError(e)
  <2>1. Drops(e) /\ wire'[Peer(e)] = wire[Peer(e)] \o Outgoing(e, <<Fin>>)
    BY <1>1, <1>11, PeerType DEF UnheardError, LinkTypeOK, Drops
  <2>2. ~Reading(e)' /\ (Reading("server")' => Reading("server"))
    BY <1>1, <1>11 DEF UnheardError, LinkTypeOK, Reading
  <2>3. Idle /\ UNCHANGED ticking
    BY <1>11 DEF UnheardError, Idle, streamVars, sessionVars
  <2>4. Writes(e, Fin)
    BY <1>1, <2>1, WritesOutgoing
  <2> QED
    BY <1>2, <2>1, <2>2, <2>3, <2>4, SessionIdle
<1>12. CASE ReceiveFin(e)
  <2>1. Takes(e) /\ wire'[Peer(e)] = wire[Peer(e)] \o Outgoing(e, <<Fin>>)
    BY <1>1, <1>12, PeerType DEF ReceiveFin, Receives, LinkTypeOK, Takes
  <2>2. ~Reading(e)' /\ (Reading("server")' => Reading("server"))
    BY <1>1, <1>12 DEF ReceiveFin, LinkTypeOK, Reading
  <2>3. Idle /\ UNCHANGED ticking
    BY <1>12 DEF ReceiveFin, Idle, streamVars, sessionVars
  <2>4. Writes(e, Fin)
    BY <1>1, <2>1, WritesOutgoing
  <2> QED
    BY <1>2, <2>1, <2>2, <2>3, <2>4, SessionIdle
<1> QED
  BY <1>3, <1>4, <1>6, <1>7, <1>8, <1>9, <1>10, <1>11, <1>12 DEF Handle

(* Every step keeps setup and leases in order.                             *)
THEOREM SessionHolds == Spec => []Session
<1>1. Session /\ [Next]_vars => Session'
  <2> SUFFICES ASSUME Session, [Next]_vars PROVE Session'
    OBVIOUS
  <2>1. CASE UNCHANGED vars
    <3>1. TypeOK'
      BY <2>1, TypeParts, Unchanged DEF vars, Session
    <3> QED
      BY <2>1, <3>1 DEF vars, streamVars, sessionVars, linkVars, Session, SetupIsNext,
         LeasesAreGranted, ReadyIsLeased, Reading
  <2>2. ASSUME NEW e \in Endpoints, Handle(e)
        PROVE  Session'
    BY <2>2, TypeHandle, SessionHandle DEF Session
  <2>3. ASSUME NEW e \in Endpoints, TransportClose(e) \/ \E seen \in BOOLEAN : TransportError(e, seen)
        PROVE  Session'
    <3>1. TypeOK' /\ LinkTypeOK /\ SessionTypeOK
      BY <2>3, TypeTransport, TypeParts DEF Session
    <3>2. Fin \in Frame /\ Fin.type # "LEASE"
      BY FramesType DEF Fin, Mk
    <3>3. CASE TransportClose(e)
      <4>1. Stays(e) /\ Writes(e, Fin) /\ Idle
        BY <3>3 DEF TransportClose, Stays, Writes, Idle
      <4>2. Reading("server")' => Reading("server")
        BY <3>1, <3>3 DEF TransportClose, LinkTypeOK, Reading
      <4>3. ticking'["server"] => ticking["server"]
        BY <3>1, <3>3 DEF TransportClose, SessionTypeOK, Endpoints
      <4> QED
        BY <3>1, <3>2, <4>1, <4>2, <4>3, SessionIdle
    <3>4. ASSUME NEW seen \in BOOLEAN, TransportError(e, seen)
          PROVE  Session'
      <4> DEFINE frames == IF seen THEN <<Fin>> ELSE <<>>
      <4>1. Drops(e) /\ wire'[Peer(e)] = wire[Peer(e)] \o Outgoing(e, frames)
        BY <3>1, <3>4, PeerType DEF TransportError, LinkTypeOK, Drops
      <4>2. ~Reading(e)' /\ (Reading("server")' => Reading("server"))
        BY <3>1, <3>4 DEF TransportError, LinkTypeOK, Reading
      <4>3. Idle /\ UNCHANGED ticking /\ frames \in {<<>>, <<Fin>>}
        BY <3>4 DEF TransportError, Idle, streamVars, sessionVars
      <4> HIDE DEF frames
      <4>4. Writes(e, Fin)
        BY <3>1, <4>1, <4>3, WritesOutgoing
      <4> QED
        BY <3>1, <3>2, <4>1, <4>2, <4>3, <4>4, SessionIdle
    <3> QED
      BY <2>3, <3>3, <3>4
  <2>4. CASE Next
    BY <2>2, <2>3, <2>4, SessionApplication, SessionTimers DEF Next
  <2> QED
    BY <2>1, <2>4
<1> QED
  BY <1>1, SessionInit, PTL DEF Spec

(* No request reaches the server before the setup frame does.              *)
THEOREM SetupComesFirst == Spec => []SetupFirst
<1>1. Session => SetupFirst
  BY SetupTaken DEF SetupFirst
<1> QED
  BY <1>1, SessionHolds, PTL

(* A client that asked for a lease is ready only when it has had one.      *)
THEOREM ReadyMeansLeased == Spec => []ReadyIsLeased
<1>1. Session => ReadyIsLeased
  BY DEF Session
<1> QED
  BY <1>1, SessionHolds, PTL

-----------------------------------------------------------------------------
(* When neither fragments nor responders that cancel are used, the         *)
(* connection implements RequestResponse: with them a request may end      *)
(* twice.                                                                  *)

-----------------------------------------------------------------------------
(* Turns                                                                   *)

(* An end's turn changes its own books only: it issues an id or adds to    *)
(* the histories of its streams, and what was answered stays answered.     *)
Turn(x) ==
  /\ Lasts(x)
  /\ events'[Peer(x)] = events[Peer(x)]
  /\ issued'[x] = issued[x] \/ events'[x] = events[x]
  /\ \A id \in Ids : \E names \in Seq(EventNames) : events'[x][id] = events[x][id] \o names

(* A turn in which nothing is emitted.                                     *)
LEMMA TurnSilent ==
  ASSUME TypeOK, NEW x \in Endpoints, Lasts(x), UNCHANGED events
  PROVE  Turn(x)
<1>1. \A id \in Ids : events[x][id] \in Seq(EventNames) /\ events'[x] = events[x]
  BY TypeParts DEF StreamTypeOK
<1>2. \A id \in Ids : events[x][id] = events[x][id] \o <<>>
  BY <1>1, ConcatEmptySeq
<1>3. <<>> \in Seq(EventNames)
  BY EmptySeq
<1> QED
  BY <1>1, <1>2, <1>3 DEF Turn

(* One in which nothing happens but that a stream emits something.         *)
LEMMA TurnEmits ==
  ASSUME TypeOK, NEW x \in Endpoints, UNCHANGED <<issued, inbound>>,
         NEW id \in Ids, NEW names \in Seq(EventNames), Emit(x, id, names)
  PROVE  Turn(x)
<1>1. /\ \A i \in Ids : events[x][i] \in Seq(EventNames)
      /\ events'[Peer(x)] = events[Peer(x)]
      /\ events'[x][id] = events[x][id] \o names
      /\ \A i \in Ids \ {id} : events'[x][i] = events[x][i]
  BY TypeParts, PeerType DEF StreamTypeOK, Emit
<1>2. \A i \in Ids : events[x][i] = events[x][i] \o <<>>
  BY <1>1, ConcatEmptySeq
<1>3. <<>> \in Seq(EventNames)
  BY EmptySeq
<1>4. \A i \in Ids : \E more \in Seq(EventNames) : events'[x][i] = events[x][i] \o more
  BY <1>1, <1>2, <1>3
<1>5. Lasts(x)
  BY DEF Lasts
<1> QED
  BY <1>1, <1>4, <1>5 DEF Turn

(* Every step is a turn of one of the ends.                                *)
LEMMA TurnApplication ==
  ASSUME Causes, NEW e \in Endpoints, Application(e)
  PROVE  Turn(e)
<1>1. TypeOK /\ StreamTypeOK
  BY TypeParts DEF Causes
<1>2. UNCHANGED events
  BY DEF Application, Request, Respond, RespondError, Cancel, Close, streamVars
<1>3. ASSUME NEW follows \in BOOLEAN, Request(e, follows)
      PROVE  Lasts(e)
  BY <1>1, <1>3, PeerType DEF Request, StreamTypeOK, Lasts
<1>4. ASSUME NEW id \in Ids, NEW state, Answers(e, id, state)
      PROVE  Lasts(e)
  BY <1>1, <1>4, PeerType DEF Answers, StreamTypeOK, Lasts
<1>5. ASSUME NEW id \in Ids, NEW follows \in BOOLEAN, Respond(e, id, follows)
      PROVE  Lasts(e)
  <2>1. Answers(e, id, IF follows THEN "streaming" ELSE "responded")
    BY <1>5 DEF Respond, Answers
  <2> QED
    BY <1>4, <2>1
<1>6. ASSUME NEW id \in Ids, NEW class \in ErrorClasses, RespondError(e, id, class)
      PROVE  Lasts(e)
  <2>1. Answers(e, id, "errored")
    BY <1>6 DEF RespondError, Answers
  <2> QED
    BY <1>4, <2>1
<1>7. ASSUME (\E id \in Ids : Cancel(e, id)) \/ Close(e)
      PROVE  Lasts(e)
  BY <1>7 DEF Cancel, Close, streamVars, Lasts
<1>8. Lasts(e)
  BY <1>3, <1>5, <1>6, <1>7 DEF Application
<1> QED
  BY <1>1, <1>2, <1>8, TurnSilent

LEMMA TurnHandle ==
  ASSUME Causes, NEW e \in Endpoints, Handle(e)
  PROVE  Turn(e)
<1>1. TypeOK /\ StreamTypeOK /\ LinkTypeOK
  BY TypeParts DEF Causes
<1> DEFINE f == Head(wire[e])
<1>2. CASE HandleSetup(e) \/ HandleLease(e) \/ HandleKeepalive(e) \/ UnheardError(e) \/ ReceiveFin(e)
  <2>1. UNCHANGED <<issued, inbound, events>>
    BY <1>2 DEF HandleSetup, HandleLease, HandleKeepalive, UnheardError, ReceiveFin, streamVars
  <2> QED
    BY <1>1, <2>1, TurnSilent DEF Lasts
<1>3. CASE HandleRequest(e)
  <2>1. f.id \in Ids /\ inbound[e][f.id] = "none"
    <3>1. f.id \in issued[Peer(e)] /\ inbound[e][f.id] = "none"
      BY <1>3, GenuineHead DEF HandleRequest, Genuine
    <3> QED
      BY <1>1, <3>1, PeerType DEF StreamTypeOK
  <2>2. UNCHANGED <<issued, events>>
    BY <1>3 DEF HandleRequest
  <2>3. inbound'[Peer(e)] = inbound[Peer(e)] /\ \A i \in Ids \ {f.id} : inbound'[e][i] = inbound[e][i]
    BY <1>1, <1>3, <2>1, PeerType DEF HandleRequest, StreamTypeOK
  <2>4. Lasts(e)
    BY <2>1, <2>2, <2>3 DEF Lasts
  <2> QED
    BY <1>1, <2>2, <2>4, TurnSilent
<1>4. ASSUME UNCHANGED <<issued, inbound>>,
             UNCHANGED events \/ \E id \in Ids, names \in Seq(EventNames) : Emit(e, id, names)
      PROVE  Turn(e)
  BY <1>1, <1>4, TurnSilent, TurnEmits DEF Lasts
<1>5. CASE HandleResponse(e)
  <2>1. f.id \in Ids
    BY <1>5, GenuineHead DEF HandleResponse, Genuine
  <2>2. <<"response", "terminate">> \in Seq(EventNames)
    BY EventPairs DEF EventNames
  <2> QED
    BY <1>4, <1>5, <2>1, <2>2 DEF HandleResponse
<1>6. CASE HandleError(e)
  <2> DEFINE names == IF f.code = "CONNECTION" THEN <<"terminate">> ELSE <<"error", "terminate">>
  <2>1. f.id \in Ids \cup {0} /\ names \in Seq(EventNames)
    BY <1>1, <1>6, HeadType, EventPairs DEF HandleError, EventNames
  <2>2. UNCHANGED <<issued, inbound>> /\ (UNCHANGED events \/ (f.id # 0 /\ Emit(e, f.id, names)))
    BY <1>6 DEF HandleError
  <2> HIDE DEF names
  <2> QED
    BY <1>4, <2>1, <2>2
<1>7. CASE HandleCancel(e)
  <2>1. <<"cancel", "terminate">> \in Seq(EventNames)
    BY EventPairs DEF EventNames
  <2>2. UNCHANGED events \/ (f.id \in Ids /\ Emit(e, f.id, <<"cancel", "terminate">>))
    BY <1>1, <1>7 DEF HandleCancel, StreamTypeOK
  <2> QED
    BY <1>4, <1>7, <2>1, <2>2 DEF HandleCancel
<1> QED
  BY <1>2, <1>3, <1>5, <1>6, <1>7 DEF Handle

LEMMA Turns ==
  ASSUME Causes, Next
  PROVE  \E x \in Endpoints : Turn(x)
<1>1. TypeOK /\ StreamTypeOK
  BY TypeParts DEF Causes
<1>c. "client" \in Endpoints
  BY DEF Endpoints
<1>2. ASSUME UNCHANGED <<issued, inbound, events>>
      PROVE  Turn("client")
  BY <1>1, <1>2, <1>c, TurnSilent DEF Lasts
<1>3. CASE SetupAgain \/ RejectSetup \/ KeepaliveTick \/ LeaseTick \/ LeaseExpires
  BY <1>c, <1>2, <1>3 DEF SetupAgain, RejectSetup, KeepaliveTick, LeaseTick, LeaseExpires, streamVars
<1>4. ASSUME NEW e \in Endpoints, Constructed(e) \/ \E seen \in BOOLEAN : TransportError(e, seen)
      PROVE  \E x \in Endpoints : Turn(x)
  BY <1>c, <1>2, <1>4 DEF Constructed, TransportError, streamVars
<1>5. ASSUME NEW e \in Endpoints, NEW id \in Ids, Timeout(e, id)
      PROVE  Turn(e)
  <2>1. <<"timeout", "terminate">> \in Seq(EventNames)
    BY EventPairs DEF EventNames
  <2> QED
    BY <1>1, <1>5, <2>1, TurnEmits DEF Timeout
<1>6. ASSUME NEW e \in Endpoints, TransportClose(e)
      PROVE  Turn(e)
  <2> DEFINE names == <<"error", "terminate">>
  <2>1. /\ \A id \in Ids : events'[e][id] = IF id \in Told(e) THEN events[e][id] \o names
                                            ELSE events[e][id]
        /\ \A id \in Ids : events[e][id] \in Seq(EventNames)
        /\ events'[Peer(e)] = events[Peer(e)]
    BY <1>1, <1>6, PeerType DEF TransportClose, StreamTypeOK
  <2>2. names \in Seq(EventNames) /\ <<>> \in Seq(EventNames)
    BY EventPairs, EmptySeq DEF EventNames
  <2> HIDE DEF names
  <2>3. \A id \in Ids : events[e][id] = events[e][id] \o <<>>
    BY <2>1, ConcatEmptySeq
  <2>4. \A id \in Ids : \E more \in Seq(EventNames) : events'[e][id] = events[e][id] \o more
    BY <2>1, <2>2, <2>3
  <2>5. UNCHANGED <<issued, inbound>>
    BY <1>6 DEF TransportClose
  <2> QED
    BY <2>1, <2>4, <2>5 DEF Turn, Lasts
<1> QED
  BY <1>3, <1>4, <1>5, <1>6, TurnApplication, TurnHandle DEF Next

-----------------------------------------------------------------------------
(* Steps of RequestResponse                                                *)

(* A settled history that grows and is settled has not grown.              *)
LEMMA SettledIsFinal ==
  ASSUME NEW q \in Seq(EventNames), NEW more \in Seq(EventNames),
         q \in Settlements, q \o more \in Settlements
  PROVE  q \o more = q
<1>1. \A s \in Settlements :
        /\ Len(s) \in {1, 2}
        /\ Len(s) = 2 => s[1] # "terminate"
        /\ Len(s) = 1 => s[1] = "terminate"
  <2>1. Len(<<"terminate">>) = 1 /\ <<"terminate">>[1] = "terminate"
    OBVIOUS
  <2>2. \A name : Len(<<name, "terminate">>) = 2 /\ <<name, "terminate">>[1] = name
    OBVIOUS
  <2>3. \A s \in Settlements :
          s = <<"terminate">> \/ \E name : name # "terminate" /\ s = <<name, "terminate">>
    BY DEF Settlements
  <2> QED
    BY <2>1, <2>2, <2>3
<1>2. Len(q) \in {1, 2} /\ Len(more) \in Nat /\ Len(q \o more) = Len(q) + Len(more)
      /\ (q \o more)[1] = q[1]
  <2>1. Len(q) \in {1, 2}
    BY <1>1
  <2> QED
    BY <2>1
<1>3. Len(q \o more) \in {1, 2} /\ (Len(q) = 1 => Len(q \o more) # 2)
  BY <1>1, <1>2
<1>4. \A m, n \in Nat : m \in {1, 2} /\ m + n \in {1, 2} /\ (m = 1 => m + n # 2) => n = 0
  OBVIOUS
<1>5. Len(more) = 0
  BY <1>2, <1>3, <1>4
<1>6. more = <<>>
  BY <1>5, EmptySeq
<1> QED
  BY <1>6, ConcatEmptySeq

(* The status of a request by its history.                                 *)
LEMMA Status ==
  ASSUME NEW e \in Endpoints, NEW id \in Ids
  PROVE  /\ id \notin issued[e] => StatusOf(e, id) = "idle"
         /\ id \in issued[e] /\ events[e][id] = <<>> => StatusOf(e, id) = "waiting"
         /\ id \in issued[e] /\ events[e][id] = <<"response", "terminate">> =>
              StatusOf(e, id) = "response"
         /\ id \in issued[e] /\ events[e][id] # <<>> /\ events[e][id] # <<"response", "terminate">> =>
              StatusOf(e, id) = "failed"
<1>1. <<>> # <<"response", "terminate">>
  BY PairsCaused
<1> QED
  BY <1>1, Zenon DEF StatusOf

(* The same after a step.                                                  *)
LEMMA StatusNext ==
  ASSUME NEW e \in Endpoints, NEW id \in Ids
  PROVE  /\ id \notin issued'[e] => StatusOf(e, id)' = "idle"
         /\ id \in issued'[e] /\ events'[e][id] = <<>> => StatusOf(e, id)' = "waiting"
         /\ id \in issued'[e] /\ events'[e][id] = <<"response", "terminate">> =>
              StatusOf(e, id)' = "response"
         /\ id \in issued'[e] /\ events'[e][id] # <<>> /\ events'[e][id] # <<"response", "terminate">> =>
              StatusOf(e, id)' = "failed"
<1>1. <<>> # <<"response", "terminate">>
  BY PairsCaused
<1> QED
  BY <1>1, Zenon DEF StatusOf

(* A turn of the end that made the request: it may ask, and it may learn   *)
(* of an outcome once.                                                     *)
LEMMA OwnTurnImplements ==
  ASSUME IndInv, IndInv', Causes, Causes', NEW e \in Endpoints, Turn(e), NEW id \in Ids
  PROVE  [Abstract(e, id)!Next]_(Abstract(e, id)!vars)
<1> DEFINE answered == inbound[Peer(e)][id] = "responded"
<1>1. answered' = answered
  BY DEF Turn, Lasts
<1>2. /\ events[e][id] # <<>> => events[e][id] \in Settlements /\ id \in issued[e]
      /\ events'[e][id] # <<>> => events'[e][id] \in Settlements /\ id \in issued'[e]
      /\ events[e][id] \in Seq(EventNames)
  BY IndParts, TypeParts DEF Books, StreamTypeOK
<1>3. CASE id \notin issued[e]
  <2>1. CASE id \notin issued'[e]
    <3>1. StatusOf(e, id)' = StatusOf(e, id)
      BY <1>3, <2>1, Status, StatusNext
    <3> QED
      BY <1>1, <3>1 DEF Abstract!vars
  <2>2. CASE id \in issued'[e]
    <3>1. StatusOf(e, id) = "idle" /\ StatusOf(e, id)' = "waiting"
      BY <1>2, <1>3, <2>2, Status, StatusNext DEF Turn
    <3> QED
      BY <1>1, <3>1 DEF Abstract!Next, Abstract!Ask
  <2> QED
    BY <2>1, <2>2
<1>4. CASE id \in issued[e] /\ events[e][id] = <<>>
  <2>1. id \in issued'[e] /\ StatusOf(e, id) = "waiting"
    BY <1>4, Status DEF Turn, Lasts
  <2>2. CASE events'[e][id] = <<>>
    <3>1. StatusOf(e, id)' = StatusOf(e, id)
      BY <2>1, <2>2, StatusNext
    <3> QED
      BY <1>1, <3>1 DEF Abstract!vars
  <2>3. CASE events'[e][id] = <<"response", "terminate">>
    <3>1. StatusOf(e, id)' = "response"
      BY <2>1, <2>3, StatusNext
    <3>2. inbound'[Peer(e)][id] = "responded"
      <4>1. 1 \in DOMAIN <<"response", "terminate">> /\ <<"response", "terminate">>[1] = "response"
        OBVIOUS
      <4> QED
        BY <2>3, <4>1 DEF Causes, Outcomes, Caused
    <3> QED
      BY <1>1, <2>1, <3>1, <3>2 DEF Abstract!Next, Abstract!Complete
  <2>4. CASE events'[e][id] # <<>> /\ events'[e][id] # <<"response", "terminate">>
    <3>1. StatusOf(e, id)' = "failed"
      BY <2>1, <2>4, StatusNext
    <3> QED
      BY <1>1, <2>1, <3>1 DEF Abstract!Next, Abstract!Fail
  <2> QED
    BY <2>2, <2>3, <2>4
<1>5. CASE id \in issued[e] /\ events[e][id] # <<>>
  <2>1. PICK more \in Seq(EventNames) : events'[e][id] = events[e][id] \o more
    BY DEF Turn
  <2>2. events'[e][id] # <<>>
    <3>1. events[e][id] \o more # <<>>
      BY <1>2, <1>5, ConcatProperties
    <3> QED
      BY <2>1, <3>1
  <2>3. events'[e][id] = events[e][id]
    BY <1>2, <1>5, <2>1, <2>2, SettledIsFinal
  <2>4. id \in issued'[e]
    BY <1>5 DEF Turn, Lasts
  <2>5. StatusOf(e, id)' = StatusOf(e, id)
    BY <1>5, <2>3, <2>4, Status, StatusNext
  <2> QED
    BY <1>1, <2>5 DEF Abstract!vars
<1> QED
  BY <1>3, <1>4, <1>5

(* A turn of the other end: its application may answer the request.        *)
LEMMA PeerTurnImplements ==
  ASSUME Causes, Causes', NEW e \in Endpoints, Turn(Peer(e)), NEW id \in Ids
  PROVE  [Abstract(e, id)!Next]_(Abstract(e, id)!vars)
<1> DEFINE answered == inbound[Peer(e)][id] = "responded"
<1>1. issued'[e] = issued[e] /\ events'[e] = events[e]
  BY IdsApart DEF Turn, Lasts
<1>2. StatusOf(e, id)' = StatusOf(e, id)
  BY <1>1, Status, StatusNext
<1>3. answered => answered'
  BY DEF Turn, Lasts
<1>4. CASE answered' = answered
  BY <1>2, <1>4 DEF Abstract!vars
<1>5. CASE answered' /\ ~answered
  <2>1. id \in issued[e]
    BY <1>1, <1>5 DEF Causes, Issues
  <2>2. StatusOf(e, id) # "idle"
    BY <2>1, Status
  <2>3. (inbound[Peer(e)][id] = "responded")' = TRUE
    BY <1>5
  <2> QED
    BY <1>2, <2>2, <2>3 DEF Abstract!Next, Abstract!Answer
<1> QED
  BY <1>3, <1>4, <1>5

(* What happens to each request is what RequestResponse allows.            *)
THEOREM RequestsImplemented == ASSUME Calm PROVE Spec => ImplementsRequestResponse
<1> DEFINE Steps == \A e \in Endpoints, id \in Ids :
                      [Abstract(e, id)!Next]_(Abstract(e, id)!vars)
           Starts == \A e \in Endpoints, id \in Ids : Abstract(e, id)!Init
<1>1. Init => Starts
  <2> SUFFICES ASSUME Init, NEW e \in Endpoints, NEW id \in Ids
               PROVE  Abstract(e, id)!Init
    OBVIOUS
  <2>1. id \notin issued[e] /\ inbound[Peer(e)][id] = "none"
    BY PeerType DEF Init
  <2> QED
    BY <2>1, Status DEF Abstract!Init
<1>2. IndInv /\ IndInv' /\ Causes /\ Causes' /\ [Next]_vars => [Steps]_vars
  <2> SUFFICES ASSUME IndInv, IndInv', Causes, Causes', Next, NEW e \in Endpoints, NEW id \in Ids
               PROVE  [Abstract(e, id)!Next]_(Abstract(e, id)!vars)
    OBVIOUS
  <2>1. PICK x \in Endpoints : Turn(x)
    BY Turns
  <2>2. CASE x = e
    BY <2>1, <2>2, OwnTurnImplements
  <2>3. CASE x = Peer(e)
    BY <2>1, <2>3, PeerTurnImplements
  <2> QED
    BY <2>2, <2>3 DEF Endpoints, Peer
<1>3. Spec => Starts /\ [][Steps]_vars
  <2> HIDE DEF Starts, Steps
  <2> QED
    BY <1>1, <1>2, Inductive, CausesHold, PTL DEF Spec
<1> QED
  BY <1>3 DEF ImplementsRequestResponse

-----------------------------------------------------------------------------
(* Errors that come late                                                   *)

(* The streams an end has in its table or that have timed out.             *)
Awaits(e) == streams[e] \cup expired[e]

IsError(f, id) == f.type = "ERROR" /\ f.id = id

(* The errors in a queue are for streams that are known, each has one, and *)
(* those for the connection have codes with an event of their own.         *)
Heeded(q, known) ==
  /\ \A i \in DOMAIN q : q[i].type = "ERROR" =>
       IF q[i].id = 0 THEN q[i].code # "UNKNOWN" ELSE q[i].id \in known
  /\ \A i, j \in DOMAIN q : i # j /\ q[i].id # 0 =>
       ~(IsError(q[i], q[i].id) /\ IsError(q[j], q[i].id))

(* The inductive invariant behind OnlyLateErrorsCrash: a request is in the *)
(* table until it has timed out or its answer has come, of which there is  *)
(* one.                                                                    *)
Late(e) ==
  /\ Heeded(wire[e], Awaits(e))
  /\ \A id \in issued[e] :
       id \in Awaits(e) \/ inbound[Peer(e)][id] \in {"responded", "errored"}
  /\ ~Alive(e) => \E id \in expired[e] : inbound[Peer(e)][id] = "errored"

(* A queue that loses its first frame loses the error for its stream.      *)
LEMMA HeededTail ==
  ASSUME NEW q \in Seq(Frame), q # <<>>, NEW known, Heeded(q, known)
  PROVE  /\ Tail(q) \in Seq(Frame) /\ Heeded(Tail(q), known)
         /\ Head(q).type = "ERROR" =>
              IF Head(q).id = 0 THEN Head(q).code # "UNKNOWN" ELSE Head(q).id \in known
         /\ IsError(Head(q), Head(q).id) /\ Head(q).id # 0 =>
              \A i \in DOMAIN Tail(q) : ~IsError(Tail(q)[i], Head(q).id)
<1>1. /\ Tail(q) \in Seq(Frame) /\ Len(q) \in Nat \ {0} /\ DOMAIN q = 1..Len(q)
      /\ DOMAIN Tail(q) = 1..(Len(q) - 1) /\ Head(q) = q[1]
      /\ \A i \in DOMAIN Tail(q) : Tail(q)[i] = q[i + 1]
  BY HeadTailProperties, EmptySeq
<1>2. 1 \in DOMAIN q /\ \A i \in DOMAIN Tail(q) : i + 1 \in DOMAIN q /\ i + 1 # 1
  BY <1>1
<1>3. \A i, j \in DOMAIN Tail(q) : i # j => i + 1 # j + 1
  BY <1>1
<1> QED
  BY <1>1, <1>2, <1>3 DEF Heeded

(* A queue takes one more error for a stream that is known and has none.   *)
LEMMA HeededAppend ==
  ASSUME NEW q \in Seq(Frame), NEW f \in Frame, NEW known, Heeded(q, known),
         f.type = "ERROR" =>
           IF f.id = 0 THEN f.code # "UNKNOWN"
           ELSE f.id \in known /\ \A i \in DOMAIN q : ~IsError(q[i], f.id)
  PROVE  Heeded(q \o <<f>>, known)
<1> DEFINE r == q \o <<f>>
<1>1. /\ Len(q) \in Nat /\ DOMAIN q = 1..Len(q) /\ DOMAIN r = 1..(Len(q) + 1)
      /\ \A i \in DOMAIN q : r[i] = q[i]
      /\ r[Len(q) + 1] = f
  OBVIOUS
<1>2. \A i \in DOMAIN r : i \in DOMAIN q \/ i = Len(q) + 1
  BY <1>1
<1> HIDE DEF r
<1>3. \A i \in DOMAIN r : r[i].type = "ERROR" =>
        IF r[i].id = 0 THEN r[i].code # "UNKNOWN" ELSE r[i].id \in known
  BY <1>1, <1>2 DEF Heeded
<1>4. ASSUME NEW i \in DOMAIN r, NEW j \in DOMAIN r, i # j, r[i].id # 0,
             IsError(r[i], r[i].id), IsError(r[j], r[i].id)
      PROVE  FALSE
  <2>1. CASE i \in DOMAIN q /\ j \in DOMAIN q
    BY <1>1, <1>4, <2>1 DEF Heeded
  <2>2. CASE i \notin DOMAIN q
    BY <1>1, <1>2, <1>4, <2>2 DEF IsError
  <2>3. CASE j \notin DOMAIN q
    BY <1>1, <1>2, <1>4, <2>3 DEF IsError
  <2> QED
    BY <2>1, <2>2, <2>3
<1>5. Heeded(r, known)
  BY <1>3, <1>4 DEF Heeded
<1> QED
  BY <1>5 DEF r

(* An error that e may send: for the connection, or for a request that has *)
(* not been answered.                                                      *)
MayErr(e, f) ==
  f.type = "ERROR" =>
    IF f.id = 0 THEN f.code # "UNKNOWN" ELSE inbound[e][f.id] \in {"pending", "streaming"}

(* A turn of e keeps its peer's part of the invariant.                     *)
LEMMA LatePeer ==
  ASSUME Causes, NEW e \in Endpoints, Late(Peer(e)), NEW f \in Frame, MayErr(e, f),
         Writes(e, f), Lasts(e),
         streams'[Peer(e)] = streams[Peer(e)], expired'[Peer(e)] = expired[Peer(e)],
         ~Alive(Peer(e))' => ~Alive(Peer(e))
  PROVE  Late(Peer(e))'
<1> DEFINE p == Peer(e)
<1>1. p \in Endpoints /\ Peer(p) = e
  BY PeerType, IdsApart
<1>2. /\ wire[p] \in Seq(Frame) /\ expired[p] \subseteq Ids /\ issued[p] \subseteq Ids
      /\ Traffic(p) /\ Issues(p)
      /\ \A i \in DOMAIN wire[p] : wire[p][i].id \in Ids \cup {0}
  <2>1. wire[p] \in Seq(Frame) /\ expired[p] \subseteq Ids /\ issued[p] \subseteq Ids
    BY <1>1, TypeParts DEF Causes, LinkTypeOK, StreamTypeOK
  <2>2. \A i \in DOMAIN wire[p] : wire[p][i] \in Frame
    BY <2>1
  <2> QED
    BY <1>1, <2>1, <2>2 DEF Causes, Frame
<1>3. f.id \in Ids \cup {0}
  BY DEF Frame
<1>4. ASSUME f.type = "ERROR", f.id # 0
      PROVE  f.id \in Awaits(p) /\ \A i \in DOMAIN wire[p] : ~IsError(wire[p][i], f.id)
  <2>1. f.id \in Ids /\ inbound[e][f.id] \in {"pending", "streaming"}
    BY <1>3, <1>4 DEF MayErr
  <2>2. f.id \in issued[p]
    BY <1>1, <1>2, <2>1 DEF Issues
  <2>3. f.id \in Awaits(p)
    BY <1>1, <2>1, <2>2 DEF Late
  <2>4. ASSUME NEW i \in DOMAIN wire[p], IsError(wire[p][i], f.id)
        PROVE  FALSE
    BY <1>1, <1>2, <1>4, <2>1, <2>4 DEF Traffic, Fit, Genuine, IsError
  <2> QED
    BY <2>3, <2>4
<1>5. Awaits(p)' = Awaits(p)
  BY DEF Awaits
<1>6. Heeded(wire'[p], Awaits(p)')
  <2>1. Heeded(wire[p], Awaits(p))
    BY DEF Late
  <2>2. Heeded(wire[p] \o <<f>>, Awaits(p))
    BY <1>2, <1>4, <2>1, HeededAppend DEF MayErr
  <2> QED
    BY <1>5, <2>1, <2>2 DEF Writes
<1>7. \A id \in issued'[p] :
        id \in Awaits(p)' \/ inbound'[e][id] \in {"responded", "errored"}
  BY <1>1, <1>2, <1>5 DEF Late, Lasts
<1>8. ~Alive(p)' => \E id \in expired'[p] : inbound'[e][id] = "errored"
  BY <1>1, <1>2 DEF Late, Lasts
<1> QED
  BY <1>1, <1>6, <1>7, <1>8 DEF Late

(* And its own, when every request that it drops from the table has timed  *)
(* out or been answered, and no error for it is on its way any more.       *)
LEMMA LateOwn ==
  ASSUME Causes, IndInv', NEW e \in Endpoints, Late(e),
         Stays(e) \/ Takes(e) \/ Drops(e), Lasts(e),
         expired[e] \subseteq expired'[e], issued'[e] \subseteq issued[e] \cup streams'[e],
         \A id \in streams[e] \cap OwnIds(e) :
           \/ id \in Awaits(e)'
           \/ /\ inbound[Peer(e)][id] \in {"responded", "errored"}
              /\ \A i \in DOMAIN wire'[e] : ~IsError(wire'[e][i], id),
         ~Alive(e)' => ~Alive(e) \/ \E id \in expired[e] : inbound[Peer(e)][id] = "errored"
  PROVE  Late(e)'
<1>1. wire[e] \in Seq(Frame) /\ Issues(e) /\ inbound'[Peer(e)] = inbound[Peer(e)]
  BY TypeParts DEF Causes, LinkTypeOK, Lasts
<1>2. Heeded(wire'[e], Awaits(e))
  <2>1. Heeded(wire[e], Awaits(e)) /\ Heeded(<<>>, Awaits(e))
    BY DEF Late, Heeded
  <2> QED
    BY <1>1, <2>1, HeededTail DEF Stays, Takes, Drops
<1>3. \A i \in DOMAIN wire'[e] : IsError(wire'[e][i], wire'[e][i].id) =>
        wire'[e][i].id \in OwnIds(e) \cup {0}
  <2>1. wire'[e] \in Seq(FramesTo(e))
    BY IndParts DEF Routed
  <2>2. \A i \in DOMAIN wire'[e] : wire'[e][i] \in FramesTo(e)
    BY <2>1
  <2> QED
    BY <2>2 DEF FramesTo, IsError
<1>4. ASSUME NEW i \in DOMAIN wire'[e], wire'[e][i].type = "ERROR", wire'[e][i].id # 0
      PROVE  wire'[e][i].id \in Awaits(e)'
  <2>1. IsError(wire'[e][i], wire'[e][i].id)
    BY <1>4 DEF IsError
  <2>2. wire'[e][i].id \in Awaits(e) /\ wire'[e][i].id \in OwnIds(e)
    BY <1>2, <1>3, <1>4, <2>1 DEF Heeded
  <2> QED
    BY <2>1, <2>2 DEF Awaits
<1>5. Heeded(wire'[e], Awaits(e)')
  BY <1>2, <1>4 DEF Heeded
<1>6. \A id \in issued'[e] :
        id \in Awaits(e)' \/ inbound'[Peer(e)][id] \in {"responded", "errored"}
  <2> SUFFICES ASSUME NEW id \in issued'[e], id \in issued[e]
               PROVE  id \in Awaits(e)' \/ inbound'[Peer(e)][id] \in {"responded", "errored"}
    BY DEF Awaits
  <2>1. id \in OwnIds(e)
    BY <1>1 DEF Issues
  <2>2. id \in Awaits(e) \/ inbound[Peer(e)][id] \in {"responded", "errored"}
    BY DEF Late
  <2> QED
    BY <1>1, <2>1, <2>2 DEF Awaits
<1>7. ~Alive(e)' => \E id \in expired'[e] : inbound'[Peer(e)][id] = "errored"
  BY <1>1 DEF Late
<1> QED
  BY <1>5, <1>6, <1>7 DEF Late

(* Neither process ends in a turn, but perhaps that of e over an error for *)
(* a request that has timed out.                                           *)
Survives(e) ==
  /\ ~Alive(Peer(e))' => ~Alive(Peer(e))
  /\ ~Alive(e)' => ~Alive(e) \/ \E id \in expired[e] : inbound[Peer(e)][id] = "errored"

(* A turn of e leaves the tables of its peer alone, drops no request of    *)
(* its own that can still get an error.                                    *)
Tables(e) ==
  /\ streams'[Peer(e)] = streams[Peer(e)] /\ expired'[Peer(e)] = expired[Peer(e)]
  /\ expired[e] \subseteq expired'[e]
  /\ issued'[e] \subseteq issued[e] \cup streams'[e]
  /\ \A id \in streams[e] \cap OwnIds(e) :
       \/ id \in Awaits(e)'
       \/ /\ inbound[Peer(e)][id] \in {"responded", "errored"}
          /\ \A i \in DOMAIN wire'[e] : ~IsError(wire'[e][i], id)

LEMMA LateStep ==
  ASSUME Causes, IndInv', NEW e \in Endpoints, \A x \in Endpoints : Late(x),
         NEW f \in Frame, MayErr(e, f), Writes(e, f), Stays(e) \/ Takes(e) \/ Drops(e),
         Lasts(e), Tables(e), Survives(e)
  PROVE  \A x \in Endpoints : Late(x)'
<1>1. Late(Peer(e))'
  BY PeerType, LatePeer DEF Tables, Survives
<1>2. Late(e)'
  BY LateOwn DEF Tables, Survives
<1> QED
  BY <1>1, <1>2 DEF Endpoints, Peer

(* A turn that leaves its table of streams alone too, or adds to it.       *)
Grows(e) ==
  /\ expired' = expired /\ issued' = issued
  /\ streams'[Peer(e)] = streams[Peer(e)] /\ streams[e] \subseteq streams'[e]

LEMMA GrowsTables ==
  ASSUME NEW e \in Endpoints, Grows(e)
  PROVE  Tables(e)
BY DEF Grows, Tables, Awaits

(* Neither end of a link that sends or takes a frame loses its process.    *)
LEMMA LinkSurvives ==
  ASSUME LinkTypeOK, NEW e \in Endpoints, NEW frames, NEW closes \in BOOLEAN,
         Send(e, frames) \/ TakeFrame(e, frames, closes)
  PROVE  Survives(e)
<1>1. \A x \in Endpoints : transport'[x] = "crashed" => transport[x] = "crashed"
  BY DEF Send, TakeFrame, LinkTypeOK
<1> QED
  BY <1>1, PeerType DEF Survives, Alive

(* The invariant holds of two ends that have just been constructed.        *)
LEMMA LateInit == Init => \A e \in Endpoints : Late(e)
<1> SUFFICES ASSUME Init, NEW e \in Endpoints PROVE Late(e)
  OBVIOUS
<1> DEFINE s == Mk("SETUP", 0, "lease" \in Uses)
<1>1. s.type = "SETUP" /\ wire[e] \in {<<s>>, <<>>}
  BY DEF Init, Mk
<1> HIDE DEF s
<1>2. \A i \in DOMAIN wire[e] : wire[e][i].type = "SETUP"
  BY <1>1
<1>3. Heeded(wire[e], Awaits(e))
  BY <1>2 DEF Heeded, IsError
<1>4. issued[e] = {} /\ Alive(e)
  BY DEF Init, Alive
<1> QED
  BY <1>3, <1>4 DEF Late

(* The applications' calls.                                                *)
LEMMA LateApplication ==
  ASSUME Causes, IndInv, IndInv', \A x \in Endpoints : Late(x),
         NEW e \in Endpoints, Application(e)
  PROVE  \A x \in Endpoints : Late(x)'
<1>1. TypeOK /\ StreamTypeOK /\ LinkTypeOK /\ Lasts(e) /\ Peer(e) \in Endpoints /\ Peer(e) # e
  BY TypeParts, TurnApplication, PeerType DEF Causes, Turn
<1>2. ASSUME NEW f \in Frame, MayErr(e, f), Send(e, <<f>>), Tables(e)
      PROVE  \A x \in Endpoints : Late(x)'
  BY <1>1, <1>2, SendWrites, LinkSurvives, LateStep
<1>3. ASSUME NEW follows \in BOOLEAN, Request(e, follows)
      PROVE  \A x \in Endpoints : Late(x)'
  <2> DEFINE f == Mk("REQUEST_RESPONSE", NextId(e), follows)
  <2>1. f \in Frame /\ MayErr(e, f)
    <3>1. NextId(e) \in Ids
      BY <1>1, <1>3, ConstantsOK DEF Request, NextId, IdsLeft, StreamTypeOK, Ids
    <3> QED
      BY <3>1, FramesType DEF FrameTypes, Mk, MayErr
  <2>2. /\ streams'[Peer(e)] = streams[Peer(e)] /\ expired' = expired
        /\ streams'[e] = streams[e] \cup {NextId(e)} /\ issued'[e] = issued[e] \cup {NextId(e)}
        /\ Send(e, <<f>>)
    BY <1>1, <1>3 DEF Request, StreamTypeOK
  <2> HIDE DEF f
  <2>3. Tables(e)
    BY <2>2 DEF Tables, Awaits
  <2> QED
    BY <1>2, <2>1, <2>2, <2>3
<1>4. ASSUME NEW id \in Ids, NEW follows \in BOOLEAN, Respond(e, id, follows)
      PROVE  \A x \in Endpoints : Late(x)'
  <2> DEFINE f == Mk("RESPONSE", id, follows)
  <2>1. f \in Frame /\ MayErr(e, f)
    BY FramesType DEF FrameTypes, Mk, MayErr
  <2>2. /\ streams'[Peer(e)] = streams[Peer(e)] /\ expired' = expired /\ issued' = issued
        /\ streams'[e] = streams[e] \ {id}
        /\ Send(e, <<f>>)
    BY <1>1, <1>4 DEF Respond, Forget, StreamTypeOK
  <2>3. id \notin OwnIds(e)
    <3>1. id \in OwnIds(Peer(e))
      BY <1>4, IndParts DEF Respond, Books
    <3> QED
      BY <3>1, IdsApart
  <2> HIDE DEF f
  <2>4. Tables(e)
    BY <2>2, <2>3 DEF Tables, Awaits
  <2> QED
    BY <1>2, <2>1, <2>2, <2>4
<1>5. ASSUME NEW id \in Ids, NEW class \in ErrorClasses, RespondError(e, id, class)
      PROVE  \A x \in Endpoints : Late(x)'
  <2>1. MkError(id, class) \in Frame /\ MayErr(e, MkError(id, class))
    BY <1>5, FramesType, ConstantsOK, IdsApart DEF MkError, MayErr, RespondError
  <2>2. Tables(e) /\ Send(e, <<MkError(id, class)>>)
    BY <1>5, GrowsTables DEF RespondError, Grows
  <2> QED
    BY <1>2, <2>1, <2>2
<1>6. ASSUME NEW id \in Ids, Cancel(e, id)
      PROVE  \A x \in Endpoints : Late(x)'
  <2>1. Mk("CANCEL", id, FALSE) \in Frame /\ MayErr(e, Mk("CANCEL", id, FALSE))
    BY FramesType DEF FrameTypes, Mk, MayErr
  <2>2. Tables(e) /\ Send(e, <<Mk("CANCEL", id, FALSE)>>)
    BY <1>6, GrowsTables DEF Cancel, Grows
  <2> QED
    BY <1>2, <2>1, <2>2
<1>7. CASE Close(e)
  <2>1. Fin \in Frame /\ MayErr(e, Fin)
    BY BlandFrames DEF Fin, Mk, MayErr
  <2>2. Stays(e) /\ wire'[Peer(e)] = wire[Peer(e)] \o Outgoing(e, <<Fin>>)
    BY <1>1, <1>7 DEF Close, LinkTypeOK, Stays
  <2>3. Tables(e)
    BY <1>7, GrowsTables DEF Close, Grows, streamVars
  <2>4. Survives(e)
    BY <1>1, <1>7 DEF Close, LinkTypeOK, Survives, Alive
  <2> QED
    BY <1>1, <2>1, <2>2, <2>3, <2>4, WritesOutgoing, LateStep
<1> QED
  BY <1>3, <1>4, <1>5, <1>6, <1>7 DEF Application

(* Timers: what times out is awaited no less.                              *)
LEMMA LateTimers ==
  ASSUME Causes, IndInv', \A x \in Endpoints : Late(x),
         \/ SetupAgain \/ RejectSetup \/ KeepaliveTick \/ LeaseTick \/ LeaseExpires
         \/ \E e \in Endpoints : Constructed(e) \/ \E id \in Ids : Timeout(e, id)
  PROVE  \A x \in Endpoints : Late(x)'
<1>1. TypeOK /\ StreamTypeOK /\ LinkTypeOK
  BY TypeParts DEF Causes
<1>c. "client" \in Endpoints /\ "server" \in Endpoints
  BY DEF Endpoints
<1>2. ASSUME NEW e \in Endpoints, NEW f \in Frame, MayErr(e, f), Send(e, <<f>>), Tables(e),
             UNCHANGED <<issued, inbound>>
      PROVE  \A x \in Endpoints : Late(x)'
  BY <1>1, <1>2, SendWrites, LinkSurvives, LateStep DEF Lasts
<1>3. ASSUME NEW e \in Endpoints, NEW f \in Frame, MayErr(e, f), Send(e, <<f>>),
             UNCHANGED streamVars
      PROVE  \A x \in Endpoints : Late(x)'
  BY <1>2, <1>3, GrowsTables DEF streamVars, Grows
<1>4. ASSUME UNCHANGED <<streamVars, linkVars>>
      PROVE  \A x \in Endpoints : Late(x)'
  BY <1>4 DEF streamVars, linkVars, Late, Heeded, Awaits, Alive
<1>5. CASE SetupAgain
  <2>1. /\ Mk("SETUP", 0, "lease" \in Uses) \in Frame
        /\ MayErr("client", Mk("SETUP", 0, "lease" \in Uses))
    BY BlandFrames DEF Mk, MayErr
  <2>2. Grows("client")
    BY <1>1, <1>c, <1>5 DEF SetupAgain, Grows, StreamTypeOK, Peer
  <2> QED
    BY <1>c, <1>2, <1>5, <2>1, <2>2, GrowsTables DEF SetupAgain
<1>6. CASE RejectSetup
  <2>1. MkError(0, "SETUP") \in Frame /\ MayErr("server", MkError(0, "SETUP"))
    BY BlandFrames DEF Classes, MkError, MayErr
  <2> QED
    BY <1>c, <1>3, <1>6, <2>1 DEF RejectSetup
<1>7. CASE KeepaliveTick
  <2>1. Mk("KEEPALIVE", 0, TRUE) \in Frame /\ MayErr("client", Mk("KEEPALIVE", 0, TRUE))
    BY BlandFrames DEF Mk, MayErr
  <2> QED
    BY <1>c, <1>3, <1>7, <2>1 DEF KeepaliveTick
<1>8. CASE LeaseTick
  <2>1. Mk("LEASE", 0, FALSE) \in Frame /\ MayErr("server", Mk("LEASE", 0, FALSE))
    BY BlandFrames DEF Mk, MayErr
  <2> QED
    BY <1>c, <1>3, <1>8, <2>1 DEF LeaseTick
<1>9. CASE LeaseExpires \/ \E e \in Endpoints : Constructed(e)
  BY <1>4, <1>9 DEF LeaseExpires, Constructed
<1>10. ASSUME NEW e \in Endpoints, NEW id \in Ids, Timeout(e, id)
       PROVE  \A x \in Endpoints : Late(x)'
  <2>1. Mk("CANCEL", id, FALSE) \in Frame /\ MayErr(e, Mk("CANCEL", id, FALSE))
    BY FramesType DEF FrameTypes, Mk, MayErr
  <2>2. /\ streams'[Peer(e)] = streams[Peer(e)] /\ streams'[e] = streams[e] \ {id}
        /\ expired'[Peer(e)] = expired[Peer(e)] /\ expired'[e] = expired[e] \cup {id}
        /\ issued' = issued /\ inbound' = inbound
    BY <1>1, <1>10, PeerType DEF Timeout, Forget, StreamTypeOK
  <2>3. Tables(e)
    BY <2>2 DEF Tables, Awaits
  <2> QED
    BY <1>2, <1>10, <2>1, <2>2, <2>3 DEF Timeout
<1> QED
  BY <1>5, <1>6, <1>7, <1>8, <1>9, <1>10

(* Taking a frame: no error is sent.                                       *)
LEMMA LateTaken ==
  ASSUME Causes, IndInv', \A x \in Endpoints : Late(x), NEW e \in Endpoints, wire[e] # <<>>,
         NEW f \in Frame, MayErr(e, f), NEW frames, NEW closes \in BOOLEAN,
         (IF closes THEN Append(frames, Fin) ELSE frames) \in {<<>>, <<f>>},
         TakeFrame(e, frames, closes), Lasts(e), Tables(e)
  PROVE  \A x \in Endpoints : Late(x)'
<1>1. LinkTypeOK
  BY TypeParts DEF Causes
<1> QED
  BY <1>1, TakeWrites, LinkSurvives, LateStep

(* What a handler sends is not an error.                                   *)
LEMMA HandlersDoNotErr ==
  ASSUME NEW e \in Endpoints
  PROVE  /\ Fin \in Frame /\ MayErr(e, Fin)
         /\ \A type \in {"LEASE", "KEEPALIVE"} :
              Mk(type, 0, FALSE) \in Frame /\ MayErr(e, Mk(type, 0, FALSE))
         /\ Append(<<>>, Fin) = <<Fin>>
<1>1. Append(<<>>, Fin) = <<Fin>>
  OBVIOUS
<1>2. Fin \in Frame /\ MayErr(e, Fin)
  BY BlandFrames DEF Fin, Mk, MayErr
<1>3. \A type \in {"LEASE", "KEEPALIVE"} :
        Mk(type, 0, FALSE) \in Frame /\ MayErr(e, Mk(type, 0, FALSE))
  BY BlandFrames DEF Mk, MayErr
<1> QED
  BY <1>1, <1>2, <1>3

(* The frame handlers: a request that is dropped from the table has its    *)
(* answer in hand, and there is but one.                                   *)
LEMMA LateHandle ==
  ASSUME Calm, Causes, IndInv, IndInv', \A x \in Endpoints : Late(x),
         NEW e \in Endpoints, Handle(e), ~UnheardError(e), ~ReceiveFin(e)
  PROVE  \A x \in Endpoints : Late(x)'
<1> DEFINE f == Head(wire[e])
<1>1. /\ TypeOK /\ StreamTypeOK /\ LinkTypeOK /\ Lasts(e) /\ Routed
      /\ Peer(e) \in Endpoints /\ Peer(e) # e
  BY TypeParts, TurnHandle, PeerType, IndParts DEF Causes, Turn
<1>2. ASSUME wire[e] # <<>>, NEW closes \in BOOLEAN, TakeFrame(e, <<>>, closes), Tables(e)
      PROVE  \A x \in Endpoints : Late(x)'
  BY <1>1, <1>2, HandlersDoNotErr, LateTaken
<1>3. CASE HandleSetup(e)
  <2> DEFINE grants == AcceptsSetup(e) /\ f.flag
             closes == ~AcceptsSetup(e) /\ ClosesConnection("SETUP")
             frames == IF grants THEN <<Mk("LEASE", 0, FALSE)>> ELSE <<>>
  <2>1. wire[e] # <<>> /\ TakeFrame(e, frames, closes)
    BY <1>3 DEF HandleSetup, Receives
  <2>2. Grows(e)
    BY <1>1, <1>3 DEF HandleSetup, StreamTypeOK, Grows
  <2>3. CASE closes
    <3>1. frames = <<>> /\ closes \in BOOLEAN
      BY <2>3
    <3> HIDE DEF frames, closes
    <3> QED
      BY <1>2, <2>1, <2>2, <3>1, GrowsTables
  <2>4. CASE ~closes
    <3>1. frames \in {<<>>, <<Mk("LEASE", 0, FALSE)>>} /\ closes \in BOOLEAN
      OBVIOUS
    <3> HIDE DEF frames, closes
    <3> QED
      BY <1>1, <2>1, <2>2, <2>4, <3>1, GrowsTables, HandlersDoNotErr, LateTaken
  <2> QED
    BY <2>3, <2>4
<1>4. CASE HandleLease(e)
  <2>1. wire[e] # <<>> /\ TakeFrame(e, <<>>, FALSE) /\ Grows(e)
    BY <1>4 DEF HandleLease, Receives, streamVars, Grows
  <2> QED
    BY <1>2, <2>1, GrowsTables
<1>5. CASE HandleKeepalive(e)
  <2> DEFINE frames == IF f.flag THEN <<Mk("KEEPALIVE", 0, FALSE)>> ELSE <<>>
  <2>1. wire[e] # <<>> /\ TakeFrame(e, frames, FALSE) /\ Grows(e)
    BY <1>5 DEF HandleKeepalive, Receives, streamVars, Grows
  <2>2. frames \in {<<>>, <<Mk("KEEPALIVE", 0, FALSE)>>}
    OBVIOUS
  <2> HIDE DEF frames
  <2> QED
    BY <1>1, <2>1, <2>2, GrowsTables, HandlersDoNotErr, LateTaken
<1>6. CASE HandleRequest(e)
  <2>1. wire[e] # <<>> /\ TakeFrame(e, <<>>, FALSE) /\ Grows(e)
    BY <1>1, <1>6 DEF HandleRequest, Receives, StreamTypeOK, Grows
  <2> QED
    BY <1>2, <2>1, GrowsTables
<1>7. ASSUME NEW closes \in BOOLEAN, TakeFrame(e, <<>>, closes), wire[e] # <<>>,
             Forget(e, f.id), expired' = expired, issued' = issued,
             f.id \in OwnIds(e) =>
               /\ inbound[Peer(e)][f.id] \in {"responded", "errored"}
               /\ \A i \in DOMAIN Tail(wire[e]) : ~IsError(Tail(wire[e])[i], f.id)
      PROVE  \A x \in Endpoints : Late(x)'
  <2>1. streams'[e] = streams[e] \ {f.id} /\ streams'[Peer(e)] = streams[Peer(e)]
    BY <1>1, <1>7 DEF Forget, StreamTypeOK
  <2>2. wire'[e] = Tail(wire[e])
    <3>1. (IF closes THEN Append(<<>>, Fin) ELSE <<>>) \in {<<>>, <<Fin>>}
      BY HandlersDoNotErr
    <3> QED
      BY <1>1, <1>7, <3>1, TakeWrites DEF Takes
  <2> HIDE DEF f
  <2>3. Tables(e)
    BY <1>7, <2>1, <2>2 DEF Tables, Awaits
  <2> QED
    BY <1>2, <1>7, <2>3
<1>8. CASE HandleResponse(e)
  <2>1. /\ wire[e] # <<>> /\ f \in FramesTo(e) /\ f.type = "RESPONSE"
        /\ f.id \in OwnIds(e) /\ inbound[Peer(e)][f.id] = "responded"
    BY <1>1, <1>8, GenuineHead, RoutedHead DEF HandleResponse, Genuine, FramesTo
  <2>2. \A i \in DOMAIN Tail(wire[e]) : ~IsError(Tail(wire[e])[i], f.id)
    <3>1. Fit(Tail(wire[e]), issued[Peer(e)], cancelled[Peer(e)], inbound[e], inbound[Peer(e)])
      BY <1>1, <2>1, FitTail DEF Causes, Traffic, LinkTypeOK
    <3> QED
      BY <1>1, <2>1, <3>1, IdsApart DEF Fit, Genuine, IsError
  <2>3. TakeFrame(e, <<>>, FALSE) /\ Forget(e, f.id) /\ expired' = expired /\ issued' = issued
    BY <1>8 DEF HandleResponse
  <2> HIDE DEF f
  <2> QED
    BY <1>7, <2>1, <2>2, <2>3
<1>9. CASE HandleError(e)
  <2>1. /\ wire[e] # <<>> /\ wire[e] \in Seq(Frame) /\ f.type = "ERROR"
        /\ f.id = 0 \/ inbound[Peer(e)][f.id] = "errored"
    BY <1>1, <1>9, GenuineHead DEF HandleError, Genuine, LinkTypeOK
  <2>2. f.id # 0 => \A i \in DOMAIN Tail(wire[e]) : ~IsError(Tail(wire[e])[i], f.id)
    BY <2>1, HeededTail DEF Late, IsError
  <2>3. /\ TakeFrame(e, <<>>, ClosesConnection(f.code)) /\ ClosesConnection(f.code) \in BOOLEAN
        /\ Forget(e, f.id) /\ expired' = expired /\ issued' = issued
    BY <1>9 DEF HandleError, ClosesConnection
  <2>4. f.id \in OwnIds(e) => f.id # 0
    BY IdsApart
  <2> HIDE DEF f
  <2> QED
    BY <1>7, <2>1, <2>2, <2>3, <2>4
<1>10. CASE HandleCancel(e)
  <2>1. wire[e] # <<>> /\ f.id \in OwnIds(Peer(e))
    BY <1>1, <1>10, RoutedHead DEF HandleCancel, Receives, FramesTo
  <2>2. TakeFrame(e, <<>>, FALSE) /\ Forget(e, f.id) /\ expired' = expired /\ issued' = issued
    BY <1>10 DEF HandleCancel
  <2>3. f.id \notin OwnIds(e)
    BY <2>1, IdsApart
  <2> HIDE DEF f
  <2> QED
    BY <1>7, <2>1, <2>2, <2>3
<1> QED
  BY <1>3, <1>4, <1>5, <1>6, <1>8, <1>9, <1>10 DEF Handle

(* The transport, and the process that an error ends: the one that throws  *)
(* over a stream that is not in the table has let the request time out.    *)
LEMMA LateTransport ==
  ASSUME Causes, IndInv, IndInv', \A x \in Endpoints : Late(x), NEW e \in Endpoints,
         \/ UnheardError(e) \/ ReceiveFin(e) \/ TransportClose(e)
         \/ \E seen \in BOOLEAN : TransportError(e, seen)
  PROVE  \A x \in Endpoints : Late(x)'
<1>1. /\ TypeOK /\ StreamTypeOK /\ LinkTypeOK
      /\ Peer(e) \in Endpoints /\ Peer(e) # e
  BY TypeParts, PeerType DEF Causes
<1>2. Fin \in Frame /\ MayErr(e, Fin)
  BY HandlersDoNotErr
<1>3. UNCHANGED <<issued, inbound>> /\ Lasts(e)
  BY DEF UnheardError, ReceiveFin, TransportClose, TransportError, streamVars, Lasts
<1>4. ASSUME NEW frames \in {<<>>, <<Fin>>}, Stays(e) \/ Takes(e) \/ Drops(e),
             wire'[Peer(e)] = wire[Peer(e)] \o Outgoing(e, frames), UNCHANGED streamVars,
             Survives(e)
      PROVE  \A x \in Endpoints : Late(x)'
  <2>1. Tables(e)
    BY <1>4, GrowsTables DEF streamVars, Grows
  <2> QED
    BY <1>1, <1>2, <1>3, <1>4, <2>1, WritesOutgoing, LateStep
<1>5. CASE UnheardError(e)
  <2> DEFINE f == Head(wire[e])
  <2>1. /\ wire[e] # <<>> /\ wire[e] \in Seq(Frame) /\ f.type = "ERROR" /\ f.code = "UNKNOWN"
        /\ f.id \notin streams[e] /\ (f.id = 0 \/ inbound[Peer(e)][f.id] = "errored")
    BY <1>1, <1>5, GenuineHead DEF UnheardError, Genuine, LinkTypeOK
  <2>2. f.id \in expired[e] /\ inbound[Peer(e)][f.id] = "errored"
    <3>1. IF f.id = 0 THEN f.code # "UNKNOWN" ELSE f.id \in Awaits(e)
      BY <2>1, HeededTail DEF Late
    <3> QED
      BY <2>1, <3>1 DEF Awaits
  <2>3. ~Alive(Peer(e))' => ~Alive(Peer(e))
    BY <1>1, <1>5 DEF UnheardError, LinkTypeOK, Alive
  <2> HIDE DEF f
  <2>4. Survives(e)
    BY <2>2, <2>3 DEF Survives
  <2>5. Drops(e) /\ wire'[Peer(e)] = wire[Peer(e)] \o Outgoing(e, <<Fin>>)
    BY <1>1, <1>5 DEF UnheardError, LinkTypeOK, Drops
  <2> QED
    BY <1>4, <1>5, <2>4, <2>5 DEF UnheardError
<1>6. CASE ReceiveFin(e)
  <2>1. Takes(e) /\ wire'[Peer(e)] = wire[Peer(e)] \o Outgoing(e, <<Fin>>) /\ Survives(e)
    BY <1>1, <1>6 DEF ReceiveFin, Receives, LinkTypeOK, Takes, Survives, Alive
  <2> QED
    BY <1>4, <1>6, <2>1 DEF ReceiveFin
<1>7. ASSUME NEW seen \in BOOLEAN, TransportError(e, seen)
      PROVE  \A x \in Endpoints : Late(x)'
  <2> DEFINE frames == IF seen THEN <<Fin>> ELSE <<>>
  <2>1. Drops(e) /\ wire'[Peer(e)] = wire[Peer(e)] \o Outgoing(e, frames) /\ Survives(e)
    BY <1>1, <1>7 DEF TransportError, LinkTypeOK, Drops, Survives, Alive
  <2>2. frames \in {<<>>, <<Fin>>} /\ UNCHANGED streamVars
    BY <1>7 DEF TransportError
  <2> HIDE DEF frames
  <2> QED
    BY <1>4, <2>1, <2>2
<1>8. CASE TransportClose(e)
  <2>1. /\ streams'[e] = streams[e] \ Freed(e) /\ streams'[Peer(e)] = streams[Peer(e)]
        /\ expired' = expired /\ Stays(e) /\ Writes(e, Fin)
    BY <1>1, <1>8 DEF TransportClose, StreamTypeOK, Stays, Writes
  <2>2. Freed(e) \cap OwnIds(e) = {}
    BY IndParts, IdsApart DEF Freed, Books
  <2>3. Tables(e)
    BY <1>3, <2>1, <2>2 DEF Tables, Awaits
  <2>4. Survives(e)
    BY <1>1, <1>8 DEF TransportClose, LinkTypeOK, Survives, Alive
  <2> QED
    BY <1>2, <1>3, <2>1, <2>3, <2>4, LateStep
<1> QED
  BY <1>5, <1>6, <1>7, <1>8

(* When neither fragments nor responders that cancel are used, all that    *)
(* ends the process is an error of unknown code for a request that has     *)
(* timed out.                                                              *)
THEOREM CrashesAreLate == ASSUME Calm PROVE Spec => []OnlyLateErrorsCrash
<1> DEFINE AllLate == \A e \in Endpoints : Late(e)
<1>1. IndInv /\ IndInv' /\ Causes /\ AllLate /\ [Next]_vars => AllLate'
  <2> SUFFICES ASSUME IndInv, IndInv', Causes, AllLate, [Next]_vars PROVE AllLate'
    OBVIOUS
  <2>1. CASE UNCHANGED vars
    BY <2>1 DEF vars, streamVars, linkVars, Late, Heeded, Awaits, Alive
  <2>2. ASSUME NEW e \in Endpoints, Handle(e)
        PROVE  AllLate'
    BY <2>2, LateHandle, LateTransport
  <2>3. ASSUME NEW e \in Endpoints, TransportClose(e) \/ \E seen \in BOOLEAN : TransportError(e, seen)
        PROVE  AllLate'
    BY <2>3, LateTransport
  <2>4. CASE Next
    BY <2>2, <2>3, <2>4, LateApplication, LateTimers DEF Next
  <2> QED
    BY <2>1, <2>4
<1>2. AllLate => OnlyLateErrorsCrash
  BY DEF Late, OnlyLateErrorsCrash
<1> QED
  BY <1>1, <1>2, LateInit, Inductive, CausesHold, PTL DEF Spec
=============================================================================
