---------------------------- MODULE ParseStream ----------------------------
(***************************************************************************)
(* The way in of a connection: the bytes that the peer's SerializeStream   *)
(* (lib/streams/serializeStream.js) made of its frames, cut into chunks by *)
(* the transport, put together again by FramingStream and parsed by        *)
(* ParseStream (lib/streams/parseStream.js), each frame in the turn that   *)
(* completes it.  A client knows the encodings from its options, a server  *)
(* takes them from the first SETUP frame it handles.                       *)
(***************************************************************************)
EXTENDS FramingStream, FrameCodec

CONSTANT Streams    \* Streams[s] is a record [server, metadataEncoding,
                    \* dataEncoding, frames]: what the peer sends, and whether
                    \* it is a server that it sends it to

VARIABLES
  dataEncoding, metadataEncoding,  \* _dataEncoding and _metadataEncoding
  parsed                           \* the frames pushed to the connection

parserVars == <<dataEncoding, metadataEncoding, parsed>>
allVars == <<vars, parserVars>>

(* SerializeStream._transform()                                            *)
Serialize(f, md, d) ==
  CASE f.type = REQUEST_RESPONSE -> GetReqResFrame(f, md, d)
    [] f.type = SETUP -> GetSetupFrame(f, md, d)
    [] f.type = LEASE -> GetLeaseFrame(f, md, d)
    [] f.type = CANCEL -> GetCancelFrame(f, md, d)
    [] f.type = ERROR -> GetErrorFrame(f, md, d)
    [] f.type = KEEPALIVE -> GetKeepaliveFrame(f, md, d)
    [] f.type = RESPONSE -> GetResponseFrame(f, md, d)

Serialized(sent) ==
  [i \in DOMAIN sent.frames |->
     Serialize(sent.frames[i], sent.metadataEncoding, sent.dataEncoding)]

(* Of each of the streams, its bytes and where its frames start.           *)
BytesOf(sent) == FlattenSeq(Serialized(sent))
StartsOf(sent) ==
  FoldLeft(LAMBDA at, bytes : Append(at, Last(at) + Len(bytes)), <<0>>, Serialized(sent))
Wire == FoldLeft(LAMBDA all, sent : Append(all, BytesOf(sent)), <<>>, Streams)
AllStarts == FoldLeft(LAMBDA all, sent : Append(all, StartsOf(sent)), <<>>, Streams)

ASSUME StreamsOK == Starts = AllStarts

(* The bytes that FramingStream names by their offsets.                    *)
Content(frame) ==
  [k \in 1..Cardinality(DOMAIN frame) |->
     IF frame[k-1] = Junk THEN Junk ELSE Wire[stream][frame[k-1] + 1]]

(* _handleSetup() of a server gives the encodings of the frame to the      *)
(* streams, which take them once.                                          *)
HandleSetup(buf) ==
  IF Streams[stream].server /\ ~Throws(buf) /\ TypeOf(buf) = SETUP
     /\ dataEncoding = undefined
  THEN /\ dataEncoding' = ParseSetupFrame(buf).dataEncoding
       /\ metadataEncoding' = ParseSetupFrame(buf).metadataEncoding
  ELSE UNCHANGED <<dataEncoding, metadataEncoding>>

(* _transform() hands the encodings to parseFrame() in this order.         *)
Transform(frame) ==
  /\ parsed' = Append(parsed, Parse(Content(frame), metadataEncoding, dataEncoding))
  /\ HandleSetup(Content(frame))

ParseInit ==
  /\ Init
  /\ parsed = <<>>
  /\ IF Streams[stream].server
     THEN dataEncoding = undefined /\ metadataEncoding = undefined
     ELSE /\ dataEncoding = Streams[stream].dataEncoding
          /\ metadataEncoding = Streams[stream].metadataEncoding

Receive == (\E n \in 1..Total : Arrive(n)) /\ UNCHANGED parserVars

Step ==
  /\ Iterate
  /\ IF pushed' = pushed THEN UNCHANGED parserVars ELSE Transform(Last(pushed'))

ParseNext == Receive \/ Step

ParseSpec == ParseInit /\ [][ParseNext]_allVars
(* _transform() runs to its end once it is called.  A step of Iterate is   *)
(* always a Step here, which can always go with it.                        *)
FairSpec == ParseSpec /\ WF_vars(Iterate)

-----------------------------------------------------------------------------
(* Properties                                                              *)

AsSent(f) == [f EXCEPT !.flags = @ + MetadataFlag(f)]

(* The connection is handed the frames that the peer sent, in their order, *)
(* none lost or repeated, with the same type, stream, fields and text,     *)
(* whatever the chunks: lengths are counted in bytes and not in            *)
(* characters, and every text is read in the encoding it was written in.   *)
ParsedAsSent ==
  /\ Len(parsed) <= N
  /\ \A i \in DOMAIN parsed : parsed[i] = AsSent(Streams[stream].frames[i])

(* What parseFrame() makes of the bytes of one frame of a session, with    *)
(* the encodings of the session or, when it is the first that a server     *)
(* gets, without.                                                          *)
FrameOf(s, i) == [k \in 1..(Starts[s][i+1] - Starts[s][i]) |-> Wire[s][Starts[s][i] + k]]

ReadsBack(s) ==
  LET sent == Streams[s]
      Reads(i, md, d) == Parse(FrameOf(s, i), md, d) = AsSent(sent.frames[i])
  IN \A i \in 1..(Len(Starts[s]) - 1) :
       IF sent.server /\ i = 1
       THEN /\ Reads(1, undefined, undefined)
            /\ ~Throws(FrameOf(s, 1)) /\ TypeOf(FrameOf(s, 1)) = SETUP
            /\ ParseSetupFrame(FrameOf(s, 1)).dataEncoding = sent.dataEncoding
            /\ ParseSetupFrame(FrameOf(s, 1)).metadataEncoding = sent.metadataEncoding
            /\ sent.dataEncoding # undefined
       ELSE Reads(i, sent.metadataEncoding, sent.dataEncoding)

(* A frame whose last byte has arrived is handed to the connection: it is  *)
(* not held back until more arrives, and _transform() does not loop for    *)
(* ever.                                                                   *)
EveryFrameArrives ==
  \A s \in DOMAIN Streams : \A i \in DOMAIN Streams[s].frames :
    (stream = s /\ Starts[s][i+1] <= first + length) ~> Len(parsed) >= i
=============================================================================
