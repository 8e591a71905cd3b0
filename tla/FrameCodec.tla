----------------------------- MODULE FrameCodec -----------------------------
(***************************************************************************)
(* lib/protocol/frame: the bytes of a frame and what parseFrame() makes of *)
(* them.  Everything here is a constant operator.                          *)
(*                                                                         *)
(* A frame to send is a record [type, flags, streamId, words, metadata,    *)
(* data]: words are the 32 bit fields a type has after the header, in      *)
(* their order (SETUP: version, keepalive, maxLifetime; LEASE: ttl,        *)
(* budget; ERROR: errorCode), flags what the caller asks for.  Text is a   *)
(* sequence of character codes below 256, <<>> when there is none.         *)
(*                                                                         *)
(* ByteLengthOfChars is a faulty variant of ByteLength, which no           *)
(* definition uses (see README.md).                                        *)
(***************************************************************************)
EXTENDS Integers, Sequences, SequencesExt

CONSTANT Texts    \* the texts that metadata and data may be

SETUP == 1
LEASE == 2
KEEPALIVE == 3
REQUEST_RESPONSE == 4
CANCEL == 10
RESPONSE == 11
ERROR == 12
Types == {SETUP, LEASE, KEEPALIVE, REQUEST_RESPONSE, CANCEL, RESPONSE, ERROR}

METADATA == 16384    \* the flag 0x4000; FOLLOWS, LEASE and KEEPALIVE_RESPONSE
                     \* are all 0x2000
FRAME_HEADER_LENGTH == 12
METADATA_LENGTH == 4

Unwritten == -1    \* what new Buffer() leaves in a byte

ASSUME TextsOK == \A t \in Texts : t \in Seq(0..255)

(* Numbers, the most significant byte first.                               *)
U16(n) == <<n \div 256, n % 256>>
U32(n) == U16(n \div 65536) \o U16(n % 65536)
Number(bytes) == FoldLeft(LAMBDA n, b : 256 * n + b, 0, bytes)

(* The encodings of Node that are modelled; a missing one is utf8.         *)
undefined == "undefined"
EncodingName == [utf8 |-> <<117, 116, 102, 56>>,
                 binary |-> <<98, 105, 110, 97, 114, 121>>]
Named(bytes) == CHOOSE e \in DOMAIN EncodingName : EncodingName[e] = bytes

Utf8(char) == IF char < 128 THEN <<char>> ELSE <<192 + char \div 64, 128 + (char % 64)>>
Encode(text, encoding) ==
  IF encoding = "binary" THEN text
  ELSE FlattenSeq([i \in DOMAIN text |-> Utf8(text[i])])

Garbled == <<Unwritten>>
Decode(bytes, encoding) ==
  IF \E t \in Texts : Encode(t, encoding) = bytes
  THEN CHOOSE t \in Texts : Encode(t, encoding) = bytes
  ELSE Garbled

-----------------------------------------------------------------------------
(* Writing                                                                 *)

Words == (SETUP :> 3) @@ (LEASE :> 2) @@ (ERROR :> 1)
WordCount(type) == IF type \in DOMAIN Words THEN Words[type] ELSE 0

ByteLengthOfChars(text, encoding) == Len(text)
ByteLength(text, encoding) == Len(Encode(text, encoding))

ComputeFrameLength(f, metadataEncoding, dataEncoding) ==
  FRAME_HEADER_LENGTH + 4 * WordCount(f.type)
  + (IF f.type = SETUP
     THEN 2 + Len(EncodingName[metadataEncoding]) + Len(EncodingName[dataEncoding])
     ELSE 0)
  + (IF f.metadata # <<>>
     THEN METADATA_LENGTH + ByteLength(f.metadata, metadataEncoding)
     ELSE 0)
  + ByteLength(f.data, dataEncoding)

(* buffer.write(): bytes that do not fit are dropped.                      *)
Write(buffer, offset, bytes) ==
  [k \in DOMAIN buffer |->
     IF k > offset /\ k <= offset + Len(bytes) THEN bytes[k - offset] ELSE buffer[k]]

WriteFrameData(f, metadataEncoding, dataEncoding, buffer, offset) ==
  LET mdLength == ByteLength(f.metadata, metadataEncoding)
      md == U32(mdLength + METADATA_LENGTH) \o Encode(f.metadata, metadataEncoding)
      data == Encode(f.data, dataEncoding)
  IN IF f.metadata = <<>>
     THEN Write(buffer, offset, data)
     ELSE Write(Write(buffer, offset, md), offset + METADATA_LENGTH + mdLength, data)

WriteFrameHeader(f, length) ==
  U32(length) \o U16(f.type) \o U16(f.flags) \o U32(f.streamId)

(* What the get...Frame() functions have in common: a buffer of the length *)
(* computed, with the header, the type's own fields and the frame's data.  *)
Buffer(f, fields, metadataEncoding, dataEncoding) ==
  LET length == ComputeFrameLength(f, metadataEncoding, dataEncoding)
      fixed == WriteFrameHeader(f, length) \o fields
      buffer == [k \in 1..length |-> Unwritten]
  IN WriteFrameData(f, metadataEncoding, dataEncoding, Write(buffer, 0, fixed), Len(fixed))

MetadataFlag(f) == IF f.metadata = <<>> THEN 0 ELSE METADATA
Fields(f) == FlattenSeq([i \in DOMAIN f.words |-> U32(f.words[i])])
Counted(bytes) == <<Len(bytes)>> \o bytes

GetSetupFrame(f, md, d) ==
  Buffer([f EXCEPT !.flags = @ + MetadataFlag(f), !.streamId = 0],
         Fields(f) \o Counted(EncodingName[md]) \o Counted(EncodingName[d]), md, d)
GetReqResFrame(f, md, d) == Buffer([f EXCEPT !.flags = @ + MetadataFlag(f)], <<>>, md, d)
GetResponseFrame(f, md, d) == Buffer([f EXCEPT !.flags = @ + MetadataFlag(f)], <<>>, md, d)
GetErrorFrame(f, md, d) == Buffer([f EXCEPT !.flags = MetadataFlag(f)], Fields(f), md, d)
GetCancelFrame(f, md, d) == Buffer([f EXCEPT !.flags = MetadataFlag(f)], <<>>, md, d)
GetLeaseFrame(f, md, d) ==
  Buffer([f EXCEPT !.flags = MetadataFlag(f), !.streamId = 0], Fields(f), md, d)
GetKeepaliveFrame(f, md, d) == Buffer([f EXCEPT !.streamId = 0], <<>>, md, d)

-----------------------------------------------------------------------------
(* Reading                                                                 *)

(* buffer.slice(from, to), clipped to the buffer.                          *)
Part(buf, from, to) ==
  SubSeq(buf, from + 1, IF to < Len(buf) THEN to ELSE Len(buf))

TypeOf(buf) == Number(Part(buf, 4, 6))
Flags(buf) == Number(Part(buf, 6, 8))
AfterWords(buf) == FRAME_HEADER_LENGTH + 4 * WordCount(TypeOf(buf))

(* The two encodings a SETUP frame carries, and where it goes on.          *)
ParseSetupFrame(buf) ==
  LET mdAt == AfterWords(buf) + 1
      mdEnd == mdAt + buf[mdAt]
      dataAt == mdEnd + 1
      dataEnd == dataAt + buf[dataAt]
  IN [metadataEncoding |-> Named(Part(buf, mdAt, mdEnd)),
      dataEncoding |-> Named(Part(buf, dataAt, dataEnd)),
      offset |-> dataEnd]

(* parseHeader() throws when the length is not the buffer's, and parse()   *)
(* when it does not know the type.                                         *)
Throws(buf) ==
  \/ Len(buf) < FRAME_HEADER_LENGTH
  \/ Part(buf, 0, 4) # U32(Len(buf))
  \/ TypeOf(buf) \notin Types
Thrown == [type |-> 0, flags |-> 0, streamId |-> 0, words |-> <<>>,
           metadata |-> <<>>, data |-> <<>>]

HasMetadata(buf) == TypeOf(buf) # KEEPALIVE /\ (Flags(buf) \div METADATA) % 2 = 1
HasData(buf) == TypeOf(buf) \notin {LEASE, CANCEL}

ParseBody(buf, dataEncoding, metadataEncoding) ==
  LET setup == IF TypeOf(buf) = SETUP
               THEN ParseSetupFrame(buf)
               ELSE [metadataEncoding |-> metadataEncoding,
                     dataEncoding |-> dataEncoding,
                     offset |-> AfterWords(buf)]
      mdAt == setup.offset + METADATA_LENGTH
      mdEnd == IF HasMetadata(buf)
               THEN setup.offset + Number(Part(buf, setup.offset, mdAt))
               ELSE setup.offset
  IN [type |-> TypeOf(buf),
      flags |-> Flags(buf),
      streamId |-> Number(Part(buf, 8, 12)),
      words |-> [i \in 1..WordCount(TypeOf(buf)) |-> Number(Part(buf, 8 + 4 * i, 12 + 4 * i))],
      metadata |-> IF HasMetadata(buf)
                   THEN Decode(Part(buf, mdAt, mdEnd), setup.metadataEncoding)
                   ELSE <<>>,
      data |-> IF HasData(buf)
               THEN Decode(Part(buf, mdEnd, Len(buf)), setup.dataEncoding)
               ELSE <<>>]

Parse(buf, dataEncoding, metadataEncoding) ==
  IF Throws(buf) THEN Thrown ELSE ParseBody(buf, dataEncoding, metadataEncoding)
=============================================================================
