--------------------------- MODULE MCParseStream ---------------------------
(* What a client and a server send each other in a short session, with     *)
(* texts of one and two bytes a character.                                 *)
EXTENDS ParseStream

a == <<97>>
e == <<233>>    \* LATIN SMALL LETTER E WITH ACUTE, two bytes in utf8
MCTexts == {<<>>, a, e, e \o a}

Frame(type, flags, streamId, words, metadata, data) ==
  [type |-> type, flags |-> flags, streamId |-> streamId, words |-> words,
   metadata |-> metadata, data |-> data]

ToServer(md, d) ==
  [server |-> TRUE, metadataEncoding |-> md, dataEncoding |-> d,
   frames |-> <<Frame(SETUP, 8192, 0, <<0, 10000, 10000>>, e, a),
                Frame(REQUEST_RESPONSE, 0, 1, <<>>, a, e \o a),
                Frame(KEEPALIVE, 8192, 0, <<>>, <<>>, <<>>),
                Frame(CANCEL, 0, 1, <<>>, e, <<>>)>>]

ToClient(md, d) ==
  [server |-> FALSE, metadataEncoding |-> md, dataEncoding |-> d,
   frames |-> <<Frame(LEASE, 0, 0, <<1000, 1073741824>>, <<>>, <<>>),
                Frame(RESPONSE, 8192, 1, <<>>, <<>>, e),
                Frame(ERROR, 0, 1, <<514>>, e, a)>>]

MCStreams == <<ToServer("utf8", "utf8"), ToServer("binary", "binary"),
               ToClient("utf8", "utf8"), ToClient("binary", "binary")>>
MCStarts == AllStarts

(* The same with an encoding for the data that is not the metadata's.      *)
MixedStreams == <<ToServer("utf8", "binary"), ToClient("utf8", "binary")>>
=============================================================================
