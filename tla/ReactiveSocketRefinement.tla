---------------------- MODULE ReactiveSocketRefinement ----------------------
(***************************************************************************)
(* Every request of the connection of module ReactiveSocket is one that    *)
(* RequestResponse describes.                                              *)
(***************************************************************************)
EXTENDS ReactiveSocket

(* The status of a request, read off the events its stream has emitted.    *)
StatusOf(e, id) ==
  CASE id \notin issued[e] -> "idle"
    [] id \in issued[e] /\ events[e][id] = <<>> -> "waiting"
    [] id \in issued[e] /\ events[e][id] = <<"response", "terminate">> -> "response"
    [] OTHER -> "failed"

Abstract(e, id) == INSTANCE RequestResponse WITH
  status <- StatusOf(e, id),
  answered <- inbound[Peer(e)][id] = "responded"

(* Whatever the two ends do, what happens to each request is what          *)
(* RequestResponse allows: an outcome is reached once, is final, and is a  *)
(* response only when the peer's application gave one to this very id.     *)
ImplementsRequestResponse ==
  /\ \A e \in Endpoints, id \in Ids : Abstract(e, id)!Init
  /\ [][\A e \in Endpoints, id \in Ids :
          [Abstract(e, id)!Next]_(Abstract(e, id)!vars)]_vars
=============================================================================
