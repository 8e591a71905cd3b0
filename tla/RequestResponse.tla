-------------------------- MODULE RequestResponse --------------------------
(***************************************************************************)
(* What a request promises the application that made it, whatever happens  *)
(* to the connection: it ends at most once, in a response or in a failure, *)
(* a response is one that the other end's application gave to it, and an   *)
(* end is final.                                                           *)
(***************************************************************************)
VARIABLES
  status,    \* what became of the request at the end that made it
  answered   \* the other end's application has answered it

vars == <<status, answered>>

Init ==
  /\ status = "idle"
  /\ answered = FALSE

Ask ==
  /\ status = "idle"
  /\ status' = "waiting"
  /\ UNCHANGED answered

Answer ==
  /\ status # "idle"
  /\ answered' = TRUE
  /\ UNCHANGED status

Complete ==
  /\ status = "waiting"
  /\ answered
  /\ status' = "response"
  /\ UNCHANGED answered

(* An error, a timeout, a cancellation, or the loss of the connection.     *)
Fail ==
  /\ status = "waiting"
  /\ status' = "failed"
  /\ UNCHANGED answered

Next == Ask \/ Answer \/ Complete \/ Fail

Spec == Init /\ [][Next]_vars
=============================================================================
