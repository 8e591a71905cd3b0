-------------------------- MODULE ReEnqueueFilter --------------------------
(***************************************************************************)
(* ReEnqueueFilter wraps request() of a ReactiveSocket: a request that the *)
(* peer rejects is sent again on a fresh inner stream, and the application *)
(* holds one outer stream, a BridgeStream, which is moved from inner       *)
(* stream to inner stream.  All requests share the rate of retries, a      *)
(* moving average that lowers the number of tries.                         *)
(*                                                                         *)
(* An inner stream is what module ReactiveSocket proves a stream to be     *)
(* (SettledOnce, WaitingIsTimed): it emits an outcome and 'terminate' in   *)
(* one turn, once, and until then its timer is armed.                      *)
(*                                                                         *)
(* RebridgedLate, RebridgedHalf, InsertRetryToZero and TimeoutRetried are  *)
(* faulty variants of the definitions they stand next to, which no action  *)
(* uses (see README.md).                                                   *)
(***************************************************************************)
EXTENDS Integers, Sequences

CONSTANTS
  Requests,        \* requests of the application
  MaxReEnqueue     \* opts.maxReEnqueue

ASSUME RequestsAssumption == Requests # {}
ASSUME MaxAssumption == MaxReEnqueue \in Nat \ {0}

VARIABLES
  tries,    \* tries[r]: the inner streams made for r, in order
  attached, \* attached[r]: those whose events the outer stream repeats
  outer,    \* outer[r]: what the outer stream has emitted, in order
  allowed,  \* the bound that min(maxReEnqueue, maxReEnqueueRate / rate) sets
            \* to n, rounded up: it moves with the rate of retries
  lost      \* whether the transport has closed

filterVars == <<tries, attached, outer, allowed, lost>>

(* What the peer's application answers: a response, an error that          *)
(* hookRetry() listens to (REJECTED or CANCELED, which it treats alike),   *)
(* one of another code, or CONNECTION_ERROR, of which a stream emits       *)
(* nothing but 'terminate'.                                                *)
Answers == {"response", "rejected-error", "application-error", "connection"}
Try == [ended : BOOLEAN, answer : Answers \cup {"none"}]
Fresh == [ended |-> FALSE, answer |-> "none"]

-----------------------------------------------------------------------------
(* BridgeStream: bridgeEvents() repeats these events; 'rejected-error' is  *)
(* none of them.                                                           *)
Bridged == {"response", "timeout", "application-error", "error", "terminate"}

(* What an outer stream that is attached to the tries in bridge makes of   *)
(* the events of try k: its outcome, if it repeats that, and 'terminate'.  *)
Heard(bridge, k, outcome) ==
  IF k \notin bridge THEN <<>>
  ELSE IF outcome \in Bridged THEN <<outcome, "terminate">>
  ELSE <<"terminate">>

(* detach() takes the handlers off one inner stream, attach() puts them on *)
(* another.                                                                *)
RebridgedLate(r, from, to) == attached[r] \cup {to}
RebridgedHalf(r, from, to) == attached[r] \ {from}
Rebridged(r, from, to) == (attached[r] \ {from}) \cup {to}

(* The moving average nears what is inserted, 1.0 for a retry and 0.0 for  *)
(* a response, or does not move (two insertions in one millisecond).       *)
InsertRetryToZero == allowed' \in 0..allowed
InsertRetry == allowed' \in 1..allowed
InsertResponse == allowed' \in allowed..MaxReEnqueue

-----------------------------------------------------------------------------
(* request(): n starts at 1.                                               *)
Ask(r) ==
  /\ tries[r] = <<>>
  /\ tries' = [tries EXCEPT ![r] = <<Fresh>>]
  /\ attached' = [attached EXCEPT ![r] = {1}]
  /\ UNCHANGED <<outer, allowed, lost>>

(* The peer's application answers a try, whatever became of it here.       *)
Answer(r, k, answer) ==
  /\ ~lost
  /\ tries[r][k].answer = "none"
  /\ tries' = [tries EXCEPT ![r][k].answer = answer]
  /\ UNCHANGED <<attached, outer, allowed, lost>>

Arrives(r, k) == ~lost /\ ~tries[r][k].ended /\ tries[r][k].answer # "none"

Ended(r, k) == [tries[r] EXCEPT ![k].ended = TRUE]

(* An answer that is not retried; updateFn listens to the first try only.  *)
Settle(r, k) ==
  LET answer == tries[r][k].answer
  IN /\ Arrives(r, k)
     /\ answer # "rejected-error"
     /\ tries' = [tries EXCEPT ![r] = Ended(r, k)]
     /\ outer' = [outer EXCEPT ![r] = @ \o Heard(attached[r], k, answer)]
     /\ IF k = 1 /\ answer = "response" THEN InsertResponse ELSE UNCHANGED allowed
     /\ UNCHANGED <<attached, lost>>

(* In retry(), n is the number of the try that was rejected.               *)
MayRetry(k) == k < allowed

(* The 'terminate' that follows finds the outer stream on the next try.    *)
ReEnqueue(r, k) ==
  /\ Arrives(r, k)
  /\ tries[r][k].answer = "rejected-error"
  /\ MayRetry(k)
  /\ InsertRetry
  /\ tries' = [tries EXCEPT ![r] = Append(Ended(r, k), Fresh)]
  /\ attached' = [attached EXCEPT ![r] = Rebridged(r, k, Len(tries[r]) + 1)]
  /\ outer' = [outer EXCEPT ![r] = @ \o Heard(attached'[r], k, "rejected-error")]
  /\ UNCHANGED lost

(* The outer stream emits the error itself, and repeats the 'terminate'.   *)
GiveUp(r, k) ==
  LET answer == tries[r][k].answer
  IN /\ Arrives(r, k)
     /\ answer = "rejected-error"
     /\ ~MayRetry(k)
     /\ tries' = [tries EXCEPT ![r] = Ended(r, k)]
     /\ outer' = [outer EXCEPT ![r] = Append(@, answer) \o Heard(attached[r], k, answer)]
     /\ UNCHANGED <<attached, allowed, lost>>

(* The request timeout of an inner stream.                                 *)
TimeoutRetried(r, k) ==
  /\ ~tries[r][k].ended
  /\ IF MayRetry(k)
     THEN /\ tries' = [tries EXCEPT ![r] = Append(Ended(r, k), Fresh)]
          /\ attached' = [attached EXCEPT ![r] = Rebridged(r, k, Len(tries[r]) + 1)]
          /\ UNCHANGED outer
     ELSE /\ tries' = [tries EXCEPT ![r] = Ended(r, k)]
          /\ outer' = [outer EXCEPT ![r] = @ \o Heard(attached[r], k, "timeout")]
          /\ UNCHANGED attached
  /\ UNCHANGED <<allowed, lost>>
Timeout(r, k) ==
  /\ ~tries[r][k].ended
  /\ tries' = [tries EXCEPT ![r] = Ended(r, k)]
  /\ outer' = [outer EXCEPT ![r] = @ \o Heard(attached[r], k, "timeout")]
  /\ UNCHANGED <<attached, allowed, lost>>

(* The transport closes: all inner streams that wait get an error, which   *)
(* is not retried.                                                         *)
ConnectionLost ==
  LET waiting(r) == {k \in DOMAIN tries[r] : ~tries[r][k].ended}
      heard(r) == waiting(r) \cap attached[r]
  IN /\ ~lost
     /\ lost' = TRUE
     /\ tries' = [r \in Requests |-> [k \in DOMAIN tries[r] |->
                    [tries[r][k] EXCEPT !.ended = TRUE]]]
     /\ outer' = [r \in Requests |->
          IF heard(r) # {} THEN outer[r] \o <<"error", "terminate">> ELSE outer[r]]
     /\ UNCHANGED <<attached, allowed>>

Turn(r, k) ==
  \/ \E answer \in Answers : Answer(r, k, answer)
  \/ Settle(r, k)
  \/ ReEnqueue(r, k)
  \/ GiveUp(r, k)
  \/ Timeout(r, k)

Init ==
  /\ tries = [r \in Requests |-> <<>>]
  /\ attached = [r \in Requests |-> {}]
  /\ outer = [r \in Requests |-> <<>>]
  /\ allowed = MaxReEnqueue
  /\ lost = FALSE

Step ==
  \/ ConnectionLost
  \/ \E r \in Requests : Ask(r) \/ \E k \in DOMAIN tries[r] : Turn(r, k)

(* Timers fire.                                                            *)
TimerFires(r) == \E k \in DOMAIN tries[r] : Timeout(r, k)

-----------------------------------------------------------------------------
(* Properties                                                              *)

(* Every variable stays in its type.                                       *)
TypeOK ==
  /\ tries \in [Requests -> Seq(Try)]
  /\ \A r \in Requests : attached[r] \subseteq DOMAIN tries[r]
  /\ allowed \in 1..MaxReEnqueue
  /\ lost \in BOOLEAN

(* Whatever is sent again, the peer's application carries a request out at *)
(* most once: all tries but one were rejected by it.  A try that timed out *)
(* may still be carried out, and is not sent again.                        *)
AtMostOnce ==
  \A r \in Requests : \A j, k \in DOMAIN tries[r] :
    "rejected-error" \notin {tries[r][j].answer, tries[r][k].answer} => j = k

Failures == {<<"terminate">>} \cup
  {<<e, "terminate">> : e \in {"rejected-error", "timeout", "application-error", "error"}}

(* The status of a request, read off the events of its outer stream.       *)
StatusOf(r) ==
  CASE tries[r] = <<>> -> "idle"
    [] tries[r] # <<>> /\ outer[r] = <<>> -> "waiting"
    [] outer[r] = <<"response", "terminate">> -> "response"
    [] outer[r] \in Failures -> "failed"
    [] OTHER -> "illegal"

Abstract(r) == INSTANCE RequestResponse WITH
  status <- StatusOf(r),
  answered <- \E k \in DOMAIN tries[r] : tries[r][k].answer = "response"

(* A request through the filter is still a request: its outer stream emits *)
(* one outcome and 'terminate', once, whichever try they come from, and a  *)
(* response only when the peer gave one.                                   *)
ImplementsRequestResponse ==
  /\ \A r \in Requests : Abstract(r)!Init
  /\ [][\A r \in Requests : [Abstract(r)!Next]_(Abstract(r)!vars)]_filterVars

(* Every request ends, be it rejected again and again.                     *)
RequestsEnd == \A r \in Requests : tries[r] # <<>> ~> outer[r] # <<>>
=============================================================================
