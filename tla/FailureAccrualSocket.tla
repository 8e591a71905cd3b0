------------------------ MODULE FailureAccrualSocket ------------------------
(***************************************************************************)
(* FailureAccrualSocket wraps request() and availability() of the socket   *)
(* that ReEnqueueFilter has wrapped: it listens to the streams that        *)
(* request() returns, and the availability falls with the requests that    *)
(* fail.                                                                   *)
(*                                                                         *)
(* ListenUnflagged and AvailabilityByHalf are faulty variants of the       *)
(* definitions they stand next to, which nothing uses (see README.md).     *)
(***************************************************************************)
EXTENDS ReEnqueueFilter, SequencesExt

CONSTANT Full   \* the success rate 1.0; 0.5 is half of it

ASSUME FullAssumption == Full \in Nat \ {0} /\ Full % 2 = 0

VARIABLES
  inserted,   \* inserted[r]: what the listeners of r have inserted, in order
  ewma        \* _failureAccrualEwma

vars == <<filterVars, inserted, ewma>>

Has(before, value) == \E i \in DOMAIN before : before[i] = value

(* onResponse inserts 1.0 unless a 'terminate' came first, onNonResponse   *)
(* inserts 0.0 unless a response did.                                      *)
ListenUnflagged(before, event) ==
  CASE event = "response" -> Append(before, Full)
    [] event = "terminate" -> Append(before, 0)
    [] OTHER -> before

Listen(before, event) ==
  CASE event = "response" /\ ~Has(before, 0) -> Append(before, Full)
    [] event = "terminate" /\ ~Has(before, Full) -> Append(before, 0)
    [] OTHER -> before

(* What the listeners of r do in this step, in which the outer stream      *)
(* emits one or two events, or none, and the moving average, which nears   *)
(* what is inserted.                                                       *)
Listened(r) ==
  LET n == Len(outer[r])
      first == Listen(inserted[r], outer'[r][n + 1])
      second == Listen(first, outer'[r][n + 2])
  IN IF Len(outer'[r]) = n THEN inserted[r]
     ELSE IF Len(outer'[r]) = n + 1 THEN first ELSE second

Heeds ==
  LET news == {Last(inserted'[r]) : r \in {q \in Requests : inserted'[q] # inserted[q]}}
  IN CASE 0 \in news -> ewma' \in 0..ewma
       [] Full \in news -> ewma' \in ewma..Full
       [] OTHER -> UNCHANGED ewma

Underlying ==
  /\ Step
  /\ inserted' = [r \in Requests |-> Listened(r)]
  /\ Heeds

(* availability() raises the rate by a half when the window has passed     *)
(* since the construction of the socket (nothing renews the stamp), and    *)
(* changes nothing before.                                                 *)
AvailabilityByHalf ==
  /\ ewma' = IF ewma + ewma \div 2 > Full THEN Full ELSE ewma + ewma \div 2
  /\ UNCHANGED <<filterVars, inserted>>

Availability ==
  /\ ewma' = IF ewma + Full \div 2 > Full THEN Full ELSE ewma + Full \div 2
  /\ UNCHANGED <<filterVars, inserted>>

FullInit ==
  /\ Init
  /\ inserted = [r \in Requests |-> <<>>]
  /\ ewma = Full

Next == Underlying \/ Availability

Spec == FullInit /\ [][Next]_vars

(* Timers fire, and whoever balances the load keeps asking for the         *)
(* availability.                                                           *)
FairSpec ==
  /\ Spec
  /\ \A r \in Requests : WF_vars(Underlying /\ TimerFires(r))
  /\ WF_vars(Availability)

-----------------------------------------------------------------------------
(* Properties                                                              *)

(* A request counts once in the success rate, when it ends, and as what    *)
(* its application saw: tries that were rejected and sent again are no     *)
(* failures.                                                               *)
AccountedOnce ==
  \A r \in Requests :
    inserted[r] = CASE outer[r] = <<>> -> <<>>
                    [] Has(outer[r], "response") -> <<Full>>
                    [] OTHER -> <<0>>

(* A socket whose requests all failed is not shunned for ever: once nobody *)
(* sends it requests, only availability() can raise its rate.              *)
Recovers == ewma = 0 ~> ewma > 0
=============================================================================
