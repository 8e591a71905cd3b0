--------------------------- MODULE WeightedSocket ---------------------------
(***************************************************************************)
(* WeightedSocket wraps request() of a socket to know its load: how many   *)
(* requests are outstanding, how long they have been altogether, and the   *)
(* median of the round trips.  LoadBalancer compares sockets by the        *)
(* latency that getPredictedLatency() makes of it.                         *)
(*                                                                         *)
(* A stream emits 'terminate' once, after the outcome (SettledOnce of      *)
(* module ReactiveSocket).                                                 *)
(*                                                                         *)
(* DecrUnstamped is a faulty variant of Decr, which no action uses (see    *)
(* README.md).                                                             *)
(***************************************************************************)
EXTENDS SlidingMedian, FiniteSetsExt

CONSTANTS
  Requests,          \* requests, each made again when it has ended
  InactivityPeriod,  \* opts.inactivityPeriodMs
  MaxTime            \* bound of the clock

ASSUME LoadAssumption == InactivityPeriod \in Nat /\ MaxTime \in Nat
ASSUME RequestsAssumption == IsFiniteSet(Requests)
ASSUME RoundTrips == Values = 1..MaxTime

Idle == -1

VARIABLES
  now,           \* CLOCK.now()
  start,         \* start[q]: when q was sent, Idle when it is not outstanding
  outstandings, stamp, stamp0, duration,
  heard          \* when a request was last sent or answered

loadVars == <<outstandings, stamp, stamp0, duration>>
vars == <<medianVars, now, start, loadVars, heard>>

Outstanding == {q \in Requests : start[q] # Idle}

(* _instantaneous()                                                        *)
Instantaneous == duration + (now - stamp0) * outstandings

(* _incr(), in request().                                                  *)
Send(q) ==
  /\ start[q] = Idle
  /\ start' = [start EXCEPT ![q] = now]
  /\ duration' = Instantaneous
  /\ outstandings' = outstandings + 1
  /\ stamp' = now
  /\ stamp0' = now
  /\ heard' = now
  /\ UNCHANGED <<medianVars, now>>

(* _decr()                                                                 *)
DecrUnstamped(q) ==
  /\ start' = [start EXCEPT ![q] = Idle]
  /\ duration' = Instantaneous - (now - start[q])
  /\ outstandings' = outstandings - 1
  /\ UNCHANGED <<stamp, stamp0>>

Decr(q) ==
  /\ start' = [start EXCEPT ![q] = Idle]
  /\ duration' = Instantaneous - (now - start[q])
  /\ outstandings' = outstandings - 1
  /\ stamp0' = now
  /\ UNCHANGED stamp

(* 'response', on which the round trip is observed, then 'terminate'.      *)
Respond(q) ==
  /\ q \in Outstanding
  /\ now > start[q]
  /\ Insert(now - start[q])
  /\ Decr(q)
  /\ heard' = now
  /\ UNCHANGED now

(* 'terminate' after an error or a timeout.                                *)
Fail(q) ==
  /\ q \in Outstanding
  /\ Decr(q)
  /\ heard' = now
  /\ UNCHANGED <<medianVars, now>>

(* getPredictedLatency() of a socket without requests: 0.8 times the       *)
(* estimate is inserted, which is some lesser value.                       *)
Decays ==
  /\ Estimate # 0
  /\ outstandings = 0
  /\ now - stamp > InactivityPeriod

Decay ==
  /\ Decays
  /\ \E x \in 1..Estimate : Insert(x)
  /\ stamp' = now
  /\ stamp0' = now
  /\ UNCHANGED <<now, start, outstandings, duration, heard>>

Tick ==
  /\ now < MaxTime
  /\ now' = now + 1
  /\ UNCHANGED <<medianVars, start, loadVars, heard>>

Init ==
  /\ MedianInit
  /\ now = 0
  /\ start = [q \in Requests |-> Idle]
  /\ outstandings = 0 /\ stamp = 0 /\ stamp0 = 0 /\ duration = 0
  /\ heard = 0

Next ==
  \/ \E q \in Requests : Send(q) \/ Respond(q) \/ Fail(q)
  \/ Decay
  \/ Tick

Spec == Init /\ [][Next]_vars

-----------------------------------------------------------------------------
(* Properties                                                              *)

(* Every variable stays in its type.                                       *)
TypeOK ==
  /\ ring \in [0..(Size - 1) -> Values \cup {Undefined}]
  /\ to - from \in 0..Size
  /\ outstandings \in Nat /\ duration \in Nat
  /\ {now, stamp, stamp0, heard} \subseteq 0..MaxTime
  /\ start \in [Requests -> {Idle} \cup 0..now]

(* What is kept in three numbers is the sum of the ages of the outstanding *)
(* requests, at every time: "_outstandings never equal 0" where that sum   *)
(* is divided by it, and an idle socket carries no debt.                   *)
LoadIsExact ==
  /\ outstandings = Cardinality(Outstanding)
  /\ Instantaneous = MapThenSumSet(LAMBDA q : now - start[q], Outstanding)

(* "if we did't see any data for a while, we decay the prediction"         *)
DecaysOnlyUnheard == Decays => now - heard > InactivityPeriod
=============================================================================
