---------------------------- MODULE RetryProofs ----------------------------
(***************************************************************************)
(* Theorems about modules ReEnqueueFilter and FailureAccrualSocket: for    *)
(* all sets of requests, numbers of retries, and rates.                    *)
(***************************************************************************)
EXTENDS FailureAccrualSocket, SequenceTheorems, TLAPS

-----------------------------------------------------------------------------
(* The inductive invariant                                                 *)

Outcomes == {<<"response", "terminate">>} \cup Failures

(* What an outer stream has emitted when the last of its tries has ended.  *)
Settled(out, answer) ==
  out \in Outcomes /\ (out = <<"response", "terminate">> => answer = "response")

(* A request that has not been made; or it has: the outer stream listens   *)
(* to the last of its tries, all tries before that were rejected, and it   *)
(* has emitted an outcome if and only if the last try has ended.           *)
Bridges(ts, bridge, out) ==
  \/ ts = <<>> /\ bridge = {} /\ out = <<>>
  \/ /\ ts # <<>> /\ bridge = {Len(ts)}
     /\ \A k \in 1..(Len(ts) - 1) : ts[k].ended /\ ts[k].answer = "rejected-error"
     /\ IF ts[Len(ts)].ended THEN Settled(out, ts[Len(ts)].answer) ELSE out = <<>>

Inv ==
  /\ TypeOK
  /\ DOMAIN attached = Requests /\ DOMAIN outer = Requests
  /\ \A r \in Requests : Bridges(tries[r], attached[r], outer[r])

-----------------------------------------------------------------------------
(* Tries                                                                   *)

WasAnswered(ts) == \E k \in DOMAIN ts : ts[k].answer = "response"

LEMMA TryFacts ==
  /\ Fresh \in Try /\ Fresh.answer = "none" /\ Fresh.ended = FALSE
  /\ \A t \in Try : /\ t.ended \in BOOLEAN
                    /\ [t EXCEPT !.ended = TRUE] \in Try
                    /\ [t EXCEPT !.ended = TRUE].ended = TRUE
                    /\ [t EXCEPT !.ended = TRUE].answer = t.answer
                    /\ \A a \in Answers : /\ [t EXCEPT !.answer = a] \in Try
                                          /\ [t EXCEPT !.answer = a].answer = a
                                          /\ [t EXCEPT !.answer = a].ended = t.ended
BY DEF Try, Fresh, Answers

(* One of the tries of a request changes.                                  *)
LEMMA TryChanged ==
  ASSUME NEW ts \in Seq(Try), NEW k \in DOMAIN ts, NEW t \in Try
  PROVE  LET new == [ts EXCEPT ![k] = t]
         IN /\ new \in Seq(Try) /\ Len(new) = Len(ts) /\ DOMAIN new = DOMAIN ts
            /\ new # <<>> /\ ts # <<>>
            /\ new[k] = t /\ \A j \in DOMAIN ts \ {k} : new[j] = ts[j]
OBVIOUS

(* A new one is made.                                                      *)
LEMMA TryAdded ==
  ASSUME NEW ts \in Seq(Try), NEW t \in Try
  PROVE  LET new == Append(ts, t)
         IN /\ new \in Seq(Try) /\ Len(new) = Len(ts) + 1 /\ new # <<>>
            /\ DOMAIN new = 1..(Len(ts) + 1)
            /\ new[Len(ts) + 1] = t /\ \A j \in 1..Len(ts) : new[j] = ts[j]
OBVIOUS

LEMMA TriesTyped ==
  ASSUME TypeOK, NEW r \in Requests
  PROVE  /\ tries[r] \in Seq(Try) /\ Len(tries[r]) \in Nat
         /\ DOMAIN tries[r] = 1..Len(tries[r])
BY DEF TypeOK

(* Only the last try of a request can end or be answered.                  *)
LEMMA OnlyLastActs ==
  ASSUME Inv, NEW r \in Requests, NEW k \in DOMAIN tries[r],
         ~tries[r][k].ended \/ tries[r][k].answer = "none"
  PROVE  /\ k = Len(tries[r]) /\ attached[r] = {k} /\ tries[r] # <<>>
         /\ \A j \in 1..(k - 1) : tries[r][j].ended /\ tries[r][j].answer = "rejected-error"
         /\ IF tries[r][k].ended THEN Settled(outer[r], tries[r][k].answer)
                                 ELSE outer[r] = <<>>
<1>1. Bridges(tries[r], attached[r], outer[r]) /\ k \in 1..Len(tries[r]) /\ tries[r] # <<>>
  BY TriesTyped DEF Inv
<1>2. k \notin 1..(Len(tries[r]) - 1)
  BY <1>1 DEF Bridges
<1>3. k = Len(tries[r])
  BY <1>1, <1>2, TriesTyped DEF Inv
<1>4. QED  BY <1>1, <1>3 DEF Bridges

-----------------------------------------------------------------------------
(* What a turn does to a request                                           *)

(* Nothing; it is made; it is answered or sent again; or it ends.          *)
Same(r) == tries'[r] = tries[r] /\ attached'[r] = attached[r] /\ outer'[r] = outer[r]

Made(r) ==
  /\ tries[r] = <<>> /\ tries'[r] = <<Fresh>> /\ attached'[r] = {1}
  /\ outer'[r] = outer[r]

Moves(r) ==
  /\ tries[r] # <<>> /\ tries'[r] # <<>> /\ outer'[r] = outer[r]
  /\ WasAnswered(tries[r]) => WasAnswered(tries'[r])

Ends(r) ==
  /\ tries[r] # <<>> /\ tries'[r] # <<>>
  /\ outer[r] = <<>> /\ outer'[r] \in Outcomes
  /\ WasAnswered(tries'[r]) <=> WasAnswered(tries[r])

Progress(r) ==
  /\ tries'[r] \in Seq(Try) /\ Bridges(tries'[r], attached'[r], outer'[r])
  /\ Same(r) \/ Made(r) \/ Moves(r) \/ Ends(r)

LEMMA SameProgress ==
  ASSUME Inv, NEW r \in Requests, Same(r)
  PROVE  Progress(r)
BY TriesTyped DEF Inv, Same, Progress

(* The last try ends, and the outer stream emits.                          *)
LEMMA EndProgress ==
  ASSUME Inv, NEW r \in Requests, NEW k \in DOMAIN tries[r], ~tries[r][k].ended,
         tries'[r] = Ended(r, k), attached'[r] = attached[r],
         Settled(outer'[r], tries[r][k].answer)
  PROVE  Progress(r)
<1>1. /\ k = Len(tries[r]) /\ attached[r] = {k} /\ tries[r] # <<>> /\ outer[r] = <<>>
      /\ \A j \in 1..(k - 1) : tries[r][j].ended /\ tries[r][j].answer = "rejected-error"
  BY OnlyLastActs
<1>2. tries[r] \in Seq(Try) /\ tries[r][k] \in Try /\ DOMAIN tries[r] = 1..k
  BY <1>1, TriesTyped DEF Inv
<1> DEFINE t == [tries[r][k] EXCEPT !.ended = TRUE]
<1>3. t \in Try /\ t.ended = TRUE /\ t.answer = tries[r][k].answer
  BY <1>2, TryFacts
<1>4. tries'[r] = [tries[r] EXCEPT ![k] = t]
  BY DEF Ended
<1> HIDE DEF t
<1>5. /\ tries'[r] \in Seq(Try) /\ Len(tries'[r]) = k /\ DOMAIN tries'[r] = 1..k
      /\ tries'[r] # <<>>
      /\ tries'[r][k] = t /\ \A j \in 1..(k - 1) : tries'[r][j] = tries[r][j]
  BY <1>1, <1>2, <1>3, <1>4, TryChanged
<1>6. Bridges(tries'[r], attached'[r], outer'[r])
  BY <1>1, <1>3, <1>5 DEF Bridges
<1>7. \A j \in 1..k : tries'[r][j].answer = tries[r][j].answer
  BY <1>2, <1>3, <1>4
<1>8. Ends(r)
  BY <1>1, <1>2, <1>5, <1>7 DEF Ends, WasAnswered, Settled
<1>9. QED  BY <1>5, <1>6, <1>8 DEF Progress

(* What is heard of a try.                                                 *)
LEMMA HeardFacts ==
  ASSUME NEW k, NEW e
  PROVE  /\ e \in Bridged => Heard({k}, k, e) = <<e, "terminate">>
         /\ e \notin Bridged => Heard({k}, k, e) = <<"terminate">>
BY DEF Heard

LEMMA HeardFirst ==
  ASSUME NEW k, NEW e
  PROVE  <<>> \o Heard({k}, k, e) = Heard({k}, k, e)
<1>1. <<>> \o <<e, "terminate">> = <<e, "terminate">>
  OBVIOUS
<1>2. <<>> \o <<"terminate">> = <<"terminate">>
  OBVIOUS
<1>3. QED  BY <1>1, <1>2, HeardFacts

LEMMA HeardOutcomes ==
  /\ \A e \in {"timeout", "application-error", "error"} : <<e, "terminate">> \in Failures
  /\ <<"rejected-error", "terminate">> \in Failures /\ <<"terminate">> \in Failures
  /\ \A s \in Failures : s # <<"response", "terminate">>
<1>1. \A e, f : <<e, f>>[1] = e /\ <<e, f>> # <<f>>
  OBVIOUS
<1>2. \A e : e # "response" => <<e, "terminate">> # <<"response", "terminate">>
  BY <1>1
<1>3. <<"terminate">> # <<"response", "terminate">>
  BY <1>1
<1>4. QED  BY <1>2, <1>3 DEF Failures

LEMMA SettleProgress ==
  ASSUME Inv, NEW r \in Requests, NEW k \in DOMAIN tries[r], Settle(r, k)
  PROVE  Progress(r)
<1> DEFINE answer == tries[r][k].answer
<1>1. /\ ~tries[r][k].ended /\ answer # "none" /\ answer # "rejected-error"
      /\ tries' = [tries EXCEPT ![r] = Ended(r, k)]
      /\ outer' = [outer EXCEPT ![r] = @ \o Heard(attached[r], k, answer)]
      /\ attached' = attached
  BY DEF Settle, Arrives
<1>2. attached[r] = {k} /\ outer[r] = <<>>
  BY <1>1, OnlyLastActs
<1>3. answer \in {"response", "application-error", "connection"}
  <2>1. tries[r][k] \in Try
    BY TriesTyped DEF Inv
  <2>2. QED  BY <1>1, <2>1 DEF Try, Answers
<1>4. tries'[r] = Ended(r, k)
  BY <1>1 DEF Inv, TypeOK
<1>5. Settled(Heard({k}, k, answer), answer)
  <2>1. CASE answer = "response"
    BY <2>1, HeardFacts DEF Bridged, Settled, Outcomes
  <2>2. CASE answer = "application-error"
    <3>1. Heard({k}, k, answer) = <<"application-error", "terminate">>
      BY <2>2, HeardFacts DEF Bridged
    <3>2. QED  BY <3>1, HeardOutcomes DEF Settled, Outcomes
  <2>3. CASE answer = "connection"
    <3>1. Heard({k}, k, answer) = <<"terminate">>
      BY <2>3, HeardFacts DEF Bridged
    <3>2. QED  BY <3>1, HeardOutcomes DEF Settled, Outcomes
  <2>4. QED  BY <1>3, <2>1, <2>2, <2>3
<1>6. outer'[r] = Heard({k}, k, answer)
  <2>1. outer'[r] = outer[r] \o Heard(attached[r], k, answer)
    BY <1>1 DEF Inv
  <2> HIDE DEF answer
  <2>2. QED  BY <1>2, <2>1, HeardFirst
<1>7. QED
  BY <1>1, <1>4, <1>5, <1>6, EndProgress

LEMMA TimeoutProgress ==
  ASSUME Inv, NEW r \in Requests, NEW k \in DOMAIN tries[r], Timeout(r, k)
  PROVE  Progress(r)
<1>1. /\ ~tries[r][k].ended /\ tries'[r] = Ended(r, k) /\ attached' = attached
      /\ outer'[r] = outer[r] \o Heard(attached[r], k, "timeout")
  BY DEF Timeout, Inv, TypeOK
<1>2. attached[r] = {k} /\ outer[r] = <<>>
  BY <1>1, OnlyLastActs
<1>3. outer'[r] = Heard({k}, k, "timeout")
  BY <1>1, <1>2, HeardFirst
<1>4. outer'[r] = <<"timeout", "terminate">>
  BY <1>3, HeardFacts DEF Bridged
<1>5. Settled(outer'[r], tries[r][k].answer)
  BY <1>4, HeardOutcomes DEF Settled, Outcomes
<1>6. QED  BY <1>1, <1>5, EndProgress

LEMMA GiveUpProgress ==
  ASSUME Inv, NEW r \in Requests, NEW k \in DOMAIN tries[r], GiveUp(r, k)
  PROVE  Progress(r)
<1>1. /\ ~tries[r][k].ended /\ tries'[r] = Ended(r, k) /\ attached' = attached
      /\ outer'[r] = Append(outer[r], "rejected-error") \o Heard(attached[r], k, "rejected-error")
  BY DEF GiveUp, Arrives, Inv, TypeOK
<1>2. attached[r] = {k} /\ outer[r] = <<>>
  BY <1>1, OnlyLastActs
<1>3. Heard({k}, k, "rejected-error") = <<"terminate">>
  BY HeardFacts DEF Bridged
<1>4. outer'[r] = Append(<<>>, "rejected-error") \o <<"terminate">>
  BY <1>1, <1>2, <1>3
<1>5. outer'[r] = <<"rejected-error", "terminate">>
  <2>1. Append(<<>>, "rejected-error") = <<"rejected-error">>
    OBVIOUS
  <2> DEFINE S == {"rejected-error", "terminate"}
             s == <<"rejected-error">>
             t == <<"terminate">>
             u == <<"rejected-error", "terminate">>
  <2>2. /\ s \in Seq(S) /\ Len(s) = 1 /\ s[1] = "rejected-error"
        /\ t \in Seq(S) /\ Len(t) = 1 /\ t[1] = "terminate"
    OBVIOUS
  <2>3. /\ u \in Seq(S) /\ Len(u) = 2 /\ u[1] = "rejected-error" /\ u[2] = "terminate"
    OBVIOUS
  <2> HIDE DEF s, t, u, S
  <2>4. s \o t \in Seq(S) /\ Len(s \o t) = 2
        /\ (s \o t)[1] = "rejected-error" /\ (s \o t)[2] = "terminate"
    BY <2>2, ConcatProperties
  <2>5. \A i \in 1..2 : (s \o t)[i] = u[i]
    BY <2>3, <2>4
  <2>6. s \o t = u
    BY <2>3, <2>4, <2>5, SeqEqual
  <2>7. QED  BY <1>4, <2>1, <2>6 DEF s, t, u
<1>6. Settled(outer'[r], tries[r][k].answer)
  BY <1>5, HeardOutcomes DEF Settled, Outcomes
<1>7. QED  BY <1>1, <1>6, EndProgress

LEMMA AnswerProgress ==
  ASSUME Inv, NEW r \in Requests, NEW k \in DOMAIN tries[r], NEW answer \in Answers,
         Answer(r, k, answer)
  PROVE  Progress(r)
<1> DEFINE t == [tries[r][k] EXCEPT !.answer = answer]
<1>1. /\ tries[r][k].answer = "none" /\ tries'[r] = [tries[r] EXCEPT ![k] = t]
      /\ UNCHANGED <<attached, outer>>
  BY DEF Answer, Inv, TypeOK
<1>2. /\ k = Len(tries[r]) /\ attached[r] = {k} /\ tries[r] # <<>>
      /\ \A j \in 1..(k - 1) : tries[r][j].ended /\ tries[r][j].answer = "rejected-error"
      /\ IF tries[r][k].ended THEN Settled(outer[r], tries[r][k].answer) ELSE outer[r] = <<>>
  BY <1>1, OnlyLastActs
<1>3. tries[r] \in Seq(Try) /\ tries[r][k] \in Try /\ DOMAIN tries[r] = 1..k
  BY <1>2, TriesTyped DEF Inv
<1>4. t \in Try /\ t.ended = tries[r][k].ended
  BY <1>3, TryFacts
<1> HIDE DEF t
<1>5. /\ tries'[r] \in Seq(Try) /\ Len(tries'[r]) = k /\ DOMAIN tries'[r] = 1..k
      /\ tries'[r] # <<>>
      /\ tries'[r][k] = t /\ \A j \in 1..(k - 1) : tries'[r][j] = tries[r][j]
  BY <1>1, <1>2, <1>3, <1>4, TryChanged
<1>6. IF t.ended THEN Settled(outer[r], t.answer) ELSE outer[r] = <<>>
  BY <1>1, <1>2, <1>4 DEF Settled
<1>7. Bridges(tries'[r], attached'[r], outer'[r])
  BY <1>1, <1>2, <1>5, <1>6 DEF Bridges
<1>8. \A j \in 1..k : tries[r][j].answer = "response" => tries'[r][j].answer = "response"
  BY <1>1, <1>3, <1>5
<1>9. Moves(r)
  BY <1>1, <1>2, <1>3, <1>5, <1>8 DEF Moves, WasAnswered
<1>10. QED  BY <1>5, <1>7, <1>9 DEF Progress

LEMMA ReEnqueueProgress ==
  ASSUME Inv, NEW r \in Requests, NEW k \in DOMAIN tries[r], ReEnqueue(r, k)
  PROVE  Progress(r)
<1> DEFINE t == [tries[r][k] EXCEPT !.ended = TRUE]
<1>1. /\ ~tries[r][k].ended /\ tries[r][k].answer = "rejected-error"
      /\ tries'[r] = Append(Ended(r, k), Fresh)
      /\ attached'[r] = Rebridged(r, k, Len(tries[r]) + 1)
      /\ outer'[r] = outer[r] \o Heard(attached'[r], k, "rejected-error")
  BY DEF ReEnqueue, Arrives, Inv, TypeOK
<1>2. /\ k = Len(tries[r]) /\ attached[r] = {k} /\ tries[r] # <<>> /\ outer[r] = <<>>
      /\ \A j \in 1..(k - 1) : tries[r][j].ended /\ tries[r][j].answer = "rejected-error"
  BY <1>1, OnlyLastActs
<1>3. tries[r] \in Seq(Try) /\ tries[r][k] \in Try /\ DOMAIN tries[r] = 1..k /\ k \in Nat
  BY <1>2, TriesTyped DEF Inv
<1>4. t \in Try /\ t.ended = TRUE /\ t.answer = "rejected-error"
  BY <1>1, <1>3, TryFacts
<1>5. Ended(r, k) = [tries[r] EXCEPT ![k] = t]
  BY DEF Ended
<1> HIDE DEF t
<1>6. /\ Ended(r, k) \in Seq(Try) /\ Len(Ended(r, k)) = k
      /\ Ended(r, k)[k] = t /\ \A j \in 1..(k - 1) : Ended(r, k)[j] = tries[r][j]
  BY <1>2, <1>3, <1>4, <1>5, TryChanged
<1>7. /\ tries'[r] \in Seq(Try) /\ Len(tries'[r]) = k + 1 /\ tries'[r] # <<>>
      /\ DOMAIN tries'[r] = 1..(k + 1)
      /\ tries'[r][k + 1] = Fresh /\ \A j \in 1..k : tries'[r][j] = Ended(r, k)[j]
  BY <1>1, <1>6, TryFacts, TryAdded
<1>8. \A j \in 1..k : tries'[r][j].ended /\ tries'[r][j].answer = "rejected-error"
  <2>1. \A j \in 1..k : j = k \/ j \in 1..(k - 1)
    BY <1>3
  <2>2. \A j \in 1..k : Ended(r, k)[j].ended /\ Ended(r, k)[j].answer = "rejected-error"
    BY <1>2, <1>4, <1>6, <2>1
  <2>3. QED  BY <1>7, <2>2
<1>9. attached'[r] = {k + 1}
  BY <1>1, <1>2, <1>3 DEF Rebridged
<1>10. outer'[r] = <<>>
  <2>1. Heard({k + 1}, k, "rejected-error") = <<>>
    BY <1>3 DEF Heard
  <2>2. <<>> \o <<>> = <<>>
    OBVIOUS
  <2>3. QED  BY <1>1, <1>2, <1>9, <2>1, <2>2
<1>11. Bridges(tries'[r], attached'[r], outer'[r])
  <2>1. Len(tries'[r]) - 1 = k
    BY <1>3, <1>7
  <2>2. QED  BY <1>7, <1>8, <1>9, <1>10, <2>1, TryFacts DEF Bridges
<1>12. \A j \in 1..k : tries[r][j].answer = "rejected-error"
  BY <1>1, <1>2, <1>3
<1>13. Moves(r)
  BY <1>2, <1>3, <1>7, <1>10, <1>12 DEF Moves, WasAnswered
<1>14. QED  BY <1>7, <1>11, <1>13 DEF Progress

LEMMA AskProgress ==
  ASSUME Inv, NEW r \in Requests, Ask(r)
  PROVE  Progress(r)
<1>1. tries[r] = <<>> /\ tries'[r] = <<Fresh>> /\ attached'[r] = {1} /\ UNCHANGED outer
  BY DEF Ask, Inv, TypeOK
<1>2. outer[r] = <<>>
  BY <1>1 DEF Inv, Bridges
<1>3. <<Fresh>> \in Seq(Try) /\ Len(<<Fresh>>) = 1 /\ <<Fresh>>[1] = Fresh /\ <<Fresh>> # <<>>
  BY TryFacts
<1>4. Bridges(<<Fresh>>, {1}, <<>>)
  BY <1>3, TryFacts DEF Bridges
<1>5. QED  BY <1>1, <1>2, <1>3, <1>4 DEF Progress, Made

LEMMA LostProgress ==
  ASSUME Inv, ConnectionLost, NEW r \in Requests
  PROVE  Progress(r)
<1> DEFINE n == Len(tries[r])
           waiting == {k \in DOMAIN tries[r] : ~tries[r][k].ended}
<1>1. /\ tries'[r] = [k \in DOMAIN tries[r] |-> [tries[r][k] EXCEPT !.ended = TRUE]]
      /\ outer'[r] = IF waiting \cap attached[r] # {}
                     THEN outer[r] \o <<"error", "terminate">> ELSE outer[r]
      /\ attached' = attached
  BY DEF ConnectionLost
<1>2. /\ tries[r] \in Seq(Try) /\ n \in Nat /\ DOMAIN tries[r] = 1..n
      /\ \A k \in 1..n : tries[r][k] \in Try
      /\ Bridges(tries[r], attached[r], outer[r])
  BY TriesTyped DEF Inv
<1>3. ASSUME NEW k \in 1..n
      PROVE  /\ tries'[r][k] \in Try /\ tries'[r][k].ended = TRUE
             /\ tries'[r][k].answer = tries[r][k].answer
  BY <1>1, <1>2, TryFacts
<1>4. tries'[r] \in Seq(Try) /\ Len(tries'[r]) = n /\ DOMAIN tries'[r] = 1..n
  <2>1. tries'[r] = [k \in 1..n |-> [tries[r][k] EXCEPT !.ended = TRUE]]
    BY <1>1, <1>2
  <2>2. tries'[r] \in [1..n -> Try]
    BY <1>2, <2>1, TryFacts
  <2> HIDE DEF n
  <2>3. QED  BY <1>2, <2>2
<1>5. CASE tries[r] = <<>>
  <2>1. tries'[r] = <<>> /\ outer'[r] = <<>> /\ attached'[r] = {}
    BY <1>1, <1>2, <1>4, <1>5 DEF Bridges
  <2>2. QED  BY <1>2, <1>5, <2>1 DEF Bridges, Progress, Same
<1>6. CASE tries[r] # <<>>
  <2>1. /\ n \in 1..n /\ attached[r] = {n} /\ tries'[r] # <<>>
        /\ \A k \in 1..(n - 1) : tries[r][k].ended /\ tries[r][k].answer = "rejected-error"
    BY <1>2, <1>4, <1>6 DEF Bridges
  <2>2. \A k \in 1..(n - 1) : tries'[r][k].ended /\ tries'[r][k].answer = "rejected-error"
    <3>1. \A k \in 1..(n - 1) : k \in 1..n
      BY <1>2
    <3> HIDE DEF n
    <3>2. QED  BY <1>3, <2>1, <3>1
  <2>3. CASE tries[r][n].ended
    <3>1. outer'[r] = outer[r] /\ Settled(outer[r], tries[r][n].answer)
      BY <1>1, <1>2, <1>6, <2>1, <2>3 DEF Bridges
    <3>2. Bridges(tries'[r], attached'[r], outer'[r])
      BY <1>1, <1>3, <1>4, <2>1, <2>2, <3>1 DEF Bridges
    <3>3. Moves(r)
      BY <1>2, <1>3, <1>4, <1>6, <2>1, <3>1 DEF Moves, WasAnswered
    <3>4. QED  BY <1>4, <3>2, <3>3 DEF Progress
  <2>4. CASE ~tries[r][n].ended
    <3>1. outer[r] = <<>> /\ n \in waiting \cap attached[r]
      BY <1>2, <1>6, <2>1, <2>4 DEF Bridges
    <3>2. <<>> \o <<"error", "terminate">> = <<"error", "terminate">>
      OBVIOUS
    <3>3. outer'[r] = <<"error", "terminate">>
      BY <1>1, <3>1, <3>2
    <3>4. Settled(outer'[r], tries'[r][n].answer) /\ outer'[r] \in Outcomes
      BY <3>3, HeardOutcomes DEF Settled, Outcomes
    <3>5. Bridges(tries'[r], attached'[r], outer'[r])
      BY <1>1, <1>3, <1>4, <2>1, <2>2, <3>4 DEF Bridges
    <3>6. Ends(r)
      BY <1>2, <1>3, <1>4, <1>6, <2>1, <3>1, <3>4 DEF Ends, WasAnswered
    <3>7. QED  BY <1>4, <3>5, <3>6 DEF Progress
  <2>5. QED  BY <2>3, <2>4
<1>7. QED  BY <1>5, <1>6

(* Every step of the filter is that for every request.                     *)
LEMMA StepProgress ==
  ASSUME Inv, Step, NEW r \in Requests
  PROVE  Progress(r)
<1>1. CASE ConnectionLost
  BY <1>1, LostProgress
<1>2. ASSUME NEW q \in Requests, Ask(q) \/ \E k \in DOMAIN tries[q] : Turn(q, k)
      PROVE  Progress(r)
  <2>1. CASE q = r
    BY <1>2, <2>1, AskProgress, AnswerProgress, SettleProgress, ReEnqueueProgress,
       GiveUpProgress, TimeoutProgress DEF Turn
  <2>2. CASE q # r
    <3>1. Same(r)
      BY <1>2, <2>2
      DEF Same, Turn, Ask, Answer, Settle, ReEnqueue, GiveUp, Timeout, Inv, TypeOK
    <3>2. QED  BY <3>1, SameProgress
  <2>3. QED  BY <2>1, <2>2
<1>3. QED  BY <1>1, <1>2 DEF Step

(* What every step leaves to be a function, a boolean or a bound.          *)
Kept ==
  /\ DOMAIN tries' = Requests /\ DOMAIN attached' = Requests /\ DOMAIN outer' = Requests
  /\ tries' = [r \in Requests |-> tries'[r]]
  /\ lost' \in BOOLEAN /\ allowed' \in 1..MaxReEnqueue

LEMMA StepKeeps == ASSUME Inv, Step PROVE Kept
<1>1. CASE ConnectionLost
  BY <1>1 DEF ConnectionLost, Kept, Inv, TypeOK
<1>2. ASSUME NEW r \in Requests, Ask(r)
      PROVE  Kept
  BY <1>2 DEF Ask, Kept, Inv, TypeOK
<1>3. ASSUME NEW r \in Requests, NEW k, NEW answer, Answer(r, k, answer)
      PROVE  Kept
  BY <1>3 DEF Answer, Kept, Inv, TypeOK
<1>4. ASSUME NEW r \in Requests, NEW k, Settle(r, k)
      PROVE  Kept
  <2>1. allowed' \in 1..MaxReEnqueue
    BY <1>4, MaxAssumption DEF Settle, InsertResponse, Inv, TypeOK
  <2>2. QED  BY <1>4, <2>1 DEF Settle, Kept, Inv, TypeOK
<1>5. ASSUME NEW r \in Requests, NEW k, ReEnqueue(r, k)
      PROVE  Kept
  <2>1. allowed' \in 1..MaxReEnqueue
    BY <1>5, MaxAssumption DEF ReEnqueue, InsertRetry, Inv, TypeOK
  <2>2. QED  BY <1>5, <2>1 DEF ReEnqueue, Kept, Inv, TypeOK
<1>6. ASSUME NEW r \in Requests, NEW k, GiveUp(r, k) \/ Timeout(r, k)
      PROVE  Kept
  BY <1>6 DEF GiveUp, Timeout, Kept, Inv, TypeOK
<1>7. QED  BY <1>1, <1>2, <1>3, <1>4, <1>5, <1>6 DEF Step, Turn

LEMMA InvStep == ASSUME Inv, Step PROVE Inv'
<1>1. \A r \in Requests : Progress(r)
  BY StepProgress
<1>2. Kept
  BY StepKeeps
<1>3. tries' \in [Requests -> Seq(Try)]
  BY <1>1, <1>2 DEF Progress, Kept
<1>4. \A r \in Requests : attached'[r] \subseteq DOMAIN tries'[r]
  <2>1. TAKE r \in Requests
  <2>2. tries'[r] \in Seq(Try) /\ Bridges(tries'[r], attached'[r], outer'[r])
    BY <1>1 DEF Progress
  <2>3. QED  BY <2>2 DEF Bridges
<1>5. QED  BY <1>1, <1>2, <1>3, <1>4 DEF Inv, TypeOK, Progress, Kept

(* The averages move in steps that leave the streams alone, too.           *)
LEMMA Stays == ASSUME Inv, UNCHANGED filterVars PROVE Inv'
BY DEF filterVars, Inv, TypeOK, Bridges, Settled

LEMMA NextProgress ==
  ASSUME Inv, [Next]_vars, NEW r \in Requests
  PROVE  Progress(r)
<1>1. CASE Step
  BY <1>1, StepProgress
<1>2. CASE UNCHANGED filterVars
  <2>1. Same(r)
    BY <1>2 DEF filterVars, Same
  <2>2. QED  BY <2>1, SameProgress
<1>3. QED  BY <1>1, <1>2 DEF Next, Underlying, Availability, vars

LEMMA InvInit == FullInit => Inv
<1> SUFFICES ASSUME FullInit PROVE Inv
  OBVIOUS
<1>1. \A r \in Requests : tries[r] = <<>> /\ attached[r] = {} /\ outer[r] = <<>>
  BY DEF FullInit, Init
<1>2. <<>> \in Seq(Try)
  OBVIOUS
<1>3. TypeOK
  <2>1. tries \in [Requests -> Seq(Try)]
    BY <1>2 DEF FullInit, Init
  <2>2. allowed \in 1..MaxReEnqueue
    BY MaxAssumption, SMT DEF FullInit, Init
  <2>3. lost \in BOOLEAN
    BY DEF FullInit, Init
  <2>4. QED  BY <1>1, <2>1, <2>2, <2>3 DEF TypeOK
<1>4. QED  BY <1>1, <1>3 DEF FullInit, Init, Inv, Bridges

LEMMA InvNext == ASSUME Inv, [Next]_vars PROVE Inv'
BY InvStep, Stays DEF Next, Underlying, Availability, vars

(* The state of every request is as Bridges has it.                        *)
THEOREM Inductive == Spec => []Inv
<1>1. Inv /\ [Next]_vars => Inv'
  BY InvNext
<1>2. QED  BY <1>1, InvInit, PTL DEF Spec

(* TypeOK: streams listen to tries that were made, and the bound on the    *)
(* number of tries stays between one and maxReEnqueue.                     *)
THEOREM TypeCorrect == Spec => []TypeOK
<1>1. Inv => TypeOK
  BY DEF Inv
<1>2. QED  BY <1>1, Inductive, PTL

(* AtMostOnce: whatever ReEnqueueFilter sends again, the peer's            *)
(* application carries a request out once at most.                         *)
THEOREM CarriedOutOnce == Spec => []AtMostOnce
<1>1. Inv => AtMostOnce
  <2> SUFFICES ASSUME Inv, NEW r \in Requests, NEW j \in DOMAIN tries[r],
                      NEW k \in DOMAIN tries[r],
                      tries[r][j].answer # "rejected-error", tries[r][k].answer # "rejected-error"
               PROVE  j = k
    BY DEF AtMostOnce
  <2>1. Bridges(tries[r], attached[r], outer[r]) /\ Len(tries[r]) \in Nat
        /\ j \in 1..Len(tries[r]) /\ k \in 1..Len(tries[r])
    BY TriesTyped DEF Inv
  <2>2. j \notin 1..(Len(tries[r]) - 1) /\ k \notin 1..(Len(tries[r]) - 1)
    BY <2>1 DEF Bridges
  <2>3. QED  BY <2>1, <2>2
<1>2. QED  BY <1>1, Inductive, PTL

-----------------------------------------------------------------------------
(* The success rate                                                        *)

(* What is inserted for a request whose outer stream has emitted out.      *)
Account(out) ==
  CASE out = <<>> -> <<>>
    [] Has(out, "response") -> <<Full>>
    [] OTHER -> <<0>>

LEMMA AccountFacts ==
  /\ Account(<<>>) = <<>>
  /\ \A out : out # <<>> => Account(out) = IF Has(out, "response") THEN <<Full>> ELSE <<0>>
<1>1. ~Has(<<>>, "response")
  BY DEF Has
<1>2. QED  BY <1>1, Zenon DEF Account

LEMMA ListenFacts ==
  /\ Listen(<<>>, "response") = <<Full>> /\ Listen(<<>>, "terminate") = <<0>>
  /\ Listen(<<Full>>, "terminate") = <<Full>>
  /\ \A e : e \notin {"response", "terminate"} => Listen(<<>>, e) = <<>>
<1>1. ~Has(<<>>, 0) /\ ~Has(<<>>, Full) /\ Has(<<Full>>, Full)
  BY DEF Has
<1>2. Append(<<>>, Full) = <<Full>> /\ Append(<<>>, 0) = <<0>>
  OBVIOUS
<1>3. "response" # "terminate"
  OBVIOUS
<1>4. Listen(<<>>, "response") = <<Full>>
  BY <1>1, <1>2, <1>3, Zenon DEF Listen
<1>5. Listen(<<>>, "terminate") = <<0>>
  BY <1>1, <1>2, <1>3, Zenon DEF Listen
<1>6. Listen(<<Full>>, "terminate") = <<Full>>
  BY <1>1, <1>3, Zenon DEF Listen
<1>7. \A e : e \notin {"response", "terminate"} => Listen(<<>>, e) = <<>>
  BY <1>1, Zenon DEF Listen
<1>8. QED  BY <1>4, <1>5, <1>6, <1>7

(* The two listeners count an outcome as what it is.                       *)
LEMMA OutcomeAccounted ==
  ASSUME NEW r \in Requests, outer[r] = <<>>, inserted[r] = <<>>, outer'[r] \in Outcomes
  PROVE  Listened(r) = Account(outer'[r])
<1>1. Len(outer[r]) = 0
  OBVIOUS
<1>2. CASE outer'[r] = <<"terminate">>
  <2>1. Len(outer'[r]) = 1 /\ outer'[r][1] = "terminate" /\ outer'[r] # <<>>
        /\ ~Has(outer'[r], "response")
    BY <1>2 DEF Has
  <2>2. Listened(r) = Listen(<<>>, "terminate")
    BY <1>1, <2>1 DEF Listened
  <2>3. Account(outer'[r]) = <<0>>
    BY <2>1, AccountFacts
  <2>4. QED  BY <2>2, <2>3, ListenFacts
<1>3. ASSUME NEW e, e # "terminate", outer'[r] = <<e, "terminate">>
      PROVE  Listened(r) = Account(outer'[r])
  <2>1. Len(outer'[r]) = 2 /\ outer'[r][1] = e /\ outer'[r][2] = "terminate" /\ outer'[r] # <<>>
        /\ (Has(outer'[r], "response") <=> e = "response")
    BY <1>3 DEF Has
  <2>2. Listened(r) = Listen(Listen(<<>>, e), "terminate")
    BY <1>1, <2>1 DEF Listened
  <2>3. Account(outer'[r]) = IF e = "response" THEN <<Full>> ELSE <<0>>
    BY <2>1, AccountFacts
  <2>4. QED  BY <1>3, <2>2, <2>3, ListenFacts
<1>4. \/ outer'[r] = <<"terminate">>
      \/ \E e : e # "terminate" /\ outer'[r] = <<e, "terminate">>
  BY DEF Outcomes, Failures
<1>5. QED  BY <1>2, <1>3, <1>4

LEMMA AccountsNext ==
  ASSUME Inv, AccountedOnce, [Next]_vars
  PROVE  AccountedOnce'
<1> SUFFICES ASSUME NEW r \in Requests PROVE inserted'[r] = Account(outer'[r])
  BY DEF AccountedOnce, Account
<1>1. inserted[r] = Account(outer[r])
  BY DEF AccountedOnce, Account
<1>2. CASE Underlying
  <2>1. inserted'[r] = Listened(r)
    BY <1>2 DEF Underlying
  <2>2. outer'[r] = outer[r] \/ (outer[r] = <<>> /\ outer'[r] \in Outcomes)
    BY NextProgress DEF Progress, Same, Made, Moves, Ends
  <2>3. CASE outer'[r] = outer[r]
    BY <1>1, <2>1, <2>3 DEF Listened
  <2>4. CASE outer[r] = <<>> /\ outer'[r] \in Outcomes
    BY <1>1, <2>1, <2>4, AccountFacts, OutcomeAccounted
  <2>5. QED  BY <2>2, <2>3, <2>4
<1>3. CASE Availability \/ UNCHANGED vars
  BY <1>1, <1>3 DEF Availability, vars, filterVars
<1>4. QED  BY <1>2, <1>3 DEF Next

(* AccountedOnce: the success rate counts a request once, when it ends,    *)
(* and as what its application saw.                                        *)
THEOREM RequestsCountOnce == Spec => []AccountedOnce
<1>1. FullInit => AccountedOnce
  <2> SUFFICES ASSUME FullInit, NEW r \in Requests PROVE inserted[r] = Account(outer[r])
    BY DEF AccountedOnce, Account
  <2>1. inserted[r] = <<>> /\ outer[r] = <<>>
    BY DEF FullInit, Init
  <2>2. QED  BY <2>1, AccountFacts
<1>2. Inv /\ AccountedOnce /\ [Next]_vars => AccountedOnce'
  BY AccountsNext
<1>3. QED  BY <1>1, <1>2, Inductive, PTL DEF Spec

-----------------------------------------------------------------------------
(* The refinement                                                          *)

(* The status of a request by its state, and the same after a step.        *)
StatusAs(ts, out) ==
  CASE ts = <<>> -> "idle"
    [] ts # <<>> /\ out = <<>> -> "waiting"
    [] out = <<"response", "terminate">> -> "response"
    [] out \in Failures -> "failed"
    [] OTHER -> "illegal"

LEMMA StatusCases ==
  ASSUME NEW ts, NEW out
  PROVE  /\ ts = <<>> /\ out = <<>> => StatusAs(ts, out) = "idle"
         /\ ts # <<>> /\ out = <<>> => StatusAs(ts, out) = "waiting"
         /\ ts # <<>> /\ out = <<"response", "terminate">> => StatusAs(ts, out) = "response"
         /\ ts # <<>> /\ out \in Failures => StatusAs(ts, out) = "failed"
<1>1. <<>> # <<"response", "terminate">> /\ <<>> \notin Failures
  BY DEF Failures
<1>2. <<"response", "terminate">> \notin Failures
  BY HeardOutcomes
<1>3. ts = <<>> /\ out = <<>> => StatusAs(ts, out) = "idle"
  BY <1>1, Zenon DEF StatusAs
<1>4. ts # <<>> /\ out = <<>> => StatusAs(ts, out) = "waiting"
  BY <1>1, Zenon DEF StatusAs
<1>5. ts # <<>> /\ out = <<"response", "terminate">> => StatusAs(ts, out) = "response"
  BY <1>1, <1>2, Zenon DEF StatusAs
<1>6. ts # <<>> /\ out \in Failures => StatusAs(ts, out) = "failed"
  BY <1>1, <1>2, Zenon DEF StatusAs
<1>7. QED  BY <1>3, <1>4, <1>5, <1>6

LEMMA Status ==
  \A r \in Requests : /\ StatusOf(r) = StatusAs(tries[r], outer[r])
                      /\ StatusOf(r)' = StatusAs(tries'[r], outer'[r])
BY DEF StatusOf, StatusAs

(* A response comes of an answer.                                          *)
LEMMA ResponseAnswered ==
  ASSUME NEW ts \in Seq(Try), NEW bridge, Bridges(ts, bridge, <<"response", "terminate">>)
  PROVE  WasAnswered(ts)
<1>1. <<"response", "terminate">> # <<>>
  OBVIOUS
<1>2. ts # <<>> /\ ts[Len(ts)].answer = "response"
  BY <1>1 DEF Bridges, Settled
<1>3. Len(ts) \in DOMAIN ts
  BY <1>2
<1>4. QED  BY <1>2, <1>3 DEF WasAnswered

LEMMA ProgressImplements ==
  ASSUME Inv, Inv', NEW r \in Requests, Progress(r)
  PROVE  [Abstract(r)!Next]_(Abstract(r)!vars)
<1> DEFINE answered == \E k \in DOMAIN tries[r] : tries[r][k].answer = "response"
<1>1. (answered <=> WasAnswered(tries[r])) /\ (answered' <=> WasAnswered(tries'[r]))
  BY DEF WasAnswered
<1>2. Bridges(tries[r], attached[r], outer[r])
  BY DEF Inv
<1>3. CASE Same(r)
  <2>1. StatusOf(r)' = StatusOf(r)
    BY <1>3 DEF Same, StatusOf
  <2>2. answered' = answered
    BY <1>3 DEF Same
  <2>3. QED  BY <2>1, <2>2 DEF Abstract!vars
<1>4. CASE Made(r)
  <2>1. outer'[r] = <<>> /\ outer[r] = <<>> /\ tries'[r] # <<>>
    BY <1>2, <1>4 DEF Made, Bridges
  <2>2. StatusOf(r) = "idle" /\ StatusOf(r)' = "waiting"
    BY <1>4, <2>1, Status, StatusCases DEF Made
  <2>3. ~answered /\ ~answered'
    BY <1>4, TryFacts DEF Made
  <2>4. QED  BY <2>2, <2>3 DEF Abstract!Next, Abstract!Ask
<1>5. CASE Moves(r)
  <2>1. StatusOf(r)' = StatusOf(r) /\ StatusOf(r) # "idle"
    <3>1. outer[r] = <<>> \/ outer[r] \in Outcomes
      BY <1>2 DEF Bridges, Settled
    <3>2. QED  BY <1>5, <3>1, Status, StatusCases DEF Moves, Outcomes
  <2>2. answered => answered'
    BY <1>1, <1>5 DEF Moves
  <2>3. CASE answered <=> answered'
    BY <2>1, <2>3 DEF Abstract!vars
  <2>4. CASE answered' /\ ~answered
    BY <2>1, <2>4 DEF Abstract!Next, Abstract!Answer
  <2>5. QED  BY <2>2, <2>3, <2>4
<1>6. CASE Ends(r)
  <2>1. StatusOf(r) = "waiting" /\ (answered <=> answered')
    BY <1>1, <1>6, Status, StatusCases DEF Ends
  <2>2. CASE outer'[r] = <<"response", "terminate">>
    <3>1. StatusOf(r)' = "response"
      BY <1>6, <2>2, Status, StatusCases DEF Ends
    <3>2. WasAnswered(tries'[r])
      BY <2>2, ResponseAnswered DEF Progress
    <3>3. QED  BY <1>1, <2>1, <3>1, <3>2 DEF Abstract!Next, Abstract!Complete
  <2>3. CASE outer'[r] \in Failures
    <3>1. StatusOf(r)' = "failed"
      BY <1>6, <2>3, Status, StatusCases DEF Ends
    <3>2. QED  BY <2>1, <3>1 DEF Abstract!Next, Abstract!Fail
  <2>4. QED  BY <1>6, <2>2, <2>3 DEF Ends, Outcomes
<1>7. QED  BY <1>3, <1>4, <1>5, <1>6 DEF Progress

(* ImplementsRequestResponse: with the filter around it, a request is one  *)
(* as module RequestResponse has it, whatever its tries go through.        *)
THEOREM RequestsImplemented == Spec => ImplementsRequestResponse
<1> DEFINE Steps == \A r \in Requests : [Abstract(r)!Next]_(Abstract(r)!vars)
           Starts == \A r \in Requests : Abstract(r)!Init
<1>1. FullInit => Starts
  <2> SUFFICES ASSUME FullInit, NEW r \in Requests PROVE Abstract(r)!Init
    OBVIOUS
  <2>1. tries[r] = <<>> /\ outer[r] = <<>>
    BY DEF FullInit, Init
  <2>2. ~\E k \in DOMAIN tries[r] : tries[r][k].answer = "response"
    BY <2>1
  <2>3. QED  BY <2>1, <2>2, Status, StatusCases DEF Abstract!Init
<1>2. Inv /\ Inv' /\ [Next]_vars => [Steps]_filterVars
  BY NextProgress, ProgressImplements
<1>3. Spec => Starts /\ [][Steps]_filterVars
  <2> HIDE DEF Starts, Steps
  <2>1. QED  BY <1>1, <1>2, Inductive, PTL DEF Spec
<1>4. QED  BY <1>3 DEF ImplementsRequestResponse
=============================================================================
