-------------------------- MODULE RateLimit_proofs --------------------------
(***************************************************************************)
(* With one worker process, check_request() of rate_limit/manager.py       *)
(* keeps every client within its rate and burst, whatever these are, and   *)
(* refuses nothing else.  With two threads it does not: both can read the  *)
(* same allowance.                                                         *)
(***************************************************************************)
EXTENDS RateLimit, TLAPS

(* What was accepted since i and what is left never exceed the limit since *)
(* i: the strengthening that makes RateLimited inductive.                  *)
Potential ==
    \A i \in 1..Len(accepted) :
        (Len(accepted) - i + 1) * Per + allowance
          <= Full + (last - accepted[i]) * Rate

(* What a thread has read is still current when it stores.                 *)
NoLostUpdate ==
    /\ 0 <= allowance /\ allowance <= Full /\ last <= now
    /\ ~known => accepted = <<>>
    /\ \A t \in Threads :
         /\ pc[t] # "idle" => myNow[t] <= now /\ (known => last <= myNow[t])
         /\ pc[t] = "decide" =>
              known /\ myState[t] = [allowance |-> allowance, last |-> last]

IInv == TypeOK /\ NoLostUpdate /\ Potential /\ RateLimited

-----------------------------------------------------------------------------

LEMMA FullType == Full \in Nat /\ Full >= Per
<1>1. Burst \in Nat /\ Per \in Nat /\ Burst >= 1 /\ Per >= 1
  BY RateAssumption
<1>2. \A b, p \in Nat : b >= 1 => b * p \in Nat /\ b * p >= p
  OBVIOUS
<1> QED
  BY <1>1, <1>2 DEF Full

LEMMA Distribute ==
    \A a, b, c \in Int : (a + b) * c = a * c + b * c /\ a * c \in Int
OBVIOUS

(* Waiting never costs allowance.                                          *)
LEMMA Waiting == \A a, b \in Nat : a * b \in Nat
OBVIOUS

(* The state stays well typed: nothing about the number of threads.        *)
LEMMA InitType == Init => TypeOK
<1> SUFFICES ASSUME Init PROVE TypeOK
  OBVIOUS
<1>1. accepted \in Seq(Nat)
  BY DEF Init
<1>2. myState \in [Threads -> [allowance : Int, last : Nat]]
  BY DEF Init
<1>3. /\ pc \in [Threads -> {"idle", "read", "decide"}]
      /\ myNow \in [Threads -> Nat]
  BY DEF Init
<1>4. known \in BOOLEAN
  BY DEF Init
<1>5. /\ allowance \in Int /\ allowance <= Full
      /\ last \in Nat /\ now \in Nat /\ requests \in Nat
  BY FullType DEF Init
<1> QED
  BY <1>1, <1>2, <1>3, <1>4, <1>5 DEF TypeOK

LEMMA RefilledType ==
    ASSUME TypeOK, NEW t \in Threads
    PROVE  Refilled(t) \in Int /\ Refilled(t) <= Full
<1>1. Rate \in Int BY RateAssumption
<1>2. myState[t].allowance \in Int /\ myNow[t] - myState[t].last \in Int
  BY DEF TypeOK
<1>3. (myNow[t] - myState[t].last) * Rate \in Int
  BY <1>1, <1>2, Distribute
<1> QED
  BY <1>2, <1>3, FullType DEF Refilled

LEMMA StepType == TypeOK /\ [Next]_vars => TypeOK'
<1> SUFFICES ASSUME TypeOK, [Next]_vars PROVE TypeOK'
  OBVIOUS
<1> USE DEF TypeOK
<1>1. ASSUME NEW t \in Threads, ReadClock(t) PROVE TypeOK'
  BY <1>1 DEF ReadClock, state
<1>2. ASSUME NEW t \in Threads, ReadState(t) PROVE TypeOK'
  <2>1. allowance' \in Int /\ allowance' <= Full /\ last' \in Nat
    BY <1>2, FullType DEF ReadState
  <2> QED
    BY <1>2, <2>1 DEF ReadState
<1>3. ASSUME NEW t \in Threads, Decide(t) PROVE TypeOK'
  <2>1. /\ Refilled(t) \in Int /\ Refilled(t) - Per \in Int
        /\ Refilled(t) <= Full /\ Refilled(t) - Per <= Full
    BY RefilledType, RateAssumption, FullType
  <2>2. myNow[t] \in Nat /\ Append(accepted, myNow[t]) \in Seq(Nat)
    OBVIOUS
  <2>3. accepted' \in Seq(Nat)
    BY <1>3, <2>2 DEF Decide
  <2>4. allowance' \in Int /\ allowance' <= Full /\ last' \in Nat
    BY <1>3, <2>1, <2>2 DEF Decide
  <2> QED
    BY <1>3, <2>3, <2>4 DEF Decide
<1>4. CASE Tick
  BY <1>4 DEF Tick, state, locals
<1>5. CASE UNCHANGED vars
  BY <1>5 DEF vars, state, locals
<1> QED
  BY <1>1, <1>2, <1>3, <1>4, <1>5 DEF Next, CheckRequest

(* Type correctness of the counters, for any number of worker processes.   *)
THEOREM TypeCorrect == Spec => []TypeOK
BY InitType, StepType, PTL DEF Spec

-----------------------------------------------------------------------------
(* One thread                                                              *)

OneThread == \A s, t \in Threads : s = t

(* The bucket after the refill: not less than before, and not more than    *)
(* what the elapsed time brings.                                           *)
LEMMA RefillBounds ==
    ASSUME TypeOK, NoLostUpdate, NEW t \in Threads, pc[t] = "decide"
    PROVE  /\ 0 <= Refilled(t)
           /\ Refilled(t) <= allowance + (myNow[t] - last) * Rate
<1>1. Rate \in Nat BY RateAssumption
<1>2. /\ allowance \in Int /\ last \in Nat /\ myNow[t] \in Nat
      /\ 0 <= allowance /\ last <= myNow[t]
      /\ myState[t].allowance = allowance /\ myState[t].last = last
  BY DEF TypeOK, NoLostUpdate
<1>3. (myNow[t] - last) * Rate \in Nat
  <2>1. myNow[t] - last \in Nat BY <1>2
  <2> QED BY <1>1, <2>1, Waiting
<1>4. Refilled(t) = IF allowance + (myNow[t] - last) * Rate > Full
                      THEN Full ELSE allowance + (myNow[t] - last) * Rate
  BY <1>2 DEF Refilled
<1> HIDE DEF Refilled
<1> QED
  BY <1>2, <1>3, <1>4, FullType

LEMMA InitInv == Init => NoLostUpdate /\ Potential /\ RateLimited
<1> SUFFICES ASSUME Init PROVE NoLostUpdate /\ Potential /\ RateLimited
  OBVIOUS
<1>1. NoLostUpdate BY FullType DEF Init, NoLostUpdate
<1>2. Potential /\ RateLimited
  BY DEF Init, Potential, RateLimited
<1> QED BY <1>1, <1>2

(* Only one thread runs, so nothing changes between its read and its store.*)
LEMMA NoLostUpdateStep ==
    ASSUME OneThread, TypeOK, NoLostUpdate, [Next]_vars
    PROVE  NoLostUpdate'
<1> USE DEF NoLostUpdate
<1>1. ASSUME NEW t \in Threads, ReadClock(t) PROVE NoLostUpdate'
  BY <1>1 DEF ReadClock, state, TypeOK, OneThread
<1>2. ASSUME NEW t \in Threads, ReadState(t) PROVE NoLostUpdate'
  <2>1. /\ 0 <= allowance' /\ allowance' <= Full
        /\ last' <= now' /\ last' <= myNow'[t]
    BY <1>2, FullType DEF ReadState, TypeOK
  <2> QED
    BY <1>2, <2>1 DEF ReadState, TypeOK, OneThread
<1>3. ASSUME NEW t \in Threads, Decide(t) PROVE NoLostUpdate'
  <2>1. /\ Refilled(t) \in Int /\ 0 <= Refilled(t) /\ Refilled(t) <= Full
        /\ Per \in Nat /\ Full \in Nat
    BY <1>3, RefilledType, RefillBounds, RateAssumption, FullType DEF Decide
  <2>2. 0 <= allowance' /\ allowance' <= Full
    BY <1>3, <2>1 DEF Decide
  <2>3. known /\ last' <= now' /\ known'
    BY <1>3 DEF Decide, TypeOK
  <2>4. \A s \in Threads : pc'[s] = "idle"
    BY <1>3 DEF Decide, TypeOK, OneThread
  <2> QED
    BY <2>2, <2>3, <2>4
<1>4. CASE Tick
  BY <1>4 DEF Tick, state, locals, TypeOK
<1>5. CASE UNCHANGED vars
  BY <1>5 DEF vars, state, locals
<1> QED
  BY <1>1, <1>2, <1>3, <1>4, <1>5 DEF Next, CheckRequest

(* An accepted request takes from the bucket what it adds to the count.    *)
LEMMA PotentialStep ==
    ASSUME TypeOK, NoLostUpdate, Potential, [Next]_vars
    PROVE  Potential'
<1>1. ASSUME NEW t \in Threads, Decide(t) PROVE Potential'
  <2> DEFINE n == Len(accepted)
             R == Refilled(t)
  <2>1. /\ R \in Int /\ R <= Full
        /\ R <= allowance + (myNow[t] - last) * Rate
    BY <1>1, RefilledType, RefillBounds DEF Decide
  <2>2. /\ Per \in Nat /\ Rate \in Nat /\ Full \in Nat
        /\ allowance \in Int /\ last \in Nat /\ myNow[t] \in Nat
        /\ n \in Nat /\ \A i \in 1..n : accepted[i] \in Nat
    BY RateAssumption, FullType DEF TypeOK
  <2>3. \A i \in 1..n :
          (n - i + 1) * Per + R <= Full + (myNow[t] - accepted[i]) * Rate
    <3> SUFFICES ASSUME NEW i \in 1..n
                 PROVE  (n - i + 1) * Per + R
                          <= Full + (myNow[t] - accepted[i]) * Rate
      OBVIOUS
    <3>1. (n - i + 1) * Per + allowance <= Full + (last - accepted[i]) * Rate
      BY DEF Potential
    <3>2. /\ myNow[t] - last \in Int /\ last - accepted[i] \in Int
          /\ myNow[t] - accepted[i] = (myNow[t] - last) + (last - accepted[i])
          /\ Rate \in Int /\ Per \in Int /\ n - i + 1 \in Int
      BY <2>2
    <3>3. /\ (myNow[t] - accepted[i]) * Rate
               = (myNow[t] - last) * Rate + (last - accepted[i]) * Rate
          /\ (myNow[t] - last) * Rate \in Int
          /\ (last - accepted[i]) * Rate \in Int
          /\ (n - i + 1) * Per \in Int
      BY <3>2, Distribute
    <3> HIDE DEF R, n
    <3> QED
      BY <2>1, <2>2, <3>1, <3>3
  <2>4. CASE R < Per
    <3>1. allowance' = R /\ accepted' = accepted /\ last' = myNow[t]
      BY <1>1, <2>4 DEF Decide
    <3> QED
      BY <2>3, <3>1 DEF Potential
  <2>5. CASE ~(R < Per)
    <3>1. /\ allowance' = R - Per /\ last' = myNow[t]
          /\ accepted' = Append(accepted, myNow[t])
      BY <1>1, <2>5 DEF Decide
    <3>2. /\ Len(accepted') = n + 1 /\ accepted'[n + 1] = myNow[t]
          /\ \A i \in 1..n : accepted'[i] = accepted[i]
      BY <3>1 DEF TypeOK
    <3> HIDE DEF R, n
    <3>3. \A i \in 1..n :
            (n + 1 - i + 1) * Per + (R - Per)
              <= Full + (myNow[t] - accepted'[i]) * Rate
      <4> SUFFICES ASSUME NEW i \in 1..n
                   PROVE  (n + 1 - i + 1) * Per + (R - Per)
                            <= Full + (myNow[t] - accepted'[i]) * Rate
        OBVIOUS
      <4>1. /\ n + 1 - i + 1 = (n - i + 1) + 1 /\ n - i + 1 \in Int
            /\ Per \in Int /\ 1 * Per = Per /\ 1 \in Int
        BY <2>2
      <4> DEFINE m == n - i + 1
      <4> HIDE DEF m
      <4>2. (m + 1) * Per = m * Per + 1 * Per /\ m * Per \in Int
        BY <4>1, Distribute DEF m
      <4>3. /\ (n + 1 - i + 1) * Per = (n - i + 1) * Per + Per
            /\ (n - i + 1) * Per \in Int
        BY <4>1, <4>2 DEF m
      <4> QED
        BY <2>1, <2>2, <2>3, <3>2, <4>3
    <3> DEFINE P(i) == (n + 1 - i + 1) * Per + (R - Per)
                         <= Full + (myNow[t] - accepted'[i]) * Rate
    <3>4. P(n + 1)
      <4>1. (n + 1) - (n + 1) + 1 = 1 /\ myNow[t] - accepted'[n + 1] = 0
        BY <2>2, <3>2
      <4>2. 1 * Per = Per /\ 0 * Rate = 0
        BY <2>2
      <4> QED
        BY <2>1, <2>2, <4>1, <4>2
    <3>5. \A i \in 1..(n + 1) : i \in 1..n \/ i = n + 1
      BY <2>2
    <3>6. \A i \in 1..n : P(i)
      BY <3>3, Zenon
    <3>7. \A i \in 1..(n + 1) : P(i)
      <4> HIDE DEF P
      <4> QED BY <3>4, <3>5, <3>6
    <3> SUFFICES ASSUME NEW i \in 1..Len(accepted')
                 PROVE  (Len(accepted') - i + 1) * Per + allowance'
                          <= Full + (last' - accepted'[i]) * Rate
      BY DEF Potential
    <3>8. P(i)
      <4> HIDE DEF P
      <4> QED BY <3>2, <3>7
    <3> QED
      BY <2>1, <2>2, <3>1, <3>2, <3>8
  <2> QED
    BY <2>4, <2>5
<1>2. ASSUME NEW t \in Threads, ReadClock(t) PROVE Potential'
  BY <1>2 DEF ReadClock, state, Potential
<1>3. ASSUME NEW t \in Threads, ReadState(t) PROVE Potential'
  <2>1. CASE known
    BY <1>3, <2>1 DEF ReadState, Potential
  <2>2. CASE ~known
    BY <1>3, <2>2 DEF ReadState, Potential, NoLostUpdate
  <2> QED
    BY <2>1, <2>2
<1>4. CASE Tick
  BY <1>4 DEF Tick, state, Potential
<1>5. CASE UNCHANGED vars
  BY <1>5 DEF vars, state, Potential
<1> QED
  BY <1>1, <1>2, <1>3, <1>4, <1>5 DEF Next, CheckRequest

(* The request accepted last is within the limit because the bucket is     *)
(* never overdrawn.                                                        *)
LEMMA RateLimitedStep ==
    ASSUME TypeOK, TypeOK', NoLostUpdate', Potential', RateLimited,
           [Next]_vars
    PROVE  RateLimited'
<1>1. CASE accepted' = accepted
  BY <1>1 DEF RateLimited
<1>2. ASSUME NEW t \in Threads, Decide(t), accepted' # accepted
      PROVE  RateLimited'
  <2> DEFINE n == Len(accepted)
  <2>1. /\ accepted' = Append(accepted, myNow[t]) /\ last' = myNow[t]
    BY <1>2 DEF Decide
  <2>2. /\ n \in Nat /\ Len(accepted') = n + 1 /\ accepted'[n + 1] = last'
        /\ \A i \in 1..n : accepted'[i] = accepted[i]
    BY <2>1 DEF TypeOK
  <2>3. \A i \in 1..(n + 1) :
          (n + 1 - i + 1) * Per <= Full + (accepted'[n + 1] - accepted'[i]) * Rate
    <3> SUFFICES ASSUME NEW i \in 1..(n + 1)
                 PROVE  (n + 1 - i + 1) * Per
                          <= Full + (accepted'[n + 1] - accepted'[i]) * Rate
      OBVIOUS
    <3>1. (n + 1 - i + 1) * Per + allowance' <= Full + (last' - accepted'[i]) * Rate
      BY <2>2 DEF Potential
    <3>2. /\ n + 1 - i + 1 \in Int /\ last' - accepted'[i] \in Int
          /\ Per \in Int /\ Rate \in Int /\ allowance' \in Int
          /\ 0 <= allowance' /\ Full \in Int
      BY <2>2, RateAssumption, FullType DEF TypeOK, NoLostUpdate
    <3>3. (n + 1 - i + 1) * Per \in Int /\ (last' - accepted'[i]) * Rate \in Int
      BY <3>2, Distribute
    <3> HIDE DEF n
    <3> QED
      BY <2>2, <3>1, <3>2, <3>3
  <2>4. \A i, j \in 1..(n + 1) : i <= j =>
          j = n + 1 \/ (i \in 1..n /\ j \in 1..n)
    BY <2>2
  <2> QED
    BY <2>2, <2>3, <2>4 DEF RateLimited
<1> QED
  BY <1>1, <1>2 DEF Next, CheckRequest, ReadClock, ReadState, Tick, vars

(* With one worker process no client ever gets more than its burst and its *)
(* rate, over any interval.                                                *)
THEOREM OneWorkerLimits ==
    ASSUME OneThread
    PROVE  Spec => []RateLimited
<1>1. Init => IInv
  BY InitType, InitInv DEF IInv
<1>2. IInv /\ [Next]_vars => IInv'
  <2> SUFFICES ASSUME IInv, [Next]_vars PROVE IInv'
    OBVIOUS
  <2>1. TypeOK' BY StepType DEF IInv
  <2>2. NoLostUpdate' BY NoLostUpdateStep DEF IInv
  <2>3. Potential' BY PotentialStep DEF IInv
  <2>4. RateLimited' BY <2>1, <2>2, <2>3, RateLimitedStep DEF IInv
  <2> QED BY <2>1, <2>2, <2>3, <2>4 DEF IInv
<1>3. IInv => RateLimited
  BY DEF IInv
<1> QED
  BY <1>1, <1>2, <1>3, PTL DEF Spec

-----------------------------------------------------------------------------
(* Nothing is lost                                                         *)

(* The bucket is full, or has at least what is left of a full one after    *)
(* the requests accepted since it last was.                                *)
NothingForfeited ==
    known => \/ allowance = Full
             \/ \E i \in 1..Len(accepted) :
                  Full + (last - accepted[i]) * Rate
                    <= (Len(accepted) - i + 1) * Per + allowance

(* What one check does to the bucket, in numbers.                          *)
LEMMA Refill ==
    ASSUME TypeOK, NoLostUpdate, NothingForfeited, NEW t \in Threads, pc[t] = "decide"
    PROVE  \/ Refilled(t) = Full
           \/ \E i \in 1..Len(accepted) :
                Full + (myNow[t] - accepted[i]) * Rate
                  <= (Len(accepted) - i + 1) * Per + Refilled(t)
<1> DEFINE n == Len(accepted)
           w == (myNow[t] - last) * Rate
<1>1. /\ Per \in Int /\ Rate \in Nat /\ Full \in Int
      /\ allowance \in Int /\ last \in Nat /\ myNow[t] \in Nat
      /\ n \in Nat /\ \A i \in 1..n : accepted[i] \in Nat
  BY RateAssumption, FullType DEF TypeOK
<1>2. /\ known /\ last <= myNow[t]
      /\ myState[t].allowance = allowance /\ myState[t].last = last
  BY DEF NoLostUpdate
<1>3. w \in Nat
  <2>1. myNow[t] - last \in Nat
    BY <1>1, <1>2
  <2> QED
    BY <1>1, <2>1, Waiting
<1>4. Refilled(t) = IF allowance + w > Full THEN Full ELSE allowance + w
  BY <1>2 DEF Refilled
<1> HIDE DEF Refilled
<1>5. CASE allowance = Full \/ allowance + w > Full
  <2> HIDE DEF w
  <2> QED
    BY <1>1, <1>3, <1>4, <1>5
<1>6. CASE allowance # Full /\ ~(allowance + w > Full)
  <2>1. PICK i \in 1..n :
           Full + (last - accepted[i]) * Rate <= (n - i + 1) * Per + allowance
    BY <1>2, <1>6 DEF NothingForfeited
  <2>2. /\ myNow[t] - last \in Int /\ last - accepted[i] \in Int
        /\ myNow[t] - accepted[i] = (myNow[t] - last) + (last - accepted[i])
        /\ Rate \in Int /\ n - i + 1 \in Int
    BY <1>1
  <2>3. /\ (myNow[t] - accepted[i]) * Rate = w + (last - accepted[i]) * Rate
        /\ (last - accepted[i]) * Rate \in Int
        /\ (n - i + 1) * Per \in Int
    BY <1>1, <2>2, Distribute
  <2>4. Refilled(t) = allowance + w
    BY <1>4, <1>6
  <2> HIDE DEF w, n
  <2>5. Full + (myNow[t] - accepted[i]) * Rate <= (n - i + 1) * Per + Refilled(t)
    BY <1>1, <1>3, <2>1, <2>3, <2>4
  <2> QED
    BY <2>5 DEF n
<1> QED
  BY <1>5, <1>6

LEMMA NothingForfeitedStep ==
    ASSUME TypeOK, NoLostUpdate, NothingForfeited, [Next]_vars
    PROVE  NothingForfeited'
<1>1. ASSUME NEW t \in Threads, Decide(t) PROVE NothingForfeited'
  <2> DEFINE n == Len(accepted)
             R == Refilled(t)
  <2>1. \/ R = Full
        \/ \E i \in 1..n : Full + (myNow[t] - accepted[i]) * Rate <= (n - i + 1) * Per + R
    BY <1>1, Refill DEF Decide
  <2>2. /\ Per \in Nat /\ Rate \in Nat /\ Full \in Nat /\ Full >= Per /\ R \in Int
        /\ myNow[t] \in Nat /\ n \in Nat /\ \A i \in 1..n : accepted[i] \in Nat
    BY RateAssumption, FullType, RefilledType DEF TypeOK
  <2>3. CASE R < Per
    <3>1. allowance' = R /\ accepted' = accepted /\ last' = myNow[t]
      BY <1>1, <2>3 DEF Decide
    <3> HIDE DEF R
    <3> QED
      BY <2>1, <3>1 DEF NothingForfeited
  <2>4. CASE ~(R < Per)
    <3>1. /\ allowance' = R - Per /\ last' = myNow[t]
          /\ accepted' = Append(accepted, myNow[t])
      BY <1>1, <2>4 DEF Decide
    <3>2. /\ Len(accepted') = n + 1 /\ accepted'[n + 1] = myNow[t]
          /\ \A i \in 1..n : accepted'[i] = accepted[i]
      BY <3>1 DEF TypeOK
    <3> HIDE DEF R, n
    <3> DEFINE Low(i, k, l, a) ==
                 Full + (l - accepted'[i]) * Rate <= (k - i + 1) * Per + a
    <3> SUFFICES \E i \in 1..n + 1 : Low(i, n + 1, myNow[t], R - Per)
      <4>1. allowance' = R - Per /\ last' = myNow[t] /\ Len(accepted') = n + 1
        BY <3>1, <3>2
      <4>2. ASSUME NEW i \in 1..n + 1, Low(i, n + 1, myNow[t], R - Per)
            PROVE  i \in 1..Len(accepted') /\ Low(i, Len(accepted'), last', allowance')
        <5> HIDE DEF Low
        <5> QED
          BY <4>1, <4>2
      <4>3. ASSUME NEW i \in 1..Len(accepted'), Low(i, Len(accepted'), last', allowance')
            PROVE  NothingForfeited'
        BY <4>3 DEF NothingForfeited
      <4> HIDE DEF Low
      <4> QED
        BY <4>2, <4>3
    <3>3. CASE R = Full
      <4>1. /\ n + 1 \in 1..n + 1 /\ n + 1 - (n + 1) + 1 = 1
            /\ myNow[t] - accepted'[n + 1] = 0 /\ 0 * Rate = 0 /\ 1 * Per = Per
        BY <2>2, <3>2
      <4>2. Full + (myNow[t] - accepted'[n + 1]) * Rate
              <= (n + 1 - (n + 1) + 1) * Per + (R - Per)
        BY <2>2, <3>3, <4>1
      <4> QED
        BY <4>1, <4>2
    <3>4. ASSUME NEW i \in 1..n,
                 Full + (myNow[t] - accepted[i]) * Rate <= (n - i + 1) * Per + R
          PROVE  i \in 1..n + 1 /\ Low(i, n + 1, myNow[t], R - Per)
      <4> DEFINE m == n - i + 1
      <4>1. /\ i \in 1..n + 1 /\ n + 1 - i + 1 = m + 1 /\ m \in Int
            /\ Per \in Int /\ 1 * Per = Per /\ 1 \in Int
            /\ myNow[t] - accepted[i] \in Int /\ Rate \in Int
        BY <2>2
      <4> HIDE DEF m
      <4>2. /\ (m + 1) * Per = m * Per + 1 * Per /\ m * Per \in Int
            /\ (myNow[t] - accepted[i]) * Rate \in Int
        BY <4>1, Distribute
      <4>3. (n + 1 - i + 1) * Per = m * Per + Per
        BY <4>1, <4>2
      <4>4. (n - i + 1) * Per = m * Per
        BY DEF m
      <4> QED
        BY <2>2, <3>2, <3>4, <4>1, <4>2, <4>3, <4>4
    <3> HIDE DEF Low
    <3> QED
      BY <2>1, <3>3, <3>4
  <2> QED
    BY <2>3, <2>4
<1>2. ASSUME NEW t \in Threads, ReadClock(t) PROVE NothingForfeited'
  BY <1>2 DEF ReadClock, state, NothingForfeited
<1>3. ASSUME NEW t \in Threads, ReadState(t) PROVE NothingForfeited'
  BY <1>3 DEF ReadState, NothingForfeited
<1>4. CASE Tick
  BY <1>4 DEF Tick, state, NothingForfeited
<1>5. CASE UNCHANGED vars
  BY <1>5 DEF vars, state, NothingForfeited
<1> QED
  BY <1>1, <1>2, <1>3, <1>4, <1>5 DEF Next, CheckRequest

(* A request is refused only when one more would break the limit since     *)
(* some request that was accepted.                                         *)
LEMMA Justified ==
    ASSUME TypeOK, NoLostUpdate, NothingForfeited, [Next]_vars,
           NEW t \in Threads, pc[t] = "decide", pc'[t] = "idle", accepted' = accepted
    PROVE  \E i \in DOMAIN accepted :
              (Len(accepted) - i + 2) * Per > Full + (myNow[t] - accepted[i]) * Rate
<1> DEFINE n == Len(accepted)
           R == Refilled(t)
<1>1. /\ Per \in Nat /\ Rate \in Nat /\ Full \in Nat /\ Full >= Per /\ R \in Int
      /\ myNow[t] \in Nat /\ n \in Nat /\ \A i \in 1..n : accepted[i] \in Nat
      /\ DOMAIN accepted = 1..n /\ accepted \in Seq(Nat)
  BY RateAssumption, FullType, RefilledType DEF TypeOK
<1>2. Decide(t)
  <2>1. ASSUME NEW s \in Threads, ReadClock(s) PROVE FALSE
    BY <2>1 DEF ReadClock, TypeOK
  <2>2. ASSUME NEW s \in Threads, ReadState(s) PROVE FALSE
    BY <2>2 DEF ReadState, TypeOK
  <2>3. ASSUME NEW s \in Threads, Decide(s) PROVE s = t
    BY <2>3 DEF Decide, TypeOK
  <2>4. ~Tick /\ ~UNCHANGED vars
    BY DEF Tick, vars, locals
  <2> QED
    BY <2>1, <2>2, <2>3, <2>4 DEF Next, CheckRequest
<1>3. R < Per
  <2> DEFINE more == Append(accepted, myNow[t])
  <2>1. Len(more) = n + 1
    BY <1>1
  <2> HIDE DEF more
  <2>2. more # accepted
    BY <1>1, <2>1
  <2> QED
    BY <1>2, <2>2 DEF Decide, more
<1>4. \/ R = Full
      \/ \E i \in 1..n : Full + (myNow[t] - accepted[i]) * Rate <= (n - i + 1) * Per + R
  BY Refill
<1> HIDE DEF R, n
<1>5. PICK i \in 1..n :
         Full + (myNow[t] - accepted[i]) * Rate <= (n - i + 1) * Per + R
  BY <1>1, <1>3, <1>4
<1> DEFINE m == n - i + 1
<1>6. /\ n - i + 2 = m + 1 /\ m \in Int /\ Per \in Int /\ 1 \in Int /\ 1 * Per = Per
      /\ myNow[t] - accepted[i] \in Int /\ Rate \in Int
  BY <1>1
<1>7. (n - i + 1) * Per = m * Per
  OBVIOUS
<1> HIDE DEF m
<1>8. /\ (m + 1) * Per = m * Per + 1 * Per /\ m * Per \in Int
      /\ (myNow[t] - accepted[i]) * Rate \in Int
  BY <1>6, Distribute
<1>9. (n - i + 2) * Per = m * Per + Per
  BY <1>6, <1>8
<1>10. (n - i + 2) * Per > Full + (myNow[t] - accepted[i]) * Rate
  BY <1>1, <1>3, <1>5, <1>6, <1>7, <1>8, <1>9
<1> QED
  BY <1>1, <1>10 DEF n

(* With one worker process nobody is refused who is within the limit: the  *)
(* bucket loses nothing of the time a client has waited.                   *)
THEOREM OneWorkerJustified ==
    ASSUME OneThread
    PROVE  Spec => RefusalsJustified
<1> DEFINE Inv == TypeOK /\ NoLostUpdate /\ NothingForfeited
<1>1. Init => Inv
  BY InitType, InitInv DEF Init, NothingForfeited
<1>2. Inv /\ [Next]_vars => Inv'
  BY StepType, NoLostUpdateStep, NothingForfeitedStep
<1>3. Inv /\ [Next]_vars =>
        [\A t \in Threads :
           pc[t] = "decide" /\ pc'[t] = "idle" /\ accepted' = accepted =>
             \E i \in DOMAIN accepted :
                (Len(accepted) - i + 2) * Per > Full + (myNow[t] - accepted[i]) * Rate]_vars
  BY Justified
<1> HIDE DEF Inv
<1> QED
  BY <1>1, <1>2, <1>3, PTL DEF Spec, RefusalsJustified
=============================================================================
