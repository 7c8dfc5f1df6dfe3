----------------------- MODULE MessageHandling_proofs ------------------------
(***************************************************************************)
(* A worker's handling of messages, for all requests, all configurations   *)
(* of handlers and filters and any number of messages: the counters        *)
(* explain every message, errors are sent alone, leases are committed only *)
(* when all were granted, every IA is answered once, and a lease is        *)
(* renewed whenever its client asks for it.                                *)
(***************************************************************************)
EXTENDS MessageHandling, SequenceTheorems, WellFoundedInduction, TLAPS

-----------------------------------------------------------------------------
(* Sequences and their elements                                            *)

LEMMA FirstExists ==
    ASSUME NEW S \in SUBSET Nat, S # {}
    PROVE  \E n \in S : \A m \in S : n <= m
<1>1. PICK n \in S : \A m \in S : <<m, n>> \notin OpToRel(<, Nat)
  BY NatLessThanWellFounded, WFMin
<1>2. \A m, k \in Nat : <<m, k>> \in OpToRel(<, Nat) <=> m < k
  BY DEF OpToRel
<1>3. \A m \in S : ~(m < n) /\ m \in Nat /\ n \in Nat
  BY <1>1, <1>2
<1>4. \A m \in S : n <= m
  BY <1>3
<1> QED
  BY <1>4

(* Induction over the naturals for a set in place of a predicate.          *)
LEMMA SetInduction ==
    ASSUME NEW S, 0 \in S, \A n \in Nat : n \in S => n + 1 \in S
    PROVE  Nat \subseteq S
<1> DEFINE T == {n \in Nat : n \notin S}
<1>1. SUFFICES ASSUME T # {} PROVE FALSE
  OBVIOUS
<1>2. PICK n \in T : \A m \in T : n <= m
  BY <1>1, FirstExists
<1>3. n # 0 /\ n - 1 \in Nat /\ n - 1 \notin T
  BY <1>2
<1> QED
  BY <1>3

Sequence(s) == s \in Seq(SetOf(s))

LEMMA SequenceType ==
    ASSUME NEW S, NEW s \in Seq(S)
    PROVE  /\ Sequence(s) /\ SetOf(s) \subseteq S
           /\ Len(s) \in Nat /\ DOMAIN s = 1..Len(s)
<1>1. Len(s) \in Nat /\ DOMAIN s = 1..Len(s) /\ \A i \in 1..Len(s) : s[i] \in S
  OBVIOUS
<1>2. SetOf(s) \subseteq S /\ \A i \in 1..Len(s) : s[i] \in SetOf(s)
  BY <1>1 DEF SetOf
<1>3. s = [i \in 1..Len(s) |-> s[i]]
  OBVIOUS
<1>4. s \in Seq(SetOf(s))
  BY <1>1, <1>2, <1>3
<1> QED
  BY <1>1, <1>2, <1>4 DEF Sequence

LEMMA EmptySequence == Sequence(<<>>) /\ SetOf(<<>>) = {}
BY DEF Sequence, SetOf

LEMMA ConcatSet ==
    ASSUME NEW s, NEW t, Sequence(s), Sequence(t)
    PROVE  Sequence(s \o t) /\ SetOf(s \o t) = SetOf(s) \cup SetOf(t)
<1> DEFINE S == SetOf(s) \cup SetOf(t)
           u == s \o t
<1>0. s \in Seq(S) /\ t \in Seq(S)
  <2>1. s \in Seq(SetOf(s)) /\ t \in Seq(SetOf(t))
    BY DEF Sequence
  <2> QED
    BY <2>1
<1>1. /\ DOMAIN s = 1..Len(s) /\ DOMAIN t = 1..Len(t)
      /\ Len(s) \in Nat /\ Len(t) \in Nat
  BY <1>0, SequenceType
<1> HIDE DEF S, u
<1>2. /\ u \in Seq(S) /\ Len(u) = Len(s) + Len(t)
      /\ \A i \in 1..Len(s) + Len(t) : u[i] = IF i <= Len(s) THEN s[i] ELSE t[i - Len(s)]
  BY <1>0, ConcatProperties DEF u
<1>3. Sequence(u) /\ SetOf(u) \subseteq S /\ DOMAIN u = 1..Len(s) + Len(t)
  BY <1>2, SequenceType
<1>4. ASSUME NEW i \in 1..Len(s) PROVE s[i] \in SetOf(u)
  <2>1. i \in 1..Len(s) + Len(t) /\ u[i] = s[i]
    BY <1>1, <1>2
  <2> QED
    BY <1>3, <2>1 DEF SetOf
<1>5. ASSUME NEW i \in 1..Len(t) PROVE t[i] \in SetOf(u)
  <2> DEFINE j == Len(s) + i
  <2>1. j \in 1..Len(s) + Len(t) /\ ~(j <= Len(s)) /\ j - Len(s) = i
    BY <1>1
  <2>2. u[j] = t[i]
    BY <1>2, <2>1
  <2> QED
    BY <1>3, <2>1, <2>2 DEF SetOf
<1>6. S \subseteq SetOf(u)
  BY <1>1, <1>4, <1>5 DEF S, SetOf
<1> QED
  BY <1>3, <1>6 DEF S, u

LEMMA AppendSet ==
    ASSUME NEW s, NEW e, Sequence(s)
    PROVE  Sequence(Append(s, e)) /\ SetOf(Append(s, e)) = SetOf(s) \cup {e}
<1> DEFINE S == SetOf(s) \cup {e}
           u == Append(s, e)
<1>0. s \in Seq(S) /\ e \in S
  <2>1. s \in Seq(SetOf(s))
    BY DEF Sequence
  <2> QED
    BY <2>1
<1>1. DOMAIN s = 1..Len(s) /\ Len(s) \in Nat
  BY <1>0, SequenceType
<1> HIDE DEF S, u
<1>2. /\ u \in Seq(S) /\ Len(u) = Len(s) + 1 /\ u[Len(s) + 1] = e
      /\ \A i \in 1..Len(s) : u[i] = s[i]
  BY <1>0, AppendProperties DEF u
<1>3. Sequence(u) /\ SetOf(u) \subseteq S /\ DOMAIN u = 1..Len(s) + 1
  BY <1>2, SequenceType
<1>4. ASSUME NEW i \in 1..Len(s) PROVE s[i] \in SetOf(u)
  <2>1. i \in 1..Len(s) + 1
    BY <1>1
  <2> QED
    BY <1>2, <1>3, <2>1 DEF SetOf
<1>5. e \in SetOf(u)
  <2>1. Len(s) + 1 \in 1..Len(s) + 1
    BY <1>1
  <2> QED
    BY <1>2, <1>3, <2>1 DEF SetOf
<1> QED
  BY <1>1, <1>3, <1>4, <1>5 DEF S, u, SetOf

Unfolds(s, S, f) ==
    f = [n \in 0..Len(s) |->
          IF n = 0 THEN <<>>
          ELSE IF s[n] \in S THEN Append(f[n - 1], s[n]) ELSE f[n - 1]]

LEMMA AmongUnfolds ==
    ASSUME NEW s, NEW S, Len(s) \in Nat
    PROVE  Unfolds(s, S, Among(s, S))
<1> DEFINE n == Len(s)
           step(k, rest) == IF s[k] \in S THEN Append(rest, s[k]) ELSE rest
           Upto(m, f) == f = [k \in 0..m |-> IF k = 0 THEN <<>> ELSE step(k, f[k - 1])]
           M == {m \in Nat : \E f : Upto(m, f)}
<1> HIDE DEF n, step
<1>1. 0 \in M
  <2>1. Upto(0, [k \in 0..0 |-> <<>>])
    OBVIOUS
  <2> QED
    BY <2>1
<1>2. ASSUME NEW m \in Nat, m \in M PROVE m + 1 \in M
  <2>1. PICK f : Upto(m, f)
    BY <1>2
  <2> DEFINE g == [k \in 0..m + 1 |-> IF k = 0 THEN <<>> ELSE step(k, f[k - 1])]
  <2>2. \A k \in 0..m : g[k] = f[k]
    BY <2>1
  <2>3. \A k \in 0..m + 1 : k # 0 => k - 1 \in 0..m
    OBVIOUS
  <2>4. g = [k \in 0..m + 1 |-> IF k = 0 THEN <<>> ELSE step(k, g[k - 1])]
    BY <2>2, <2>3
  <2>5. Upto(m + 1, g)
    BY <2>4
  <2> HIDE DEF g, Upto
  <2> QED
    BY <2>5
<1>3. n \in M
  <2> HIDE DEF M
  <2>1. Nat \subseteq M
    BY <1>1, <1>2, SetInduction
  <2> QED
    BY <2>1 DEF n
<1>4. PICK f : Upto(n, f)
  BY <1>3
<1>5. Unfolds(s, S, f)
  BY <1>4 DEF Unfolds, n, step
<1> QED
  BY <1>5 DEF Unfolds, Among

(* What the helper selects.                                                *)
LEMMA ThoseSet ==
    ASSUME NEW s, NEW S, Sequence(s)
    PROVE  Sequence(Those(s, S)) /\ SetOf(Those(s, S)) = SetOf(s) \cap S
<1> DEFINE n == Len(s)
           f == Among(s, S)
           First(k) == {s[i] : i \in 1..k} \cap S
           M == {k \in Nat : k <= n => Sequence(f[k]) /\ SetOf(f[k]) = First(k)}
<1>0. n \in Nat /\ DOMAIN s = 1..n
  BY SequenceType DEF Sequence
<1>1. f = [k \in 0..n |->
            IF k = 0 THEN <<>>
            ELSE IF s[k] \in S THEN Append(f[k - 1], s[k]) ELSE f[k - 1]]
  BY <1>0, AmongUnfolds DEF Unfolds
<1> HIDE DEF f, n
<1>2. 0 \in M
  <2>1. f[0] = <<>> /\ First(0) = {}
    BY <1>0, <1>1
  <2> QED
    BY <2>1, EmptySequence
<1>3. ASSUME NEW k \in Nat, k \in M PROVE k + 1 \in M
  <2> SUFFICES ASSUME k + 1 <= n
               PROVE  Sequence(f[k + 1]) /\ SetOf(f[k + 1]) = First(k + 1)
    OBVIOUS
  <2>1. Sequence(f[k]) /\ SetOf(f[k]) = First(k)
    BY <1>0, <1>3
  <2>2. f[k + 1] = IF s[k + 1] \in S THEN Append(f[k], s[k + 1]) ELSE f[k]
    <3>1. k + 1 \in 0..n /\ k + 1 # 0 /\ (k + 1) - 1 = k
      BY <1>0
    <3> QED
      BY <1>1, <3>1
  <2>3. {s[i] : i \in 1..k + 1} = {s[i] : i \in 1..k} \cup {s[k + 1]}
    <3>1. 1..k + 1 = (1..k) \cup {k + 1}
      OBVIOUS
    <3> QED
      BY <3>1
  <2>4. Sequence(Append(f[k], s[k + 1]))
        /\ SetOf(Append(f[k], s[k + 1])) = First(k) \cup {s[k + 1]}
    BY <2>1, AppendSet
  <2> QED
    BY <2>1, <2>2, <2>3, <2>4
<1>4. Nat \subseteq M
  <2> HIDE DEF M
  <2> QED
    BY <1>2, <1>3, SetInduction
<1>5. Sequence(f[n]) /\ SetOf(f[n]) = First(n)
  BY <1>0, <1>4
<1> QED
  BY <1>0, <1>5 DEF Those, f, n, SetOf

LEMMA MappedSequence ==
    ASSUME NEW s, Sequence(s), NEW t, DOMAIN t = DOMAIN s, t = [i \in DOMAIN t |-> t[i]]
    PROVE  Sequence(t)
<1>1. Len(s) \in Nat /\ DOMAIN t = 1..Len(s)
  BY SequenceType DEF Sequence
<1> QED
  BY <1>1 DEF Sequence, SetOf

-----------------------------------------------------------------------------
(* What a step does: every action is one of these.                         *)

Errors == {"use_multicast", "unknown_query_type", "not_allowed", "other_error"}
ErrorStatuses ==
    {"NotAllowed", "UseMulticast", "QueryTerminated", "UnspecFail", "UnknownQueryType"}

(* The handler has nothing to do, or a leasequery is marked only.          *)
Passes ==
    /\ stage \in {"pre", "handle", "post"} /\ Onward
    /\ UNCHANGED <<request, response, more, handled, counters>>
    /\ answered' = answered \/ (answered' = TRUE /\ stage = "handle")

Ignores ==
    /\ stage \in {"pre", "init"} /\ UNCHANGED <<request, handled, answered>>
    /\ \E c \in {"for_other_server", "do_not_respond"} : Ignore(c)

Refuses ==
    /\ UNCHANGED <<request, handled>>
    /\ \E type \in {"Reply", "LeasequeryReply"}, status \in ErrorStatuses, c \in Errors :
          ReplyWithStatus(type, status, c)
    /\ \/ stage = "pre" /\ UNCHANGED answered
       \/ /\ stage \in {"handle", "post"} /\ request.type = "Leasequery"
          /\ ~answered /\ answered' \in {answered, TRUE}

Breaks ==
    /\ stage \in {"pre", "handle", "more"} /\ HandlingError
    /\ UNCHANGED <<request, handled, answered>>

Begins ==
    /\ stage = "init" /\ stage' = "handle" /\ pos' = 1 /\ ResponseType # "none"
    /\ response' = [NoResponse EXCEPT !.type = ResponseType]
    /\ UNCHANGED <<request, more, handled, answered, counters>>

StartsData ==
    /\ stage = "handle" /\ Onward /\ request.type = "Leasequery" /\ ~answered
    /\ answered' = TRUE /\ more' \in 1..2
    /\ UNCHANGED <<request, response, handled, counters>>

Answers ==
    /\ StaticHandle \/ UnansweredIAHandle \/ UnansweredIAPDHandle
       \/ AddMissingStatusHandle

SendsNext ==
    /\ stage = "more" /\ more' = more - 1 /\ Count({"outgoing_packet"})
    /\ stage' = IF more' > 0 THEN "more" ELSE "idle"
    /\ UNCHANGED <<pos, request, response, handled, answered>>

LEMMA Groups ==
    ASSUME [Next]_vars
    PROVE  \/ Receive \/ ReceiveUnparsable \/ ReceiveNoRequest
           \/ Passes \/ Ignores \/ Refuses \/ Breaks \/ Begins \/ StartsData \/ Answers
           \/ RapidCommitPost \/ AnalysePost \/ SendFirst \/ SendsNext
           \/ UNCHANGED vars
<1>1. ServerIdPre => Passes \/ Ignores
  BY DEF ServerIdPre, At, Pass, Passes, Ignores
<1>2. RequireBulkOverTCPPre => Passes \/ Ignores
  BY DEF RequireBulkOverTCPPre, At, Pass, Passes, Ignores
<1>3. RefuseBulkOverUDPPre => Passes \/ Refuses
  BY DEF RefuseBulkOverUDPPre, At, Pass, Passes, Refuses, ErrorStatuses, Errors
<1>4. IgnorePre => Passes \/ Ignores
  BY DEF IgnorePre, At, Pass, Passes, Ignores
<1>5. RateLimitPre => Passes \/ Ignores \/ Breaks
  BY DEF RateLimitPre, At, Pass, Passes, Ignores, Breaks
<1>6. ServerUnicastPre => Passes
  BY DEF ServerUnicastPre, At, Pass, Passes
<1>7. LeasequeryPre => Passes \/ Refuses
  BY DEF LeasequeryPre, At, Pass, Passes, Refuses, ErrorStatuses, Errors
<1>8. RejectUnwantedUnicastPre => Passes \/ Refuses
  BY DEF RejectUnwantedUnicastPre, At, Pass, Passes, Refuses, ErrorStatuses, Errors
<1>9. NotOverridden => Passes
  BY DEF NotOverridden, Overrides, Pass, Passes
<1>10. InitResponse => Begins \/ Ignores
  BY DEF InitResponse, Begins, Ignores
<1>11. LeasequeryHandle => Passes \/ Breaks \/ Refuses \/ StartsData
  <2> SUFFICES ASSUME LeasequeryHandle PROVE Passes \/ Breaks \/ Refuses \/ StartsData
    OBVIOUS
  <2>1. stage = "handle" /\ UNCHANGED <<request, handled>>
    BY DEF LeasequeryHandle, At
  <2>2. CASE Pass /\ (UNCHANGED answered \/ MarkQuery)
    BY <2>1, <2>2 DEF Pass, Passes, MarkQuery
  <2>3. CASE /\ request.type = "Leasequery" /\ ~answered
             /\ HandlingError /\ UNCHANGED answered
    BY <2>1, <2>3 DEF Breaks
  <2>4. CASE /\ request.type = "Leasequery" /\ ~answered /\ MarkQuery
             /\ ReplyWithStatus("LeasequeryReply",
                     IF request.via = "tcp" THEN "QueryTerminated" ELSE "UnspecFail",
                     "other_error")
    <3>1. answered' \in {answered, TRUE}
      BY <2>4 DEF MarkQuery
    <3>2. (IF request.via = "tcp" THEN "QueryTerminated" ELSE "UnspecFail") \in ErrorStatuses
      BY DEF ErrorStatuses
    <3>3. "other_error" \in Errors
      BY DEF Errors
    <3> QED
      BY <2>1, <2>4, <3>1, <3>2, <3>3 DEF Refuses
  <2>5. CASE /\ request.type = "Leasequery" /\ ~answered /\ MarkQuery
             /\ more' \in 1..2 /\ Onward /\ UNCHANGED <<response, counters>>
    BY <2>1, <2>5 DEF StartsData, MarkQuery
  <2> QED
    BY <2>2, <2>3, <2>4, <2>5 DEF LeasequeryHandle
<1>12. UnansweredLeasequeryPost => Passes \/ Refuses
  BY DEF UnansweredLeasequeryPost, At, Pass, Passes, Refuses, ErrorStatuses, Errors
<1>13. SendMore => SendsNext \/ Breaks
  BY DEF SendMore, SendsNext, Breaks
<1> QED
  BY <1>1, <1>2, <1>3, <1>4, <1>5, <1>6, <1>7, <1>8, <1>9, <1>10, <1>11, <1>12, <1>13
  DEF Next, Answers

(* How a message moves through the phases.                                 *)
LEMMA Phases ==
    ASSUME Onward, stage \in {"pre", "handle", "post"}
    PROVE  /\ stage = "pre" => stage' \in {"pre", "init"}
           /\ stage = "handle" => stage' \in {"handle", "post"}
           /\ stage = "post" => stage' \in {"post", "analyse"}
           /\ (stage' = stage /\ pos' = pos + 1 /\ pos # Len(Chain)) \/ pos' = 1
BY DEF Onward, AtEnd

-----------------------------------------------------------------------------
(* The response and the counters                                           *)

ResponseOf(type, answers, status, rapid) ==
    [type |-> type, answers |-> answers, status |-> status, rapid |-> rapid]

(* The response is always such a record, of a known type when it matters.  *)
ResponseInv ==
    /\ response = ResponseOf(response.type, response.answers, response.status, response.rapid)
    /\ response.type \in {"none", "Advertise", "Reply", "LeasequeryReply"}
    /\ stage \in {"handle", "post"} => response.type # "none"
    /\ stage \in {"idle", "pre", "init", "handle", "post", "analyse", "send", "more"}

LEMMA ReplacedField ==
    ASSUME NEW r, NEW t, NEW a, NEW s, NEW c, NEW x, r = ResponseOf(t, a, s, c)
    PROVE  /\ [r EXCEPT !.type = x] = ResponseOf(x, a, s, c)
           /\ [r EXCEPT !.answers = x] = ResponseOf(t, x, s, c)
           /\ [r EXCEPT !.status = x] = ResponseOf(t, a, x, c)
           /\ [r EXCEPT !.rapid = x] = ResponseOf(t, a, s, x)
           /\ r.type = t /\ r.answers = a /\ r.status = s /\ r.rapid = c
<1>1. [r EXCEPT !.type = x] = ResponseOf(x, a, s, c)
  BY Z3 DEF ResponseOf
<1>2. [r EXCEPT !.answers = x] = ResponseOf(t, x, s, c)
  BY Z3 DEF ResponseOf
<1>3. [r EXCEPT !.status = x] = ResponseOf(t, a, x, c)
  BY Z3 DEF ResponseOf
<1>4. [r EXCEPT !.rapid = x] = ResponseOf(t, a, s, x)
  BY Z3 DEF ResponseOf
<1>5. r.type = t /\ r.answers = a /\ r.status = s /\ r.rapid = c
  BY DEF ResponseOf
<1> QED
  BY <1>1, <1>2, <1>3, <1>4, <1>5

LEMMA ReplacedTwo ==
    ASSUME NEW r, NEW t, NEW a, NEW s, NEW c, NEW x, NEW y, r = ResponseOf(t, a, s, c)
    PROVE  /\ [r EXCEPT !.type = x, !.status = y] = ResponseOf(x, a, y, c)
           /\ [r EXCEPT !.type = x, !.rapid = y] = ResponseOf(x, a, s, y)
<1> DEFINE q == [r EXCEPT !.type = x]
<1>1. q = ResponseOf(x, a, s, c)
  BY Z3 DEF ResponseOf
<1> HIDE DEF q
<1>2. [q EXCEPT !.status = y] = ResponseOf(x, a, y, c)
  BY <1>1, Z3 DEF ResponseOf
<1>3. [q EXCEPT !.rapid = y] = ResponseOf(x, a, s, y)
  BY <1>1, Z3 DEF ResponseOf
<1> QED
  BY <1>2, <1>3 DEF q

LEMMA EmptyResponse ==
    /\ NoResponse = ResponseOf("none", <<>>, "none", FALSE)
    /\ \A x : [NoResponse EXCEPT !.type = x] = ResponseOf(x, <<>>, "none", FALSE)
    /\ \A x, y : [NoResponse EXCEPT !.type = x, !.status = y] = ResponseOf(x, <<>>, y, FALSE)
<1>1. NoResponse = ResponseOf("none", <<>>, "none", FALSE)
  BY DEF NoResponse, ResponseOf
<1> DEFINE r == NoResponse
           no == FALSE
<1>2. r = ResponseOf("none", <<>>, "none", no)
  BY <1>1
<1> HIDE DEF r, no
<1>3. \A x : [r EXCEPT !.type = x] = ResponseOf(x, <<>>, "none", no)
  BY <1>2, ReplacedField
<1>4. ASSUME NEW x, NEW y
      PROVE  [r EXCEPT !.type = x, !.status = y] = ResponseOf(x, <<>>, y, no)
  <2> DEFINE q == [r EXCEPT !.type = x]
  <2>1. q = ResponseOf(x, <<>>, "none", no)
    BY <1>3
  <2> HIDE DEF q
  <2>2. [q EXCEPT !.status = y] = ResponseOf(x, <<>>, y, no)
    BY ONLY <2>1, ReplacedField
  <2> QED
    BY <2>2 DEF q
<1> QED
  BY <1>1, <1>3, <1>4, Zenon DEF r, no

(* The answers a handler adds, as a set.                                   *)
Adds(added) ==
    response' = ResponseOf(response.type, response.answers \o added, response.status,
                           response.rapid)
SetsStatus ==
    /\ request.type \in {"Confirm", "Release", "Decline"}
    /\ \E s : response' = ResponseOf(response.type, response.answers, s, response.rapid)

LEMMA AddsAnswers ==
    ASSUME ResponseInv, NEW added,
           response' = [response EXCEPT !.answers = @ \o added]
    PROVE  Adds(added)
<1> DEFINE r == response
           t == response.type
           a == response.answers
           s == response.status
           c == response.rapid
           x == a \o added
<1>1. r = ResponseOf(t, a, s, c)
  BY DEF ResponseInv
<1>2. response' = [r EXCEPT !.answers = x]
  OBVIOUS
<1> HIDE DEF r, t, a, s, c, x
<1>3. [r EXCEPT !.answers = x] = ResponseOf(t, x, s, c)
  BY ONLY <1>1, ReplacedField
<1> QED
  BY <1>2, <1>3 DEF Adds, t, a, s, c, x

GrantedIn(ia, answers) ==
    \E a \in SetOf(answers) : a.kind = ia.kind /\ a.iaid = ia.iaid /\ a.live # {}

(* What the handlers of the phase handle() do that answer.                 *)
AnswersFacts ==
    /\ stage = "handle" /\ Onward
    /\ UNCHANGED <<request, allowUnicast, more, answered, counters, leased>>
    /\ \/ \E added : /\ Adds(added) /\ Sequence(added)
                     /\ \A a \in SetOf(added) : a.kind \in Kinds
                     /\ handled \subseteq handled' /\ handled' \subseteq handled \cup SetOf(request.ias)
                     /\ request.type = "Solicit" =>
                          \A ia \in handled' \ handled : GrantedIn(ia, added)
       \/ /\ UNCHANGED response \/ SetsStatus
          /\ request.type # "Solicit"
          /\ handled' \subseteq handled \cup SetOf(request.ias)
       \/ UNCHANGED <<response, handled>>

RequestOK ==
    /\ Sequence(request.ias) /\ \A ia \in SetOf(request.ias) : ia.kind \in Kinds

LEMMA UnhandledSet ==
    ASSUME RequestOK, NEW kinds
    PROVE  /\ Sequence(Unhandled(kinds))
           /\ SetOf(Unhandled(kinds)) = {ia \in SetOf(request.ias) : ia.kind \in kinds} \ handled
BY ThoseSet DEF RequestOK, Unhandled

LEMMA AnswerFields ==
    ASSUME NEW ia, NEW live, NEW dead, NEW status
    PROVE  /\ Answer(ia, live, dead, status).kind = ia.kind
           /\ Answer(ia, live, dead, status).iaid = ia.iaid
           /\ Answer(ia, live, dead, status).live = live
BY DEF Answer

(* One answer for each of some IAs of the request.                         *)
LEMMA AnswersKinds ==
    ASSUME RequestOK, NEW ias, Sequence(ias), SetOf(ias) \subseteq SetOf(request.ias),
           NEW live, NEW dead, NEW status,
           NEW added, added = [i \in DOMAIN ias |-> Answer(ias[i], live[i], dead[i], status)]
    PROVE  Sequence(added) /\ \A a \in SetOf(added) : a.kind \in Kinds
<1>1. DOMAIN added = DOMAIN ias /\ added = [i \in DOMAIN added |-> added[i]]
  OBVIOUS
<1>2. Sequence(added)
  BY <1>1, MappedSequence
<1>3. ASSUME NEW i \in DOMAIN ias PROVE added[i].kind \in Kinds
  <2>1. ias[i] \in SetOf(request.ias)
    BY DEF SetOf
  <2> QED
    BY <2>1, AnswerFields DEF RequestOK
<1> QED
  BY <1>1, <1>2, <1>3 DEF SetOf

(* The handlers that answer IA options.                                    *)
LEMMA StaticFacts ==
    ASSUME RequestOK, ResponseInv, StaticHandle
    PROVE  AnswersFacts
<1> DEFINE h == Chain[pos]
<1>1. /\ stage = "handle" /\ Onward
      /\ UNCHANGED <<request, allowUnicast, more, answered, counters, leased>>
  BY DEF StaticHandle, At
<1>2. ASSUME NEW kind, NEW a
      PROVE  /\ Sequence(Grants(kind, a)) /\ SetOf(Grants(kind, a)) \subseteq SetOf(request.ias)
  <2> DEFINE ias == Unhandled({kind})
             holding == Those(ias, {ia \in SetOf(ias) : a \in ia.addrs})
  <2>1. Sequence(ias) /\ SetOf(ias) \subseteq SetOf(request.ias)
    BY UnhandledSet
  <2>2. Sequence(holding) /\ SetOf(holding) \subseteq SetOf(request.ias)
    <3> HIDE DEF ias
    <3> QED
      BY <2>1, ThoseSet
  <2> HIDE DEF ias, holding
  <2>3. ASSUME NEW s, Sequence(s), SetOf(s) \subseteq SetOf(request.ias), s # <<>>
        PROVE  Sequence(<<s[1]>>) /\ SetOf(<<s[1]>>) \subseteq SetOf(request.ias)
    <3>1. s[1] \in SetOf(s)
      <4>1. s \in Seq(SetOf(s))
        BY <2>3 DEF Sequence
      <4> HIDE DEF SetOf
      <4> QED
        BY <2>3, <4>1
    <3>2. <<s[1]>> \in Seq(SetOf(request.ias))
      BY <2>3, <3>1
    <3> QED
      BY <3>2, SequenceType
  <2>4. Sequence(FindOption(ias, a)) /\ SetOf(FindOption(ias, a)) \subseteq SetOf(request.ias)
    <3>1. FindOption(ias, a) = IF holding # <<>> THEN <<holding[1]>>
                               ELSE IF ias # <<>> THEN <<ias[1]>> ELSE <<>>
      BY DEF FindOption, holding
    <3> QED
      BY <2>1, <2>2, <2>3, <3>1, EmptySequence
  <2> QED
    BY <2>4, EmptySequence DEF Grants, ias
<1>3. ASSUME StaticRequest(h) PROVE AnswersFacts
  <2> DEFINE pd == Grants("pd", h.prefix)
             na == Grants("na", h.address)
             Granting(s, x) == [i \in DOMAIN s |-> Answer(s[i], {x}, {}, "none")]
             addedPd == Granting(pd, h.prefix)
             addedNa == Granting(na, h.address)
             new == SetOf(pd) \cup SetOf(na)
  <2>1. /\ response' = [response EXCEPT !.answers = @ \o (addedPd \o addedNa)]
        /\ handled' = handled \cup new
    BY <1>3 DEF StaticRequest, Respond, Mark
  <2>2. /\ Sequence(pd) /\ SetOf(pd) \subseteq SetOf(request.ias)
        /\ Sequence(na) /\ SetOf(na) \subseteq SetOf(request.ias)
    BY <1>2
  <2> HIDE DEF pd, na, h
  <2>3. ASSUME NEW s, Sequence(s), SetOf(s) \subseteq SetOf(request.ias), NEW x
        PROVE  /\ Sequence(Granting(s, x)) /\ \A a \in SetOf(Granting(s, x)) : a.kind \in Kinds
               /\ \A ia \in SetOf(s) : GrantedIn(ia, Granting(s, x))
    <3> DEFINE live == [i \in DOMAIN s |-> {x}]
               dead == [i \in DOMAIN s |-> {}]
               added == Granting(s, x)
    <3>1. added = [i \in DOMAIN s |-> Answer(s[i], live[i], dead[i], "none")]
      OBVIOUS
    <3>5. \A i \in DOMAIN s : added[i] = Answer(s[i], {x}, {}, "none")
      OBVIOUS
    <3>4. DOMAIN added = DOMAIN s
      OBVIOUS
    <3> HIDE DEF live, dead, Granting, added
    <3>2. Sequence(added) /\ \A a \in SetOf(added) : a.kind \in Kinds
      BY <2>3, <3>1, AnswersKinds
    <3>3. ASSUME NEW i \in DOMAIN s PROVE GrantedIn(s[i], added)
      <4>1. added[i] = Answer(s[i], {x}, {}, "none")
        BY <3>5
      <4>2. added[i].kind = s[i].kind /\ added[i].iaid = s[i].iaid /\ added[i].live = {x}
        BY <4>1, AnswerFields
      <4>3. added[i] \in SetOf(added)
        BY <3>4 DEF SetOf
      <4> QED
        BY <4>2, <4>3 DEF GrantedIn
    <3> QED
      BY <3>2, <3>3 DEF SetOf, added
  <2> HIDE DEF Granting
  <2>4. /\ Sequence(addedPd) /\ \A a \in SetOf(addedPd) : a.kind \in Kinds
        /\ \A ia \in SetOf(pd) : GrantedIn(ia, addedPd)
    BY <2>2, <2>3
  <2>5. /\ Sequence(addedNa) /\ \A a \in SetOf(addedNa) : a.kind \in Kinds
        /\ \A ia \in SetOf(na) : GrantedIn(ia, addedNa)
    BY <2>2, <2>3
  <2> HIDE DEF addedPd, addedNa
  <2> DEFINE added == addedPd \o addedNa
  <2>6. Sequence(added) /\ SetOf(added) = SetOf(addedPd) \cup SetOf(addedNa)
    BY <2>4, <2>5, ConcatSet
  <2> HIDE DEF added
  <2>7. Adds(added)
    BY <2>1, AddsAnswers DEF added
  <2>8. \A ia \in new : GrantedIn(ia, added)
    BY <2>4, <2>5, <2>6 DEF GrantedIn
  <2>9. \A a \in SetOf(added) : a.kind \in Kinds
    BY <2>4, <2>5, <2>6
  <2> QED
    BY <1>1, <2>1, <2>2, <2>6, <2>7, <2>8, <2>9 DEF AnswersFacts
<1>4. ASSUME StaticConfirm(h) \/ StaticRelease(h) PROVE AnswersFacts
  <2>1. UNCHANGED response /\ request.type # "Solicit"
    BY <1>4 DEF StaticConfirm, StaticRelease
  <2>2. SetOf(Unhandled({"na"})) \subseteq SetOf(request.ias)
        /\ SetOf(Unhandled({"pd"})) \subseteq SetOf(request.ias)
    BY UnhandledSet
  <2>3. handled' \subseteq handled \cup SetOf(request.ias)
    BY <1>4, <2>2 DEF StaticConfirm, StaticRelease, Mark, Overlapping
  <2> QED
    BY <1>1, <2>1, <2>3 DEF AnswersFacts
<1>5. ASSUME StaticRenew(h) PROVE AnswersFacts
  <2> DEFINE pd == Those(Unhandled({"pd"}), Overlapping(h))
             na == Unhandled({"na"})
             Renewed(s, a) == [i \in DOMAIN s |->
                Answer(s[i], Kept(s[i].addrs, a), s[i].addrs \ Kept(s[i].addrs, a), "none")]
             added == Renewed(pd, h.prefix) \o Renewed(na, h.address)
  <2>1. /\ response' = [response EXCEPT !.answers = @ \o added]
        /\ handled' = handled \cup (SetOf(pd) \cup SetOf(na))
        /\ request.type # "Solicit"
    BY <1>5 DEF StaticRenew, Respond, Mark
  <2>2. /\ Sequence(pd) /\ SetOf(pd) \subseteq SetOf(request.ias)
        /\ Sequence(na) /\ SetOf(na) \subseteq SetOf(request.ias)
    <3>1. \A kinds : Sequence(Unhandled(kinds)) /\ SetOf(Unhandled(kinds)) \subseteq SetOf(request.ias)
      BY UnhandledSet
    <3> QED
      BY <3>1, ThoseSet
  <2> HIDE DEF pd, na, h
  <2>3. ASSUME NEW s, Sequence(s), SetOf(s) \subseteq SetOf(request.ias), NEW x
        PROVE  Sequence(Renewed(s, x)) /\ \A a \in SetOf(Renewed(s, x)) : a.kind \in Kinds
    <3> DEFINE live == [i \in DOMAIN s |-> Kept(s[i].addrs, x)]
               dead == [i \in DOMAIN s |-> s[i].addrs \ Kept(s[i].addrs, x)]
    <3>1. Renewed(s, x) = [i \in DOMAIN s |-> Answer(s[i], live[i], dead[i], "none")]
      OBVIOUS
    <3> HIDE DEF live, dead, Renewed
    <3> QED
      BY <2>3, <3>1, AnswersKinds
  <2> HIDE DEF Renewed
  <2>4. /\ Sequence(Renewed(pd, h.prefix)) /\ Sequence(Renewed(na, h.address))
        /\ \A a \in SetOf(Renewed(pd, h.prefix)) \cup SetOf(Renewed(na, h.address)) : a.kind \in Kinds
    BY <2>2, <2>3
  <2>5. Sequence(added) /\ \A a \in SetOf(added) : a.kind \in Kinds
    BY <2>4, ConcatSet
  <2> HIDE DEF added
  <2>6. Adds(added)
    BY <2>1, AddsAnswers
  <2> QED
    BY <1>1, <2>1, <2>2, <2>5, <2>6 DEF AnswersFacts
<1>6. ASSUME UNCHANGED <<response, handled>> PROVE AnswersFacts
  BY <1>1, <1>6 DEF AnswersFacts
<1> QED
  BY <1>3, <1>4, <1>5, <1>6 DEF StaticHandle

LEMMA SetStatus ==
    ASSUME ResponseInv, NEW x, response' = [response EXCEPT !.status = x]
    PROVE  response' = ResponseOf(response.type, response.answers, x, response.rapid)
<1> DEFINE r == response
           t == response.type
           a == response.answers
           s == response.status
           c == response.rapid
<1>1. r = ResponseOf(t, a, s, c)
  BY DEF ResponseInv
<1>2. response' = [r EXCEPT !.status = x]
  OBVIOUS
<1> HIDE DEF r, t, a, s, c
<1>3. [r EXCEPT !.status = x] = ResponseOf(t, a, x, c)
  BY ONLY <1>1, ReplacedField
<1> QED
  BY <1>2, <1>3 DEF t, a, c

(* The handlers that answer what nobody else did.                          *)
LEMMA CleanUpFacts ==
    ASSUME RequestOK, ResponseInv, UnansweredIAHandle \/ UnansweredIAPDHandle
    PROVE  AnswersFacts
<1>1. /\ stage = "handle" /\ Onward
      /\ UNCHANGED <<request, allowUnicast, more, handled, answered, counters, leased>>
  BY DEF UnansweredIAHandle, UnansweredIAPDHandle, At
<1>2. ASSUME NEW kinds
      PROVE  /\ Sequence(Unhandled(kinds)) /\ SetOf(Unhandled(kinds)) \subseteq SetOf(request.ias)
  BY UnhandledSet
<1>3. ASSUME NEW ias, Sequence(ias), SetOf(ias) \subseteq SetOf(request.ias),
             NEW status, AnswerAll(ias, status)
      PROVE  AnswersFacts
  <2> DEFINE live == [i \in DOMAIN ias |-> {}]
             added == [i \in DOMAIN ias |-> Answer(ias[i], {}, {}, status)]
  <2>1. added = [i \in DOMAIN ias |-> Answer(ias[i], live[i], live[i], status)]
    OBVIOUS
  <2>2. response' = [response EXCEPT !.answers = @ \o added]
    BY <1>3 DEF AnswerAll, Respond
  <2> HIDE DEF live, added
  <2>3. Sequence(added) /\ \A a \in SetOf(added) : a.kind \in Kinds
    BY <1>3, <2>1, AnswersKinds
  <2>4. Adds(added)
    BY <2>2, AddsAnswers
  <2> QED
    BY <1>1, <2>3, <2>4 DEF AnswersFacts
<1>4. ASSUME NEW ias, Sequence(ias), SetOf(ias) \subseteq SetOf(request.ias), WithdrawAll(ias)
      PROVE  AnswersFacts
  <2> DEFINE live == [i \in DOMAIN ias |-> {}]
             dead == [i \in DOMAIN ias |-> ias[i].addrs]
             added == [i \in DOMAIN ias |-> Answer(ias[i], {}, ias[i].addrs, "none")]
  <2>1. added = [i \in DOMAIN ias |-> Answer(ias[i], live[i], dead[i], "none")]
    OBVIOUS
  <2>2. response' = [response EXCEPT !.answers = @ \o added]
    BY <1>4 DEF WithdrawAll, Respond
  <2> HIDE DEF live, dead, added
  <2>3. Sequence(added) /\ \A a \in SetOf(added) : a.kind \in Kinds
    BY <1>4, <2>1, AnswersKinds
  <2>4. Adds(added)
    BY <2>2, AddsAnswers
  <2> QED
    BY <1>1, <2>3, <2>4 DEF AnswersFacts
<1>5. ASSUME NEW ias, request.type = "Confirm", ForceStatus(ias) PROVE AnswersFacts
  <2> DEFINE x == IF ias # <<>> THEN "NotOnLink" ELSE response.status
  <2>1. response' = [response EXCEPT !.status = x]
    BY <1>5 DEF ForceStatus
  <2> HIDE DEF x
  <2>2. SetsStatus
    BY <1>5, <2>1, SetStatus DEF SetsStatus
  <2>3. request.type # "Solicit"
    BY <1>5
  <2> QED
    BY <1>1, <2>2, <2>3 DEF AnswersFacts
<1>6. ASSUME UNCHANGED response PROVE AnswersFacts
  BY <1>1, <1>6 DEF AnswersFacts
<1>7. CASE UnansweredIAHandle
  <2> DEFINE ias == Unhandled(Addressed)
  <2>1. \/ AnswerAll(ias, "NoAddrsAvail") \/ WithdrawAll(ias) \/ AnswerAll(ias, "NoBinding")
        \/ request.type = "Confirm" /\ ForceStatus(ias)
        \/ UNCHANGED response
    BY <1>7 DEF UnansweredIAHandle
  <2>2. Sequence(ias) /\ SetOf(ias) \subseteq SetOf(request.ias)
    BY <1>2
  <2> HIDE DEF ias
  <2> QED
    BY <1>3, <1>4, <1>5, <1>6, <2>1, <2>2
<1>8. CASE UnansweredIAPDHandle
  <2> DEFINE ias == Unhandled({"pd"})
  <2>1. \/ AnswerAll(ias, "NoPrefixAvail") \/ WithdrawAll(ias) \/ AnswerAll(ias, "NoBinding")
        \/ UNCHANGED response
    BY <1>8 DEF UnansweredIAPDHandle
  <2>2. Sequence(ias) /\ SetOf(ias) \subseteq SetOf(request.ias)
    BY <1>2
  <2> HIDE DEF ias
  <2> QED
    BY <1>3, <1>4, <1>6, <2>1, <2>2
<1> QED
  BY <1>7, <1>8

LEMMA MissingStatusFacts ==
    ASSUME ResponseInv, AddMissingStatusHandle
    PROVE  AnswersFacts
<1>1. /\ stage = "handle" /\ Onward
      /\ UNCHANGED <<request, allowUnicast, more, handled, answered, counters, leased>>
  BY DEF AddMissingStatusHandle, At
<1> DEFINE x == IF request.type \in {"Confirm", "Release", "Decline"} /\ response.status = "none"
                THEN "Success" ELSE response.status
<1>2. response' = [response EXCEPT !.status = x]
  BY DEF AddMissingStatusHandle
<1>3. response' = ResponseOf(response.type, response.answers, x, response.rapid)
  <2> HIDE DEF x
  <2> QED
    BY <1>2, SetStatus
<1>4. CASE request.type \in {"Confirm", "Release", "Decline"}
  <2> HIDE DEF x
  <2>1. SetsStatus
    BY <1>3, <1>4 DEF SetsStatus
  <2>2. request.type # "Solicit" /\ handled' \subseteq handled \cup SetOf(request.ias)
    BY <1>1, <1>4
  <2> QED
    BY <1>1, <2>1, <2>2 DEF AnswersFacts
<1>5. CASE request.type \notin {"Confirm", "Release", "Decline"}
  <2>1. x = response.status
    BY <1>5
  <2>2. UNCHANGED response
    BY <1>3, <2>1 DEF ResponseInv
  <2> QED
    BY <1>1, <2>2 DEF AnswersFacts
<1> QED
  BY <1>4, <1>5

LEMMA AnswersEffect ==
    ASSUME RequestOK, ResponseInv, Answers
    PROVE  AnswersFacts
BY StaticFacts, CleanUpFacts, MissingStatusFacts DEF Answers

-----------------------------------------------------------------------------
(* Types                                                                   *)

LEMMA ChainFacts ==
    /\ Len(Chain) \in Nat /\ Len(Chain) >= 1 /\ DOMAIN Chain = 1..Len(Chain)
    /\ \A i \in 1..Len(Chain) : Chain[i].name = "RapidCommit" => AllowRapidCommit
<1> DEFINE first == IF AllowRapidCommit THEN <<Handler("RapidCommit")>> ELSE <<>>
           second == <<Handler("ServerId"), Handler("RequireBulkOverTCP"),
                       Handler("RefuseBulkOverUDP")>>
           last == <<Handler("RejectUnwantedUnicast"), Handler("UnansweredIA"),
                     Handler("UnansweredLeasequery"), Handler("UnansweredIAPD"),
                     Handler("AddMissingStatus")>>
           OK == {h \in SetOf(Chain) : h.name = "RapidCommit" => AllowRapidCommit}
           Fine(s) == \A h \in SetOf(s) : h.name = "RapidCommit" => AllowRapidCommit
<1>1. Chain = ((first \o second) \o Selected) \o last
  BY DEF Chain
<1>2. Sequence(first) /\ Fine(first)
  <2>1. CASE AllowRapidCommit
    <3> DEFINE e == Handler("RapidCommit")
    <3>1. first = <<e>>
      BY <2>1
    <3> HIDE DEF e, first
    <3>2. <<e>> \in Seq({e})
      OBVIOUS
    <3> QED
      BY <2>1, <3>1, <3>2, SequenceType
  <2>2. CASE ~AllowRapidCommit
    <3>1. first = <<>>
      BY <2>2
    <3> QED
      BY <3>1, EmptySequence
  <2> QED
    BY <2>1, <2>2
<1>3. Sequence(second) /\ Fine(second)
  <2> DEFINE S == {Handler("ServerId"), Handler("RequireBulkOverTCP"),
                   Handler("RefuseBulkOverUDP")}
  <2>1. second \in Seq(S) /\ \A h \in S : h.name # "RapidCommit"
    BY DEF Handler
  <2> HIDE DEF second, S
  <2> QED
    BY <2>1, SequenceType
<1>4. Sequence(last) /\ Fine(last) /\ Len(last) = 5
  <2> DEFINE S == {Handler("RejectUnwantedUnicast"), Handler("UnansweredIA"),
                   Handler("UnansweredLeasequery"), Handler("UnansweredIAPD"),
                   Handler("AddMissingStatus")}
  <2>1. last \in Seq(S) /\ Len(last) = 5 /\ \A h \in S : h.name # "RapidCommit"
    BY DEF Handler
  <2> HIDE DEF last, S
  <2> QED
    BY <2>1, SequenceType
<1>5. Sequence(Selected) /\ Fine(Selected)
  <2>1. Sequence(Configured) /\ \A h \in SetOf(Configured) : h.name # "RapidCommit"
    BY HandlingAssumption DEF Sequence
  <2>2. Sequence(Selected) /\ SetOf(Selected) \subseteq SetOf(Configured)
    BY <2>1, ThoseSet DEF Selected
  <2> QED
    BY <2>1, <2>2
<1> HIDE DEF first, second, last
<1>6. Sequence(first \o second) /\ Fine(first \o second)
  BY <1>2, <1>3, ConcatSet
<1> DEFINE front == first \o second
<1> HIDE DEF front
<1>7. Sequence(front \o Selected) /\ Fine(front \o Selected)
  BY <1>5, <1>6, ConcatSet DEF front
<1> DEFINE most == front \o Selected
<1> HIDE DEF most
<1>8. Sequence(most \o last) /\ Fine(most \o last)
  BY <1>4, <1>7, ConcatSet DEF most
<1>9. Chain = most \o last
  BY <1>1 DEF most, front
<1>10. Len(most \o last) = Len(most) + Len(last) /\ Len(most) \in Nat
  <2> DEFINE S == SetOf(most) \cup SetOf(last)
  <2>1. most \in Seq(SetOf(most)) /\ last \in Seq(SetOf(last))
    BY <1>4, <1>7 DEF Sequence, most
  <2>2. most \in Seq(S) /\ last \in Seq(S)
    BY <2>1
  <2> HIDE DEF S
  <2> QED
    BY ONLY <2>2, ConcatProperties, LenProperties
<1>11. Sequence(Chain) /\ Fine(Chain) /\ Len(Chain) \in Nat /\ Len(Chain) >= 1
  BY <1>4, <1>8, <1>9, <1>10
<1>12. DOMAIN Chain = 1..Len(Chain)
  BY <1>11, SequenceType DEF Sequence
<1> QED
  BY <1>11, <1>12 DEF SetOf

LEMMA Counting ==
    ASSUME counters \in [Counters -> Nat], NEW names, Count(names)
    PROVE  /\ counters' \in [Counters -> Nat]
           /\ \A x \in Counters : counters'[x] = counters[x] + IF x \in names THEN 1 ELSE 0
BY DEF Count

TypeInv ==
    /\ ResponseInv /\ request \in Requests /\ pos \in 1..Len(Chain)
    /\ allowUnicast \in BOOLEAN /\ answered \in BOOLEAN /\ more \in 0..2
    /\ handled \subseteq SetOf(request.ias)
    /\ Sequence(response.answers)
    /\ \A a \in SetOf(response.answers) : a.kind \in Kinds
    /\ counters \in [Counters -> Nat]

(* More messages are left only for the answer to a leasequery, which tells *)
(* of no error; there are none before the phase handle().                  *)
MoreInv ==
    /\ more > 0 => answered /\ request.type = "Leasequery" /\ response.status = "none"
    /\ stage \in {"pre", "init"} => more = 0
    /\ stage = "more" => more > 0
    /\ stage = "handle" /\ request.type = "Leasequery" => response.status = "none"

LEMMA RequestFits ==
    ASSUME request \in Requests
    PROVE  RequestOK
BY HandlingAssumption DEF RequestOK, Sequence

LEMMA UnicastStep ==
    ASSUME allowUnicast \in BOOLEAN, [Next]_vars
    PROVE  allowUnicast' \in BOOLEAN
<1> USE DEF bundle
<1>1. Receive \/ ReceiveUnparsable \/ ReceiveNoRequest => allowUnicast' \in BOOLEAN
  BY DEF Receive, ReceiveUnparsable, ReceiveNoRequest
<1>2. ServerIdPre \/ RequireBulkOverTCPPre \/ RefuseBulkOverUDPPre \/ IgnorePre
        \/ RateLimitPre \/ ServerUnicastPre => allowUnicast' \in BOOLEAN
  BY DEF ServerIdPre, RequireBulkOverTCPPre, RefuseBulkOverUDPPre, IgnorePre, RateLimitPre,
         ServerUnicastPre
<1>3. LeasequeryPre \/ RejectUnwantedUnicastPre \/ NotOverridden \/ InitResponse
        => allowUnicast' \in BOOLEAN
  BY DEF LeasequeryPre, RejectUnwantedUnicastPre, NotOverridden, InitResponse
<1>4. StaticHandle \/ LeasequeryHandle \/ UnansweredIAHandle \/ UnansweredIAPDHandle
        \/ AddMissingStatusHandle => allowUnicast' \in BOOLEAN
  BY DEF StaticHandle, LeasequeryHandle, UnansweredIAHandle, UnansweredIAPDHandle,
         AddMissingStatusHandle
<1>5. RapidCommitPost \/ UnansweredLeasequeryPost => allowUnicast' \in BOOLEAN
  BY DEF RapidCommitPost, UnansweredLeasequeryPost
<1>6. AnalysePost \/ SendFirst \/ SendMore => allowUnicast' \in BOOLEAN
  BY DEF AnalysePost, SendFirst, SendMore
<1>7. UNCHANGED vars => allowUnicast' \in BOOLEAN
  BY DEF vars
<1> QED
  BY <1>1, <1>2, <1>3, <1>4, <1>5, <1>6, <1>7 DEF Next

(* The handlers' answers fit the invariant.                                *)
LEMMA AnswersType ==
    ASSUME TypeInv, Answers
    PROVE  /\ AnswersFacts
           /\ response' = ResponseOf(response'.type, response'.answers, response'.status,
                                     response'.rapid)
           /\ response'.type = response.type /\ response'.rapid = response.rapid
           /\ response'.status = response.status \/ request.type \in {"Confirm", "Release", "Decline"}
           /\ Sequence(response'.answers)
           /\ \A a \in SetOf(response'.answers) : a.kind \in Kinds
           /\ SetOf(response.answers) \subseteq SetOf(response'.answers)
           /\ handled' \subseteq SetOf(request.ias)
           /\ request.type = "Solicit" =>
                \A ia \in handled' \ handled : GrantedIn(ia, response'.answers)
<1>1. AnswersFacts
  BY AnswersEffect, RequestFits DEF TypeInv
<1>2. ASSUME NEW added, Adds(added), Sequence(added), \A a \in SetOf(added) : a.kind \in Kinds
      PROVE  /\ response'.type = response.type /\ response'.rapid = response.rapid
             /\ response'.status = response.status
             /\ response'.answers = response.answers \o added
             /\ Sequence(response'.answers)
             /\ SetOf(response'.answers) = SetOf(response.answers) \cup SetOf(added)
  <2>1. /\ response'.type = response.type /\ response'.rapid = response.rapid
        /\ response'.status = response.status
        /\ response'.answers = response.answers \o added
    <3> DEFINE t == response.type
               a == response.answers \o added
               s == response.status
               c == response.rapid
    <3>1. response' = ResponseOf(t, a, s, c)
      BY <1>2 DEF Adds
    <3> HIDE DEF t, a, s, c
    <3>2. response'.type = t /\ response'.answers = a /\ response'.status = s
          /\ response'.rapid = c
      BY ONLY <3>1, ReplacedField
    <3> QED
      BY <3>2 DEF t, a, s, c
  <2>2. /\ Sequence(response.answers \o added)
        /\ SetOf(response.answers \o added) = SetOf(response.answers) \cup SetOf(added)
    <3> DEFINE a == response.answers
    <3>1. Sequence(a)
      BY DEF TypeInv
    <3> HIDE DEF a
    <3>2. Sequence(a \o added) /\ SetOf(a \o added) = SetOf(a) \cup SetOf(added)
      BY ONLY <1>2, <3>1, ConcatSet
    <3> QED
      BY <3>2 DEF a
  <2> QED
    BY <2>1, <2>2
<1>3. ASSUME SetsStatus
      PROVE  /\ response'.type = response.type /\ response'.rapid = response.rapid
             /\ response'.answers = response.answers
             /\ request.type \in {"Confirm", "Release", "Decline"}
             /\ \E s : response' = ResponseOf(response.type, response.answers, s, response.rapid)
  BY <1>3, ReplacedField DEF SetsStatus
<1>4. CASE \E added :
             /\ Adds(added) /\ Sequence(added) /\ \A a \in SetOf(added) : a.kind \in Kinds
             /\ handled \subseteq handled' /\ handled' \subseteq handled \cup SetOf(request.ias)
             /\ request.type = "Solicit" => \A ia \in handled' \ handled : GrantedIn(ia, added)
  <2>1. PICK added :
             /\ Adds(added) /\ Sequence(added) /\ \A a \in SetOf(added) : a.kind \in Kinds
             /\ handled \subseteq handled' /\ handled' \subseteq handled \cup SetOf(request.ias)
             /\ request.type = "Solicit" => \A ia \in handled' \ handled : GrantedIn(ia, added)
    BY <1>4
  <2>2. /\ response'.type = response.type /\ response'.rapid = response.rapid
        /\ response'.status = response.status
        /\ response'.answers = response.answers \o added
        /\ Sequence(response'.answers)
        /\ SetOf(response'.answers) = SetOf(response.answers) \cup SetOf(added)
    BY <1>2, <2>1
  <2>3. response' = ResponseOf(response'.type, response'.answers, response'.status, response'.rapid)
    BY <2>1, <2>2 DEF Adds
  <2>4. handled' \subseteq SetOf(request.ias)
    BY <2>1 DEF TypeInv
  <2>5. \A a \in SetOf(response'.answers) : a.kind \in Kinds
    BY <2>1, <2>2 DEF TypeInv
  <2>6. request.type = "Solicit" => \A ia \in handled' \ handled : GrantedIn(ia, response'.answers)
    BY <2>1, <2>2 DEF GrantedIn
  <2> QED
    BY <1>1, <2>2, <2>3, <2>4, <2>5, <2>6
<1>5. CASE /\ UNCHANGED response \/ SetsStatus
           /\ request.type # "Solicit"
           /\ handled' \subseteq handled \cup SetOf(request.ias)
  <2>1. handled' \subseteq SetOf(request.ias)
    BY <1>5 DEF TypeInv
  <2>2. CASE UNCHANGED response
    BY <1>1, <1>5, <2>1, <2>2 DEF TypeInv, ResponseInv
  <2>3. CASE SetsStatus
    <3>1. response' = ResponseOf(response'.type, response'.answers, response'.status, response'.rapid)
      <4>1. PICK s : response' = ResponseOf(response.type, response.answers, s, response.rapid)
        BY <1>3, <2>3
      <4>2. response'.status = s
        BY <4>1, ReplacedField
      <4> QED
        BY <1>3, <2>3, <4>1, <4>2
    <3> QED
      BY <1>1, <1>3, <1>5, <2>1, <2>3, <3>1 DEF TypeInv
  <2> QED
    BY <1>5, <2>2, <2>3
<1>6. CASE UNCHANGED <<response, handled>>
  BY <1>1, <1>6 DEF TypeInv, ResponseInv
<1> QED
  BY <1>1, <1>4, <1>5, <1>6 DEF AnswersFacts

CommitsRapidly ==
    /\ response'.type = "Reply" /\ response'.rapid = TRUE
    /\ response'.status = response.status /\ response'.answers = response.answers
    /\ response' = ResponseOf(response'.type, response'.answers, response'.status,
                              response'.rapid)

LEMMA Commits ==
    ASSUME ResponseInv, response' = [response EXCEPT !.type = "Reply", !.rapid = TRUE]
    PROVE  CommitsRapidly
<1> DEFINE r == response
           t == response.type
           a == response.answers
           s == response.status
           c == response.rapid
           x == "Reply"
           y == TRUE
<1>1. r = ResponseOf(t, a, s, c)
  BY DEF ResponseInv
<1>2. response' = [r EXCEPT !.type = x, !.rapid = y]
  OBVIOUS
<1> HIDE DEF r, t, a, s, c, x, y
<1>3. [r EXCEPT !.type = x, !.rapid = y] = ResponseOf(x, a, s, y)
  <2> DEFINE u == [r EXCEPT !.type = x]
  <2>1. u = ResponseOf(x, a, s, c)
    BY ONLY <1>1, ReplacedField
  <2> HIDE DEF u
  <2>2. [u EXCEPT !.rapid = y] = ResponseOf(x, a, s, y)
    BY ONLY <2>1, ReplacedField
  <2> QED
    BY <2>2 DEF u
<1> DEFINE q == response'
<1>4. q = ResponseOf(x, a, s, y)
  BY <1>2, <1>3
<1> HIDE DEF q
<1>5. q.type = x /\ q.answers = a /\ q.status = s /\ q.rapid = y
  BY ONLY <1>4, ReplacedField
<1> QED
  BY <1>4, <1>5, Zenon DEF CommitsRapidly, q, x, y, a, s

ChainIsLong == Len(Chain) \in Nat /\ Len(Chain) >= 1

LEMMA ChainStaysLong == ChainIsLong'
<1>1. ChainIsLong
  BY ChainFacts DEF ChainIsLong
<1> QED
  BY <1>1, PTL

LEMMA PositionStep ==
    ASSUME pos \in 1..Len(Chain),
           \/ pos' = 1
           \/ UNCHANGED <<request, pos>>
           \/ UNCHANGED request /\ stage \in {"pre", "handle", "post"} /\ Onward
    PROVE  pos' \in 1..Len(Chain)'
<1>1. CASE pos' = 1
  BY <1>1, ChainStaysLong DEF ChainIsLong
<1>2. ASSUME UNCHANGED request PROVE Len(Chain)' = Len(Chain)
  BY <1>2 DEF Chain, Selected
<1>3. CASE UNCHANGED <<request, pos>>
  BY <1>2, <1>3
<1>4. CASE UNCHANGED request /\ pos' = pos + 1 /\ pos # Len(Chain)
  BY <1>2, <1>4, ChainFacts
<1> QED
  BY <1>1, <1>3, <1>4, Phases

(* A response with no answers.                                             *)
LEMMA EmptyAnswers ==
    ASSUME NEW type \in {"none", "Advertise", "Reply", "LeasequeryReply"}, NEW status,
           response' = ResponseOf(type, <<>>, status, FALSE)
    PROVE  /\ response'.type = type /\ response'.status = status /\ response'.rapid = FALSE
           /\ response' = ResponseOf(response'.type, response'.answers, response'.status,
                                     response'.rapid)
           /\ Sequence(response'.answers) /\ SetOf(response'.answers) = {}
<1>1. /\ response'.type = type /\ response'.status = status /\ response'.rapid = FALSE
      /\ response'.answers = <<>>
  <2> DEFINE a == <<>>
             c == FALSE
  <2>1. response' = ResponseOf(type, a, status, c)
    OBVIOUS
  <2> HIDE DEF a, c
  <2>2. response'.type = type /\ response'.answers = a /\ response'.status = status
        /\ response'.rapid = c
    BY ONLY <2>1, ReplacedField
  <2> QED
    BY <2>2, Zenon DEF a, c
<1>2. response' = ResponseOf(response'.type, response'.answers, response'.status, response'.rapid)
  BY <1>1, Zenon
<1> QED
  BY <1>1, <1>2, EmptySequence, Zenon

LEMMA TypeStep ==
    ASSUME TypeInv, MoreInv, [Next]_vars
    PROVE  TypeInv'
<1> DEFINE Rest == /\ request' \in Requests /\ pos' \in 1..Len(Chain)'
                   /\ answered' \in BOOLEAN /\ more' \in 0..2
                   /\ handled' \subseteq SetOf(request'.ias)
                   /\ counters' \in [Counters -> Nat]
           Response == /\ ResponseInv' /\ Sequence(response'.answers)
                       /\ \A a \in SetOf(response'.answers) : a.kind \in Kinds
<1>1. allowUnicast' \in BOOLEAN
  BY UnicastStep DEF TypeInv
<1>2. SUFFICES Rest /\ Response
  BY <1>1 DEF TypeInv
<1>3. ASSUME NEW names, Count(names) PROVE counters' \in [Counters -> Nat]
  BY <1>3, Counting DEF TypeInv
<1>4. ASSUME UNCHANGED response, stage' \in {"handle", "post"} => response.type # "none",
             stage' \in {"idle", "pre", "init", "handle", "post", "analyse", "send", "more"}
      PROVE  Response
  BY <1>4 DEF TypeInv, ResponseInv
<1>5. ASSUME NEW type \in {"none", "Advertise", "Reply", "LeasequeryReply"}, NEW status,
             response' = ResponseOf(type, <<>>, status, FALSE),
             stage' \in {"handle", "post"} => type # "none",
             stage' \in {"idle", "pre", "init", "handle", "post", "analyse", "send", "more"}
      PROVE  Response
  <2>1. /\ response'.type = type
        /\ response' = ResponseOf(response'.type, response'.answers, response'.status,
                                  response'.rapid)
        /\ Sequence(response'.answers) /\ SetOf(response'.answers) = {}
    BY <1>5, EmptyAnswers
  <2> QED
    BY <1>5, <2>1 DEF ResponseInv
<1> HIDE DEF Response
<1>10. CASE Receive
  <2>1. /\ request' \in Requests /\ pos' = 1 /\ answered' \in BOOLEAN /\ more' = 0
        /\ handled' = {}
    BY <1>10 DEF Receive
  <2>2. pos' \in 1..Len(Chain)'
    BY <2>1, PositionStep DEF TypeInv
  <2>3. counters' \in [Counters -> Nat]
    BY <1>10, <1>3 DEF Receive
  <2>4. Rest
    BY <2>1, <2>2, <2>3
  <2>5. response' = ResponseOf("none", <<>>, "none", FALSE) /\ stage' = "pre"
    BY <1>10, EmptyResponse DEF Receive
  <2> QED
    BY <1>5, <2>4, <2>5
<1>11. CASE ReceiveUnparsable \/ ReceiveNoRequest
  <2>1. UNCHANGED <<stage, pos, request, response, more, handled, answered>>
    BY <1>11 DEF ReceiveUnparsable, ReceiveNoRequest, bundle
  <2>2. counters' \in [Counters -> Nat]
    BY <1>11, <1>3 DEF ReceiveUnparsable, ReceiveNoRequest
  <2>3. Rest
    BY <2>1, <2>2, PositionStep DEF TypeInv
  <2> QED
    BY <1>4, <2>1, <2>3 DEF TypeInv, ResponseInv
<1>12. CASE Passes
  <2>1. Rest
    BY <1>12, PositionStep DEF TypeInv, Passes
  <2>2. UNCHANGED response /\ stage' \in {"pre", "init", "handle", "post", "analyse"}
        /\ (stage' \in {"handle", "post"} => stage \in {"handle", "post"})
    BY <1>12, Phases DEF Passes
  <2> QED
    BY <1>4, <2>1, <2>2 DEF TypeInv, ResponseInv
<1>13. CASE Ignores
  <2>1. Rest
    BY <1>13, <1>3, PositionStep DEF TypeInv, Ignores, Ignore
  <2>2. response' = ResponseOf("none", <<>>, "none", FALSE) /\ stage' = "analyse"
    BY <1>13, EmptyResponse DEF Ignores, Ignore
  <2> QED
    BY <1>5, <2>1, <2>2
<1>14. CASE Refuses
  <2>1. Rest
    BY <1>14, <1>3, PositionStep DEF TypeInv, Refuses, ReplyWithStatus
  <2>2. PICK type \in {"Reply", "LeasequeryReply"}, status \in ErrorStatuses :
           response' = ResponseOf(type, <<>>, status, FALSE) /\ stage' = "analyse"
    BY <1>14, EmptyResponse DEF Refuses, ReplyWithStatus
  <2> QED
    BY <1>5, <2>1, <2>2
<1>15. CASE Breaks
  <2>1. Rest
    BY <1>15, <1>3, PositionStep DEF TypeInv, Breaks, HandlingError
  <2> QED
    BY <1>15, <1>4, <2>1 DEF Breaks, HandlingError
<1>16. CASE Begins
  <2>1. Rest
    BY <1>16, PositionStep DEF TypeInv, Begins
  <2>2. ResponseType \in {"Advertise", "Reply", "LeasequeryReply"}
    BY <1>16 DEF Begins, ResponseType
  <2> DEFINE t == ResponseType
  <2>3. response' = ResponseOf(t, <<>>, "none", FALSE) /\ stage' = "handle"
    BY <1>16, EmptyResponse DEF Begins
  <2> HIDE DEF t
  <2>4. t \in {"none", "Advertise", "Reply", "LeasequeryReply"} /\ t # "none"
    BY <2>2 DEF t
  <2> QED
    BY <1>5, <2>1, <2>3, <2>4
<1>17. CASE StartsData
  <2>1. Rest
    BY <1>17, PositionStep DEF TypeInv, StartsData
  <2>2. stage' \in {"handle", "post"} /\ stage = "handle" /\ UNCHANGED response
    BY <1>17, Phases DEF StartsData
  <2> QED
    BY <1>4, <2>1, <2>2 DEF TypeInv, ResponseInv
<1>18. CASE Answers
  <2>1. /\ AnswersFacts /\ handled' \subseteq SetOf(request.ias)
        /\ response' = ResponseOf(response'.type, response'.answers, response'.status,
                                  response'.rapid)
        /\ response'.type = response.type /\ Sequence(response'.answers)
        /\ \A a \in SetOf(response'.answers) : a.kind \in Kinds
    BY <1>18, AnswersType
  <2>2. /\ stage = "handle" /\ Onward
        /\ UNCHANGED <<request, allowUnicast, more, answered, counters, leased>>
    BY <2>1 DEF AnswersFacts
  <2>3. Rest
    BY <2>1, <2>2, PositionStep DEF TypeInv
  <2>4. stage' \in {"handle", "post"}
    BY <2>2, Phases
  <2> QED
    BY <2>1, <2>2, <2>3, <2>4 DEF TypeInv, ResponseInv, Response
<1>19. CASE RapidCommitPost
  <2>1. stage = "post" /\ Onward /\ UNCHANGED <<request, more, handled, answered, counters>>
    BY <1>19 DEF RapidCommitPost, At
  <2>2. Rest
    BY <2>1, PositionStep DEF TypeInv
  <2>3. stage' \in {"post", "analyse"}
    BY <2>1, Phases
  <2>4. CASE UNCHANGED response
    BY <1>4, <2>1, <2>2, <2>3, <2>4 DEF TypeInv, ResponseInv
  <2>5. CASE response' = [response EXCEPT !.type = "Reply", !.rapid = TRUE]
    <3>1. CommitsRapidly
      BY <2>5, Commits DEF TypeInv
    <3> QED
      BY <2>2, <2>3, <3>1 DEF CommitsRapidly, Response, ResponseInv, TypeInv
  <2> QED
    BY <1>19, <2>4, <2>5 DEF RapidCommitPost
<1>20. CASE AnalysePost
  <2>1. /\ UNCHANGED <<request, response, more, handled, answered>>
        /\ pos' = 1 /\ stage' \in {"send", "idle"}
    BY <1>20 DEF AnalysePost, bundle
  <2>2. counters' \in [Counters -> Nat]
    BY <1>20, <1>3 DEF AnalysePost, CountOut, TypeInv
  <2>3. Rest
    BY <2>1, <2>2, PositionStep DEF TypeInv
  <2> QED
    BY <1>4, <2>1, <2>3
<1>21. CASE SendFirst
  <2>1. /\ UNCHANGED <<request, response, more, handled, answered, pos>>
        /\ stage' \in {"more", "idle"}
    BY <1>21 DEF SendFirst, bundle
  <2>2. counters' \in [Counters -> Nat]
    BY <1>21, <1>3 DEF SendFirst
  <2>3. Rest
    BY <2>1, <2>2, PositionStep DEF TypeInv
  <2> QED
    BY <1>4, <2>1, <2>3
<1>22. CASE SendsNext
  <2>1. more > 0 /\ more' \in 0..2
    BY <1>22 DEF SendsNext, MoreInv, TypeInv
  <2>2. counters' \in [Counters -> Nat]
    BY <1>22, <1>3 DEF SendsNext
  <2>3. Rest
    BY <1>22, <2>1, <2>2, PositionStep DEF TypeInv, SendsNext
  <2>4. stage' \in {"more", "idle"} /\ UNCHANGED response
    BY <1>22 DEF SendsNext
  <2> QED
    BY <1>4, <2>3, <2>4
<1>23. CASE UNCHANGED vars
  BY <1>23 DEF vars, bundle, TypeInv, ResponseInv, Response, Chain, Selected
<1> QED
  BY <1>10, <1>11, <1>12, <1>13, <1>14, <1>15, <1>16, <1>17, <1>18, <1>19, <1>20, <1>21, <1>22,
     <1>23, Groups

LEMMA MoreStep ==
    ASSUME TypeInv, MoreInv, [Next]_vars
    PROVE  MoreInv'
<1>1. CASE Receive
  BY <1>1 DEF Receive, MoreInv
<1>2. CASE ReceiveUnparsable \/ ReceiveNoRequest
  BY <1>2 DEF ReceiveUnparsable, ReceiveNoRequest, bundle, MoreInv
<1>3. CASE Passes
  <2>1. /\ stage' \in {"pre", "init", "handle", "post", "analyse"}
        /\ stage' = "handle" => stage = "handle"
        /\ stage' \in {"pre", "init"} => stage = "pre"
    BY <1>3, Phases DEF Passes
  <2>2. answered => answered'
    BY <1>3 DEF Passes
  <2> QED
    BY <1>3, <2>1, <2>2 DEF Passes, MoreInv
<1>4. CASE Ignores
  BY <1>4 DEF Ignores, Ignore, MoreInv
<1>5. CASE Refuses
  <2>1. stage = "pre" \/ ~answered
    BY <1>5 DEF Refuses
  <2>2. more = 0
    <3>1. more \in 0..2 /\ ~(more > 0)
      BY <2>1 DEF MoreInv, TypeInv
    <3> QED
      BY <3>1
  <2> QED
    BY <1>5, <2>2 DEF Refuses, ReplyWithStatus, MoreInv
<1>6. CASE Breaks
  BY <1>6 DEF Breaks, HandlingError, MoreInv
<1>7. CASE Begins
  <2>1. more' = 0 /\ stage' = "handle"
    BY <1>7 DEF Begins, MoreInv
  <2> DEFINE t == ResponseType
  <2>2. t \in {"none", "Advertise", "Reply", "LeasequeryReply"}
    BY DEF ResponseType
  <2>3. response' = ResponseOf(t, <<>>, "none", FALSE)
    BY <1>7, EmptyResponse DEF Begins
  <2> HIDE DEF t
  <2>4. response'.status = "none"
    BY <2>2, <2>3, EmptyAnswers
  <2> QED
    BY <2>1, <2>4 DEF MoreInv
<1>8. CASE StartsData
  <2>1. stage' \in {"handle", "post"}
    BY <1>8, Phases DEF StartsData
  <2> QED
    BY <1>8, <2>1 DEF StartsData, MoreInv
<1>9. CASE Answers
  <2>1. /\ AnswersFacts
        /\ response'.status = response.status \/ request.type \in {"Confirm", "Release", "Decline"}
    BY <1>9, AnswersType
  <2>2. stage = "handle" /\ Onward /\ UNCHANGED <<request, more, answered>>
    BY <2>1 DEF AnswersFacts
  <2>3. stage' \in {"handle", "post"}
    BY <2>2, Phases
  <2> QED
    BY <2>1, <2>2, <2>3 DEF MoreInv
<1>10. CASE RapidCommitPost
  <2>1. stage = "post" /\ Onward /\ UNCHANGED <<request, more, answered>>
    BY <1>10 DEF RapidCommitPost, At
  <2>2. stage' \in {"post", "analyse"}
    BY <2>1, Phases
  <2>3. response'.status = response.status
    <3>1. ResponseInv
      BY DEF TypeInv
    <3> QED
      BY <1>10, <3>1, Commits DEF RapidCommitPost, CommitsRapidly
  <2> QED
    BY <2>1, <2>2, <2>3 DEF MoreInv
<1>11. CASE AnalysePost
  BY <1>11 DEF AnalysePost, bundle, MoreInv
<1>12. CASE SendFirst
  BY <1>12 DEF SendFirst, bundle, MoreInv
<1>13. CASE SendsNext
  BY <1>13 DEF SendsNext, MoreInv, TypeInv
<1>14. CASE UNCHANGED vars
  BY <1>14 DEF vars, bundle, MoreInv
<1> QED
  BY <1>1, <1>2, <1>3, <1>4, <1>5, <1>6, <1>7, <1>8, <1>9, <1>10, <1>11, <1>12, <1>13, <1>14,
     Groups

-----------------------------------------------------------------------------
(* What the counters say                                                   *)

(* Messages not explained yet; at rest only those whose handling broke.    *)
Open == counters["message_in"] - counters["message_out"]
          - counters["for_other_server"] - counters["do_not_respond"]

Told == counters["use_multicast"] + counters["unknown_query_type"]
          + counters["not_allowed"] + counters["other_error"]

(* The message at hand is counted as it came in, and not yet as it goes.   *)
WillSend == stage = "analyse" /\ response.type # "none"
InProgress == stage \in {"pre", "init", "handle", "post"} \/ WillSend

CountInv ==
    /\ counters["unparsable_packet"] + counters["message_in"] <= counters["incoming_packet"]
    /\ InProgress => 1 <= Open /\ Open <= counters["handling_error"] + 1
    /\ ~InProgress => 0 <= Open /\ Open <= counters["handling_error"]
    /\ Told <= counters["message_out"] + IF WillSend THEN 1 ELSE 0

(* How the counters that matter for this move.                             *)
Moves(in, out, ignored, told, broke) ==
    /\ Open' = Open + in - out - ignored
    /\ Told' = Told + told
    /\ counters'["message_out"] = counters["message_out"] + out
    /\ counters'["handling_error"] = counters["handling_error"] + broke
    /\ counters["unparsable_packet"] + counters["message_in"] <= counters["incoming_packet"]
         => counters'["unparsable_packet"] + counters'["message_in"]
              <= counters'["incoming_packet"]

LEMMA Totals ==
    ASSUME counters \in [Counters -> Nat]
    PROVE  /\ Open \in Int /\ Told \in Nat
           /\ counters["message_out"] \in Nat /\ counters["handling_error"] \in Nat
<1>1. /\ counters["message_in"] \in Nat /\ counters["message_out"] \in Nat
      /\ counters["for_other_server"] \in Nat /\ counters["do_not_respond"] \in Nat
      /\ counters["use_multicast"] \in Nat /\ counters["unknown_query_type"] \in Nat
      /\ counters["not_allowed"] \in Nat /\ counters["other_error"] \in Nat
      /\ counters["handling_error"] \in Nat
  BY DEF Counters
<1> QED
  BY <1>1 DEF Open, Told

LEMMA CounterMoves ==
    ASSUME counters \in [Counters -> Nat]
    PROVE  /\ Count({"incoming_packet", "message_in"}) => Moves(1, 0, 0, 0, 0)
           /\ Count({"incoming_packet", "unparsable_packet"}) => Moves(0, 0, 0, 0, 0)
           /\ Count({"incoming_packet"}) => Moves(0, 0, 0, 0, 0)
           /\ Count({"outgoing_packet"}) => Moves(0, 0, 0, 0, 0)
           /\ Count({"outgoing_packet", "handling_error"}) => Moves(0, 0, 0, 0, 1)
           /\ Count({"handling_error"}) => Moves(0, 0, 0, 0, 1)
           /\ Count({"message_out"}) => Moves(0, 1, 0, 0, 0)
           /\ \A c \in {"for_other_server", "do_not_respond"} :
                Count({c}) => Moves(0, 0, 1, 0, 0)
           /\ \A c \in Errors : Count({c}) => Moves(0, 0, 0, 1, 0)
           /\ UNCHANGED counters => Moves(0, 0, 0, 0, 0)
<1> DEFINE Plus(c, names) == counters'[c] = IF c \in names THEN counters[c] + 1 ELSE counters[c]
<1>1. ASSUME NEW names, Count(names)
      PROVE  /\ Plus("incoming_packet", names) /\ Plus("unparsable_packet", names)
             /\ Plus("message_in", names) /\ Plus("message_out", names)
             /\ Plus("for_other_server", names) /\ Plus("do_not_respond", names)
             /\ Plus("handling_error", names) /\ Plus("use_multicast", names)
             /\ Plus("unknown_query_type", names) /\ Plus("not_allowed", names)
             /\ Plus("other_error", names)
  BY <1>1 DEF Count, Counters
<1>2. /\ counters["incoming_packet"] \in Nat /\ counters["unparsable_packet"] \in Nat
      /\ counters["message_in"] \in Nat /\ counters["message_out"] \in Nat
      /\ counters["for_other_server"] \in Nat /\ counters["do_not_respond"] \in Nat
      /\ counters["use_multicast"] \in Nat /\ counters["unknown_query_type"] \in Nat
      /\ counters["not_allowed"] \in Nat /\ counters["other_error"] \in Nat
      /\ counters["handling_error"] \in Nat
  BY DEF Counters
<1>3. Count({"incoming_packet", "message_in"}) => Moves(1, 0, 0, 0, 0)
  BY <1>1, <1>2 DEF Moves, Open, Told
<1>4. Count({"incoming_packet", "unparsable_packet"}) => Moves(0, 0, 0, 0, 0)
  BY <1>1, <1>2 DEF Moves, Open, Told
<1>5. Count({"incoming_packet"}) => Moves(0, 0, 0, 0, 0)
  BY <1>1, <1>2 DEF Moves, Open, Told
<1>6. Count({"outgoing_packet"}) => Moves(0, 0, 0, 0, 0)
  BY <1>1, <1>2 DEF Moves, Open, Told
<1>7. Count({"outgoing_packet", "handling_error"}) => Moves(0, 0, 0, 0, 1)
  BY <1>1, <1>2 DEF Moves, Open, Told
<1>8. Count({"handling_error"}) => Moves(0, 0, 0, 0, 1)
  BY <1>1, <1>2 DEF Moves, Open, Told
<1>9. Count({"message_out"}) => Moves(0, 1, 0, 0, 0)
  BY <1>1, <1>2 DEF Moves, Open, Told
<1>10. Count({"for_other_server"}) => Moves(0, 0, 1, 0, 0)
  BY <1>1, <1>2 DEF Moves, Open, Told
<1>11. Count({"do_not_respond"}) => Moves(0, 0, 1, 0, 0)
  BY <1>1, <1>2 DEF Moves, Open, Told
<1>12. Count({"use_multicast"}) => Moves(0, 0, 0, 1, 0)
  BY <1>1, <1>2 DEF Moves, Open, Told
<1>13. Count({"unknown_query_type"}) => Moves(0, 0, 0, 1, 0)
  BY <1>1, <1>2 DEF Moves, Open, Told
<1>14. Count({"not_allowed"}) => Moves(0, 0, 0, 1, 0)
  BY <1>1, <1>2 DEF Moves, Open, Told
<1>15. Count({"other_error"}) => Moves(0, 0, 0, 1, 0)
  BY <1>1, <1>2 DEF Moves, Open, Told
<1>16. UNCHANGED counters => Moves(0, 0, 0, 0, 0)
  BY <1>2 DEF Moves, Open, Told
<1> QED
  BY <1>3, <1>4, <1>5, <1>6, <1>7, <1>8, <1>9, <1>10, <1>11, <1>12, <1>13, <1>14, <1>15, <1>16
  DEF Errors

LEMMA CountStep ==
    ASSUME TypeInv, CountInv, [Next]_vars
    PROVE  CountInv'
<1>1. /\ counters \in [Counters -> Nat]
      /\ Open \in Int /\ Told \in Nat
      /\ counters["message_out"] \in Nat /\ counters["handling_error"] \in Nat
  BY Totals DEF TypeInv
<1>2. ASSUME Moves(0, 0, 0, 0, 0), InProgress' = InProgress, WillSend => WillSend'
      PROVE  CountInv'
  BY <1>1, <1>2 DEF Moves, CountInv
<1>3. CASE Receive
  <2>1. Moves(1, 0, 0, 0, 0)
    BY <1>1, <1>3, CounterMoves DEF Receive
  <2>2. ~InProgress /\ ~WillSend /\ InProgress' /\ ~WillSend'
    BY <1>3 DEF Receive, InProgress, WillSend
  <2> QED
    BY <1>1, <2>1, <2>2 DEF Moves, CountInv
<1>4. CASE ReceiveUnparsable \/ ReceiveNoRequest
  <2>1. Moves(0, 0, 0, 0, 0)
    BY <1>1, <1>4, CounterMoves DEF ReceiveUnparsable, ReceiveNoRequest
  <2>2. InProgress' = InProgress /\ WillSend' = WillSend
    BY <1>4 DEF ReceiveUnparsable, ReceiveNoRequest, bundle, InProgress, WillSend
  <2> QED
    BY <1>2, <2>1, <2>2
<1>5. ASSUME UNCHANGED counters, stage \in {"pre", "init", "handle", "post"},
             stage' \in {"pre", "init", "handle", "post", "analyse"},
             stage' = "analyse" => response'.type # "none"
      PROVE  CountInv'
  <2>1. Moves(0, 0, 0, 0, 0)
    BY <1>1, <1>5, CounterMoves
  <2>2. InProgress /\ InProgress' /\ ~WillSend
    BY <1>5 DEF InProgress, WillSend
  <2> QED
    BY <1>2, <2>1, <2>2
<1>6. CASE Passes
  <2>1. /\ stage \in {"pre", "handle", "post"}
        /\ stage' \in {"pre", "init", "handle", "post", "analyse"}
        /\ stage' = "analyse" => stage = "post"
    BY <1>6, Phases DEF Passes
  <2> QED
    BY <1>5, <1>6, <2>1 DEF Passes, TypeInv, ResponseInv
<1>7. CASE Ignores
  <2>1. Moves(0, 0, 1, 0, 0) /\ stage' = "analyse"
    BY <1>1, <1>7, CounterMoves DEF Ignores, Ignore
  <2>2. response'.type = "none"
    BY <1>7 DEF Ignores, Ignore, NoResponse
  <2>3. InProgress /\ ~WillSend /\ ~InProgress' /\ ~WillSend'
    BY <1>7, <2>1, <2>2 DEF Ignores, InProgress, WillSend
  <2> QED
    BY <1>1, <2>1, <2>3 DEF Moves, CountInv
<1>8. CASE Refuses
  <2>1. Moves(0, 0, 0, 1, 0) /\ stage' = "analyse"
    BY <1>1, <1>8, CounterMoves DEF Refuses, ReplyWithStatus
  <2>2. PICK type \in {"Reply", "LeasequeryReply"}, status \in ErrorStatuses :
           response' = ResponseOf(type, <<>>, status, FALSE)
    BY <1>8, EmptyResponse DEF Refuses, ReplyWithStatus
  <2>3. response'.type = type
    BY <2>2, EmptyAnswers
  <2>4. InProgress /\ ~WillSend /\ InProgress' /\ WillSend'
    BY <1>8, <2>1, <2>3 DEF Refuses, InProgress, WillSend
  <2> QED
    BY <1>1, <2>1, <2>4 DEF Moves, CountInv
<1>9. CASE Breaks
  <2>1. Moves(0, 0, 0, 0, 1) /\ stage' = "idle"
    BY <1>1, <1>9, CounterMoves DEF Breaks, HandlingError
  <2>2. ~WillSend /\ ~InProgress' /\ ~WillSend'
    BY <1>9, <2>1 DEF Breaks, InProgress, WillSend
  <2> QED
    BY <1>1, <2>1, <2>2 DEF Moves, CountInv
<1>10. CASE Begins
  BY <1>5, <1>10 DEF Begins
<1>11. CASE StartsData
  <2>1. stage' \in {"handle", "post"}
    BY <1>11, Phases DEF StartsData
  <2> QED
    BY <1>5, <1>11, <2>1 DEF StartsData
<1>12. CASE Answers
  <2>1. AnswersFacts
    BY <1>12, AnswersType
  <2>2. stage' \in {"handle", "post"} /\ stage = "handle" /\ UNCHANGED counters
    BY <2>1, Phases DEF AnswersFacts
  <2> QED
    BY <1>5, <2>2
<1>13. CASE RapidCommitPost
  <2>1. stage = "post" /\ Onward /\ UNCHANGED counters
    BY <1>13 DEF RapidCommitPost, At
  <2>2. stage' \in {"post", "analyse"}
    BY <2>1, Phases
  <2>3. response'.type # "none"
    <3>1. ResponseInv /\ response.type # "none"
      BY <2>1 DEF TypeInv, ResponseInv
    <3> QED
      BY <1>13, <3>1, Commits DEF RapidCommitPost, CommitsRapidly
  <2> QED
    BY <1>5, <2>1, <2>2, <2>3
<1>14. CASE AnalysePost
  <2>1. /\ stage = "analyse" /\ UNCHANGED response /\ CountOut
        /\ stage' \in {"send", "idle"}
    BY <1>14 DEF AnalysePost, bundle
  <2>2. ~InProgress' /\ ~WillSend'
    BY <2>1 DEF InProgress, WillSend
  <2>3. CASE response.type # "none"
    <3>1. Moves(0, 1, 0, 0, 0)
      BY <1>1, <2>1, <2>3, CounterMoves DEF CountOut
    <3>2. InProgress /\ WillSend
      BY <2>1, <2>3 DEF InProgress, WillSend
    <3> QED
      BY <1>1, <2>2, <3>1, <3>2 DEF Moves, CountInv
  <2>4. CASE response.type = "none"
    <3>1. Moves(0, 0, 0, 0, 0)
      BY <1>1, <2>1, <2>4, CounterMoves DEF CountOut
    <3>2. ~InProgress /\ ~WillSend
      BY <2>1, <2>4 DEF InProgress, WillSend
    <3> QED
      BY <1>1, <2>2, <3>1, <3>2 DEF Moves, CountInv
  <2> QED
    BY <2>3, <2>4
<1>15. ASSUME stage \in {"send", "more"}, stage' \in {"more", "idle"},
              Moves(0, 0, 0, 0, 0) \/ Moves(0, 0, 0, 0, 1)
       PROVE  CountInv'
  <2>1. ~InProgress /\ ~WillSend /\ ~InProgress' /\ ~WillSend'
    BY <1>15 DEF InProgress, WillSend
  <2> QED
    BY <1>1, <1>15, <2>1 DEF Moves, CountInv
<1>16. CASE SendFirst
  <2>1. Moves(0, 0, 0, 0, 0) \/ Moves(0, 0, 0, 0, 1)
    BY <1>1, <1>16, CounterMoves DEF SendFirst
  <2> QED
    BY <1>15, <1>16, <2>1 DEF SendFirst
<1>17. CASE SendsNext
  <2>1. Moves(0, 0, 0, 0, 0)
    BY <1>1, <1>17, CounterMoves DEF SendsNext
  <2> QED
    BY <1>15, <1>17, <2>1 DEF SendsNext
<1>18. CASE UNCHANGED vars
  <2>1. Moves(0, 0, 0, 0, 0)
    BY <1>1, <1>18, CounterMoves DEF vars
  <2>2. InProgress' = InProgress /\ WillSend' = WillSend
    BY <1>18 DEF vars, bundle, InProgress, WillSend
  <2> QED
    BY <1>2, <2>1, <2>2
<1> QED
  BY <1>3, <1>4, <1>6, <1>7, <1>8, <1>9, <1>10, <1>11, <1>12, <1>13, <1>14, <1>16, <1>17, <1>18,
     Groups

-----------------------------------------------------------------------------
(* Rapid commit                                                            *)

Granted(ia) == GrantedIn(ia, response.answers)

(* What a handler took from a solicit it has granted, and the advertise is *)
(* turned into a reply only when that is every IA.                         *)
RapidInv ==
    /\ stage \in {"pre", "init"} => handled = {}
    /\ request.type = "Solicit" /\ stage \in {"handle", "post"} =>
         \A ia \in handled : Granted(ia)
    /\ request.type = "Solicit" /\ stage = "handle" => response.type = "Advertise"
    /\ request.type = "Solicit" /\ stage \in {"post", "analyse", "send"}
       /\ response.type = "Reply" /\ response.status \in {"none", "Success"} =>
         /\ AllowRapidCommit /\ request.rapid /\ response.rapid = TRUE
         /\ RapidCommitRejections \/ \A ia \in SetOf(request.ias) : Granted(ia)

LEMMA NothingUnhandled ==
    ASSUME TypeInv, Unhandled(Kinds) = <<>>
    PROVE  SetOf(request.ias) \subseteq handled
<1>1. RequestOK
  BY RequestFits DEF TypeInv
<1>2. SetOf(Unhandled(Kinds)) = {ia \in SetOf(request.ias) : ia.kind \in Kinds} \ handled
  BY <1>1, UnhandledSet
<1>3. SetOf(Unhandled(Kinds)) = {}
  BY EmptySequence
<1> QED
  BY <1>1, <1>2, <1>3 DEF RequestOK

LEMMA RapidStep ==
    ASSUME TypeInv, RapidInv, [Next]_vars
    PROVE  RapidInv'
<1>1. CASE Receive
  BY <1>1 DEF Receive, RapidInv
<1>2. CASE ReceiveUnparsable \/ ReceiveNoRequest \/ UNCHANGED vars
  BY <1>2 DEF ReceiveUnparsable, ReceiveNoRequest, vars, bundle, RapidInv, Granted
<1>3. ASSUME UNCHANGED <<request, response, handled>>, Onward, stage \in {"pre", "handle", "post"}
      PROVE  RapidInv'
  <2>1. /\ stage = "pre" => stage' \in {"pre", "init"}
        /\ stage = "handle" => stage' \in {"handle", "post"}
        /\ stage = "post" => stage' \in {"post", "analyse"}
    BY <1>3, Phases
  <2> QED
    BY <1>3, <2>1 DEF RapidInv, Granted
<1>4. CASE Passes
  BY <1>3, <1>4 DEF Passes
<1>5. CASE Ignores
  <2>1. response'.type = "none" /\ stage' = "analyse"
    BY <1>5 DEF Ignores, Ignore, NoResponse
  <2> QED
    BY <2>1 DEF RapidInv
<1>6. CASE Refuses
  <2>1. PICK type \in {"Reply", "LeasequeryReply"}, status \in ErrorStatuses :
           response' = ResponseOf(type, <<>>, status, FALSE) /\ stage' = "analyse"
    BY <1>6, EmptyResponse DEF Refuses, ReplyWithStatus
  <2>2. response'.status = status
    BY <2>1, EmptyAnswers
  <2>3. status \notin {"none", "Success"}
    BY DEF ErrorStatuses
  <2> QED
    BY <2>1, <2>2, <2>3 DEF RapidInv
<1>7. CASE Breaks
  BY <1>7 DEF Breaks, HandlingError, RapidInv
<1>8. CASE Begins
  <2>1. stage' = "handle" /\ handled' = {} /\ UNCHANGED request
    BY <1>8 DEF Begins, RapidInv
  <2>2. request.type = "Solicit" => response'.type = "Advertise"
    <3> DEFINE t == ResponseType
    <3>1. t \in {"none", "Advertise", "Reply", "LeasequeryReply"}
          /\ (request.type = "Solicit" => t = "Advertise")
      BY DEF ResponseType
    <3>2. response' = ResponseOf(t, <<>>, "none", FALSE)
      BY <1>8, EmptyResponse DEF Begins
    <3> HIDE DEF t
    <3>3. response'.type = t
      BY <3>1, <3>2, EmptyAnswers
    <3> QED
      BY <3>1, <3>3
  <2> QED
    BY <2>1, <2>2 DEF RapidInv
<1>9. CASE StartsData
  BY <1>3, <1>9 DEF StartsData
<1>10. CASE Answers
  <2>1. /\ AnswersFacts /\ response'.type = response.type
        /\ SetOf(response.answers) \subseteq SetOf(response'.answers)
        /\ request.type = "Solicit" =>
             \A ia \in handled' \ handled : GrantedIn(ia, response'.answers)
    BY <1>10, AnswersType
  <2>2. stage = "handle" /\ stage' \in {"handle", "post"} /\ UNCHANGED request
    BY <2>1, Phases DEF AnswersFacts
  <2>3. ASSUME request.type = "Solicit", NEW ia \in handled' PROVE Granted(ia)'
    <3>1. CASE ia \in handled
      <4>1. GrantedIn(ia, response.answers)
        BY <2>2, <2>3, <3>1 DEF RapidInv, Granted
      <4>2. GrantedIn(ia, response'.answers)
        BY <2>1, <4>1 DEF GrantedIn
      <4> QED
        BY <4>2 DEF Granted
    <3>2. CASE ia \notin handled
      BY <2>1, <2>3, <3>2 DEF Granted
    <3> QED
      BY <3>1, <3>2
  <2>4. request.type = "Solicit" => response'.type = "Advertise"
    BY <2>1, <2>2 DEF RapidInv
  <2> QED
    BY <2>2, <2>3, <2>4 DEF RapidInv
<1>11. CASE RapidCommitPost
  <2>1. /\ stage = "post" /\ Onward /\ UNCHANGED <<request, handled>>
        /\ Chain[pos].name = "RapidCommit"
    BY <1>11 DEF RapidCommitPost, At
  <2>2. stage' \in {"post", "analyse"}
    BY <2>1, Phases
  <2>3. CASE UNCHANGED response
    BY <1>3, <2>1, <2>3
  <2>4. CASE /\ response' = [response EXCEPT !.type = "Reply", !.rapid = TRUE]
             /\ request.type = "Solicit" /\ request.rapid
             /\ RapidCommitRejections \/ ~Refused
    <3>1. /\ response'.type = "Reply" /\ response'.rapid = TRUE
          /\ response'.answers = response.answers
      BY <2>4, Commits DEF TypeInv, CommitsRapidly
    <3>2. AllowRapidCommit
      BY <2>1, ChainFacts DEF TypeInv
    <3>3. \A ia \in handled : GrantedIn(ia, response.answers)
      BY <2>1, <2>4 DEF RapidInv, Granted
    <3>4. RapidCommitRejections \/ SetOf(request.ias) \subseteq handled
      BY <2>4, NothingUnhandled DEF Refused
    <3>5. RapidCommitRejections \/
            \A ia \in SetOf(request.ias) : GrantedIn(ia, response'.answers)
      BY <3>1, <3>3, <3>4
    <3> QED
      BY <2>1, <2>2, <2>4, <3>1, <3>2, <3>3, <3>5 DEF RapidInv, Granted
  <2> QED
    BY <1>11, <2>3, <2>4 DEF RapidCommitPost
<1>12. CASE AnalysePost
  <2>1. /\ stage = "analyse" /\ stage' \in {"send", "idle"}
        /\ UNCHANGED <<request, response, handled>>
    BY <1>12 DEF AnalysePost, bundle
  <2> QED
    BY <2>1 DEF RapidInv, Granted
<1>13. CASE SendFirst \/ SendsNext
  <2>1. stage' \in {"more", "idle"}
    BY <1>13 DEF SendFirst, SendsNext
  <2> QED
    BY <2>1 DEF RapidInv
<1> QED
  BY <1>1, <1>2, <1>4, <1>5, <1>6, <1>7, <1>8, <1>9, <1>10, <1>11, <1>12, <1>13, Groups

-----------------------------------------------------------------------------
(* The invariant and the theorems                                          *)

HandlingInv == TypeInv /\ MoreInv /\ CountInv /\ RapidInv

LEMMA HandlingInit == Init => HandlingInv
<1> SUFFICES ASSUME Init PROVE HandlingInv
  OBVIOUS
<1>1. response = ResponseOf("none", <<>>, "none", FALSE)
  BY EmptyResponse DEF Init
<1>2. /\ response.type = "none" /\ response.answers = <<>>
      /\ response = ResponseOf(response.type, response.answers, response.status, response.rapid)
  <2> DEFINE t == "none"
             a == <<>>
             c == FALSE
  <2>1. response = ResponseOf(t, a, t, c)
    BY <1>1
  <2> HIDE DEF t, a, c
  <2>2. response.type = t /\ response.answers = a /\ response.status = t /\ response.rapid = c
    BY ONLY <2>1, ReplacedField
  <2> QED
    BY <2>1, <2>2, Zenon DEF t, a
<1>3. ResponseInv
  BY <1>2 DEF ResponseInv, Init
<1>4. Sequence(response.answers) /\ SetOf(response.answers) = {}
  BY <1>2, EmptySequence
<1>5. counters \in [Counters -> Nat] /\ pos \in 1..Len(Chain)
  BY ChainFacts DEF Init
<1>6. TypeInv
  <2>1. /\ request \in Requests /\ allowUnicast \in BOOLEAN /\ answered \in BOOLEAN
        /\ more = 0 /\ handled = {}
    BY DEF Init
  <2>2. more \in 0..2 /\ handled \subseteq SetOf(request.ias)
    BY <2>1
  <2> QED
    BY <1>3, <1>4, <1>5, <2>1, <2>2 DEF TypeInv
<1>7. MoreInv /\ RapidInv
  BY DEF Init, MoreInv, RapidInv
<1>8. CountInv
  <2>1. ~InProgress /\ ~WillSend /\ \A c \in Counters : counters[c] = 0
    BY DEF Init, InProgress, WillSend
  <2>2. /\ Open = 0 /\ Told = 0 /\ counters["message_out"] = 0
        /\ counters["handling_error"] = 0
        /\ counters["unparsable_packet"] + counters["message_in"] <= counters["incoming_packet"]
    BY <2>1 DEF Open, Told, Counters
  <2> QED
    BY <2>1, <2>2 DEF CountInv
<1> QED
  BY <1>6, <1>7, <1>8 DEF HandlingInv

LEMMA HandlingStep == HandlingInv /\ [Next]_vars => HandlingInv'
BY TypeStep, MoreStep, CountStep, RapidStep DEF HandlingInv

LEMMA HandlingAlways == Spec => []HandlingInv
BY HandlingInit, HandlingStep, PTL DEF Spec

(* The worker's state keeps its types, and options are marked as handled   *)
(* only if they are options of the request at hand, whatever the requests  *)
(* and the handlers (transaction_bundle.py, mark_handled()).               *)
THEOREM TypeCorrect == Spec => []TypeOK
<1>1. HandlingInv => TypeOK
  <2> SUFFICES ASSUME HandlingInv PROVE TypeOK
    OBVIOUS
  <2>1. TypeInv
    BY DEF HandlingInv
  <2>2. \A i \in DOMAIN response.answers : response.answers[i].kind \in Kinds
    BY <2>1 DEF TypeInv, SetOf
  <2> QED
    BY <2>1, <2>2 DEF TypeOK, TypeInv, ResponseInv
<1> QED
  BY <1>1, HandlingAlways, PTL

(* The counters explain every message that a worker has taken in: it was   *)
(* answered, or ignored for one counted reason, or its handling broke; and *)
(* no error is counted as told without a message that tells it             *)
(* (message_handler.py, handle(), and worker.py, handle_message()).        *)
THEOREM MessagesAreAccounted == Spec => []MessagesAccounted
<1>1. HandlingInv => MessagesAccounted
  <2> SUFFICES ASSUME HandlingInv, stage = "idle"
               PROVE  /\ counters["unparsable_packet"] + counters["message_in"]
                           <= counters["incoming_packet"]
                      /\ 0 <= Open /\ Open <= counters["handling_error"]
                      /\ Told <= counters["message_out"]
    BY DEF MessagesAccounted, Open, Told
  <2>1. ~InProgress /\ ~WillSend
    BY DEF InProgress, WillSend
  <2>2. counters["message_out"] \in Nat
    BY Totals DEF HandlingInv, TypeInv
  <2> QED
    BY <2>1, <2>2 DEF HandlingInv, CountInv
<1> QED
  BY <1>1, HandlingAlways, PTL

(* No data follow an answer that tells of an error: wherever an error is   *)
(* raised, the rest of the list of responses, which the setter of          *)
(* bundle.response leaves in place, is still empty.                        *)
THEOREM ErrorsAreAlone == Spec => []ErrorsStandAlone
<1>1. HandlingInv => ErrorsStandAlone
  BY DEF HandlingInv, TypeInv, MoreInv, ErrorsStandAlone
<1> QED
  BY <1>1, HandlingAlways, PTL

(* A solicit is answered with a reply, which commits leases, only if rapid *)
(* commit is allowed and the client asked for it and, unless rejections    *)
(* may be committed too, every IA of the request was granted something     *)
(* (rapid_commit.py, post()).                                              *)
THEOREM RapidCommitOnlyGrants == Spec => []RapidCommitGrantsAll
<1>1. HandlingInv => RapidCommitGrantsAll
  <2> SUFFICES ASSUME HandlingInv, Normal, request.type = "Solicit", response.type = "Reply"
               PROVE  /\ AllowRapidCommit /\ request.rapid /\ response.rapid
                      /\ RapidCommitRejections \/
                           \A ia \in SetOf(request.ias) :
                              \E a \in SetOf(AnswersTo(ia)) : a.live # {}
    BY DEF RapidCommitGrantsAll
  <2>1. /\ AllowRapidCommit /\ request.rapid /\ response.rapid = TRUE
        /\ RapidCommitRejections \/ \A ia \in SetOf(request.ias) : Granted(ia)
    BY DEF HandlingInv, RapidInv, Normal
  <2>2. ASSUME NEW ia, Granted(ia) PROVE \E a \in SetOf(AnswersTo(ia)) : a.live # {}
    <3> DEFINE S == {a \in SetOf(response.answers) : a.kind = ia.kind /\ a.iaid = ia.iaid}
    <3>1. PICK a \in S : a.live # {}
      BY <2>2 DEF Granted, GrantedIn
    <3>2. Sequence(response.answers)
      BY DEF HandlingInv, TypeInv
    <3>3. S \subseteq SetOf(response.answers) /\ AnswersTo(ia) = Those(response.answers, S)
      BY DEF AnswersTo
    <3> HIDE DEF S
    <3>4. SetOf(AnswersTo(ia)) = SetOf(response.answers) \cap S
      BY <3>2, <3>3, ThoseSet
    <3> QED
      BY <3>1, <3>3, <3>4
  <2> QED
    BY <2>1, <2>2
<1> QED
  BY <1>1, HandlingAlways, PTL

-----------------------------------------------------------------------------
(* Every IA is answered once                                               *)

NoRepeats(s) == \A i, j \in DOMAIN s : s[i] = s[j] => i = j

LEMMA ThoseNoRepeats ==
    ASSUME NEW s, NEW S, Sequence(s), NoRepeats(s)
    PROVE  NoRepeats(Those(s, S))
<1> DEFINE n == Len(s)
           f == Among(s, S)
           First(k) == {s[i] : i \in 1..k}
           OK(k) == Sequence(f[k]) /\ SetOf(f[k]) \subseteq First(k) /\ NoRepeats(f[k])
           M == {k \in Nat : k <= n => OK(k)}
<1>0. n \in Nat /\ DOMAIN s = 1..n
  BY SequenceType DEF Sequence
<1>1. f = [k \in 0..n |->
            IF k = 0 THEN <<>>
            ELSE IF s[k] \in S THEN Append(f[k - 1], s[k]) ELSE f[k - 1]]
  BY <1>0, AmongUnfolds DEF Unfolds
<1> HIDE DEF f, n
<1>2. 0 \in M
  <2>1. f[0] = <<>>
    BY <1>0, <1>1
  <2>2. NoRepeats(<<>>)
    BY DEF NoRepeats
  <2> QED
    BY <2>1, <2>2, EmptySequence
<1>3. ASSUME NEW k \in Nat, k \in M PROVE k + 1 \in M
  <2> SUFFICES ASSUME k + 1 <= n PROVE OK(k + 1)
    OBVIOUS
  <2>1. OK(k)
    BY <1>0, <1>3
  <2>2. f[k + 1] = IF s[k + 1] \in S THEN Append(f[k], s[k + 1]) ELSE f[k]
    <3>1. k + 1 \in 0..n /\ k + 1 # 0 /\ (k + 1) - 1 = k
      BY <1>0
    <3> QED
      BY <1>1, <3>1
  <2>3. First(k + 1) = First(k) \cup {s[k + 1]}
    <3>1. 1..k + 1 = (1..k) \cup {k + 1}
      OBVIOUS
    <3> QED
      BY <3>1
  <2>4. s[k + 1] \notin First(k)
    <3>1. \A i \in 1..k : i \in 1..n /\ i # k + 1
      BY <1>0
    <3>2. k + 1 \in 1..n
      BY <1>0
    <3> QED
      BY <1>0, <3>1, <3>2 DEF NoRepeats
  <2> DEFINE t == f[k]
             e == s[k + 1]
             u == Append(t, e)
  <2>5. Sequence(t) /\ SetOf(t) \subseteq First(k) /\ NoRepeats(t) /\ e \notin SetOf(t)
    BY <2>1, <2>4
  <2>6. Sequence(u) /\ SetOf(u) = SetOf(t) \cup {e}
    BY <2>5, AppendSet
  <2> HIDE DEF t, e
  <2>7. NoRepeats(u)
    <3>1. Len(t) \in Nat /\ DOMAIN t = 1..Len(t)
      BY <2>5, SequenceType DEF Sequence
    <3>2. /\ DOMAIN u = 1..Len(t) + 1 /\ u[Len(t) + 1] = e
          /\ \A i \in 1..Len(t) : u[i] = t[i]
      <4> DEFINE T == SetOf(t) \cup {e}
      <4>1. t \in Seq(SetOf(t))
        BY <2>5 DEF Sequence
      <4>2. t \in Seq(T) /\ e \in T
        BY <4>1
      <4> HIDE DEF T
      <4>3. u \in Seq(T) /\ Len(u) = Len(t) + 1 /\ u[Len(t) + 1] = e
            /\ \A i \in 1..Len(t) : u[i] = t[i]
        BY ONLY <4>2, AppendProperties
      <4>4. DOMAIN u = 1..Len(u)
        BY <4>3, SequenceType
      <4> QED
        BY <4>3, <4>4
    <3> HIDE DEF u
    <3>3. \A i \in 1..Len(t) : t[i] # e
      BY <2>5, <3>1 DEF SetOf
    <3>4. \A i \in 1..Len(t) + 1 : i \in 1..Len(t) \/ i = Len(t) + 1
      BY <3>1
    <3> QED
      BY <2>5, <3>1, <3>2, <3>3, <3>4 DEF NoRepeats
  <2> HIDE DEF u
  <2>8. f[k + 1] = u \/ f[k + 1] = t
    BY <2>2 DEF u, t, e
  <2> HIDE DEF First
  <2> QED
    BY <2>3, <2>5, <2>6, <2>7, <2>8 DEF e
<1>4. Nat \subseteq M
  <2> HIDE DEF M
  <2> QED
    BY <1>2, <1>3, SetInduction
<1>5. OK(n)
  BY <1>0, <1>4
<1> QED
  BY <1>5 DEF Those, f, n

(* How many elements the helper selects, when it is none or one.           *)
LEMMA ThoseCount ==
    ASSUME NEW s, NEW S, Sequence(s)
    PROVE  /\ (\A i \in DOMAIN s : s[i] \notin S) => Len(Those(s, S)) = 0
           /\ \A i \in DOMAIN s :
                s[i] \in S /\ (\A j \in DOMAIN s : s[j] \in S => j = i)
                => Len(Those(s, S)) = 1
<1> DEFINE n == Len(s)
           f == Among(s, S)
<1>0. n \in Nat /\ DOMAIN s = 1..n
  BY SequenceType DEF Sequence
<1>1. f = [k \in 0..n |->
            IF k = 0 THEN <<>>
            ELSE IF s[k] \in S THEN Append(f[k - 1], s[k]) ELSE f[k - 1]]
  BY <1>0, AmongUnfolds DEF Unfolds
<1> HIDE DEF f, n
<1>2. f[0] = <<>>
  BY <1>0, <1>1
<1>3. ASSUME NEW k \in Nat, k + 1 <= n
      PROVE  f[k + 1] = IF s[k + 1] \in S THEN Append(f[k], s[k + 1]) ELSE f[k]
  <2>1. k + 1 \in 0..n /\ k + 1 # 0 /\ (k + 1) - 1 = k
    BY <1>0, <1>3
  <2> QED
    BY <1>1, <2>1
<1>4. ASSUME \A i \in 1..n : s[i] \notin S PROVE f[n] = <<>>
  <2> DEFINE M == {k \in Nat : k <= n => f[k] = <<>>}
  <2>1. 0 \in M
    BY <1>2
  <2>2. ASSUME NEW k \in Nat, k \in M PROVE k + 1 \in M
    <3> SUFFICES ASSUME k + 1 <= n PROVE f[k + 1] = <<>>
      OBVIOUS
    <3>1. f[k] = <<>> /\ k + 1 \in 1..n
      BY <1>0, <2>2
    <3> QED
      BY <1>3, <1>4, <3>1
  <2>3. Nat \subseteq M
    <3> HIDE DEF M
    <3> QED
      BY <2>1, <2>2, SetInduction
  <2> QED
    BY <1>0, <2>3
<1>5. ASSUME NEW i \in 1..n, s[i] \in S, \A j \in 1..n : s[j] \in S => j = i
      PROVE  f[n] = <<s[i]>>
  <2> DEFINE M == {k \in Nat : k <= n => f[k] = IF k < i THEN <<>> ELSE <<s[i]>>}
  <2>1. 0 \in M
    BY <1>2
  <2>2. ASSUME NEW k \in Nat, k \in M PROVE k + 1 \in M
    <3> SUFFICES ASSUME k + 1 <= n
                 PROVE  f[k + 1] = IF k + 1 < i THEN <<>> ELSE <<s[i]>>
      OBVIOUS
    <3>1. f[k] = (IF k < i THEN <<>> ELSE <<s[i]>>) /\ k + 1 \in 1..n
      BY <1>0, <2>2
    <3>2. CASE k + 1 = i
      <4>1. f[k] = <<>>
        BY <3>1, <3>2
      <4>3. f[k + 1] = Append(f[k], s[i])
        BY <1>3, <1>5, <3>2
      <4>2. Append(<<>>, s[i]) = <<s[i]>>
        OBVIOUS
      <4> QED
        BY <3>2, <4>1, <4>2, <4>3
    <3>3. CASE k + 1 # i
      <4>1. f[k + 1] = f[k]
        BY <1>3, <1>5, <3>1, <3>3
      <4>2. k + 1 < i <=> k < i
        BY <3>3
      <4> QED
        BY <3>1, <4>1, <4>2
    <3> QED
      BY <3>2, <3>3
  <2>3. Nat \subseteq M
    <3> HIDE DEF M
    <3> QED
      BY <2>1, <2>2, SetInduction
  <2>4. n \in M /\ ~(n < i)
    BY <1>0, <2>3
  <2> QED
    BY <1>0, <2>4
<1>6. \A x : Len(<<x>>) = 1 /\ Len(<<>>) = 0
  OBVIOUS
<1>7. Those(s, S) = f[n]
  BY DEF Those, f, n
<1> QED
  BY <1>0, <1>4, <1>5, <1>6, <1>7

Fits(a, ia) == a.kind = ia.kind /\ a.iaid = ia.iaid

(* Of the IAs in R, those in T are answered once, and the others never.    *)
Once(R, answers, T) ==
    /\ \A ia \in T : \E i \in DOMAIN answers :
            /\ Fits(answers[i], ia)
            /\ \A j \in DOMAIN answers : Fits(answers[j], ia) => j = i
    /\ \A ia \in R \ T : \A j \in DOMAIN answers : ~Fits(answers[j], ia)

Distinct(R) == \A x, y \in R : x.kind = y.kind /\ x.iaid = y.iaid => x = y

LEMMA OnceNone == \A R : Once(R, <<>>, {})
BY DEF Once

(* One answer for each of some IAs.                                        *)
LEMMA OncePicked ==
    ASSUME NEW R, Distinct(R), NEW s, NoRepeats(s), SetOf(s) \subseteq R,
           NEW added, DOMAIN added = DOMAIN s,
           \A i \in DOMAIN s : added[i].kind = s[i].kind /\ added[i].iaid = s[i].iaid
    PROVE  Once(R, added, SetOf(s))
<1>1. \A i \in DOMAIN s : s[i] \in R
  BY DEF SetOf
<1>2. \A ia \in R, i \in DOMAIN s : Fits(added[i], ia) <=> ia = s[i]
  BY <1>1 DEF Distinct, Fits
<1>3. \A ia \in SetOf(s) : \E i \in DOMAIN s : ia = s[i]
  BY DEF SetOf
<1>4. \A i \in DOMAIN s : s[i] \in SetOf(s)
  BY DEF SetOf
<1>5. ASSUME NEW ia \in SetOf(s)
      PROVE  \E i \in DOMAIN added :
                /\ Fits(added[i], ia)
                /\ \A j \in DOMAIN added : Fits(added[j], ia) => j = i
  <2>1. PICK i \in DOMAIN s : ia = s[i]
    BY <1>3
  <2>2. Fits(added[i], ia)
    BY <1>2, <2>1
  <2>3. ASSUME NEW j \in DOMAIN s, Fits(added[j], ia) PROVE j = i
    <3>1. ia = s[j]
      BY <1>2, <2>3
    <3> QED
      BY <2>1, <3>1 DEF NoRepeats
  <2> QED
    BY <2>2, <2>3
<1>6. \A ia \in R \ SetOf(s) : \A j \in DOMAIN added : ~Fits(added[j], ia)
  BY <1>2, <1>4
<1> QED
  BY <1>5, <1>6 DEF Once

LEMMA OnceConcat ==
    ASSUME NEW R, NEW s, NEW t, Sequence(s), Sequence(t),
           NEW T \in SUBSET R, NEW U \in SUBSET R, T \cap U = {},
           Once(R, s, T), Once(R, t, U)
    PROVE  Once(R, s \o t, T \cup U)
<1> DEFINE S == SetOf(s) \cup SetOf(t)
           u == s \o t
           m == Len(s)
           n == Len(t)
<1>0. s \in Seq(S) /\ t \in Seq(S)
  <2>1. s \in Seq(SetOf(s)) /\ t \in Seq(SetOf(t))
    BY DEF Sequence
  <2> QED
    BY <2>1
<1>1. DOMAIN s = 1..m /\ DOMAIN t = 1..n /\ m \in Nat /\ n \in Nat
  BY <1>0, SequenceType
<1> HIDE DEF S
<1>2. /\ u \in Seq(S) /\ Len(u) = m + n
      /\ \A i \in 1..m + n : u[i] = IF i <= m THEN s[i] ELSE t[i - m]
  BY <1>0, ConcatProperties
<1>3. DOMAIN u = 1..m + n
  BY <1>2, SequenceType
<1> HIDE DEF u, m, n
<1>4. \A i \in 1..m : i \in 1..m + n /\ u[i] = s[i]
  BY <1>1, <1>2
<1>5. \A i \in 1..n : m + i \in 1..m + n /\ u[m + i] = t[i]
  <2>1. \A i \in 1..n : m + i \in 1..m + n /\ ~(m + i <= m) /\ (m + i) - m = i
    BY <1>1
  <2> QED
    BY <1>2, <2>1
<1>6. \A i \in 1..m + n : i \in 1..m \/ \E j \in 1..n : i = m + j
  <2>1. \A i \in 1..m + n : i \notin 1..m => i - m \in 1..n /\ i = m + (i - m)
    BY <1>1
  <2> QED
    BY <2>1
<1>7. ASSUME NEW ia \in T
      PROVE  \E i \in DOMAIN u :
                Fits(u[i], ia) /\ \A j \in DOMAIN u : Fits(u[j], ia) => j = i
  <2>1. PICK i \in 1..m : Fits(s[i], ia) /\ \A j \in 1..m : Fits(s[j], ia) => j = i
    BY <1>1, <1>7 DEF Once
  <2>2. \A j \in 1..n : ~Fits(t[j], ia)
    BY <1>1, <1>7 DEF Once
  <2>3. Fits(u[i], ia) /\ i \in DOMAIN u
    BY <1>3, <1>4, <2>1
  <2>4. ASSUME NEW j \in DOMAIN u, Fits(u[j], ia) PROVE j = i
    <3>1. CASE j \in 1..m
      BY <1>4, <2>1, <2>4, <3>1
    <3>2. CASE \E k \in 1..n : j = m + k
      BY <1>5, <2>2, <2>4, <3>2
    <3> QED
      BY <1>3, <1>6, <3>1, <3>2
  <2> QED
    BY <2>3, <2>4
<1>8. ASSUME NEW ia \in U
      PROVE  \E i \in DOMAIN u :
                Fits(u[i], ia) /\ \A j \in DOMAIN u : Fits(u[j], ia) => j = i
  <2>1. PICK i \in 1..n : Fits(t[i], ia) /\ \A j \in 1..n : Fits(t[j], ia) => j = i
    BY <1>1, <1>8 DEF Once
  <2>2. \A j \in 1..m : ~Fits(s[j], ia)
    BY <1>1, <1>8 DEF Once
  <2>3. Fits(u[m + i], ia) /\ m + i \in DOMAIN u
    BY <1>3, <1>5, <2>1
  <2>4. ASSUME NEW j \in DOMAIN u, Fits(u[j], ia) PROVE j = m + i
    <3>1. CASE j \in 1..m
      BY <1>4, <2>2, <2>4, <3>1
    <3>2. CASE \E k \in 1..n : j = m + k
      <4>1. PICK k \in 1..n : j = m + k
        BY <3>2
      <4>2. Fits(t[k], ia)
        BY <1>5, <2>4, <4>1
      <4> QED
        BY <2>1, <4>1, <4>2
    <3> QED
      BY <1>3, <1>6, <3>1, <3>2
  <2> QED
    BY <2>3, <2>4
<1>9. ASSUME NEW ia \in R \ (T \cup U), NEW j \in DOMAIN u, Fits(u[j], ia) PROVE FALSE
  <2>1. (\A i \in 1..m : ~Fits(s[i], ia)) /\ (\A i \in 1..n : ~Fits(t[i], ia))
    BY <1>1, <1>9 DEF Once
  <2>2. CASE j \in 1..m
    BY <1>4, <1>9, <2>1, <2>2
  <2>3. CASE \E k \in 1..n : j = m + k
    BY <1>5, <1>9, <2>1, <2>3
  <2> QED
    BY <1>3, <1>6, <2>2, <2>3
<1>10. Once(R, u, T \cup U)
  BY <1>7, <1>8, <1>9 DEF Once
<1> QED
  BY <1>10 DEF u

(* Where the handlers that answer IAs are in the chain.                    *)
LEMMA ChainEnd ==
    /\ Len(Chain) \in Nat /\ Len(Chain) >= 5
    /\ \A i \in 1..Len(Chain) :
          /\ Chain[i].name = "UnansweredIA" <=> i = Len(Chain) - 3
          /\ Chain[i].name = "UnansweredIAPD" <=> i = Len(Chain) - 1
          /\ Chain[i].name = "Static" => i < Len(Chain) - 4
<1> DEFINE first == IF AllowRapidCommit THEN <<Handler("RapidCommit")>> ELSE <<>>
           second == <<Handler("ServerId"), Handler("RequireBulkOverTCP"),
                       Handler("RefuseBulkOverUDP")>>
           last == <<Handler("RejectUnwantedUnicast"), Handler("UnansweredIA"),
                     Handler("UnansweredLeasequery"), Handler("UnansweredIAPD"),
                     Handler("AddMissingStatus")>>
           Fine(s) == \A h \in SetOf(s) : h.name \notin {"UnansweredIA", "UnansweredIAPD"}
<1>1. Chain = ((first \o second) \o Selected) \o last
  BY DEF Chain
<1>2. Sequence(first) /\ Fine(first)
  <2>1. CASE AllowRapidCommit
    <3> DEFINE e == Handler("RapidCommit")
    <3>1. first = <<e>> /\ e.name = "RapidCommit"
      BY <2>1 DEF Handler
    <3> HIDE DEF e, first
    <3>2. <<e>> \in Seq({e})
      OBVIOUS
    <3>3. Sequence(<<e>>) /\ SetOf(<<e>>) \subseteq {e}
      BY ONLY <3>2, SequenceType
    <3> QED
      BY <3>1, <3>3
  <2>2. CASE ~AllowRapidCommit
    <3>1. first = <<>>
      BY <2>2
    <3> QED
      BY <3>1, EmptySequence
  <2> QED
    BY <2>1, <2>2
<1>3. Sequence(second) /\ Fine(second)
  <2> DEFINE S == {Handler("ServerId"), Handler("RequireBulkOverTCP"),
                   Handler("RefuseBulkOverUDP")}
  <2>1. second \in Seq(S) /\ \A h \in S : h.name \notin {"UnansweredIA", "UnansweredIAPD"}
    BY DEF Handler
  <2> HIDE DEF second, S
  <2> QED
    BY <2>1, SequenceType
<1>4. /\ Sequence(last) /\ Len(last) = 5
      /\ last[1].name = "RejectUnwantedUnicast" /\ last[2].name = "UnansweredIA"
      /\ last[3].name = "UnansweredLeasequery" /\ last[4].name = "UnansweredIAPD"
      /\ last[5].name = "AddMissingStatus"
  <2> DEFINE S == {Handler("RejectUnwantedUnicast"), Handler("UnansweredIA"),
                   Handler("UnansweredLeasequery"), Handler("UnansweredIAPD"),
                   Handler("AddMissingStatus")}
  <2>1. last \in Seq(S) /\ Len(last) = 5
    OBVIOUS
  <2>2. /\ last[1].name = "RejectUnwantedUnicast" /\ last[2].name = "UnansweredIA"
        /\ last[3].name = "UnansweredLeasequery" /\ last[4].name = "UnansweredIAPD"
        /\ last[5].name = "AddMissingStatus"
    BY DEF Handler
  <2> HIDE DEF last, S
  <2> QED
    BY <2>1, <2>2, SequenceType
<1>5. Sequence(Selected) /\ Fine(Selected)
  <2>1. /\ Sequence(Configured)
        /\ \A h \in SetOf(Configured) : h.name \notin {"UnansweredIA", "UnansweredIAPD"}
    BY HandlingAssumption DEF Sequence
  <2>2. Sequence(Selected) /\ SetOf(Selected) \subseteq SetOf(Configured)
    BY <2>1, ThoseSet DEF Selected
  <2> QED
    BY <2>1, <2>2
<1> HIDE DEF first, second, last
<1>6. Sequence(first \o second) /\ Fine(first \o second)
  BY <1>2, <1>3, ConcatSet
<1> DEFINE front == first \o second
<1> HIDE DEF front
<1>7. Sequence(front \o Selected) /\ Fine(front \o Selected)
  BY <1>5, <1>6, ConcatSet DEF front
<1> DEFINE most == front \o Selected
           m == Len(most)
<1> HIDE DEF most
<1>8. Chain = most \o last
  BY <1>1 DEF most, front
<1>9. /\ m \in Nat /\ Len(most \o last) = m + 5
      /\ \A i \in 1..m + 5 : (most \o last)[i] = IF i <= m THEN most[i] ELSE last[i - m]
  <2> DEFINE S == SetOf(most) \cup SetOf(last)
  <2>1. most \in Seq(SetOf(most)) /\ last \in Seq(SetOf(last))
    BY <1>4, <1>7 DEF Sequence, most
  <2>2. most \in Seq(S) /\ last \in Seq(S)
    BY <2>1
  <2> HIDE DEF S, m
  <2>3. Len(most) \in Nat /\ Len(most \o last) = Len(most) + Len(last)
        /\ \A i \in 1..Len(most) + Len(last) :
             (most \o last)[i] = IF i <= Len(most) THEN most[i] ELSE last[i - Len(most)]
    BY ONLY <2>2, ConcatProperties, LenProperties
  <2> QED
    BY <1>4, <2>3 DEF m
<1>10. \A i \in 1..m : most[i].name \notin {"UnansweredIA", "UnansweredIAPD"}
  <2>1. Sequence(most) /\ Fine(most)
    BY <1>7 DEF most
  <2>2. DOMAIN most = 1..m
    BY <2>1, SequenceType DEF Sequence
  <2> HIDE DEF m
  <2> QED
    BY <2>1, <2>2 DEF SetOf
<1> DEFINE c == Chain
<1>11. Len(c) = m + 5 /\ m \in Nat
       /\ \A i \in 1..m + 5 : c[i] = IF i <= m THEN most[i] ELSE last[i - m]
  BY <1>8, <1>9
<1> HIDE DEF m, c
<1>12. ASSUME NEW i \in 1..m + 5
       PROVE  /\ c[i].name = "UnansweredIA" <=> i = m + 2
              /\ c[i].name = "UnansweredIAPD" <=> i = m + 4
              /\ c[i].name = "Static" => i < m + 1
  <2>1. CASE i \in 1..m
    <3>1. c[i] = most[i] /\ i < m + 1
      BY <1>11, <2>1
    <3>2. c[i].name \notin {"UnansweredIA", "UnansweredIAPD"}
      BY <1>10, <2>1, <3>1
    <3> QED
      BY <1>11, <3>1, <3>2
  <2>2. CASE i \notin 1..m
    <3>1. c[i] = last[i - m] /\ i - m \in {1, 2, 3, 4, 5}
      BY <1>11, <2>2
    <3>2. /\ (i = m + 1 \/ i = m + 2 \/ i = m + 3 \/ i = m + 4 \/ i = m + 5)
          /\ (i = m + 1 <=> i - m = 1) /\ (i = m + 2 <=> i - m = 2)
          /\ (i = m + 3 <=> i - m = 3) /\ (i = m + 4 <=> i - m = 4)
          /\ (i = m + 5 <=> i - m = 5)
      BY <1>11, <3>1
    <3> DEFINE k == i - m
               name == c[i].name
    <3>3. name = last[k].name
      BY <3>1
    <3> HIDE DEF k, name
    <3>4. /\ name = "UnansweredIA" <=> k = 2
          /\ name = "UnansweredIAPD" <=> k = 4
          /\ name # "Static"
      <4>1. k \in {1, 2, 3, 4, 5}
        BY <3>1 DEF k
      <4> QED
        BY ONLY <1>4, <3>3, <4>1
    <3> QED
      BY <3>2, <3>4 DEF k, name
  <2> QED
    BY <2>1, <2>2
<1>13. m + 5 - 3 = m + 2 /\ m + 5 - 1 = m + 4 /\ m + 5 - 4 = m + 1 /\ m + 5 \in Nat /\ m + 5 >= 5
  BY <1>11
<1>14. /\ Len(c) \in Nat /\ Len(c) >= 5
       /\ \A i \in 1..Len(c) :
          /\ c[i].name = "UnansweredIA" <=> i = Len(c) - 3
          /\ c[i].name = "UnansweredIAPD" <=> i = Len(c) - 1
          /\ c[i].name = "Static" => i < Len(c) - 4
  BY <1>11, <1>12, <1>13
<1> QED
  BY <1>14 DEF c

(* Such a handler is not passed over.                                      *)
LEMMA Turn ==
    ASSUME [Next]_vars, stage = "handle"
    PROVE  /\ Chain[pos].name = "UnansweredIA" =>
                UnansweredIAHandle \/ UNCHANGED vars
           /\ Chain[pos].name = "UnansweredIAPD" =>
                UnansweredIAPDHandle \/ UNCHANGED vars
<1> DEFINE name == Chain[pos].name
<1> SUFFICES ASSUME name \in {"UnansweredIA", "UnansweredIAPD"}
             PROVE  \/ UnansweredIAHandle /\ name = "UnansweredIA"
                    \/ UnansweredIAPDHandle /\ name = "UnansweredIAPD"
                    \/ UNCHANGED vars
  OBVIOUS
<1>1. ~Receive /\ ~ReceiveUnparsable /\ ~ReceiveNoRequest
  BY DEF Receive, ReceiveUnparsable, ReceiveNoRequest
<1>2. /\ ~ServerIdPre /\ ~RequireBulkOverTCPPre /\ ~RefuseBulkOverUDPPre /\ ~IgnorePre
      /\ ~RateLimitPre /\ ~ServerUnicastPre /\ ~LeasequeryPre /\ ~RejectUnwantedUnicastPre
  BY DEF At, ServerIdPre, RequireBulkOverTCPPre, RefuseBulkOverUDPPre, IgnorePre, RateLimitPre,
         ServerUnicastPre, LeasequeryPre, RejectUnwantedUnicastPre
<1>3. ~NotOverridden /\ ~InitResponse
  BY DEF NotOverridden, Overrides, InitResponse
<1>4. ~StaticHandle /\ ~LeasequeryHandle /\ ~AddMissingStatusHandle
  BY DEF At, StaticHandle, LeasequeryHandle, AddMissingStatusHandle
<1>5. ~RapidCommitPost /\ ~UnansweredLeasequeryPost /\ ~AnalysePost /\ ~SendFirst /\ ~SendMore
  BY DEF At, RapidCommitPost, UnansweredLeasequeryPost, AnalysePost, SendFirst, SendMore
<1>6. /\ UnansweredIAHandle => name = "UnansweredIA"
      /\ UnansweredIAPDHandle => name = "UnansweredIAPD"
  BY DEF At, UnansweredIAHandle, UnansweredIAPDHandle
<1> QED
  BY <1>1, <1>2, <1>3, <1>4, <1>5, <1>6 DEF Next

RequestDistinct ==
    /\ NoRepeats(request.ias) /\ Distinct(SetOf(request.ias))
    /\ request.type = "Decline" => \A ia \in SetOf(request.ias) : ia.kind # "pd"
    /\ request.type \in {"InformationRequest", "Leasequery"} => SetOf(request.ias) = {}

LEMMA RequestIsDistinct ==
    ASSUME RequestsAreDistinct, request \in Requests
    PROVE  RequestDistinct
<1> DEFINE ias == request.ias
<1>1. \A i, j \in DOMAIN ias : ias[i].kind = ias[j].kind /\ ias[i].iaid = ias[j].iaid => i = j
  BY DEF RequestsAreDistinct
<1>2. /\ request.type = "Decline" => \A ia \in SetOf(ias) : ia.kind # "pd"
      /\ request.type \in {"InformationRequest", "Leasequery"} => ias = <<>>
  BY DEF RequestsAreDistinct
<1> HIDE DEF ias
<1>3. NoRepeats(ias) /\ Distinct(SetOf(ias))
  BY <1>1 DEF NoRepeats, Distinct, SetOf
<1> QED
  BY <1>2, <1>3, EmptySequence DEF RequestDistinct, ias

LEMMA UnhandledNoRepeats ==
    ASSUME RequestOK, RequestDistinct, NEW kinds
    PROVE  NoRepeats(Unhandled(kinds))
BY ThoseNoRepeats DEF RequestOK, RequestDistinct, Unhandled

(* A handler adds one answer for each of some IAs.                         *)
AnswersOnce(T) ==
    \E added : Adds(added) /\ Sequence(added) /\ Once(SetOf(request.ias), added, T)

LEMMA MappedOnce ==
    ASSUME RequestDistinct, NEW s, Sequence(s), NoRepeats(s),
           SetOf(s) \subseteq SetOf(request.ias), NEW live, NEW dead, NEW status,
           NEW added, added = [i \in DOMAIN s |-> Answer(s[i], live[i], dead[i], status)]
    PROVE  Sequence(added) /\ Once(SetOf(request.ias), added, SetOf(s))
<1>1. DOMAIN added = DOMAIN s /\ added = [i \in DOMAIN added |-> added[i]]
  OBVIOUS
<1>2. Sequence(added)
  BY <1>1, MappedSequence
<1>3. \A i \in DOMAIN s : added[i].kind = s[i].kind /\ added[i].iaid = s[i].iaid
  BY AnswerFields
<1> QED
  BY <1>1, <1>2, <1>3, OncePicked DEF RequestDistinct

LEMMA CleanUpAnswers ==
    ASSUME RequestDistinct, ResponseInv, NEW s, Sequence(s), NoRepeats(s),
           SetOf(s) \subseteq SetOf(request.ias),
           WithdrawAll(s) \/ \E status : AnswerAll(s, status)
    PROVE  AnswersOnce(SetOf(s))
<1>1. ASSUME NEW status, AnswerAll(s, status) PROVE AnswersOnce(SetOf(s))
  <2> DEFINE live == [i \in DOMAIN s |-> {}]
             added == [i \in DOMAIN s |-> Answer(s[i], {}, {}, status)]
  <2>1. added = [i \in DOMAIN s |-> Answer(s[i], live[i], live[i], status)]
    OBVIOUS
  <2>2. response' = [response EXCEPT !.answers = @ \o added]
    BY <1>1 DEF AnswerAll, Respond
  <2> HIDE DEF live, added
  <2>3. Sequence(added) /\ Once(SetOf(request.ias), added, SetOf(s))
    BY <2>1, MappedOnce
  <2>4. Adds(added)
    BY <2>2, AddsAnswers
  <2> QED
    BY <2>3, <2>4 DEF AnswersOnce
<1>2. ASSUME WithdrawAll(s) PROVE AnswersOnce(SetOf(s))
  <2> DEFINE live == [i \in DOMAIN s |-> {}]
             dead == [i \in DOMAIN s |-> s[i].addrs]
             added == [i \in DOMAIN s |-> Answer(s[i], {}, s[i].addrs, "none")]
  <2>1. added = [i \in DOMAIN s |-> Answer(s[i], live[i], dead[i], "none")]
    OBVIOUS
  <2>2. response' = [response EXCEPT !.answers = @ \o added]
    BY <1>2 DEF WithdrawAll, Respond
  <2> HIDE DEF live, dead, added
  <2>3. Sequence(added) /\ Once(SetOf(request.ias), added, SetOf(s))
    BY <2>1, MappedOnce
  <2>4. Adds(added)
    BY <2>2, AddsAnswers
  <2> QED
    BY <2>3, <2>4 DEF AnswersOnce
<1> QED
  BY <1>1, <1>2

(* Two kinds of IAs are answered one after the other.                      *)
LEMMA AnswersTwo ==
    ASSUME ResponseInv, NEW s, NEW t, Sequence(s), Sequence(t),
           NEW T \in SUBSET SetOf(request.ias), NEW U \in SUBSET SetOf(request.ias),
           T \cap U = {}, Once(SetOf(request.ias), s, T), Once(SetOf(request.ias), t, U),
           Respond(s \o t)
    PROVE  AnswersOnce(T \cup U)
<1> DEFINE added == s \o t
<1>1. Sequence(added) /\ Once(SetOf(request.ias), added, T \cup U)
  BY ConcatSet, OnceConcat
<1>2. response' = [response EXCEPT !.answers = @ \o added]
  BY DEF Respond
<1> HIDE DEF added
<1>3. Adds(added)
  BY <1>2, AddsAnswers
<1> QED
  BY <1>1, <1>3 DEF AnswersOnce

Granting == {"Solicit", "Request", "Renew", "Rebind"}

(* The option that a static assignment takes for an address or prefix.     *)
LEMMA GrantsOne ==
    ASSUME RequestOK, NEW kind, NEW a
    PROVE  LET s == Grants(kind, a)
           IN  /\ Sequence(s) /\ NoRepeats(s)
               /\ SetOf(s) \subseteq {ia \in SetOf(request.ias) : ia.kind = kind} \ handled
<1> DEFINE Q == {ia \in SetOf(request.ias) : ia.kind = kind} \ handled
           ias == Unhandled({kind})
           holding == Those(ias, {ia \in SetOf(ias) : a \in ia.addrs})
           Fine(s) == Sequence(s) /\ NoRepeats(s) /\ SetOf(s) \subseteq Q
<1>1. Sequence(ias) /\ SetOf(ias) \subseteq Q
  BY UnhandledSet
<1>2. Sequence(holding) /\ SetOf(holding) \subseteq Q
  <2> HIDE DEF ias
  <2> QED
    BY <1>1, ThoseSet
<1> HIDE DEF Q, ias, holding
<1>3. ASSUME NEW s, Sequence(s), SetOf(s) \subseteq Q, s # <<>>
      PROVE  Fine(<<s[1]>>)
  <2>1. s[1] \in SetOf(s)
    <3>1. s \in Seq(SetOf(s))
      BY <1>3 DEF Sequence
    <3> HIDE DEF SetOf
    <3> QED
      BY <1>3, <3>1
  <2> DEFINE e == s[1]
  <2>2. e \in Q
    BY <1>3, <2>1
  <2> HIDE DEF e
  <2>3. <<e>> \in Seq(Q)
    BY <2>2
  <2>4. Sequence(<<e>>) /\ SetOf(<<e>>) \subseteq Q
    BY ONLY <2>3, SequenceType
  <2>5. NoRepeats(<<e>>)
    BY DEF NoRepeats
  <2> QED
    BY <2>4, <2>5 DEF e
<1>4. Fine(<<>>)
  BY EmptySequence DEF NoRepeats
<1>5. FindOption(ias, a) = IF holding # <<>> THEN <<holding[1]>>
                           ELSE IF ias # <<>> THEN <<ias[1]>> ELSE <<>>
  BY DEF FindOption, holding
<1>6. Fine(FindOption(ias, a))
  BY <1>1, <1>2, <1>3, <1>4, <1>5
<1>7. Fine(Grants(kind, a))
  <2>1. Grants(kind, a) = <<>> \/ Grants(kind, a) = FindOption(ias, a)
    BY DEF Grants, ias
  <2> QED
    BY <1>4, <1>6, <2>1
<1> QED
  BY <1>7 DEF Q

(* What a static assignment does with the IAs of a request.                *)
LEMMA StaticAnswers ==
    ASSUME RequestOK, RequestDistinct, ResponseInv, StaticHandle
    PROVE  \/ /\ request.type \in Granting
              /\ \E T \in SUBSET (SetOf(request.ias) \ handled) :
                    AnswersOnce(T) /\ handled' = handled \cup T
           \/ /\ request.type \in {"Confirm", "Release", "Decline", "InformationRequest",
                                   "Leasequery"}
              /\ UNCHANGED response /\ handled \subseteq handled'
<1> DEFINE h == Chain[pos]
           Q == SetOf(request.ias)
           Of(kind) == {ia \in Q : ia.kind = kind} \ handled
           Does == \E T \in SUBSET (Q \ handled) : AnswersOnce(T) /\ handled' = handled \cup T
<1>1. CASE StaticRequest(h)
  <2> DEFINE pd == Grants("pd", h.prefix)
             na == Grants("na", h.address)
             G(s, x) == [i \in DOMAIN s |-> Answer(s[i], {x}, {}, "none")]
  <2>1. /\ request.type \in {"Solicit", "Request"}
        /\ Respond(G(pd, h.prefix) \o G(na, h.address))
        /\ handled' = handled \cup (SetOf(pd) \cup SetOf(na))
    BY <1>1 DEF StaticRequest, Mark
  <2>2. /\ Sequence(pd) /\ NoRepeats(pd) /\ SetOf(pd) \subseteq Of("pd")
        /\ Sequence(na) /\ NoRepeats(na) /\ SetOf(na) \subseteq Of("na")
    BY GrantsOne
  <2> HIDE DEF pd, na, h
  <2>3. ASSUME NEW s, Sequence(s), NoRepeats(s), SetOf(s) \subseteq Q, NEW x
        PROVE  Sequence(G(s, x)) /\ Once(Q, G(s, x), SetOf(s))
    <3> DEFINE live == [i \in DOMAIN s |-> {x}]
               dead == [i \in DOMAIN s |-> {}]
    <3>1. G(s, x) = [i \in DOMAIN s |-> Answer(s[i], live[i], dead[i], "none")]
      OBVIOUS
    <3> HIDE DEF live, dead, G
    <3> QED
      BY <2>3, <3>1, MappedOnce
  <2> DEFINE p == G(pd, h.prefix)
             n == G(na, h.address)
  <2>4. /\ Sequence(p) /\ Once(Q, p, SetOf(pd)) /\ Sequence(n) /\ Once(Q, n, SetOf(na))
        /\ Respond(p \o n)
    <3> HIDE DEF G
    <3> QED
      BY <2>1, <2>2, <2>3
  <2>5. SetOf(pd) \cap SetOf(na) = {} /\ SetOf(pd) \subseteq Q /\ SetOf(na) \subseteq Q
        /\ SetOf(pd) \cup SetOf(na) \subseteq Q \ handled
    BY <2>2
  <2> HIDE DEF p, n
  <2>6. AnswersOnce(SetOf(pd) \cup SetOf(na))
    BY <2>4, <2>5, AnswersTwo
  <2>7. Does
    BY <2>1, <2>5, <2>6
  <2> HIDE DEF Does
  <2> QED
    BY <2>1, <2>7 DEF Granting, Does
<1>2. CASE StaticRenew(h)
  <2> DEFINE pd == Those(Unhandled({"pd"}), Overlapping(h))
             na == Unhandled({"na"})
             G(s, x) == [i \in DOMAIN s |->
                Answer(s[i], Kept(s[i].addrs, x), s[i].addrs \ Kept(s[i].addrs, x), "none")]
  <2>1. /\ request.type \in {"Renew", "Rebind"}
        /\ Respond(G(pd, h.prefix) \o G(na, h.address))
        /\ handled' = handled \cup (SetOf(pd) \cup SetOf(na))
    BY <1>2 DEF StaticRenew, Mark
  <2>2. /\ Sequence(pd) /\ NoRepeats(pd) /\ SetOf(pd) \subseteq Of("pd")
        /\ Sequence(na) /\ NoRepeats(na) /\ SetOf(na) \subseteq Of("na")
    <3>1. \A kind : /\ Sequence(Unhandled({kind})) /\ NoRepeats(Unhandled({kind}))
                    /\ SetOf(Unhandled({kind})) \subseteq Of(kind)
      BY UnhandledSet, UnhandledNoRepeats
    <3> QED
      BY <3>1, ThoseSet, ThoseNoRepeats
  <2> HIDE DEF pd, na, h
  <2>3. ASSUME NEW s, Sequence(s), NoRepeats(s), SetOf(s) \subseteq Q, NEW x
        PROVE  Sequence(G(s, x)) /\ Once(Q, G(s, x), SetOf(s))
    <3> DEFINE live == [i \in DOMAIN s |-> Kept(s[i].addrs, x)]
               dead == [i \in DOMAIN s |-> s[i].addrs \ Kept(s[i].addrs, x)]
    <3>1. G(s, x) = [i \in DOMAIN s |-> Answer(s[i], live[i], dead[i], "none")]
      OBVIOUS
    <3> HIDE DEF live, dead, G
    <3> QED
      BY <2>3, <3>1, MappedOnce
  <2> DEFINE p == G(pd, h.prefix)
             n == G(na, h.address)
  <2>4. /\ Sequence(p) /\ Once(Q, p, SetOf(pd)) /\ Sequence(n) /\ Once(Q, n, SetOf(na))
        /\ Respond(p \o n)
    <3> HIDE DEF G
    <3> QED
      BY <2>1, <2>2, <2>3
  <2>5. SetOf(pd) \cap SetOf(na) = {} /\ SetOf(pd) \subseteq Q /\ SetOf(na) \subseteq Q
        /\ SetOf(pd) \cup SetOf(na) \subseteq Q \ handled
    BY <2>2
  <2> HIDE DEF p, n
  <2>6. AnswersOnce(SetOf(pd) \cup SetOf(na))
    BY <2>4, <2>5, AnswersTwo
  <2>7. Does
    BY <2>1, <2>5, <2>6
  <2> HIDE DEF Does
  <2> QED
    BY <2>1, <2>7 DEF Granting, Does
<1>3. CASE StaticConfirm(h) \/ StaticRelease(h)
  BY <1>3 DEF StaticConfirm, StaticRelease, Mark
<1>4. CASE request.type \in {"InformationRequest", "Leasequery"} /\ UNCHANGED <<response, handled>>
  BY <1>4
<1> QED
  BY <1>1, <1>2, <1>3, <1>4 DEF StaticHandle

(* The clean-up handler for the kind of IA has had its turn.               *)
Past(ia) ==
    stage = "handle" =>
        pos > Len(Chain) - 3 /\ (ia.kind = "pd" => pos > Len(Chain) - 1)

(* The IAs that have been answered.                                        *)
Due ==
    {ia \in SetOf(request.ias) :
        \/ request.type \in Granting /\ (ia \in handled \/ Past(ia))
        \/ request.type \in {"Release", "Decline"} /\ ia \notin handled /\ Past(ia)}

NoError == response.status \in {"none", "Success"}

(* A normal response is under way.                                         *)
Answering ==
    \/ stage \in {"handle", "post"}
    \/ stage \in {"analyse", "send"} /\ response.type # "none" /\ NoError

Answered ==
    /\ Once(SetOf(request.ias), response.answers, Due)
    /\ request.type = "Confirm" /\ NoError =>
         \A ia \in SetOf(request.ias) : ia.kind # "pd" /\ Past(ia) => ia \in handled
    /\ request.type \in Granting \cup {"Release", "Decline", "Confirm", "InformationRequest",
                                       "Leasequery"}

AnswersInv ==
    /\ Answering => Answered
    /\ stage = "send" => response.type # "none"

(* The clean-up handler for the IA's kind has its turn now.                *)
Turns(ia) ==
    /\ stage = "handle"
    /\ IF ia.kind = "pd" THEN pos = Len(Chain) - 1 ELSE pos = Len(Chain) - 3

LEMMA PastStep ==
    ASSUME TypeInv, stage = "handle", Onward, UNCHANGED request, NEW ia
    PROVE  /\ Past(ia)' <=> Past(ia) \/ Turns(ia)
           /\ Turns(ia) => ~Past(ia)
<1> DEFINE n == Len(Chain)
           m == n'
<1>1. m = n
  BY DEF Chain, Selected
<1>2. n \in Nat /\ n >= 5 /\ pos \in 1..n
  BY ChainEnd DEF TypeInv
<1>3. Past(ia) <=> pos > n - 3 /\ (ia.kind = "pd" => pos > n - 1)
  BY DEF Past
<1>4. Past(ia)' <=> (stage' = "handle" => pos' > m - 3 /\ (ia.kind = "pd" => pos' > m - 1))
  BY DEF Past
<1>5. Turns(ia) <=> IF ia.kind = "pd" THEN pos = n - 1 ELSE pos = n - 3
  BY DEF Turns
<1>6. (pos # n /\ pos' = pos + 1 /\ stage' = "handle") \/ (pos = n /\ stage' = "post")
  BY DEF Onward, AtEnd
<1> HIDE DEF n, m
<1> QED
  BY <1>1, <1>2, <1>3, <1>4, <1>5, <1>6

(* Answers are added for IAs that had none.                                *)
LEMMA AnsweredMore ==
    ASSUME TypeInv, Answered, UNCHANGED request, NEW T \in SUBSET SetOf(request.ias),
           AnswersOnce(T), T \cap Due = {}, Due' = Due \cup T, request.type # "Confirm"
    PROVE  Answered'
<1> DEFINE Q == SetOf(request.ias)
           a == response.answers
<1>1. PICK added : Adds(added) /\ Sequence(added) /\ Once(Q, added, T)
  BY DEF AnswersOnce
<1>2. response'.answers = a \o added
  <2> DEFINE t == response.type
             b == a \o added
             s == response.status
             c == response.rapid
  <2>1. response' = ResponseOf(t, b, s, c)
    BY <1>1 DEF Adds
  <2> HIDE DEF t, b, s, c
  <2>2. response'.answers = b
    BY ONLY <2>1, ReplacedField
  <2> QED
    BY <2>2 DEF b
<1>3. Sequence(a) /\ Once(Q, a, Due)
  BY DEF TypeInv, Answered
<1>4. Due \in SUBSET Q
  BY DEF Due
<1> DEFINE D == Due
<1>5. Once(Q, a, D) /\ D \in SUBSET Q /\ D \cap T = {}
  BY <1>3, <1>4
<1> HIDE DEF a, Q, D
<1>6. Once(Q, a \o added, D \cup T)
  BY <1>1, <1>3, <1>5, OnceConcat DEF Q
<1> QED
  BY <1>2, <1>6 DEF Answered, Q, D

(* No answers are added, and none are due.                                 *)
LEMMA AnsweredStill ==
    ASSUME Answered, UNCHANGED request, response'.answers = response.answers, Due' = Due,
           request.type = "Confirm" /\ NoError' =>
             /\ NoError /\ handled \subseteq handled'
             /\ \A ia \in SetOf(request.ias) :
                  ia.kind # "pd" /\ Past(ia)' => Past(ia) \/ ia \in handled'
    PROVE  Answered'
<1>1. Once(SetOf(request.ias), response.answers, Due)'
  <2> DEFINE d == Due'
  <2>1. Once(SetOf(request.ias), response.answers, d)
    BY DEF Answered
  <2> HIDE DEF d
  <2>2. Once(SetOf(request'.ias), response'.answers, d)
    BY <2>1
  <2> QED
    BY <2>2 DEF d
<1>2. ASSUME request'.type = "Confirm", NoError', NEW ia \in SetOf(request'.ias),
             ia.kind # "pd", Past(ia)'
      PROVE  ia \in handled'
  BY <1>2 DEF Answered
<1> QED
  BY <1>1, <1>2 DEF Answered

LEMMA StaticKeepsAnswered ==
    ASSUME RequestDistinct, TypeInv, Answered, StaticHandle
    PROVE  Answered'
<1> DEFINE Q == SetOf(request.ias)
<1>1. stage = "handle" /\ Onward /\ UNCHANGED request /\ Chain[pos].name = "Static"
  BY DEF StaticHandle, At
<1>2. \A ia : ~Turns(ia) /\ ~Past(ia) /\ ~Past(ia)'
  <2>1. pos < Len(Chain) - 4 /\ Len(Chain) \in Nat /\ pos \in 1..Len(Chain)
    BY <1>1, ChainEnd DEF TypeInv
  <2>2. \A ia : ~Turns(ia) /\ ~Past(ia)
    BY <1>1, <2>1 DEF Turns, Past
  <2> QED
    BY <1>1, <2>2, PastStep
<1>3. CASE /\ request.type \in Granting
           /\ \E T \in SUBSET (Q \ handled) : AnswersOnce(T) /\ handled' = handled \cup T
  <2>1. PICK T \in SUBSET (Q \ handled) : AnswersOnce(T) /\ handled' = handled \cup T
    BY <1>3
  <2>2. request.type \notin {"Release", "Decline", "Confirm"}
    BY <1>3 DEF Granting
  <2>3. Due = Q \cap handled
    BY <1>2, <1>3, <2>2 DEF Due
  <2>4. Due' = Q \cap handled'
    BY <1>1, <1>2, <1>3, <2>2 DEF Due
  <2>5. T \cap Due = {} /\ Due' = Due \cup T
    BY <2>1, <2>3, <2>4
  <2> QED
    BY <1>1, <2>1, <2>2, <2>5, AnsweredMore
<1>4. CASE /\ request.type \in {"Confirm", "Release", "Decline", "InformationRequest",
                                "Leasequery"}
           /\ UNCHANGED response /\ handled \subseteq handled'
  <2>1. request.type \notin Granting
    BY <1>4 DEF Granting
  <2>2. Due = {} /\ Due' = {}
    BY <1>1, <1>2, <2>1 DEF Due
  <2>3. NoError' => NoError
    BY <1>4 DEF NoError
  <2> QED
    BY <1>1, <1>2, <1>4, <2>2, <2>3, AnsweredStill
<1>5. RequestOK /\ ResponseInv
  BY RequestFits DEF TypeInv
<1> QED
  BY <1>3, <1>4, <1>5, StaticAnswers

LEMMA UnansweredIAAnswers ==
    ASSUME RequestDistinct, TypeInv, Answered, UnansweredIAHandle
    PROVE  Answered'
<1> DEFINE Q == SetOf(request.ias)
           s == Unhandled(Addressed)
           T == {ia \in Q : ia.kind # "pd"} \ handled
<1>1. /\ stage = "handle" /\ Onward /\ UNCHANGED <<request, handled>>
      /\ Chain[pos].name = "UnansweredIA"
  BY DEF UnansweredIAHandle, At
<1>2. \A ia : Turns(ia) <=> ia.kind # "pd"
  <2>1. pos = Len(Chain) - 3 /\ Len(Chain) \in Nat
    BY <1>1, ChainEnd DEF TypeInv
  <2> QED
    BY <1>1, <2>1 DEF Turns
<1>3. \A ia : (Past(ia)' <=> Past(ia) \/ ia.kind # "pd") /\ (ia.kind # "pd" => ~Past(ia))
  BY <1>1, <1>2, PastStep
<1>4. \A ia : ia.kind = "pd" => ~Past(ia)
  <2>1. pos = Len(Chain) - 3 /\ Len(Chain) \in Nat
    BY <1>1, ChainEnd DEF TypeInv
  <2> QED
    BY <1>1, <2>1 DEF Past
<1>5. \A ia : ~Past(ia) /\ (Past(ia)' <=> ia.kind # "pd")
  BY <1>3, <1>4
<1>6. RequestOK /\ ResponseInv
  BY RequestFits DEF TypeInv
<1>7. Sequence(s) /\ NoRepeats(s) /\ SetOf(s) = T
  <2>1. SetOf(s) = {ia \in Q : ia.kind \in Addressed} \ handled
    BY <1>6, UnhandledSet
  <2>2. \A ia \in Q : ia.kind \in Addressed <=> ia.kind # "pd"
    BY <1>6 DEF RequestOK, Kinds, Addressed
  <2> QED
    BY <1>6, <2>1, <2>2, UnhandledSet, UnhandledNoRepeats
<1> HIDE DEF s
<1>8. CASE /\ request.type \in Granting \cup {"Release", "Decline"}
           /\ WithdrawAll(s) \/ \E status : AnswerAll(s, status)
  <2>1. AnswersOnce(T)
    BY <1>6, <1>7, <1>8, CleanUpAnswers
  <2>2. request.type \in Granting => request.type \notin {"Release", "Decline", "Confirm"}
    BY DEF Granting
  <2>3. T \cap Due = {} /\ Due' = Due \cup T
    <3>1. CASE request.type \in Granting
      BY <1>1, <1>5, <2>2, <3>1 DEF Due
    <3>2. CASE request.type \in {"Release", "Decline"} /\ request.type \notin Granting
      BY <1>1, <1>5, <3>2 DEF Due
    <3> QED
      BY <1>8, <3>1, <3>2
  <2>4. request.type # "Confirm"
    BY <1>8 DEF Granting
  <2> QED
    BY <1>1, <2>1, <2>3, <2>4, AnsweredMore
<1>9. CASE request.type = "Confirm" /\ ForceStatus(s)
  <2>1. request.type \notin Granting
    BY <1>9 DEF Granting
  <2>2. Due = {} /\ Due' = {}
    BY <1>1, <1>9, <2>1 DEF Due
  <2> DEFINE x == IF s # <<>> THEN "NotOnLink" ELSE response.status
  <2>3. response' = ResponseOf(response.type, response.answers, x, response.rapid)
    <3>1. response' = [response EXCEPT !.status = x]
      BY <1>9 DEF ForceStatus
    <3> HIDE DEF x
    <3> QED
      BY <1>6, <3>1, SetStatus
  <2>4. response'.answers = response.answers /\ response'.status = x
    <3> HIDE DEF x
    <3> QED
      BY <2>3, ReplacedField
  <2>5. NoError' => NoError /\ s = <<>>
    BY <2>4 DEF NoError
  <2>6. s = <<>> => T = {}
    BY <1>7, EmptySequence
  <2>7. NoError' => \A ia \in Q : ia.kind # "pd" => ia \in handled'
    BY <1>1, <2>5, <2>6
  <2> QED
    BY <1>1, <2>2, <2>4, <2>5, <2>7, AnsweredStill
<1>10. CASE request.type \in {"InformationRequest", "Leasequery"} /\ UNCHANGED response
  <2>1. Due = {} /\ Due' = {} /\ request.type # "Confirm"
    BY <1>1, <1>10 DEF Due, Granting
  <2> QED
    BY <1>1, <1>10, <2>1, AnsweredStill
<1> QED
  BY <1>8, <1>9, <1>10 DEF UnansweredIAHandle, Granting, s

LEMMA UnansweredIAPDAnswers ==
    ASSUME RequestDistinct, TypeInv, Answered, UnansweredIAPDHandle
    PROVE  Answered'
<1> DEFINE Q == SetOf(request.ias)
           s == Unhandled({"pd"})
           T == {ia \in Q : ia.kind = "pd"} \ handled
<1>1. /\ stage = "handle" /\ Onward /\ UNCHANGED <<request, handled>>
      /\ Chain[pos].name = "UnansweredIAPD"
  BY DEF UnansweredIAPDHandle, At
<1>2. pos = Len(Chain) - 1 /\ Len(Chain) \in Nat
  BY <1>1, ChainEnd DEF TypeInv
<1>3. \A ia : Turns(ia) <=> ia.kind = "pd"
  BY <1>1, <1>2 DEF Turns
<1>4. \A ia : (Past(ia)' <=> Past(ia) \/ ia.kind = "pd") /\ (ia.kind = "pd" => ~Past(ia))
  BY <1>1, <1>3, PastStep
<1>5. \A ia : ia.kind # "pd" => Past(ia)
  BY <1>1, <1>2 DEF Past
<1>6. RequestOK /\ ResponseInv
  BY RequestFits DEF TypeInv
<1>7. Sequence(s) /\ NoRepeats(s) /\ SetOf(s) = T
  <2>1. SetOf(s) = {ia \in Q : ia.kind \in {"pd"}} \ handled
    BY <1>6, UnhandledSet
  <2> QED
    BY <1>6, <2>1, UnhandledSet, UnhandledNoRepeats
<1> HIDE DEF s
<1>8. CASE /\ request.type \in Granting \cup {"Release"}
           /\ WithdrawAll(s) \/ \E status : AnswerAll(s, status)
  <2>1. AnswersOnce(T)
    BY <1>6, <1>7, <1>8, CleanUpAnswers
  <2>2. request.type \in Granting => request.type \notin {"Release", "Decline", "Confirm"}
    BY DEF Granting
  <2>3. T \cap Due = {} /\ Due' = Due \cup T
    <3>1. CASE request.type \in Granting
      BY <1>1, <1>4, <1>5, <2>2, <3>1 DEF Due
    <3>2. CASE request.type = "Release" /\ request.type \notin Granting
      BY <1>1, <1>4, <1>5, <3>2 DEF Due
    <3> QED
      BY <1>8, <3>1, <3>2
  <2>4. request.type # "Confirm"
    BY <1>8 DEF Granting
  <2> QED
    BY <1>1, <2>1, <2>3, <2>4, AnsweredMore
<1>9. CASE /\ request.type \in {"Confirm", "Decline", "InformationRequest", "Leasequery"}
           /\ UNCHANGED response
  <2>1. request.type \notin Granting /\ request.type # "Release"
    BY <1>9 DEF Granting
  <2>2. CASE request.type = "Decline"
    <3>1. \A ia \in Q : Past(ia)' <=> Past(ia)
      BY <1>4, <2>2 DEF RequestDistinct
    <3>2. Due' = Due
      BY <1>1, <2>2, <3>1 DEF Due
    <3> QED
      BY <1>1, <1>9, <2>2, <3>2, AnsweredStill
  <2>3. CASE request.type # "Decline"
    <3>1. Due' = {} /\ Due = {}
      BY <1>1, <2>1, <2>3 DEF Due
    <3>2. NoError' => NoError
      BY <1>9 DEF NoError
    <3> QED
      BY <1>1, <1>4, <1>9, <3>1, <3>2, AnsweredStill
  <2> QED
    BY <2>2, <2>3
<1> QED
  BY <1>8, <1>9 DEF UnansweredIAPDHandle, Granting, s

LEMMA AnswersStep ==
    ASSUME RequestsAreDistinct, TypeInv, RapidInv, AnswersInv, [Next]_vars
    PROVE  AnswersInv'
<1> DEFINE name == Chain[pos].name
<1>1. RequestDistinct
  BY RequestIsDistinct DEF TypeInv
<1>2. CASE stage' \notin {"handle", "post", "analyse", "send"}
  BY <1>2 DEF AnswersInv, Answering
<1>3. ASSUME stage' # "send", ~Answering' PROVE AnswersInv'
  BY <1>3 DEF AnswersInv
<1>4. ASSUME stage' # "send", Answered' PROVE AnswersInv'
  BY <1>4 DEF AnswersInv
<1>5. CASE UNCHANGED vars
  <2>1. /\ UNCHANGED <<stage, pos, request, response, handled>>
    BY <1>5 DEF vars, bundle
  <2>2. Due' = Due /\ (NoError' => NoError) /\ \A ia : Past(ia)' => Past(ia)
    BY <2>1 DEF Due, Past, NoError, Chain, Selected
  <2>3. Answered => Answered'
    BY <2>1, <2>2, AnsweredStill
  <2>4. Answering' => Answering
    BY <2>1 DEF Answering, NoError
  <2> QED
    BY <2>1, <2>3, <2>4 DEF AnswersInv
<1>6. CASE Receive \/ Breaks \/ SendFirst \/ SendsNext
  <2>1. stage' \in {"pre", "idle", "more"}
    BY <1>6 DEF Receive, Breaks, HandlingError, SendFirst, SendsNext
  <2> QED
    BY <1>2, <2>1
<1>7. CASE ReceiveUnparsable \/ ReceiveNoRequest
  <2>1. stage' = "idle"
    BY <1>7 DEF ReceiveUnparsable, ReceiveNoRequest
  <2> QED
    BY <1>2, <2>1
<1>8. CASE Ignores
  <2>1. response'.type = "none" /\ stage' = "analyse"
    BY <1>8 DEF Ignores, Ignore, NoResponse
  <2> QED
    BY <1>3, <2>1 DEF Answering
<1>9. CASE Refuses
  <2>1. PICK type \in {"Reply", "LeasequeryReply"}, status \in ErrorStatuses :
           response' = ResponseOf(type, <<>>, status, FALSE) /\ stage' = "analyse"
    BY <1>9, EmptyResponse DEF Refuses, ReplyWithStatus
  <2>2. response'.status = status
    BY <2>1, EmptyAnswers
  <2>3. status \notin {"none", "Success"}
    BY DEF ErrorStatuses
  <2> QED
    BY <1>3, <2>1, <2>2, <2>3 DEF Answering, NoError
<1>10. CASE Begins
  <2>1. stage' = "handle" /\ pos' = 1 /\ handled' = {} /\ UNCHANGED request
    BY <1>10 DEF Begins, RapidInv
  <2>2. \A ia : ~Past(ia)'
    <3>1. Len(Chain)' = Len(Chain)
      BY <2>1 DEF Chain, Selected
    <3>2. Len(Chain) \in Nat /\ Len(Chain) >= 5
      BY ChainEnd
    <3> QED
      BY <2>1, <3>1, <3>2 DEF Past
  <2>3. Due' = {}
    BY <2>1, <2>2 DEF Due
  <2>4. response'.answers = <<>>
    <3> DEFINE t == ResponseType
               a == <<>>
               c == FALSE
               x == "none"
    <3>1. response' = ResponseOf(t, a, x, c)
      BY <1>10, EmptyResponse DEF Begins
    <3> HIDE DEF t, a, c, x
    <3>2. response'.answers = a
      BY ONLY <3>1, ReplacedField
    <3> QED
      BY <3>2 DEF a
  <2>5. request.type \in Granting \cup {"Release", "Decline", "Confirm", "InformationRequest",
                                        "Leasequery"}
    BY <1>10 DEF Begins, ResponseType, Granting
  <2>6. Once(SetOf(request'.ias), response'.answers, Due')
    BY <2>3, <2>4, OnceNone
  <2>7. Answered'
    BY <2>1, <2>2, <2>5, <2>6 DEF Answered
  <2> QED
    BY <1>4, <2>1, <2>7
<1>11. ASSUME stage = "handle", Onward, UNCHANGED <<request, handled>>,
              response'.answers = response.answers, NoError' => NoError,
              name \notin {"UnansweredIA", "UnansweredIAPD"}
       PROVE  AnswersInv'
  <2>1. \A ia : ~Turns(ia)
    BY <1>11, ChainEnd DEF Turns, TypeInv
  <2>2. \A ia : Past(ia)' <=> Past(ia)
    BY <1>11, <2>1, PastStep
  <2>3. Due' = Due
    BY <1>11, <2>2 DEF Due
  <2>4. Answered
    BY <1>11 DEF AnswersInv, Answering
  <2>5. Answered'
    BY <1>11, <2>2, <2>3, <2>4, AnsweredStill
  <2>6. stage' # "send"
    BY <1>11, Phases
  <2> QED
    BY <1>4, <2>5, <2>6
<1>12. ASSUME stage = "handle", Onward, UNCHANGED <<request, handled>>, UNCHANGED response
       PROVE  AnswersInv'
  <2>1. stage' # "send"
    BY <1>12, Phases
  <2>2. Answered
    BY <1>12 DEF AnswersInv, Answering
  <2>3. CASE name = "UnansweredIA"
    <3>1. UnansweredIAHandle \/ UNCHANGED vars
      BY <1>12, <2>3, Turn
    <3>2. ASSUME UnansweredIAHandle PROVE AnswersInv'
      <4>1. Answered'
        BY <1>1, <2>2, <3>2, UnansweredIAAnswers
      <4> QED
        BY <1>4, <2>1, <4>1
    <3> QED
      BY <1>5, <3>1, <3>2
  <2>4. CASE name = "UnansweredIAPD"
    <3>1. UnansweredIAPDHandle \/ UNCHANGED vars
      BY <1>12, <2>4, Turn
    <3>2. ASSUME UnansweredIAPDHandle PROVE AnswersInv'
      <4>1. Answered'
        BY <1>1, <2>2, <3>2, UnansweredIAPDAnswers
      <4> QED
        BY <1>4, <2>1, <4>1
    <3> QED
      BY <1>5, <3>1, <3>2
  <2>5. CASE name \notin {"UnansweredIA", "UnansweredIAPD"}
    <3>1. NoError' => NoError
      BY <1>12 DEF NoError
    <3> QED
      BY <1>11, <1>12, <2>5, <3>1
  <2> QED
    BY <2>3, <2>4, <2>5
<1>13. ASSUME stage \in {"post", "analyse"}, stage' \in {"post", "analyse", "send", "idle"},
              UNCHANGED <<request, handled>>, response'.answers = response.answers,
              response'.status = response.status,
              stage = "analyse" => stage' = "send" /\ response'.type # "none",
              response.type # "none", response'.type # "none"
       PROVE  AnswersInv'
  <2>1. \A ia : Past(ia) /\ Past(ia)'
    BY <1>13 DEF Past
  <2>2. Due' = Due /\ (NoError' => NoError)
    BY <1>13, <2>1 DEF Due, NoError
  <2>3. Answered => Answered'
    BY <1>13, <2>1, <2>2, AnsweredStill
  <2>4. Answering' => Answering
    BY <1>13, <2>2 DEF Answering
  <2> QED
    BY <1>13, <2>3, <2>4 DEF AnswersInv
<1>14. CASE Passes
  <2>1. /\ stage \in {"pre", "handle", "post"} /\ Onward
        /\ UNCHANGED <<request, response, handled>>
    BY <1>14 DEF Passes
  <2>2. CASE stage = "pre"
    <3>1. stage' \in {"pre", "init"}
      BY <2>1, <2>2, Phases
    <3> QED
      BY <1>2, <3>1
  <2>3. CASE stage = "handle"
    BY <1>12, <2>1, <2>3
  <2>4. CASE stage = "post"
    <3>1. stage' \in {"post", "analyse"}
      BY <2>1, <2>4, Phases
    <3>2. response.type # "none"
      BY <2>4 DEF TypeInv, ResponseInv
    <3> QED
      BY <1>13, <2>1, <2>4, <3>1, <3>2
  <2> QED
    BY <2>1, <2>2, <2>3, <2>4
<1>15. CASE StartsData
  BY <1>12, <1>15 DEF StartsData
<1>16. CASE Answers
  <2>1. stage = "handle" /\ Onward /\ UNCHANGED request
    BY <1>16, AnswersType DEF AnswersFacts
  <2>2. stage' # "send" /\ Answered
    BY <2>1, Phases DEF AnswersInv, Answering
  <2>3. CASE StaticHandle
    BY <1>1, <1>4, <2>2, <2>3, StaticKeepsAnswered
  <2>4. CASE UnansweredIAHandle
    BY <1>1, <1>4, <2>2, <2>4, UnansweredIAAnswers
  <2>5. CASE UnansweredIAPDHandle
    BY <1>1, <1>4, <2>2, <2>5, UnansweredIAPDAnswers
  <2>6. CASE AddMissingStatusHandle
    <3>1. UNCHANGED handled /\ name = "AddMissingStatus"
      BY <2>6 DEF AddMissingStatusHandle, At
    <3> DEFINE x == IF request.type \in {"Confirm", "Release", "Decline"} /\ response.status = "none"
                    THEN "Success" ELSE response.status
    <3>2. response' = [response EXCEPT !.status = x]
      BY <2>6 DEF AddMissingStatusHandle
    <3>3. (x \in {"none", "Success"}) => NoError
      BY DEF NoError
    <3> HIDE DEF x
    <3>4. response' = ResponseOf(response.type, response.answers, x, response.rapid)
      BY <3>2, SetStatus DEF TypeInv
    <3>5. response'.answers = response.answers /\ response'.status = x
      BY <3>4, ReplacedField
    <3>6. NoError' => NoError
      BY <3>3, <3>5 DEF NoError
    <3>7. name \notin {"UnansweredIA", "UnansweredIAPD"}
      BY <3>1
    <3> QED
      BY <1>11, <2>1, <3>1, <3>5, <3>6, <3>7
  <2> QED
    BY <1>16, <2>3, <2>4, <2>5, <2>6 DEF Answers
<1>17. CASE RapidCommitPost
  <2>1. stage = "post" /\ Onward /\ UNCHANGED <<request, handled>>
    BY <1>17 DEF RapidCommitPost, At
  <2>2. stage' \in {"post", "analyse"} /\ response.type # "none"
    BY <2>1, Phases DEF TypeInv, ResponseInv
  <2>3. CASE UNCHANGED response
    BY <1>13, <2>1, <2>2, <2>3
  <2>4. CASE response' = [response EXCEPT !.type = "Reply", !.rapid = TRUE]
    <3>1. /\ response'.type = "Reply" /\ response'.answers = response.answers
          /\ response'.status = response.status
      BY <2>4, Commits DEF TypeInv, CommitsRapidly
    <3> QED
      BY <1>13, <2>1, <2>2, <3>1
  <2> QED
    BY <1>17, <2>3, <2>4 DEF RapidCommitPost
<1>18. CASE AnalysePost
  <2>1. /\ stage = "analyse" /\ UNCHANGED <<request, response, handled>>
        /\ stage' = IF response.type # "none" THEN "send" ELSE "idle"
    BY <1>18 DEF AnalysePost, bundle
  <2>2. CASE response.type = "none"
    BY <1>2, <2>1, <2>2
  <2>3. CASE response.type # "none"
    BY <1>13, <2>1, <2>3
  <2> QED
    BY <2>2, <2>3
<1> QED
  BY <1>5, <1>6, <1>7, <1>8, <1>9, <1>10, <1>14, <1>15, <1>16, <1>17, <1>18, Groups

LEMMA AnswersAlways ==
    ASSUME RequestsAreDistinct
    PROVE  Spec => []AnswersInv
<1>1. Init => AnswersInv
  BY DEF Init, AnswersInv, Answering
<1>2. HandlingInv /\ AnswersInv /\ [Next]_vars => AnswersInv'
  BY AnswersStep DEF HandlingInv
<1> QED
  BY <1>1, <1>2, HandlingAlways, PTL DEF Spec

(* Every IA option of a request is answered once, by the handler that took *)
(* it or by a clean-up handler; a release or decline that a handler took   *)
(* needs no answer, and a confirm is confirmed only when all its IAs for   *)
(* addresses were taken (unanswered_ia.py, handle()).  It holds for every  *)
(* chain of handlers, if no request holds two IAs of one kind with one     *)
(* IAID, and the messages hold the IAs that their types allow.             *)
THEOREM EveryIAIsAnswered ==
    ASSUME RequestsAreDistinct
    PROVE  Spec => []IAsAnswered
<1>1. HandlingInv /\ AnswersInv => IAsAnswered
  <2> DEFINE Q == SetOf(request.ias)
             a == response.answers
  <2> SUFFICES ASSUME HandlingInv, AnswersInv, Normal, NEW ia \in Q
               PROVE
        LET n == Len(AnswersTo(ia))
        IN  \/ request.type \in {"Solicit", "Request", "Renew", "Rebind"} /\ n = 1
            \/ /\ request.type \in {"Release", "Decline"}
               /\ n = IF ia \in handled THEN 0 ELSE 1
            \/ /\ request.type = "Confirm" /\ n = 0
               /\ ia.kind = "pd" \/ ia \in handled
    BY DEF IAsAnswered
  <2>1. Answered /\ Past(ia) /\ NoError
    BY DEF AnswersInv, Answering, Normal, NoError, Past
  <2>2. TypeInv /\ RequestDistinct
    BY RequestIsDistinct DEF HandlingInv, TypeInv
  <2> DEFINE S == {x \in SetOf(a) : x.kind = ia.kind /\ x.iaid = ia.iaid}
  <2>3. Sequence(a) /\ AnswersTo(ia) = Those(a, S)
    BY <2>2 DEF TypeInv, AnswersTo
  <2>4. \A i \in DOMAIN a : a[i] \in S <=> Fits(a[i], ia)
    BY DEF SetOf, Fits
  <2>5. Once(Q, a, Due)
    BY <2>1 DEF Answered
  <2> HIDE DEF a, S
  <2>6. ia \in Due => Len(AnswersTo(ia)) = 1
    <3> SUFFICES ASSUME ia \in Due PROVE Len(Those(a, S)) = 1
      BY <2>3
    <3>1. PICK i \in DOMAIN a : Fits(a[i], ia) /\ \A j \in DOMAIN a : Fits(a[j], ia) => j = i
      BY <2>5 DEF Once
    <3> QED
      BY <2>3, <2>4, <3>1, ThoseCount
  <2>7. ia \notin Due => Len(AnswersTo(ia)) = 0
    <3> SUFFICES ASSUME ia \notin Due PROVE Len(Those(a, S)) = 0
      BY <2>3
    <3>1. \A j \in DOMAIN a : ~Fits(a[j], ia)
      BY <2>5 DEF Once
    <3> QED
      BY <2>3, <2>4, <3>1, ThoseCount
  <2>8. CASE request.type \in Granting
    BY <2>1, <2>6, <2>8 DEF Due, Granting
  <2>9. CASE request.type \in {"Release", "Decline"}
    <3>1. ia \in Due <=> ia \notin handled
      BY <2>1, <2>9 DEF Due, Granting
    <3> QED
      BY <2>6, <2>7, <2>9, <3>1
  <2>10. CASE request.type = "Confirm"
    <3>1. ia \notin Due
      BY <2>10 DEF Due, Granting
    <3>2. ia.kind = "pd" \/ ia \in handled
      BY <2>1, <2>10 DEF Answered
    <3> QED
      BY <2>7, <2>10, <3>1, <3>2
  <2>11. request.type \notin {"InformationRequest", "Leasequery"}
    BY <2>2 DEF RequestDistinct
  <2> QED
    BY <2>1, <2>8, <2>9, <2>10, <2>11 DEF Answered
<1> QED
  BY <1>1, HandlingAlways, AnswersAlways, PTL

-----------------------------------------------------------------------------
(* Leases are kept                                                         *)

Renewing == request.type \in {"Renew", "Rebind"}

(* What the configuration assigns.                                         *)
Held(kind, a) ==
    \E h \in Assignments : \/ kind = "na" /\ a = h.address
                           \/ kind = "pd" /\ a = h.prefix /\ a # {}

(* The static assignment has had its turn.                                 *)
Assigned == stage = "handle" => \E i \in 1..pos - 1 : Chain[i].name = "Static"

(* An answer gives what is assigned only, and never withdraws it.          *)
Honours(a) ==
    /\ \A x \in a.live : Held(a.kind, x)
    /\ Renewing => \A x \in a.dead : ~Held(a.kind, x)

GivenIn(ia, x, answers) == \E a \in SetOf(answers) : Fits(a, ia) /\ x \in a.live

Renewed ==
    \A ia \in SetOf(request.ias) : \A x \in ia.addrs : Held(ia.kind, x) =>
        /\ ia \in handled => GivenIn(ia, x, response.answers)
        /\ Assigned => ia \in handled

(* A normal response is under way, or being sent.                          *)
Replying ==
    \/ stage \in {"handle", "post"}
    \/ stage = "analyse" /\ response.type # "none" /\ NoError
    \/ stage = "send" /\ NoError

KeptInv ==
    /\ \A l \in leased : Held(l.kind, l.addr)
    /\ \A a \in SetOf(response.answers) : Honours(a)
    /\ Renewing /\ Replying => Renewed

(* The static assignments that the filters selected are all in the chain.  *)
LEMMA StaticInChain ==
    {g \in SetOf(Chain) : g.name = "Static"} = {g \in Assignments : request.via \in g.for}
<1> DEFINE one == <<Handler("RapidCommit")>>
           first == IF AllowRapidCommit THEN one ELSE <<>>
           second == <<Handler("ServerId"), Handler("RequireBulkOverTCP"),
                       Handler("RefuseBulkOverUDP")>>
           last == <<Handler("RejectUnwantedUnicast"), Handler("UnansweredIA"),
                     Handler("UnansweredLeasequery"), Handler("UnansweredIAPD"),
                     Handler("AddMissingStatus")>>
           Other(s) == Sequence(s) /\ \A h \in SetOf(s) : h.name # "Static"
<1>1. Chain = ((first \o second) \o Selected) \o last
  BY DEF Chain
<1>2. Other(one) /\ Other(second) /\ Other(last) /\ Other(<<>>)
  <2> DEFINE S == {Handler("RapidCommit"), Handler("ServerId"), Handler("RequireBulkOverTCP"),
                   Handler("RefuseBulkOverUDP"), Handler("RejectUnwantedUnicast"),
                   Handler("UnansweredIA"), Handler("UnansweredLeasequery"),
                   Handler("UnansweredIAPD"), Handler("AddMissingStatus")}
  <2>1. \A h \in S : h.name # "Static"
    BY DEF Handler
  <2>2. one \in Seq(S) /\ second \in Seq(S) /\ last \in Seq(S) /\ <<>> \in Seq(S)
    OBVIOUS
  <2> HIDE DEF S, one, second, last
  <2> QED
    BY <2>1, <2>2, SequenceType
<1> HIDE DEF one, second, last
<1>3. Other(first)
  BY <1>2
<1> HIDE DEF first
<1>4. Other(first \o second)
  BY <1>2, <1>3, ConcatSet
<1> DEFINE front == first \o second
<1>5. Other(front)
  BY <1>4
<1> HIDE DEF front
<1> DEFINE For == {g \in SetOf(Configured) : request.via \in g.for}
<1>6. Sequence(Selected) /\ SetOf(Selected) = For
  <2>1. Sequence(Configured)
    BY HandlingAssumption DEF Sequence
  <2>2. Selected = Those(Configured, For)
    BY DEF Selected
  <2>3. SetOf(Configured) \cap For = For
    OBVIOUS
  <2> HIDE DEF For
  <2> QED
    BY <2>1, <2>2, <2>3, ThoseSet
<1> DEFINE most == front \o Selected
<1>7. Sequence(most) /\ SetOf(most) = SetOf(front) \cup For
  BY <1>5, <1>6, ConcatSet
<1>8. Chain = most \o last
  BY <1>1 DEF front
<1> HIDE DEF most, For
<1>9. SetOf(Chain) = (SetOf(front) \cup For) \cup SetOf(last)
  BY <1>2, <1>7, <1>8, ConcatSet
<1>10. \A g : g \in For <=> g \in SetOf(Configured) /\ request.via \in g.for
  BY DEF For
<1> QED
  BY <1>2, <1>5, <1>9, <1>10 DEF Assignments

LEMMA OnlyAssignment ==
    ASSUME NEW i \in 1..Len(Chain), Chain[i].name = "Static"
    PROVE  Chain[i] \in Assignments
<1>1. Chain[i] \in SetOf(Chain)
  BY ChainFacts DEF SetOf
<1> QED
  BY <1>1, StaticInChain

(* The assignment is in the chain of every message, before the handlers    *)
(* that answer what nobody else did.                                       *)
LEMMA AssignmentInChain ==
    ASSUME OneAssignment, request \in Requests, Assignments # {}
    PROVE  \E i \in 1..Len(Chain) : Chain[i].name = "Static" /\ i < Len(Chain) - 4
<1>1. PICK h \in Assignments : request.via \in h.for
  BY DEF OneAssignment
<1>2. h \in SetOf(Chain) /\ h.name = "Static"
  BY <1>1, StaticInChain
<1>3. PICK i \in DOMAIN Chain : Chain[i] = h
  BY <1>2 DEF SetOf
<1>4. Chain[i].name = "Static" /\ i \in 1..Len(Chain)
  BY <1>2, <1>3, ChainFacts
<1> QED
  BY <1>4, ChainEnd

(* It has had its turn when the others answer, and when all have.          *)
LEMMA AssignedByThen ==
    ASSUME OneAssignment, TypeInv, stage = "handle", pos >= Len(Chain) - 3,
           NEW kind, NEW a, Held(kind, a)
    PROVE  Assigned
<1>1. Assignments # {} /\ request \in Requests /\ pos \in 1..Len(Chain)
  BY DEF Held, TypeInv
<1>2. PICK i \in 1..Len(Chain) : Chain[i].name = "Static" /\ i < Len(Chain) - 4
  BY <1>1, AssignmentInChain
<1>3. Len(Chain) \in Nat
  BY ChainFacts
<1>4. i \in 1..pos - 1
  BY <1>1, <1>2, <1>3
<1> QED
  BY <1>2, <1>4 DEF Assigned

LEMMA AssignedStep ==
    ASSUME OneAssignment, TypeInv, stage = "handle", Onward, UNCHANGED request,
           NEW kind, NEW a, Held(kind, a), Assigned'
    PROVE  Assigned \/ Chain[pos].name = "Static"
<1> DEFINE n == Len(Chain)
<1>1. Chain' = Chain
  BY DEF Chain, Selected
<1>2. n \in Nat /\ pos \in 1..n
  BY ChainFacts DEF TypeInv
<1>3. (pos # n /\ pos' = pos + 1 /\ stage' = "handle") \/ pos = n
  BY DEF Onward, AtEnd
<1>4. CASE pos = n
  BY <1>2, <1>4, AssignedByThen
<1>5. CASE pos # n /\ pos' = pos + 1 /\ stage' = "handle"
  <2>1. PICK i \in 1..pos' - 1 : Chain'[i].name = "Static"
    BY <1>5 DEF Assigned
  <2>2. i = pos \/ i \in 1..pos - 1
    BY <1>2, <1>5
  <2> QED
    BY <1>1, <2>1, <2>2 DEF Assigned
<1> QED
  BY <1>3, <1>4, <1>5

(* The answers that a handler makes, one for each of some IAs.             *)
LEMMA MappedAnswers ==
    ASSUME NEW s, Sequence(s), NEW added, DOMAIN added = DOMAIN s,
           added = [i \in DOMAIN added |-> added[i]],
           \A i \in DOMAIN s : \E live, dead, status :
              added[i] = Answer(s[i], live, dead, status)
    PROVE  /\ Sequence(added)
           /\ \A a \in SetOf(added) : \E i \in DOMAIN s : a = added[i] /\ Fits(a, s[i])
           /\ \A i \in DOMAIN s : added[i] \in SetOf(added) /\ Fits(added[i], s[i])
<1>1. Sequence(added)
  BY MappedSequence
<1>2. ASSUME NEW i \in DOMAIN s PROVE Fits(added[i], s[i])
  BY DEF Answer, Fits
<1> QED
  BY <1>1, <1>2 DEF SetOf

LEMMA AddedAnswers ==
    ASSUME TypeInv, NEW added, Adds(added), Sequence(added)
    PROVE  /\ SetOf(response'.answers) = SetOf(response.answers) \cup SetOf(added)
           /\ response'.type = response.type /\ response'.status = response.status
<1> DEFINE t == response.type
           b == response.answers \o added
           s == response.status
           c == response.rapid
<1>1. response' = ResponseOf(t, b, s, c)
  BY DEF Adds
<1>2. SetOf(b) = SetOf(response.answers) \cup SetOf(added)
  BY ConcatSet DEF TypeInv
<1> HIDE DEF t, b, s, c
<1>3. response'.answers = b /\ response'.type = t /\ response'.status = s
  BY ONLY <1>1, ReplacedField
<1> QED
  BY <1>2, <1>3 DEF t, s

(* A handler that adds such answers keeps the invariant.                   *)
LEMMA KeptAdds ==
    ASSUME TypeInv, KeptInv, stage = "handle", UNCHANGED <<request, leased>>,
           NEW added, Adds(added), Sequence(added), \A a \in SetOf(added) : Honours(a),
           Renewing =>
             /\ \A ia \in handled' : ia \in handled \/
                  \A x \in ia.addrs : Held(ia.kind, x) => GivenIn(ia, x, added)
             /\ \A ia \in SetOf(request.ias) : \A x \in ia.addrs :
                  Held(ia.kind, x) /\ Assigned' => ia \in handled'
    PROVE  KeptInv'
<1>1. SetOf(response'.answers) = SetOf(response.answers) \cup SetOf(added)
  BY AddedAnswers
<1>2. \A l \in leased' : Held(l.kind, l.addr)
  BY DEF KeptInv
<1>3. ASSUME NEW a \in SetOf(response'.answers) PROVE Honours(a)'
  <2>1. Honours(a)
    BY <1>1 DEF KeptInv
  <2> QED
    BY <2>1 DEF Honours, Renewing
<1>4. ASSUME Renewing', NEW ia \in SetOf(request'.ias), NEW x \in ia.addrs, Held(ia.kind, x)
      PROVE  /\ ia \in handled' => GivenIn(ia, x, response'.answers)
             /\ Assigned' => ia \in handled'
  <2>1. Renewing /\ Renewed
    BY <1>4 DEF Renewing, KeptInv, Replying
  <2>2. ASSUME ia \in handled' PROVE GivenIn(ia, x, response'.answers)
    <3>1. GivenIn(ia, x, response.answers) \/ GivenIn(ia, x, added)
      BY <1>4, <2>1, <2>2 DEF Renewed
    <3> QED
      BY <1>1, <3>1 DEF GivenIn
  <2> QED
    BY <1>4, <2>1, <2>2
<1>5. Renewing' /\ Replying' => Renewed'
  BY <1>4 DEF Renewed
<1> QED
  BY <1>2, <1>3, <1>5 DEF KeptInv

(* So does one that adds none.                                             *)
LEMMA KeptStill ==
    ASSUME KeptInv, UNCHANGED <<request, leased>>, response'.answers = response.answers,
           Renewing /\ Replying' =>
             /\ Replying /\ handled' \subseteq handled /\ handled \subseteq handled'
             /\ \A kind, a : Held(kind, a) /\ Assigned' => Assigned
    PROVE  KeptInv'
<1>1. \A l \in leased' : Held(l.kind, l.addr)
  BY DEF KeptInv
<1>2. \A a \in SetOf(response'.answers) : Honours(a)'
  BY DEF KeptInv, Honours, Renewing
<1>3. ASSUME Renewing', Replying' PROVE Renewed'
  <2>1. Renewing /\ Renewed
    BY <1>3 DEF Renewing, KeptInv
  <2> QED
    BY <1>3, <2>1 DEF Renewed
<1> QED
  BY <1>1, <1>2, <1>3 DEF KeptInv

LEMMA KeptCleanUp ==
    ASSUME OneAssignment, TypeInv, KeptInv, UnansweredIAHandle \/ UnansweredIAPDHandle
    PROVE  KeptInv'
<1>1. stage = "handle" /\ Onward /\ UNCHANGED <<request, handled, leased>>
  BY DEF UnansweredIAHandle, UnansweredIAPDHandle, At
<1>2. pos >= Len(Chain) - 3
  <2>1. pos \in 1..Len(Chain) /\ Chain[pos].name \in {"UnansweredIA", "UnansweredIAPD"}
    BY DEF UnansweredIAHandle, UnansweredIAPDHandle, At, TypeInv
  <2> QED
    BY <2>1, ChainEnd
<1>3. ASSUME Renewing
      PROVE  \A ia \in SetOf(request.ias) : \A x \in ia.addrs : Held(ia.kind, x) => ia \in handled
  <2>1. Renewed
    BY <1>1, <1>3 DEF KeptInv, Replying
  <2>2. \A kind, a : Held(kind, a) => Assigned
    BY <1>1, <1>2, AssignedByThen
  <2> QED
    BY <2>1, <2>2 DEF Renewed
<1>4. RequestOK /\ ResponseInv
  BY RequestFits DEF TypeInv
<1>5. ASSUME NEW kinds
      PROVE  /\ Sequence(Unhandled(kinds))
             /\ SetOf(Unhandled(kinds)) \subseteq SetOf(request.ias) \ handled
  BY <1>4, UnhandledSet
<1>6. ASSUME NEW added, Adds(added), Sequence(added), \A a \in SetOf(added) : Honours(a)
      PROVE  KeptInv'
  BY <1>1, <1>3, <1>6, KeptAdds
<1>7. ASSUME NEW s, Sequence(s), NEW status, AnswerAll(s, status) PROVE KeptInv'
  <2> DEFINE added == [i \in DOMAIN s |-> Answer(s[i], {}, {}, status)]
  <2>1. /\ DOMAIN added = DOMAIN s /\ added = [i \in DOMAIN added |-> added[i]]
        /\ \A i \in DOMAIN s : added[i] = Answer(s[i], {}, {}, status)
    OBVIOUS
  <2>2. response' = [response EXCEPT !.answers = @ \o added]
    BY <1>7 DEF AnswerAll, Respond
  <2> HIDE DEF added
  <2>3. Sequence(added) /\ \A a \in SetOf(added) : a.live = {} /\ a.dead = {}
    <3>1. /\ Sequence(added)
          /\ \A a \in SetOf(added) : \E i \in DOMAIN s : a = added[i]
      BY <1>7, <2>1, MappedAnswers
    <3> QED
      BY ONLY <2>1, <3>1 DEF Answer
  <2>4. Adds(added)
    BY <1>4, <2>2, AddsAnswers
  <2> QED
    BY <1>6, <2>3, <2>4 DEF Honours
<1>8. ASSUME NEW s, Sequence(s), SetOf(s) \subseteq SetOf(request.ias) \ handled,
             WithdrawAll(s)
      PROVE  KeptInv'
  <2> DEFINE added == [i \in DOMAIN s |-> Answer(s[i], {}, s[i].addrs, "none")]
  <2>1. /\ DOMAIN added = DOMAIN s /\ added = [i \in DOMAIN added |-> added[i]]
        /\ \A i \in DOMAIN s : added[i] = Answer(s[i], {}, s[i].addrs, "none")
    OBVIOUS
  <2>2. response' = [response EXCEPT !.answers = @ \o added]
    BY <1>8 DEF WithdrawAll, Respond
  <2> HIDE DEF added
  <2>3. /\ Sequence(added)
        /\ \A a \in SetOf(added) :
              a.live = {} /\ \E i \in DOMAIN s : Fits(a, s[i]) /\ a.dead = s[i].addrs
    <3>0. /\ Sequence(s)
          /\ \A i \in DOMAIN s : \E l, d, t : added[i] = Answer(s[i], l, d, t)
      BY <1>8, <2>1
    <3>1. /\ Sequence(added)
          /\ \A a \in SetOf(added) : \E i \in DOMAIN s : a = added[i] /\ Fits(a, s[i])
      BY ONLY <2>1, <3>0, MappedAnswers
    <3> QED
      BY ONLY <2>1, <3>1 DEF Answer
  <2>4. Adds(added)
    BY <1>4, <2>2, AddsAnswers
  <2>5. ASSUME NEW a \in SetOf(added) PROVE Honours(a)
    <3>1. PICK i \in DOMAIN s : Fits(a, s[i]) /\ a.dead = s[i].addrs
      BY <2>3
    <3>2. s[i] \in SetOf(request.ias) /\ s[i] \notin handled
      BY <1>8 DEF SetOf
    <3> QED
      BY <1>3, <2>3, <3>1, <3>2 DEF Honours, Fits
  <2> QED
    BY <1>6, <2>3, <2>4, <2>5
<1>9. ASSUME response'.answers = response.answers, ~Renewing PROVE KeptInv'
  BY <1>1, <1>9, KeptStill
<1>10. ASSUME NEW s, request.type = "Confirm", ForceStatus(s) PROVE KeptInv'
  <2> DEFINE x == IF s # <<>> THEN "NotOnLink" ELSE response.status
  <2>1. response' = [response EXCEPT !.status = x]
    BY <1>10 DEF ForceStatus
  <2> HIDE DEF x
  <2>2. response' = ResponseOf(response.type, response.answers, x, response.rapid)
    BY <1>4, <2>1, SetStatus
  <2>3. response'.answers = response.answers
    BY <2>2, ReplacedField
  <2> QED
    BY <1>9, <1>10, <2>3 DEF Renewing
<1>11. CASE UnansweredIAHandle
  <2> DEFINE s == Unhandled(Addressed)
  <2>1. \/ AnswerAll(s, "NoAddrsAvail") \/ WithdrawAll(s) \/ AnswerAll(s, "NoBinding")
        \/ request.type = "Confirm" /\ ForceStatus(s)
        \/ UNCHANGED response /\ ~Renewing
    BY <1>11 DEF UnansweredIAHandle, Renewing
  <2>2. Sequence(s) /\ SetOf(s) \subseteq SetOf(request.ias) \ handled
    BY <1>5
  <2> HIDE DEF s
  <2> QED
    BY <1>7, <1>8, <1>9, <1>10, <2>1, <2>2
<1>12. CASE UnansweredIAPDHandle
  <2> DEFINE s == Unhandled({"pd"})
  <2>1. \/ AnswerAll(s, "NoPrefixAvail") \/ WithdrawAll(s) \/ AnswerAll(s, "NoBinding")
        \/ UNCHANGED response /\ ~Renewing
    BY <1>12 DEF UnansweredIAPDHandle, Renewing
  <2>2. Sequence(s) /\ SetOf(s) \subseteq SetOf(request.ias) \ handled
    BY <1>5
  <2> HIDE DEF s
  <2> QED
    BY <1>7, <1>8, <1>9, <2>1, <2>2
<1> QED
  BY <1>11, <1>12

(* What a static assignment answers.                                       *)
LEMMA KeptStatic ==
    ASSUME OneAssignment, TypeInv, KeptInv, StaticHandle
    PROVE  KeptInv'
<1> DEFINE h == Chain[pos]
           Q == SetOf(request.ias)
           Of(kind) == {ia \in Q : ia.kind = kind} \ handled
<1>1. /\ stage = "handle" /\ Onward /\ UNCHANGED <<request, leased>>
      /\ h.name = "Static" /\ RequestOK /\ ResponseInv
  BY RequestFits DEF StaticHandle, At, TypeInv
<1>2. h \in Assignments
  BY <1>1, OnlyAssignment DEF TypeInv
<1>3. /\ \A a : Held("na", a) <=> a = h.address
      /\ \A a : Held("pd", a) <=> a = h.prefix /\ a # {}
      /\ \A kind, a : Held(kind, a) => kind \in {"na", "pd"}
  <2>1. \A g \in Assignments : g = h
    BY <1>2 DEF OneAssignment
  <2> HIDE DEF h
  <2> QED
    BY <1>2, <2>1 DEF Held
<1>4. CASE StaticRequest(h)
  <2> DEFINE pd == Grants("pd", h.prefix)
             na == Grants("na", h.address)
             G(s, x) == [i \in DOMAIN s |-> Answer(s[i], {x}, {}, "none")]
  <2>1. /\ request.type \in {"Solicit", "Request"}
        /\ Respond(G(pd, h.prefix) \o G(na, h.address))
    BY <1>4 DEF StaticRequest
  <2>2. /\ Sequence(pd) /\ SetOf(pd) \subseteq Of("pd")
        /\ Sequence(na) /\ SetOf(na) \subseteq Of("na")
    BY <1>1, GrantsOne
  <2>3. SetOf(pd) # {} => h.prefix # {}
    BY EmptySequence DEF Grants
  <2> HIDE DEF pd, na, h
  <2>4. ASSUME NEW s, Sequence(s), NEW kind, SetOf(s) \subseteq Of(kind), NEW x,
               SetOf(s) # {} => Held(kind, x)
        PROVE  Sequence(G(s, x)) /\ \A a \in SetOf(G(s, x)) : Honours(a)
    <3> DEFINE g == G(s, x)
    <3>1. /\ DOMAIN g = DOMAIN s /\ g = [i \in DOMAIN g |-> g[i]]
          /\ \A i \in DOMAIN s : g[i] = Answer(s[i], {x}, {}, "none")
      OBVIOUS
    <3> HIDE DEF g, G
    <3>2. /\ Sequence(s)
          /\ \A i \in DOMAIN s : \E l, d, t : g[i] = Answer(s[i], l, d, t)
      BY <2>4, <3>1
    <3>3. /\ Sequence(g)
          /\ \A a \in SetOf(g) : \E i \in DOMAIN s : a = g[i] /\ Fits(a, s[i])
      BY ONLY <3>1, <3>2, MappedAnswers
    <3>4. ASSUME NEW a \in SetOf(g) PROVE Honours(a)
      <4>1. PICK i \in DOMAIN s : a = g[i] /\ Fits(a, s[i])
        BY <3>3
      <4>2. a.live = {x} /\ a.dead = {}
        BY ONLY <3>1, <4>1 DEF Answer
      <4>3. s[i] \in SetOf(s)
        BY DEF SetOf
      <4>4. a.kind = kind /\ Held(kind, x)
        BY <2>4, <4>1, <4>3 DEF Fits
      <4> QED
        BY <4>2, <4>4 DEF Honours
    <3> QED
      BY <3>3, <3>4 DEF g
  <2> DEFINE p == G(pd, h.prefix)
             n == G(na, h.address)
             added == p \o n
  <2>5. /\ Sequence(p) /\ \A a \in SetOf(p) : Honours(a)
        /\ Sequence(n) /\ \A a \in SetOf(n) : Honours(a)
    <3>1. (SetOf(pd) # {} => Held("pd", h.prefix)) /\ Held("na", h.address)
      BY <1>3, <2>3
    <3> HIDE DEF G, Of
    <3> QED
      BY <2>2, <2>4, <3>1
  <2>6. response' = [response EXCEPT !.answers = @ \o added]
    BY <2>1 DEF Respond
  <2> HIDE DEF p, n
  <2>7. Sequence(added) /\ \A a \in SetOf(added) : Honours(a)
    BY <2>5, ConcatSet
  <2> HIDE DEF added
  <2>8. Adds(added)
    BY <1>1, <2>6, AddsAnswers
  <2>9. ~Renewing
    BY <2>1 DEF Renewing
  <2> QED
    BY <1>1, <2>7, <2>8, <2>9, KeptAdds
<1>5. CASE StaticRenew(h)
  <2> DEFINE pd == Those(Unhandled({"pd"}), Overlapping(h))
             na == Unhandled({"na"})
             G(s, x) == [i \in DOMAIN s |->
                Answer(s[i], Kept(s[i].addrs, x), s[i].addrs \ Kept(s[i].addrs, x), "none")]
  <2>1. /\ Respond(G(pd, h.prefix) \o G(na, h.address))
        /\ handled' = handled \cup (SetOf(pd) \cup SetOf(na))
    BY <1>5 DEF StaticRenew, Mark
  <2>2. /\ Sequence(pd)
        /\ SetOf(pd) = {ia \in Of("pd") : \E p \in ia.addrs : p \cap h.prefix # {}}
        /\ Sequence(na) /\ SetOf(na) = Of("na")
    <3>1. \A kind : Sequence(Unhandled({kind})) /\ SetOf(Unhandled({kind})) = Of(kind)
      BY <1>1, UnhandledSet
    <3> DEFINE u == Unhandled({"pd"})
    <3>2. Overlapping(h) = {ia \in SetOf(u) : \E p \in ia.addrs : p \cap h.prefix # {}}
      BY DEF Overlapping
    <3>3. Sequence(u) /\ SetOf(u) = Of("pd")
      BY <3>1
    <3> HIDE DEF u, Of
    <3>4. Sequence(Those(u, Overlapping(h)))
          /\ SetOf(Those(u, Overlapping(h))) = SetOf(u) \cap Overlapping(h)
      BY <3>3, ThoseSet
    <3> QED
      BY <3>1, <3>2, <3>3, <3>4 DEF u
  <2> HIDE DEF pd, na, h
  <2>4. ASSUME NEW s, Sequence(s), NEW kind, SetOf(s) \subseteq Of(kind), NEW x,
               \A a : Held(kind, a) => a = x, SetOf(s) # {} => Held(kind, x)
        PROVE  /\ Sequence(G(s, x)) /\ \A a \in SetOf(G(s, x)) : Honours(a)
               /\ \A ia \in SetOf(s) : \A a \in ia.addrs :
                     Held(ia.kind, a) => GivenIn(ia, a, G(s, x))
    <3> DEFINE g == G(s, x)
    <3>1. /\ DOMAIN g = DOMAIN s /\ g = [i \in DOMAIN g |-> g[i]]
          /\ \A i \in DOMAIN s :
                g[i] = Answer(s[i], Kept(s[i].addrs, x), s[i].addrs \ Kept(s[i].addrs, x), "none")
      OBVIOUS
    <3> HIDE DEF g, G
    <3>2. /\ Sequence(s)
          /\ \A i \in DOMAIN s : \E l, d, t : g[i] = Answer(s[i], l, d, t)
      BY <2>4, <3>1
    <3>3. /\ Sequence(g)
          /\ \A a \in SetOf(g) : \E i \in DOMAIN s : a = g[i] /\ Fits(a, s[i])
          /\ \A i \in DOMAIN s : g[i] \in SetOf(g) /\ Fits(g[i], s[i])
      BY ONLY <3>1, <3>2, MappedAnswers
    <3>4. \A i \in DOMAIN s : /\ g[i].live = s[i].addrs \cap {x}
                              /\ g[i].dead = s[i].addrs \ (s[i].addrs \cap {x})
      BY ONLY <3>1 DEF Answer, Kept
    <3>5. \A i \in DOMAIN s : s[i] \in SetOf(s) /\ s[i].kind = kind
      BY <2>4 DEF SetOf
    <3>6. ASSUME NEW a \in SetOf(g) PROVE Honours(a)
      <4>1. PICK i \in DOMAIN s : a = g[i] /\ Fits(a, s[i])
        BY <3>3
      <4>2. a.kind = kind /\ Held(kind, x)
        BY <2>4, <3>5, <4>1 DEF Fits
      <4>3. \A y \in a.live : y = x
        BY <3>4, <4>1
      <4>4. \A y \in a.dead : y # x
        BY <3>4, <4>1
      <4> QED
        BY <2>4, <4>2, <4>3, <4>4 DEF Honours
    <3>7. ASSUME NEW ia \in SetOf(s), NEW a \in ia.addrs, Held(ia.kind, a)
          PROVE  GivenIn(ia, a, g)
      <4>1. PICK i \in DOMAIN s : ia = s[i]
        BY DEF SetOf
      <4>2. a = x
        BY <2>4, <3>5, <3>7, <4>1
      <4>3. a \in g[i].live
        BY <3>4, <4>1, <4>2
      <4> QED
        BY <3>3, <4>1, <4>3 DEF GivenIn
    <3> QED
      BY <3>3, <3>6, <3>7 DEF g
  <2> DEFINE p == G(pd, h.prefix)
             n == G(na, h.address)
             added == p \o n
  <2>5. /\ SetOf(pd) \subseteq Of("pd") /\ SetOf(na) \subseteq Of("na")
        /\ SetOf(pd) # {} => Held("pd", h.prefix)
        /\ \A a : Held("pd", a) => a = h.prefix
        /\ Held("na", h.address) /\ \A a : Held("na", a) => a = h.address
    BY <1>3, <2>2
  <2>6. /\ Sequence(p) /\ \A a \in SetOf(p) : Honours(a)
        /\ \A ia \in SetOf(pd) : \A a \in ia.addrs : Held(ia.kind, a) => GivenIn(ia, a, p)
    <3> HIDE DEF G, Of
    <3> QED
      BY <2>2, <2>4, <2>5
  <2>7. /\ Sequence(n) /\ \A a \in SetOf(n) : Honours(a)
        /\ \A ia \in SetOf(na) : \A a \in ia.addrs : Held(ia.kind, a) => GivenIn(ia, a, n)
    <3> HIDE DEF G, Of
    <3> QED
      BY <2>2, <2>4, <2>5
  <2>8. response' = [response EXCEPT !.answers = @ \o added]
    BY <2>1 DEF Respond
  <2> HIDE DEF p, n
  <2>9. Sequence(added) /\ SetOf(added) = SetOf(p) \cup SetOf(n)
    BY <2>6, <2>7, ConcatSet
  <2>10. /\ \A a \in SetOf(added) : Honours(a)
         /\ \A ia \in SetOf(pd) \cup SetOf(na) : \A a \in ia.addrs :
               Held(ia.kind, a) => GivenIn(ia, a, added)
    BY <2>6, <2>7, <2>9 DEF GivenIn
  <2> HIDE DEF added
  <2>11. Adds(added)
    BY <1>1, <2>8, AddsAnswers
  <2>12. ASSUME NEW ia \in SetOf(request.ias), NEW x \in ia.addrs, Held(ia.kind, x)
         PROVE  ia \in handled'
    <3>1. CASE ia.kind = "na"
      BY <2>1, <2>2, <3>1
    <3>2. CASE ia.kind = "pd"
      <4>1. x = h.prefix /\ x # {}
        BY <1>3, <2>12, <3>2
      <4>2. x \cap h.prefix # {}
        BY <4>1
      <4> QED
        BY <2>1, <2>2, <3>2, <4>2
    <3> QED
      BY <1>3, <2>12, <3>1, <3>2
  <2>13. \A ia \in handled' : ia \in handled \/ ia \in SetOf(pd) \cup SetOf(na)
    BY <2>1
  <2> QED
    BY <1>1, <2>9, <2>10, <2>11, <2>12, <2>13, KeptAdds
<1>6. ASSUME UNCHANGED response, ~Renewing PROVE KeptInv'
  BY <1>1, <1>6, KeptStill
<1>7. CASE StaticConfirm(h) \/ StaticRelease(h)
  BY <1>6, <1>7 DEF StaticConfirm, StaticRelease, Renewing
<1>8. CASE request.type \in {"InformationRequest", "Leasequery"} /\ UNCHANGED <<response, handled>>
  BY <1>6, <1>8 DEF Renewing
<1> QED
  BY <1>4, <1>5, <1>7, <1>8 DEF StaticHandle

LEMMA StaticTurn ==
    ASSUME [Next]_vars, stage = "handle", Chain[pos].name = "Static"
    PROVE  StaticHandle \/ UNCHANGED vars
<1>1. ~Receive /\ ~ReceiveUnparsable /\ ~ReceiveNoRequest
  BY DEF Receive, ReceiveUnparsable, ReceiveNoRequest
<1>2. /\ ~ServerIdPre /\ ~RequireBulkOverTCPPre /\ ~RefuseBulkOverUDPPre /\ ~IgnorePre
      /\ ~RateLimitPre /\ ~ServerUnicastPre /\ ~LeasequeryPre /\ ~RejectUnwantedUnicastPre
  BY DEF At, ServerIdPre, RequireBulkOverTCPPre, RefuseBulkOverUDPPre, IgnorePre, RateLimitPre,
         ServerUnicastPre, LeasequeryPre, RejectUnwantedUnicastPre
<1>3. ~NotOverridden /\ ~InitResponse
  BY DEF NotOverridden, Overrides, InitResponse
<1>4. ~LeasequeryHandle /\ ~UnansweredIAHandle /\ ~UnansweredIAPDHandle /\ ~AddMissingStatusHandle
  BY DEF At, LeasequeryHandle, UnansweredIAHandle, UnansweredIAPDHandle, AddMissingStatusHandle
<1>5. ~RapidCommitPost /\ ~UnansweredLeasequeryPost /\ ~AnalysePost /\ ~SendFirst /\ ~SendMore
  BY DEF At, RapidCommitPost, UnansweredLeasequeryPost, AnalysePost, SendFirst, SendMore
<1> QED
  BY <1>1, <1>2, <1>3, <1>4, <1>5 DEF Next

(* Only a message that is sent tells the client of leases.                 *)
LEMMA LeasedStep ==
    ASSUME [Next]_vars
    PROVE  SendFirst \/ UNCHANGED leased
<1>1. Receive \/ ReceiveUnparsable \/ ReceiveNoRequest => UNCHANGED leased
  BY DEF Receive, ReceiveUnparsable, ReceiveNoRequest
<1>2. ServerIdPre \/ RequireBulkOverTCPPre \/ RefuseBulkOverUDPPre \/ IgnorePre => UNCHANGED leased
  BY DEF ServerIdPre, RequireBulkOverTCPPre, RefuseBulkOverUDPPre, IgnorePre
<1>3. RateLimitPre \/ ServerUnicastPre \/ LeasequeryPre \/ RejectUnwantedUnicastPre
        => UNCHANGED leased
  BY DEF RateLimitPre, ServerUnicastPre, LeasequeryPre, RejectUnwantedUnicastPre
<1>4. NotOverridden \/ InitResponse \/ StaticHandle \/ LeasequeryHandle => UNCHANGED leased
  BY DEF NotOverridden, InitResponse, StaticHandle, LeasequeryHandle
<1>5. UnansweredIAHandle \/ UnansweredIAPDHandle \/ AddMissingStatusHandle => UNCHANGED leased
  BY DEF UnansweredIAHandle, UnansweredIAPDHandle, AddMissingStatusHandle
<1>6. RapidCommitPost \/ UnansweredLeasequeryPost \/ AnalysePost \/ SendMore => UNCHANGED leased
  BY DEF RapidCommitPost, UnansweredLeasequeryPost, AnalysePost, SendMore
<1>7. UNCHANGED vars => UNCHANGED leased
  BY DEF vars
<1> QED
  BY <1>1, <1>2, <1>3, <1>4, <1>5, <1>6, <1>7 DEF Next

(* What the client learns is what the answers give.                        *)
LEMMA LearnedHeld ==
    ASSUME KeptInv, leased' \in {Learned, leased}
    PROVE  \A l \in leased' : Held(l.kind, l.addr)
<1> SUFFICES ASSUME NEW l \in Leases(FALSE) PROVE Held(l.kind, l.addr)
  BY DEF KeptInv, Learned
<1>1. PICK a \in SetOf(response.answers) :
         \E x \in a.live : l = [kind |-> a.kind, iaid |-> a.iaid, addr |-> x]
  BY DEF Leases
<1> QED
  BY <1>1 DEF KeptInv, Honours

(* A response without answers, or one that only tells of an error.         *)
LEMMA KeptEmpty ==
    ASSUME KeptInv, UNCHANGED leased, SetOf(response'.answers) = {}, ~Replying'
    PROVE  KeptInv'
BY DEF KeptInv

LEMMA EmptyAnswersOf ==
    ASSUME NEW t, NEW s, response' = ResponseOf(t, <<>>, s, FALSE)
    PROVE  SetOf(response'.answers) = {} /\ response'.type = t /\ response'.status = s
<1> DEFINE a == <<>>
           c == FALSE
<1>1. response' = ResponseOf(t, a, s, c) /\ SetOf(a) = {}
  BY EmptySequence
<1> HIDE DEF a, c
<1>2. response'.answers = a /\ response'.type = t /\ response'.status = s
  BY ONLY <1>1, ReplacedField
<1> QED
  BY <1>1, <1>2

LEMMA KeptStep ==
    ASSUME OneAssignment, TypeInv, RapidInv, KeptInv, [Next]_vars
    PROVE  KeptInv'
<1>1. CASE UNCHANGED vars
  <2>1. UNCHANGED <<stage, pos, request, response, handled, leased>>
    BY <1>1 DEF vars, bundle
  <2>2. (Replying' => Replying) /\ (Assigned' => Assigned)
    BY <2>1 DEF Replying, NoError, Assigned, Chain, Selected
  <2> QED
    BY <2>1, <2>2, KeptStill
<1>2. CASE SendFirst
  <2>1. UNCHANGED <<request, response>> /\ ~Replying' /\ leased' \in {Learned, leased}
    BY <1>2 DEF SendFirst, bundle, Replying
  <2>2. \A l \in leased' : Held(l.kind, l.addr)
    BY <2>1, LearnedHeld
  <2>3. \A a \in SetOf(response'.answers) : Honours(a)'
    BY <2>1 DEF KeptInv, Honours, Renewing
  <2> QED
    BY <2>1, <2>2, <2>3 DEF KeptInv
<1> SUFFICES ASSUME UNCHANGED leased, ~SendFirst, ~UNCHANGED vars PROVE KeptInv'
  BY <1>1, <1>2, LeasedStep
<1>3. CASE Receive
  <2>1. response' = ResponseOf("none", <<>>, "none", FALSE) /\ stage' = "pre"
    BY <1>3, EmptyResponse DEF Receive
  <2>2. SetOf(response'.answers) = {} /\ ~Replying'
    BY <2>1, EmptyAnswersOf DEF Replying
  <2> QED
    BY <2>2, KeptEmpty
<1>4. ASSUME UNCHANGED <<request, response>>, stage' \in {"idle", "pre", "init", "more"}
      PROVE  KeptInv'
  <2>1. ~Replying'
    BY <1>4 DEF Replying
  <2> QED
    BY <1>4, <2>1, KeptStill
<1>5. CASE ReceiveUnparsable \/ ReceiveNoRequest \/ Breaks \/ SendsNext
  BY <1>4, <1>5 DEF ReceiveUnparsable, ReceiveNoRequest, bundle, Breaks, SendsNext, HandlingError
<1>6. CASE Ignores
  <2>1. response' = ResponseOf("none", <<>>, "none", FALSE) /\ stage' = "analyse"
    BY <1>6, EmptyResponse DEF Ignores, Ignore
  <2>2. SetOf(response'.answers) = {} /\ ~Replying'
    BY <2>1, EmptyAnswersOf DEF Replying
  <2> QED
    BY <2>2, KeptEmpty
<1>7. CASE Refuses
  <2>1. PICK type \in {"Reply", "LeasequeryReply"}, status \in ErrorStatuses :
           response' = ResponseOf(type, <<>>, status, FALSE) /\ stage' = "analyse"
    BY <1>7, EmptyResponse DEF Refuses, ReplyWithStatus
  <2>2. status \notin {"none", "Success"}
    BY DEF ErrorStatuses
  <2>3. SetOf(response'.answers) = {} /\ ~Replying'
    BY <2>1, <2>2, EmptyAnswersOf DEF Replying, NoError
  <2> QED
    BY <2>3, KeptEmpty
<1>8. CASE Begins
  <2>1. /\ stage' = "handle" /\ pos' = 1 /\ handled' = {} /\ UNCHANGED request
        /\ response' = ResponseOf(ResponseType, <<>>, "none", FALSE)
    BY <1>8, EmptyResponse DEF Begins, RapidInv
  <2>2. SetOf(response'.answers) = {}
    BY <2>1, EmptyAnswersOf
  <2>3. ~Assigned'
    BY <2>1 DEF Assigned
  <2>4. Renewed'
    BY <2>1, <2>3 DEF Renewed
  <2> QED
    BY <2>2, <2>4 DEF KeptInv
(* A step of the phase handle() that answers nothing.                      *)
<1>9. ASSUME stage = "handle", Onward, UNCHANGED <<request, handled>>,
             response'.answers = response.answers, Chain[pos].name # "Static"
      PROVE  KeptInv'
  <2>1. Replying
    BY <1>9 DEF Replying
  <2>2. \A kind, a : Held(kind, a) /\ Assigned' => Assigned
    BY <1>9, AssignedStep
  <2> QED
    BY <1>9, <2>1, <2>2, KeptStill
<1>10. CASE StaticHandle
  BY <1>10, KeptStatic
<1>11. ASSUME stage = "handle", Onward, UNCHANGED <<request, handled, response>>
       PROVE  KeptInv'
  <2>1. Chain[pos].name = "Static" => StaticHandle
    BY <1>11, StaticTurn
  <2> QED
    BY <1>9, <1>10, <1>11, <2>1
(* The response is complete.                                               *)
<1>12. ASSUME stage \in {"post", "analyse"}, stage' # "handle", UNCHANGED <<request, handled>>,
              response'.answers = response.answers, Replying' => Replying
       PROVE  KeptInv'
  <2>1. Assigned
    BY <1>12 DEF Assigned
  <2> QED
    BY <1>12, <2>1, KeptStill
<1>13. CASE Passes
  <2>1. /\ stage \in {"pre", "handle", "post"} /\ Onward
        /\ UNCHANGED <<request, response, handled>>
    BY <1>13 DEF Passes
  <2>2. CASE stage = "pre"
    <3>1. stage' \in {"pre", "init"}
      BY <2>1, <2>2, Phases
    <3> QED
      BY <1>4, <2>1, <3>1
  <2>3. CASE stage = "handle"
    BY <1>11, <2>1, <2>3
  <2>4. CASE stage = "post"
    <3>1. stage' \in {"post", "analyse"} /\ Replying
      BY <2>1, <2>4, Phases DEF Replying
    <3> QED
      BY <1>12, <2>1, <2>4, <3>1
  <2> QED
    BY <2>1, <2>2, <2>3, <2>4
<1>14. CASE StartsData
  BY <1>11, <1>14 DEF StartsData
<1>15. CASE UnansweredIAHandle \/ UnansweredIAPDHandle
  BY <1>15, KeptCleanUp
<1>16. CASE AddMissingStatusHandle
  <2>1. /\ stage = "handle" /\ Onward /\ UNCHANGED <<request, handled>>
        /\ Chain[pos].name = "AddMissingStatus"
    BY <1>16 DEF AddMissingStatusHandle, At
  <2> DEFINE x == IF request.type \in {"Confirm", "Release", "Decline"} /\ response.status = "none"
                  THEN "Success" ELSE response.status
  <2>2. response' = [response EXCEPT !.status = x]
    BY <1>16 DEF AddMissingStatusHandle
  <2> HIDE DEF x
  <2>3. response' = ResponseOf(response.type, response.answers, x, response.rapid)
    BY <2>2, SetStatus DEF TypeInv
  <2>4. response'.answers = response.answers
    BY <2>3, ReplacedField
  <2>5. Chain[pos].name # "Static"
    BY <2>1
  <2> QED
    BY <1>9, <2>1, <2>4, <2>5
<1>17. CASE RapidCommitPost
  <2>1. stage = "post" /\ Onward /\ UNCHANGED <<request, handled>>
    BY <1>17 DEF RapidCommitPost, At
  <2>2. stage' \in {"post", "analyse"} /\ Replying
    BY <2>1, Phases DEF Replying
  <2>3. response'.answers = response.answers
    BY <1>17, Commits DEF RapidCommitPost, TypeInv, CommitsRapidly
  <2> QED
    BY <1>12, <2>1, <2>2, <2>3
<1>18. CASE AnalysePost
  <2>1. /\ stage = "analyse" /\ UNCHANGED <<request, response, handled>>
        /\ stage' = IF response.type # "none" THEN "send" ELSE "idle"
    BY <1>18 DEF AnalysePost, bundle
  <2>2. (Replying' => Replying) /\ stage' # "handle"
    BY <2>1 DEF Replying, NoError
  <2> QED
    BY <1>12, <2>1, <2>2
<1> QED
  BY <1>3, <1>5, <1>6, <1>7, <1>8, <1>10, <1>13, <1>14, <1>15, <1>16, <1>17, <1>18, Groups
  DEF Answers

LEMMA KeptAlways ==
    ASSUME OneAssignment
    PROVE  Spec => []KeptInv
<1>1. Init => KeptInv
  <2> SUFFICES ASSUME Init PROVE KeptInv
    OBVIOUS
  <2>1. stage = "idle" /\ leased = {} /\ response.answers = <<>>
    BY DEF Init, NoResponse
  <2>2. SetOf(response.answers) = {}
    BY <2>1, EmptySequence
  <2> QED
    BY <2>1, <2>2 DEF KeptInv, Replying
<1>2. HandlingInv /\ KeptInv /\ [Next]_vars => KeptInv'
  BY KeptStep DEF HandlingInv
<1> QED
  BY <1>1, <1>2, HandlingAlways, PTL DEF Spec

(* What a client was given in one reply is confirmed, and not withdrawn in *)
(* the same message, whenever it renews or rebinds                         *)
(* (static_assignments/__init__.py, handle_renew_rebind() and handle()).   *)
(* It holds for all requests and all chains of handlers with one static    *)
(* assignment that every message reaches, or none: with two of them the    *)
(* first one withdraws what the second one assigned.                       *)
THEOREM LeasesAreKept ==
    ASSUME OneAssignment
    PROVE  Spec => []LeasesKept
<1>1. KeptInv => LeasesKept
  <2> SUFFICES ASSUME KeptInv, Normal, Renewing, NEW l \in leased, l \in GivenUp
               PROVE  l \in Leases(FALSE) \ Leases(TRUE)
    BY DEF LeasesKept, Renewing
  <2>1. PICK ia \in SetOf(request.ias) :
           \E x \in ia.addrs : l = [kind |-> ia.kind, iaid |-> ia.iaid, addr |-> x]
    BY DEF GivenUp
  <2>2. PICK x \in ia.addrs : l = [kind |-> ia.kind, iaid |-> ia.iaid, addr |-> x]
    BY <2>1
  <2>3. Held(ia.kind, x)
    BY <2>2 DEF KeptInv
  <2>4. Renewed /\ Assigned
    BY DEF KeptInv, Replying, Normal, NoError, Assigned
  <2>5. GivenIn(ia, x, response.answers)
    BY <2>3, <2>4 DEF Renewed
  <2>6. l \in Leases(FALSE)
    BY <2>2, <2>5 DEF Leases, GivenIn, Fits
  <2>7. ASSUME l \in Leases(TRUE) PROVE FALSE
    <3>1. PICK a \in SetOf(response.answers) :
             \E y \in a.dead : l = [kind |-> a.kind, iaid |-> a.iaid, addr |-> y]
      BY <2>7 DEF Leases
    <3>2. a.kind = ia.kind /\ x \in a.dead
      BY <2>2, <3>1
    <3> QED
      BY <2>3, <3>1, <3>2 DEF KeptInv, Honours
  <2> QED
    BY <2>6, <2>7
<1> QED
  BY <1>1, KeptAlways, PTL
=============================================================================
