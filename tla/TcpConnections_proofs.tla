------------------------ MODULE TcpConnections_proofs ------------------------
(***************************************************************************)
(* Connections for bulk leasequeries, for any number of clients, messages  *)
(* and workers, any sizes and any limit: replies are written whole, the    *)
(* limit on connections is kept, and requests are the messages sent.       *)
(***************************************************************************)
EXTENDS TcpConnections, FiniteSetTheorems, SequenceTheorems, WellFoundedInduction, TLAPS

OctetSet == [message : Nat, index : Nat]

LEMMA OctetsType ==
    ASSUME NEW m \in Nat, NEW n \in Nat
    PROVE  /\ Octets(m, n) \in Seq(OctetSet) /\ Len(Octets(m, n)) = n
           /\ \A k \in 1..n : Octets(m, n)[k] = Octet(m, k)
BY DEF Octets, Octet, OctetSet

-----------------------------------------------------------------------------
(* The limit on connections                                                *)

LimitInv ==
    /\ IsFiniteSet(listeners) /\ IsFiniteSet(events)
    /\ Cardinality(listeners) <= MaxConnections

LEMMA LimitChanges ==
    ASSUME [Next]_vars
    PROVE  \/ \E c \in Conns : Accept(c) \/ Forget(c)
           \/ /\ UNCHANGED <<client, listeners>> /\ events' \in {events, {}}
           \/ \E c \in Conns : Close(c)
<1> DEFINE Same == UNCHANGED <<client, listeners>> /\ events' \in {events, {}}
<1> USE DEF clientVars, masterVars
<1>1. ASSUME NEW c \in Conns PROVE SendPiece(c) => Same
  BY DEF SendPiece
<1>2. ASSUME NEW c \in Conns PROVE RecvLength(c) => Same
  BY DEF RecvLength, Take, SameRoundOrNext
<1>3. ASSUME NEW c \in Conns PROVE RecvData(c) \/ NothingThere(c) => Same
  BY DEF RecvData, NothingThere, Take, SameRoundOrNext
<1>4. AcceptNothing => Same
  BY DEF AcceptNothing, SameRoundOrNext
<1>5. ASSUME NEW w \in Workers PROVE Worker(w) => Same
  BY DEF Worker, StartHandling, StartReply, WritePiece, FinishReply, FailToReply
<1>6. UNCHANGED vars => Same
  BY DEF vars
<1> QED
  BY <1>1, <1>2, <1>3, <1>4, <1>5, <1>6 DEF Next, Master

(* The connections that are counted include those that are served.         *)
LEMMA OpenSocketsFinite ==
    ASSUME LimitInv, NEW old, IsFiniteSet(old)
    PROVE  /\ IsFiniteSet(OpenSockets(old))
           /\ Cardinality(listeners) <= Cardinality(OpenSockets(old))
<1>1. IsFiniteSet({newListener, replier})
  <2>1. IsFiniteSet({newListener})
    BY FS_Singleton
  <2>2. {newListener, replier} = {newListener} \cup {replier}
    OBVIOUS
  <2> QED
    BY <2>1, <2>2, FS_AddElement
<1>2. IsFiniteSet({newListener, replier} \ {None})
  BY <1>1, FS_Subset
<1>3. IsFiniteSet(OpenSockets(old))
  BY <1>2, FS_Union DEF LimitInv, OpenSockets
<1> QED
  BY <1>3, FS_Subset DEF LimitInv, OpenSockets

LEMMA LimitStep == LimitInv /\ [Next]_vars => LimitInv'
<1> SUFFICES ASSUME LimitInv, [Next]_vars PROVE LimitInv'
  OBVIOUS
<1>1. /\ IsFiniteSet(listeners) /\ IsFiniteSet(events) /\ Cardinality(listeners) \in Nat
      /\ Cardinality(listeners) <= MaxConnections /\ MaxConnections \in Nat
      /\ IsFiniteSet({})
  BY FS_CardinalityType, FS_EmptySet, TcpConnectionsAssumption DEF LimitInv
<1>2. ASSUME NEW c \in Conns, Accept(c) PROVE LimitInv'
  <2>1. IsFiniteSet(events')
    BY <1>1, <1>2 DEF Accept, SameRoundOrNext
  <2>2. CASE UNCHANGED listeners
    BY <1>1, <2>1, <2>2 DEF LimitInv
  <2>3. CASE ~Full(events') /\ listeners' = listeners \cup {c}
    <3>1. /\ IsFiniteSet(OpenSockets(events'))
          /\ Cardinality(listeners) <= Cardinality(OpenSockets(events'))
      BY <2>1, OpenSocketsFinite
    <3>2. Cardinality(listeners) < MaxConnections
      BY <1>1, <2>3, <3>1, FS_CardinalityType DEF Full
    <3>3. /\ IsFiniteSet(listeners')
          /\ \/ Cardinality(listeners') = Cardinality(listeners)
             \/ Cardinality(listeners') = Cardinality(listeners) + 1
      BY <1>1, <2>3, FS_AddElement
    <3> QED
      BY <1>1, <2>1, <3>2, <3>3 DEF LimitInv
  <2> QED
    BY <1>2, <2>2, <2>3 DEF Accept
<1>3. ASSUME NEW c \in Conns, Forget(c) PROVE LimitInv'
  <2>1. listeners' = listeners \ {c} /\ events' \in {events \cup {c}, {c}}
    BY <1>3 DEF Forget
  <2>2. IsFiniteSet(events') /\ IsFiniteSet(listeners')
    <3>1. IsFiniteSet(events \cup {c}) /\ IsFiniteSet({c}) /\ IsFiniteSet(listeners \ {c})
      BY <1>1, FS_AddElement, FS_RemoveElement, FS_Singleton
    <3> QED
      BY <2>1, <3>1
  <2>3. Cardinality(listeners') <= Cardinality(listeners) /\ Cardinality(listeners') \in Nat
    BY <1>1, <2>1, FS_Subset, FS_CardinalityType
  <2> QED
    BY <1>1, <2>2, <2>3 DEF LimitInv
<1>4. CASE UNCHANGED <<client, listeners>> /\ events' \in {events, {}}
  BY <1>1, <1>4 DEF LimitInv
<1>5. ASSUME NEW c \in Conns, Close(c) PROVE LimitInv'
  BY <1>1, <1>5 DEF Close, masterVars, LimitInv
<1> QED
  BY <1>2, <1>3, <1>4, <1>5, LimitChanges

LEMMA InitLimit == Init => LimitInv
<1>1. Cardinality({}) = 0 /\ IsFiniteSet({})
  BY FS_EmptySet
<1> QED
  BY <1>1, TcpConnectionsAssumption DEF Init, LimitInv

(* No more connections are served than the limit says, and the sockets     *)
(* that are only still referred to turn away at most one allowed client    *)
(* too many when nothing was closed in the round.                          *)
THEOREM ConnectionsAreLimited == Spec => ConnectionsLimited
<1>1. LimitInv /\ LimitInv' /\ [Next]_vars =>
        [\A c \in Conns :
          /\ Cardinality(listeners') <= MaxConnections
          /\ /\ client[c] = "connecting" /\ client'[c] = "refused" /\ c \in Allowed
             /\ newListener = None /\ events' = {}
             => Cardinality(listeners) >= MaxConnections - 1]_vars
  <2> SUFFICES ASSUME LimitInv, LimitInv', [Next]_vars, NEW c \in Conns,
                      client[c] = "connecting", client'[c] = "refused", c \in Allowed,
                      newListener = None, events' = {}
               PROVE  Cardinality(listeners) >= MaxConnections - 1
    BY DEF LimitInv
  <2>1. PICK d \in Conns : Accept(d)
    <3>1. client' # client
      OBVIOUS
    <3>2. ASSUME NEW d \in Conns, Close(d) PROVE FALSE
      <4>1. client' = [client EXCEPT ![d] = "eof"]
        BY <3>2 DEF Close
      <4> QED
        BY <4>1
    <3>3. ASSUME NEW d \in Conns PROVE ~Forget(d)
      BY <3>1 DEF Forget, clientVars
    <3> QED
      BY <3>1, <3>2, <3>3, LimitChanges
  <2>2. Full({})
    <3>1. CASE client' = [client EXCEPT ![d] = "open"]
      BY <3>1
    <3>2. CASE (Full(events') \/ d \notin Allowed) /\ client' = [client EXCEPT ![d] = "refused"]
      <4>1. d = c
        BY <3>2
      <4> QED
        BY <3>2, <4>1
    <3> QED
      BY <2>1, <3>1, <3>2 DEF Accept
  <2>3. OpenSockets({}) \subseteq listeners \cup {replier}
    BY DEF OpenSockets
  <2>4. /\ IsFiniteSet(listeners \cup {replier})
        /\ Cardinality(listeners \cup {replier}) <= Cardinality(listeners) + 1
        /\ Cardinality(listeners \cup {replier}) \in Nat /\ Cardinality(listeners) \in Nat
    <3>1. IsFiniteSet(listeners) /\ Cardinality(listeners) \in Nat
      BY FS_CardinalityType DEF LimitInv
    <3>2. IsFiniteSet(listeners \cup {replier})
      BY <3>1, FS_AddElement
    <3>3. \/ Cardinality(listeners \cup {replier}) = Cardinality(listeners)
          \/ Cardinality(listeners \cup {replier}) = Cardinality(listeners) + 1
      BY <3>1, FS_AddElement
    <3> QED
      BY <3>1, <3>2, <3>3
  <2>5. Cardinality(OpenSockets({})) <= Cardinality(listeners \cup {replier})
        /\ Cardinality(OpenSockets({})) \in Nat
    BY <2>3, <2>4, FS_Subset, FS_CardinalityType
  <2>6. Cardinality(OpenSockets({})) >= MaxConnections /\ MaxConnections \in Nat
    BY <2>2, TcpConnectionsAssumption DEF Full
  <2> QED
    BY <2>4, <2>5, <2>6
<1> QED
  BY <1>1, InitLimit, LimitStep, PTL DEF Spec, ConnectionsLimited

-----------------------------------------------------------------------------
(* The octets that are left                                                *)

LEMMA FirstExists ==
    ASSUME NEW S \in SUBSET Nat, S # {}
    PROVE  \E n \in S : \A m \in S : n <= m
<1>1. PICK n \in S : \A m \in S : <<m, n>> \notin OpToRel(<, Nat)
  BY NatLessThanWellFounded, WFMin
<1>2. \A m, k \in Nat : <<m, k>> \in OpToRel(<, Nat) <=> m < k
  BY DEF OpToRel
<1>3. \A m \in S : ~(m < n) /\ m \in Nat /\ n \in Nat
  BY <1>1, <1>2
<1>4. \A m \in S : n <= m
  BY <1>3
<1> QED
  BY <1>4

(* Induction over the naturals for a set in place of a predicate.          *)
LEMMA SetInduction ==
    ASSUME NEW S, 0 \in S, \A n \in Nat : n \in S => n + 1 \in S
    PROVE  Nat \subseteq S
<1> DEFINE T == {n \in Nat : n \notin S}
<1>1. SUFFICES ASSUME T # {} PROVE FALSE
  OBVIOUS
<1>2. PICK n \in T : \A m \in T : n <= m
  BY <1>1, FirstExists
<1>3. n # 0 /\ n - 1 \in Nat /\ n - 1 \notin T
  BY <1>2
<1> QED
  BY <1>3

(* What the recursion says of the octets of the last k messages.           *)
Unfolds(c, f) ==
    f = [k \in 0..Len(Messages[c]) |->
          IF k = 0 THEN <<>>
          ELSE Octets(Len(Messages[c]) - k + 1, 2 + Messages[c][Len(Messages[c]) - k + 1])
                 \o f[k - 1]]

LEMMA LastMessagesUnfolds ==
    ASSUME NEW c \in Conns
    PROVE  Unfolds(c, LastMessages(c))
<1> DEFINE n == Len(Messages[c])
           step(k, rest) == Octets(n - k + 1, 2 + Messages[c][n - k + 1]) \o rest
           Upto(m, f) == f = [k \in 0..m |-> IF k = 0 THEN <<>> ELSE step(k, f[k - 1])]
           S == {m \in Nat : \E f : Upto(m, f)}
<1>0. n \in Nat
  BY TcpConnectionsAssumption
<1> HIDE DEF n, step
<1>1. 0 \in S
  <2>1. Upto(0, [k \in 0..0 |-> <<>>])
    OBVIOUS
  <2> QED
    BY <2>1
<1>2. ASSUME NEW m \in Nat, m \in S PROVE m + 1 \in S
  <2>1. PICK f : Upto(m, f)
    BY <1>2
  <2> DEFINE g == [k \in 0..m + 1 |-> IF k = 0 THEN <<>> ELSE step(k, f[k - 1])]
  <2>2. \A k \in 0..m : g[k] = f[k]
    BY <2>1
  <2>3. \A k \in 0..m + 1 : k # 0 => k - 1 \in 0..m
    OBVIOUS
  <2>4. g = [k \in 0..m + 1 |-> IF k = 0 THEN <<>> ELSE step(k, g[k - 1])]
    BY <2>2, <2>3
  <2>5. Upto(m + 1, g)
    BY <2>4
  <2> HIDE DEF g, Upto
  <2> QED
    BY <2>5
<1>3. n \in S
  <2> HIDE DEF S
  <2>1. Nat \subseteq S
    BY <1>1, <1>2, SetInduction
  <2> QED
    BY <1>0, <2>1
<1>4. PICK f : Upto(n, f)
  BY <1>3
<1>5. Unfolds(c, f)
  BY <1>4 DEF Unfolds, n, step
<1> QED
  BY <1>5 DEF Unfolds, LastMessages

LEMMA LastMessagesType ==
    ASSUME NEW c \in Conns
    PROVE  \A k \in 0..Len(Messages[c]) : LastMessages(c)[k] \in Seq(OctetSet)
<1> DEFINE n == Len(Messages[c])
           L == LastMessages(c)
           S == {k \in Nat : k <= n => L[k] \in Seq(OctetSet)}
<1>0. n \in Nat /\ Messages[c] \in Seq(Nat)
  BY TcpConnectionsAssumption
<1>1. L = [k \in 0..n |->
             IF k = 0 THEN <<>> ELSE Octets(n - k + 1, 2 + Messages[c][n - k + 1]) \o L[k - 1]]
  BY LastMessagesUnfolds DEF Unfolds
<1> HIDE DEF L
<1>2. 0 \in S
  BY <1>0, <1>1
<1>3. ASSUME NEW k \in Nat, k \in S PROVE k + 1 \in S
  <2> SUFFICES ASSUME k + 1 <= n PROVE L[k + 1] \in Seq(OctetSet)
    OBVIOUS
  <2>1. n - (k + 1) + 1 \in 1..n
    BY <1>0
  <2>2. Octets(n - (k + 1) + 1, 2 + Messages[c][n - (k + 1) + 1]) \in Seq(OctetSet)
    <3>1. n - (k + 1) + 1 \in Nat /\ 2 + Messages[c][n - (k + 1) + 1] \in Nat
      BY <1>0, <2>1
    <3> QED
      BY <3>1, OctetsType
  <2>3. L[k] \in Seq(OctetSet)
    BY <1>0, <1>3
  <2>4. L[k + 1] = Octets(n - (k + 1) + 1, 2 + Messages[c][n - (k + 1) + 1]) \o L[k]
    <3>1. k + 1 \in 0..n /\ k + 1 # 0 /\ (k + 1) - 1 = k
      BY <1>0
    <3> QED
      BY <1>1, <3>1
  <2> QED
    BY <2>2, <2>3, <2>4, ConcatProperties
<1>4. Nat \subseteq S
  <2> HIDE DEF S
  <2> QED
    BY <1>2, <1>3, SetInduction
<1> QED
  BY <1>0, <1>4 DEF L

(* A sequence is cut in two.                                               *)
LEMMA Cut ==
    ASSUME NEW S, NEW s \in Seq(S), NEW n \in 0..Len(s)
    PROVE  /\ SubSeq(s, 1, n) \in Seq(S) /\ Len(SubSeq(s, 1, n)) = n
           /\ SubSeq(s, n + 1, Len(s)) \in Seq(S)
           /\ Len(SubSeq(s, n + 1, Len(s))) = Len(s) - n
           /\ SubSeq(s, 1, n) \o SubSeq(s, n + 1, Len(s)) = s
           /\ \A i \in 1..n : SubSeq(s, 1, n)[i] = s[i]
           /\ \A i \in 1..Len(s) - n : SubSeq(s, n + 1, Len(s))[i] = s[n + i]
<1>0. n \in Int /\ Len(s) \in Int /\ n + 1 \in Int /\ n <= Len(s)
  OBVIOUS
<1>1. \A i \in 1..Len(s) : s[i] \in S
  OBVIOUS
<1>2. /\ SubSeq(s, 1, n) \in Seq(S) /\ Len(SubSeq(s, 1, n)) = n
      /\ \A i \in 1..n : SubSeq(s, 1, n)[i] = s[i]
  <2>1. \A i \in 1..n : s[i] \in S
    OBVIOUS
  <2>2. /\ SubSeq(s, 1, n) \in Seq(S)
        /\ Len(SubSeq(s, 1, n)) = IF 1 <= n THEN n - 1 + 1 ELSE 0
        /\ \A i \in 1..n - 1 + 1 : SubSeq(s, 1, n)[i] = s[1 + i - 1]
    BY <1>0, <2>1, SubSeqProperties
  <2> QED
    BY <1>0, <2>2
<1>3. /\ SubSeq(s, n + 1, Len(s)) \in Seq(S)
      /\ Len(SubSeq(s, n + 1, Len(s))) = Len(s) - n
      /\ \A i \in 1..Len(s) - n : SubSeq(s, n + 1, Len(s))[i] = s[n + i]
  <2>1. \A i \in n + 1..Len(s) : s[i] \in S
    OBVIOUS
  <2>2. /\ SubSeq(s, n + 1, Len(s)) \in Seq(S)
        /\ Len(SubSeq(s, n + 1, Len(s)))
             = IF n + 1 <= Len(s) THEN Len(s) - (n + 1) + 1 ELSE 0
        /\ \A i \in 1..Len(s) - (n + 1) + 1 : SubSeq(s, n + 1, Len(s))[i] = s[n + 1 + i - 1]
    BY <1>0, <2>1, SubSeqProperties
  <2> DEFINE u == SubSeq(s, n + 1, Len(s))
  <2> HIDE DEF u
  <2>3. Len(u) = Len(s) - n
    BY <1>0, <2>2 DEF u
  <2>4. ASSUME NEW i \in 1..Len(s) - n PROVE u[i] = s[n + i]
    <3>1. i \in 1..Len(s) - (n + 1) + 1 /\ n + 1 + i - 1 = n + i
      BY <1>0
    <3> QED
      BY <2>2, <3>1 DEF u
  <2> QED
    BY <2>2, <2>3, <2>4 DEF u
<1>4. SubSeq(s, 1, n) \o SubSeq(s, n + 1, Len(s)) = s
  <2>1. 1 \in 1..Len(s) + 1 /\ n \in 1 - 1..Len(s) /\ Len(s) \in n..Len(s)
    BY <1>0
  <2> QED
    BY <2>1, ConcatAdjacentSubSeq, SubSeqFull
<1> QED
  BY <1>2, <1>3, <1>4

(* A sequence is cut in two places of the same length.                     *)
LEMMA SameCut ==
    \A S : \A s, t, u, v \in Seq(S) : s \o t = u \o v /\ Len(s) = Len(u) => s = u /\ t = v
<1> SUFFICES ASSUME NEW S, NEW s \in Seq(S), NEW t \in Seq(S), NEW u \in Seq(S),
                    NEW v \in Seq(S), s \o t = u \o v, Len(s) = Len(u)
             PROVE  s = u /\ t = v
  OBVIOUS
<1>0. Len(s) \in Nat /\ Len(u) \in Nat /\ Len(t) \in Nat /\ Len(v) \in Nat
  OBVIOUS
<1>1. ASSUME NEW k \in 1..Len(s) PROVE s[k] = u[k]
  <2>1. (s \o t)[k] = s[k] /\ (u \o v)[k] = u[k]
    BY <1>0, ConcatProperties
  <2> QED
    BY <2>1
<1>2. s = u
  BY <1>1, SeqEqual
<1> QED
  BY <1>2, ConcatSimplifications

LEMMA MinOfTwo ==
    ASSUME NEW a \in Int, NEW b \in Int
    PROVE  /\ Min({a, b}) <= a /\ Min({a, b}) <= b
           /\ Min({a, b}) \in {a, b}
<1>1. \E x \in {a, b} : \A y \in {a, b} : x <= y
  OBVIOUS
<1> QED
  BY <1>1 DEF Min

-----------------------------------------------------------------------------
(* Requests                                                                *)

Next1(c) == Len(received[c]) + 1
Rest(c) == (buffer[c] \o arriving[c]) \o unsent[c]

RequestTypes ==
    /\ buffer \in [Conns -> Seq(OctetSet)] /\ arriving \in [Conns -> Seq(OctetSet)]
    /\ unsent \in [Conns -> Seq(OctetSet)]
    /\ received \in [Conns -> Seq(Seq(OctetSet))]
    /\ tasks \in Seq(Requests)

(* What is in the buffer, in the kernel and with the client is always a    *)
(* number of whole messages, those that come after the ones received; the  *)
(* buffer never holds a whole message between two events.                  *)
ConnInv(c) ==
    /\ Len(received[c]) <= Len(Messages[c])
    /\ Rest(c) = LastMessages(c)[Len(Messages[c]) - Len(received[c])]
    /\ Len(buffer[c]) >= 2 => ~Complete(c, buffer[c])
    /\ reading = c => Len(buffer[c]) >= 2
    /\ \A i \in 1..Len(received[c]) :
         received[c][i] = SubSeq(Octets(i, 2 + Messages[c][i]), 3, 2 + Messages[c][i])

RequestInv == RequestTypes /\ \A c \in Conns : ConnInv(c)

(* As long as something is left, the next message is.                      *)
LEMMA NextMessage ==
    ASSUME RequestTypes, NEW c \in Conns, ConnInv(c), Rest(c) # <<>>
    PROVE  LET i == Next1(c)
               more == LastMessages(c)[Len(Messages[c]) - i]
           IN  /\ i \in 1..Len(Messages[c]) /\ Messages[c][i] \in Nat
               /\ Octets(i, 2 + Messages[c][i]) \in Seq(OctetSet)
               /\ Len(Octets(i, 2 + Messages[c][i])) = 2 + Messages[c][i]
               /\ \A k \in 1..2 + Messages[c][i] : Octets(i, 2 + Messages[c][i])[k] = Octet(i, k)
               /\ more \in Seq(OctetSet)
               /\ Rest(c) = Octets(i, 2 + Messages[c][i]) \o more
<1> DEFINE n == Len(Messages[c])
           r == Len(received[c])
           i == Next1(c)
           L == LastMessages(c)
<1>0. n \in Nat /\ Messages[c] \in Seq(Nat) /\ r \in Nat /\ r <= n
  BY TcpConnectionsAssumption DEF RequestTypes, ConnInv
<1>1. L = [k \in 0..n |->
             IF k = 0 THEN <<>> ELSE Octets(n - k + 1, 2 + Messages[c][n - k + 1]) \o L[k - 1]]
  BY LastMessagesUnfolds DEF Unfolds
<1>2. Rest(c) = L[n - r]
  BY DEF ConnInv
<1>3. \A k \in 0..n : L[k] \in Seq(OctetSet)
  BY LastMessagesType
<1>4. i = r + 1
  BY DEF Next1
<1> HIDE DEF L, n, r, i
<1>5. n - r # 0
  <2>1. L[0] = <<>>
    BY <1>0, <1>1
  <2> QED
    BY <1>2, <2>1
<1>6. /\ n - r \in 0..n /\ n - r # 0 /\ n - (n - r) + 1 = i /\ n - r - 1 = n - i
      /\ i \in 1..n /\ n - i \in 0..n
  BY <1>0, <1>4, <1>5
<1>7. L[n - r] = Octets(i, 2 + Messages[c][i]) \o L[n - i]
  BY <1>1, <1>6
<1>8. Messages[c][i] \in Nat /\ i \in Nat
  <2>1. i \in 1..Len(Messages[c])
    BY <1>6 DEF n
  <2> QED
    BY <1>0, <2>1
<1>9. /\ Octets(i, 2 + Messages[c][i]) \in Seq(OctetSet)
      /\ Len(Octets(i, 2 + Messages[c][i])) = 2 + Messages[c][i]
      /\ \A k \in 1..2 + Messages[c][i] : Octets(i, 2 + Messages[c][i])[k] = Octet(i, k)
  <2>1. 2 + Messages[c][i] \in Nat
    BY <1>8
  <2> QED
    BY <1>8, <2>1, OctetsType
<1>10. L[n - i] \in Seq(OctetSet)
  BY <1>3, <1>6
<1> QED
  BY <1>2, <1>6, <1>7, <1>8, <1>9, <1>10 DEF L, n, i

(* The octets in the buffer and those that recv() returns are the first of *)
(* the next message, if they are no more than it has.                      *)
LEMMA FirstOctets ==
    ASSUME RequestTypes, NEW c \in Conns, ConnInv(c), NEW n \in 1..Len(arriving[c]),
           NEW data, data = buffer[c] \o SubSeq(arriving[c], 1, n),
           \/ Len(buffer[c]) >= 2 /\ n <= Remaining(c)
           \/ Len(buffer[c]) < 2 /\ n <= 2 - Len(buffer[c])
    PROVE  LET i == Next1(c)
               O == Octets(i, 2 + Messages[c][i])
               left == SubSeq(arriving[c], n + 1, Len(arriving[c])) \o unsent[c]
           IN  /\ i \in 1..Len(Messages[c]) /\ Messages[c][i] \in Nat
               /\ data \in Seq(OctetSet) /\ Len(data) >= 1 /\ Len(data) <= 2 + Messages[c][i]
               /\ MessageLength(c, data) = Messages[c][i]
               /\ O \in Seq(OctetSet) /\ Len(O) = 2 + Messages[c][i]
               /\ left \in Seq(OctetSet)
               /\ data \o left = Rest(c)
               /\ (data \o SubSeq(arriving[c], n + 1, Len(arriving[c]))) \o unsent[c] = Rest(c)
               /\ LastMessages(c)[Len(Messages[c]) - i] \in Seq(OctetSet)
               /\ Rest(c) = O \o LastMessages(c)[Len(Messages[c]) - i]
<1> DEFINE i == Next1(c)
           m == Messages[c][i]
           O == Octets(i, 2 + m)
           more == LastMessages(c)[Len(Messages[c]) - i]
           a == SubSeq(arriving[c], 1, n)
           b == SubSeq(arriving[c], n + 1, Len(arriving[c]))
           left == b \o unsent[c]
<1>1. /\ buffer[c] \in Seq(OctetSet) /\ arriving[c] \in Seq(OctetSet)
      /\ unsent[c] \in Seq(OctetSet)
      /\ Len(buffer[c]) \in Nat /\ n \in Nat
  BY DEF RequestTypes
<1>2. a \in Seq(OctetSet) /\ b \in Seq(OctetSet) /\ Len(a) = n /\ a \o b = arriving[c]
  <2>1. n \in 0..Len(arriving[c])
    OBVIOUS
  <2> QED
    BY <1>1, <2>1, Cut
<1> HIDE DEF a, b
<1>3. /\ data = buffer[c] \o a
      /\ data \in Seq(OctetSet) /\ Len(data) = Len(buffer[c]) + n
  <2>1. data = buffer[c] \o a
    BY DEF a
  <2> QED
    BY <1>1, <1>2, <2>1, ConcatProperties
<1>4. left \in Seq(OctetSet)
  BY <1>1, <1>2, ConcatProperties
<1>5. data \o left = Rest(c) /\ (data \o b) \o unsent[c] = Rest(c)
  <2>1. Rest(c) = (buffer[c] \o (a \o b)) \o unsent[c]
    BY <1>2 DEF Rest
  <2> DEFINE s == buffer[c]
             u == unsent[c]
             sa == s \o a
  <2>2. /\ s \in Seq(OctetSet) /\ u \in Seq(OctetSet)
        /\ a \in Seq(OctetSet) /\ b \in Seq(OctetSet)
    BY <1>1, <1>2
  <2>3. sa \in Seq(OctetSet)
    BY <1>3
  <2> HIDE DEF s, u
  <2>4. (s \o a) \o b = s \o (a \o b)
    BY ONLY <2>2, ConcatAssociative
  <2> HIDE DEF sa
  <2>5. (sa \o b) \o u = sa \o (b \o u)
    BY ONLY <2>2, <2>3, ConcatAssociative
  <2> QED
    BY <1>3, <2>1, <2>4, <2>5 DEF s, u, sa
<1> HIDE DEF left
<1>6. Rest(c) # <<>>
  <2>1. Len(data \o left) = Len(data) + Len(left)
    BY <1>3, <1>4, ConcatProperties
  <2>2. Len(data) > 0 /\ Len(left) >= 0
    BY <1>1, <1>3, <1>4
  <2> QED
    BY <1>3, <1>4, <1>5, <2>1, <2>2
<1>7. /\ i \in 1..Len(Messages[c]) /\ m \in Nat
      /\ O \in Seq(OctetSet) /\ Len(O) = 2 + m
      /\ \A k \in 1..2 + m : O[k] = Octet(i, k)
      /\ more \in Seq(OctetSet) /\ Rest(c) = O \o more
  BY <1>6, NextMessage
<1> HIDE DEF m, i, O, more
<1>8. Head(data) = O[1]
  <2>1. (data \o left)[1] = data[1]
    <3>1. 1 \in 1..Len(data) + Len(left) /\ 1 <= Len(data)
      BY <1>1, <1>3, <1>4
    <3> QED
      BY <1>3, <1>4, <3>1, ConcatProperties
  <2>2. (O \o more)[1] = O[1]
    <3>1. 1 \in 1..Len(O) + Len(more) /\ 1 <= Len(O)
      BY <1>7
    <3> QED
      BY <1>7, <3>1, ConcatProperties
  <2>3. data[1] = O[1]
    BY <1>5, <1>7, <2>1, <2>2
  <2> QED
    BY <1>1, <1>3, <2>3
<1>9. MessageLength(c, data) = m
  <2>1. Head(data).message = i
    BY <1>7, <1>8 DEF Octet
  <2> QED
    BY <2>1 DEF MessageLength, m
<1>10. Len(data) <= 2 + m
  <2>1. CASE Len(buffer[c]) >= 2
    <3>1. data[1] = buffer[c][1]
      <4>1. 1 \in 1..Len(buffer[c]) + Len(a) /\ 1 <= Len(buffer[c])
        BY <1>1, <1>2, <2>1
      <4> QED
        BY <1>1, <1>2, <4>1, ConcatProperties DEF a
    <3>2. Head(buffer[c]) = Head(data)
      BY <1>1, <1>3, <2>1, <3>1
    <3>3. Remaining(c) = 2 + m - Len(buffer[c])
      BY <1>9, <3>2 DEF Remaining, MessageLength
    <3> QED
      BY <1>1, <1>3, <1>7, <2>1, <3>3
  <2>2. CASE Len(buffer[c]) < 2
    BY <1>1, <1>3, <1>7, <2>2
  <2> QED
    BY <1>1, <2>1, <2>2
<1>11. Len(data) >= 1
  BY <1>1, <1>3
<1> QED
  BY <1>3, <1>4, <1>5, <1>7, <1>9, <1>10, <1>11, Zenon DEF i, m, O, more, left, b

LEMMA InitRequests == Init => RequestInv
<1> SUFFICES ASSUME Init PROVE RequestInv
  OBVIOUS
<1>1. \A c \in Conns : /\ buffer[c] = <<>> /\ arriving[c] = <<>> /\ received[c] = <<>>
                       /\ unsent[c] = LastMessages(c)[Len(Messages[c])] /\ reading = None
  BY DEF Init, Stream
<1>2. \A c \in Conns : Messages[c] \in Seq(Nat) /\ Len(Messages[c]) \in 0..Len(Messages[c])
  BY TcpConnectionsAssumption
<1>3. \A c \in Conns : LastMessages(c)[Len(Messages[c])] \in Seq(OctetSet)
  BY <1>2, LastMessagesType
<1>4. RequestTypes
  BY <1>1, <1>3 DEF Init, RequestTypes, Stream
<1>5. ASSUME NEW c \in Conns PROVE ConnInv(c)
  <2>1. Rest(c) = LastMessages(c)[Len(Messages[c])]
    <3> DEFINE L == LastMessages(c)[Len(Messages[c])]
    <3>1. Rest(c) = (<<>> \o <<>>) \o L /\ L \in Seq(OctetSet)
      BY <1>1, <1>3 DEF Rest
    <3> HIDE DEF L
    <3>2. (<<>> \o <<>>) \o L = L
      BY <3>1, ConcatEmptySeq
    <3> QED
      BY <3>1, <3>2 DEF L
  <2>2. Len(Messages[c]) - Len(received[c]) = Len(Messages[c]) /\ Len(received[c]) = 0
    <3>1. Len(Messages[c]) \in Nat /\ received[c] = <<>>
      BY <1>1, <1>2
    <3>2. Len(received[c]) = 0
      BY <3>1
    <3> QED
      BY <3>1, <3>2
  <2>3. Len(buffer[c]) = 0 /\ reading # c
    BY <1>1, TcpConnectionsAssumption
  <2> QED
    BY <1>2, <2>1, <2>2, <2>3 DEF ConnInv
<1> QED
  BY <1>4, <1>5 DEF RequestInv

(* One connection changes at a time.                                       *)
LEMMA OtherConn ==
    ASSUME NEW d \in Conns, ConnInv(d), reading' # d,
           buffer'[d] = buffer[d], arriving'[d] = arriving[d], unsent'[d] = unsent[d],
           received'[d] = received[d]
    PROVE  ConnInv(d)'
BY DEF ConnInv, Rest, Complete, MessageLength

LEMMA ReceiveStep ==
    ASSUME RequestInv, NEW c \in Conns, NEW n \in 1..Len(arriving[c]),
           NEW data, data = buffer[c] \o SubSeq(arriving[c], 1, n),
           \/ Len(buffer[c]) >= 2 /\ n <= Remaining(c)
           \/ Len(buffer[c]) < 2 /\ n <= 2 - Len(buffer[c]),
           Take(c, n),
           \/ Complete(c, data) /\ Dispatch(c, data)
           \/ /\ ~Complete(c, data) /\ KeepForLater(c, data)
              /\ reading' = None \/ (reading' = c /\ Len(data) >= 2)
    PROVE  RequestInv'
<1> DEFINE i == Next1(c)
           m == Messages[c][i]
           O == Octets(i, 2 + m)
           more == LastMessages(c)[Len(Messages[c]) - i]
           b == SubSeq(arriving[c], n + 1, Len(arriving[c]))
           left == b \o unsent[c]
<1>1. /\ i \in 1..Len(Messages[c]) /\ m \in Nat
      /\ data \in Seq(OctetSet) /\ Len(data) >= 1 /\ Len(data) <= 2 + m
      /\ MessageLength(c, data) = m
      /\ O \in Seq(OctetSet) /\ Len(O) = 2 + m
      /\ left \in Seq(OctetSet)
      /\ data \o left = Rest(c)
      /\ (data \o b) \o unsent[c] = Rest(c)
      /\ more \in Seq(OctetSet)
      /\ Rest(c) = O \o more
  BY FirstOctets DEF RequestInv
<1>2. /\ buffer \in [Conns -> Seq(OctetSet)] /\ arriving \in [Conns -> Seq(OctetSet)]
      /\ unsent \in [Conns -> Seq(OctetSet)]
      /\ received \in [Conns -> Seq(Seq(OctetSet))] /\ tasks \in Seq(Requests)
  BY DEF RequestInv, RequestTypes
<1>3. b \in Seq(OctetSet)
  <2>1. n \in 0..Len(arriving[c]) /\ arriving[c] \in Seq(OctetSet)
    BY <1>2
  <2> QED
    BY <2>1, Cut
<1> HIDE DEF i, m, O, more, left, b
<1>4. /\ arriving' = [arriving EXCEPT ![c] = b]
      /\ unsent' = unsent
  BY DEF Take, b
<1>5. /\ arriving' \in [Conns -> Seq(OctetSet)] /\ unsent' \in [Conns -> Seq(OctetSet)]
      /\ arriving'[c] = b /\ unsent'[c] = unsent[c]
      /\ \A d \in Conns \ {c} : arriving'[d] = arriving[d] /\ unsent'[d] = unsent[d]
  BY <1>2, <1>3, <1>4
<1>6. None \notin Conns
  BY TcpConnectionsAssumption
<1>7. CASE Complete(c, data) /\ Dispatch(c, data)
  <2>1. Len(data) = 2 + m /\ m \in Nat
    <3>1. Len(data) \in Nat /\ m \in Nat /\ Len(data) <= 2 + m
      <4>1. data \in Seq(OctetSet)
        BY <1>1
      <4>2. Len(data) \in Nat
        BY ONLY <4>1, LenProperties
      <4> QED
        BY <1>1, <4>2
    <3>2. Len(data) - 2 >= m
      BY <1>1, <1>7 DEF Complete
    <3> QED
      BY ONLY <3>1, <3>2
  <2>2. data = O /\ left = more
    <3>1. /\ data \in Seq(OctetSet) /\ left \in Seq(OctetSet)
          /\ O \in Seq(OctetSet) /\ more \in Seq(OctetSet)
          /\ data \o left = O \o more
      BY <1>1
    <3>2. Len(data) = Len(O)
      BY <1>1, <2>1
    <3> QED
      BY ONLY <3>1, <3>2, SameCut
  <2>3. Min({2 + m, Len(data)}) = 2 + m
    <3>1. 2 + m \in Int
      BY <2>1
    <3> QED
      BY ONLY <2>1, <3>1, MinOfTwo
  <2> DEFINE request == SubSeq(O, 3, 2 + m)
             rest == SubSeq(O, 2 + m + 1, 2 + m)
  <2>4. /\ received' = [received EXCEPT ![c] = Append(@, request)]
        /\ buffer' = [buffer EXCEPT ![c] = rest]
        /\ tasks' = Append(tasks, [conn |-> c, number |-> Len(received'[c])])
        /\ reading' = None
    BY <1>1, <1>7, <2>1, <2>2, <2>3 DEF Dispatch
  <2>5. request \in Seq(OctetSet)
    <3>1. \A k \in 3..2 + m : O[k] \in OctetSet
      BY <1>1
    <3> QED
      BY <1>1, <3>1, SubSeqProperties
  <2>6. rest = <<>>
    <3>1. 2 + m + 1 \in Int /\ 2 + m \in Int /\ 2 + m < 2 + m + 1
      BY <1>1
    <3> QED
      BY <3>1, SubSeqEmpty
  <2> HIDE DEF request, rest
  <2>7. Append(received[c], request) \in Seq(Seq(OctetSet))
    BY <1>2, <2>5, AppendProperties
  <2>8. /\ received' \in [Conns -> Seq(Seq(OctetSet))]
        /\ received'[c] = Append(received[c], request)
        /\ \A d \in Conns \ {c} : received'[d] = received[d]
    BY <1>2, <2>4, <2>7
  <2>9. /\ buffer' \in [Conns -> Seq(OctetSet)] /\ buffer'[c] = <<>>
        /\ \A d \in Conns \ {c} : buffer'[d] = buffer[d]
    BY <1>2, <2>4, <2>6
  <2>10. /\ Len(received'[c]) = i /\ i \in Nat
         /\ \A k \in 1..i - 1 : received'[c][k] = received[c][k]
         /\ received'[c][i] = request
    <3>1. received[c] \in Seq(Seq(OctetSet)) /\ i = Len(received[c]) + 1
      BY <1>2 DEF i, Next1
    <3>2. /\ Len(Append(received[c], request)) = Len(received[c]) + 1
          /\ \A k \in 1..Len(received[c]) : Append(received[c], request)[k] = received[c][k]
          /\ Append(received[c], request)[Len(received[c]) + 1] = request
      BY <2>5, <3>1, AppendProperties
    <3> QED
      BY <2>8, <3>1, <3>2
  <2>11. tasks' \in Seq(Requests)
    <3>1. [conn |-> c, number |-> Len(received'[c])] \in Requests
      BY <2>10 DEF Requests
    <3> QED
      BY <1>2, <2>4, <3>1, AppendProperties
  <2>12. RequestTypes'
    BY <1>5, <2>8, <2>9, <2>11 DEF RequestTypes
  <2>13. ConnInv(c)'
    <3>1. Rest(c)' = more
      <4>1. Rest(c)' = (<<>> \o b) \o unsent[c]
        BY <1>5, <2>9 DEF Rest
      <4>2. <<>> \o b = b
        BY <1>3, ConcatEmptySeq
      <4> QED
        BY <2>2, <4>1, <4>2 DEF left
    <3>2. Len(received'[c]) <= Len(Messages[c])
      BY <1>1, <2>10
    <3>3. Rest(c)' = LastMessages(c)[Len(Messages[c]) - Len(received'[c])]
      BY <2>10, <3>1 DEF more
    <3>4. Len(buffer'[c]) = 0 /\ reading' # c
      BY <1>6, <2>4, <2>9
    <3>5. ASSUME NEW k \in 1..Len(received'[c])
          PROVE  received'[c][k] = SubSeq(Octets(k, 2 + Messages[c][k]), 3, 2 + Messages[c][k])
      <4>1. CASE k = i
        BY <2>10, <4>1 DEF request, O, m
      <4>2. CASE k # i
        <5>1. k \in 1..i - 1 /\ k \in 1..Len(received[c])
          BY <2>10, <4>2 DEF i, Next1
        <5>2. received[c][k] = SubSeq(Octets(k, 2 + Messages[c][k]), 3, 2 + Messages[c][k])
          BY <5>1 DEF RequestInv, ConnInv
        <5> QED
          BY <2>10, <5>1, <5>2
      <4> QED
        BY <4>1, <4>2
    <3> QED
      BY <3>2, <3>3, <3>4, <3>5 DEF ConnInv
  <2>14. ASSUME NEW d \in Conns \ {c} PROVE ConnInv(d)'
    <3>1. ConnInv(d) /\ reading' # d
      BY <1>6, <2>4 DEF RequestInv
    <3> QED
      BY <1>5, <2>8, <2>9, <3>1, OtherConn
  <2> QED
    BY <2>12, <2>13, <2>14 DEF RequestInv
<1>8. CASE /\ ~Complete(c, data) /\ KeepForLater(c, data)
           /\ reading' = None \/ (reading' = c /\ Len(data) >= 2)
  <2>1. /\ buffer' = [buffer EXCEPT ![c] = data]
        /\ UNCHANGED <<received, tasks>>
    BY <1>8 DEF KeepForLater
  <2>2. /\ buffer' \in [Conns -> Seq(OctetSet)] /\ buffer'[c] = data
        /\ \A d \in Conns \ {c} : buffer'[d] = buffer[d]
    BY <1>1, <1>2, <2>1
  <2>3. RequestTypes'
    BY <1>2, <1>5, <2>1, <2>2 DEF RequestTypes
  <2>4. ConnInv(c)'
    <3>1. Rest(c)' = Rest(c)
      BY <1>1, <1>5, <2>2 DEF Rest
    <3>2. ConnInv(c)
      BY DEF RequestInv
    <3>3. ~Complete(c, buffer'[c])
      BY <1>8, <2>2
    <3>4. reading' = c => Len(buffer'[c]) >= 2
      BY <1>6, <1>8, <2>2
    <3> QED
      BY <2>1, <3>1, <3>2, <3>3, <3>4 DEF ConnInv, Complete, MessageLength
  <2>5. ASSUME NEW d \in Conns \ {c} PROVE ConnInv(d)'
    <3>1. ConnInv(d) /\ reading' # d
      BY <1>6, <1>8 DEF RequestInv
    <3> QED
      BY <1>5, <2>1, <2>2, <3>1, OtherConn
  <2> QED
    BY <2>3, <2>4, <2>5 DEF RequestInv
<1> QED
  BY <1>7, <1>8

LEMMA RequestChanges ==
    ASSUME [Next]_vars
    PROVE  \/ \E c \in Conns : SendPiece(c) \/ RecvLength(c) \/ RecvData(c)
           \/ /\ UNCHANGED <<buffer, arriving, unsent, received>>
              /\ reading' \in {reading, None}
              /\ tasks' = tasks \/ (tasks # <<>> /\ tasks' = Tail(tasks))
<1> DEFINE Same == /\ UNCHANGED <<buffer, arriving, unsent, received>>
                   /\ reading' \in {reading, None}
                   /\ tasks' = tasks \/ (tasks # <<>> /\ tasks' = Tail(tasks))
<1> USE DEF clientVars, masterVars
<1>1. ASSUME NEW c \in Conns PROVE Close(c) => Same
  BY DEF Close
<1>2. ASSUME NEW c \in Conns PROVE Accept(c) => Same
  BY DEF Accept
<1>3. ASSUME NEW c \in Conns PROVE NothingThere(c) \/ Forget(c) => Same
  BY DEF NothingThere, Forget
<1>4. AcceptNothing => Same
  BY DEF AcceptNothing
<1>5. ASSUME NEW w \in Workers PROVE Worker(w) => Same
  BY DEF Worker, StartHandling, StartReply, WritePiece, FinishReply, FailToReply
<1>6. UNCHANGED vars => Same
  BY DEF vars
<1> QED
  BY <1>1, <1>2, <1>3, <1>4, <1>5, <1>6 DEF Next, Master

LEMMA LengthKnown ==
    ASSUME RequestTypes, NEW c \in Conns, ConnInv(c), Len(buffer[c]) >= 2
    PROVE  MessageLength(c, buffer[c]) \in Nat
<1> DEFINE i == Next1(c)
           m == Messages[c][i]
           O == Octets(i, 2 + m)
           more == LastMessages(c)[Len(Messages[c]) - i]
           s == buffer[c]
           t == arriving[c]
           u == unsent[c]
           st == s \o t
<1>1. s \in Seq(OctetSet) /\ t \in Seq(OctetSet) /\ u \in Seq(OctetSet)
  BY DEF RequestTypes
<1>2. Len(s) \in Nat /\ Len(s) >= 2 /\ Len(t) \in Nat /\ Len(u) \in Nat
  BY <1>1
<1> HIDE DEF s, t, u
<1>3. /\ st \in Seq(OctetSet) /\ Len(st) = Len(s) + Len(t)
      /\ \A k \in 1..Len(s) + Len(t) : st[k] = IF k <= Len(s) THEN s[k] ELSE t[k - Len(s)]
  BY ONLY <1>1, ConcatProperties
<1>4. Rest(c) = st \o u
  BY DEF Rest, s, t, u
<1> HIDE DEF st
<1>5. /\ Len(st \o u) = Len(st) + Len(u)
      /\ \A k \in 1..Len(st) + Len(u) : (st \o u)[k] = IF k <= Len(st) THEN st[k] ELSE u[k - Len(st)]
  <2>1. st \in Seq(OctetSet) /\ u \in Seq(OctetSet)
    BY <1>1, <1>3
  <2> QED
    BY ONLY <2>1, ConcatProperties
<1>6. Rest(c) # <<>> /\ Rest(c)[1] = s[1]
  <2>1. /\ 1 \in 1..Len(s) + Len(t) /\ 1 <= Len(s)
        /\ 1 \in 1..Len(st) + Len(u) /\ 1 <= Len(st)
    BY <1>2, <1>3
  <2>2. (st \o u)[1] = s[1]
    BY <1>3, <1>5, <2>1
  <2>3. Len(st \o u) # 0
    BY <1>2, <1>3, <1>5
  <2> QED
    BY <1>4, <2>2, <2>3
<1>7. /\ i \in 1..Len(Messages[c]) /\ m \in Nat
      /\ O \in Seq(OctetSet) /\ Len(O) = 2 + m
      /\ \A k \in 1..2 + m : O[k] = Octet(i, k)
      /\ more \in Seq(OctetSet) /\ Rest(c) = O \o more
  BY <1>6, NextMessage
<1> HIDE DEF m, i, O, more
<1>8. Rest(c)[1] = Octet(i, 1)
  <2>1. 1 \in 1..2 + m /\ 1 \in 1..Len(O) + Len(more) /\ 1 <= Len(O)
    BY <1>7
  <2>2. (O \o more)[1] = O[1]
    BY <1>7, <2>1, ConcatProperties
  <2> QED
    BY <1>7, <2>1, <2>2
<1>9. Head(buffer[c]).message = i
  <2>1. Head(s) = s[1]
    BY <1>1, <1>2
  <2> QED
    BY <1>6, <1>8, <2>1 DEF Octet, s
<1> QED
  BY <1>7, <1>9 DEF MessageLength, m

LEMMA SendStep ==
    ASSUME RequestInv, NEW c \in Conns, SendPiece(c)
    PROVE  RequestInv'
<1>1. PICK n \in 1..Len(unsent[c]) :
          /\ arriving' = [arriving EXCEPT ![c] = @ \o SubSeq(unsent[c], 1, n)]
          /\ unsent' = [unsent EXCEPT ![c] = SubSeq(@, n + 1, Len(@))]
  BY DEF SendPiece
<1>2. UNCHANGED <<buffer, received, reading, tasks>>
  BY DEF SendPiece, masterVars
<1>3. /\ buffer \in [Conns -> Seq(OctetSet)] /\ arriving \in [Conns -> Seq(OctetSet)]
      /\ unsent \in [Conns -> Seq(OctetSet)]
      /\ received \in [Conns -> Seq(Seq(OctetSet))] /\ tasks \in Seq(Requests)
  BY DEF RequestInv, RequestTypes
<1> DEFINE s == buffer[c]
           t == arriving[c]
           a == SubSeq(unsent[c], 1, n)
           b == SubSeq(unsent[c], n + 1, Len(unsent[c]))
           sent == t \o a
<1>4. a \in Seq(OctetSet) /\ b \in Seq(OctetSet) /\ a \o b = unsent[c]
  <2>1. n \in 0..Len(unsent[c]) /\ unsent[c] \in Seq(OctetSet)
    BY <1>3
  <2> QED
    BY <2>1, Cut
<1> HIDE DEF a, b
<1>5. /\ arriving' = [arriving EXCEPT ![c] = sent] /\ unsent' = [unsent EXCEPT ![c] = b]
  BY <1>1 DEF a, b
<1>6. s \in Seq(OctetSet) /\ t \in Seq(OctetSet) /\ sent \in Seq(OctetSet)
  BY <1>3, <1>4, ConcatProperties
<1>7. /\ arriving' \in [Conns -> Seq(OctetSet)] /\ unsent' \in [Conns -> Seq(OctetSet)]
      /\ arriving'[c] = sent /\ unsent'[c] = b
      /\ \A d \in Conns \ {c} : arriving'[d] = arriving[d] /\ unsent'[d] = unsent[d]
  BY <1>3, <1>4, <1>5, <1>6
<1>8. RequestTypes'
  BY <1>2, <1>3, <1>7 DEF RequestTypes
<1>9. ConnInv(c)'
  <2>1. Rest(c)' = (s \o (t \o a)) \o b /\ Rest(c) = (s \o t) \o (a \o b)
    BY <1>2, <1>4, <1>7 DEF Rest
  <2> DEFINE st == s \o t
  <2>2. st \in Seq(OctetSet)
    BY <1>6, ConcatProperties
  <2> HIDE DEF s, t
  <2>3. (s \o t) \o a = s \o (t \o a)
    <3>1. s \in Seq(OctetSet) /\ t \in Seq(OctetSet) /\ a \in Seq(OctetSet)
      BY <1>4, <1>6
    <3> QED
      BY ONLY <3>1, ConcatAssociative
  <2> HIDE DEF st
  <2>4. (st \o a) \o b = st \o (a \o b)
    <3>1. a \in Seq(OctetSet) /\ b \in Seq(OctetSet)
      BY <1>4
    <3> QED
      BY ONLY <2>2, <3>1, ConcatAssociative
  <2>5. Rest(c)' = Rest(c)
    BY <2>1, <2>3, <2>4 DEF st
  <2>6. ConnInv(c)
    BY DEF RequestInv
  <2> QED
    BY <1>2, <2>5, <2>6 DEF ConnInv, Complete, MessageLength
<1>10. ASSUME NEW d \in Conns \ {c} PROVE ConnInv(d)'
  <2>1. ConnInv(d)
    BY DEF RequestInv
  <2>2. Rest(d)' = Rest(d)
    BY <1>2, <1>7 DEF Rest
  <2> QED
    BY <1>2, <2>1, <2>2 DEF ConnInv, Complete, MessageLength
<1> QED
  BY <1>8, <1>9, <1>10 DEF RequestInv

LEMMA RequestStep == RequestInv /\ [Next]_vars => RequestInv'
<1> SUFFICES ASSUME RequestInv, [Next]_vars PROVE RequestInv'
  OBVIOUS
<1>1. /\ buffer \in [Conns -> Seq(OctetSet)] /\ arriving \in [Conns -> Seq(OctetSet)]
      /\ \A c \in Conns : /\ Messages[c] \in Seq(Nat) /\ Len(buffer[c]) \in Nat
                          /\ Len(arriving[c]) \in Nat
  BY TcpConnectionsAssumption DEF RequestInv, RequestTypes
<1>2. ASSUME NEW c \in Conns, RecvLength(c) PROVE RequestInv'
  <2>1. /\ Len(buffer[c]) < 2
        /\ \E n \in 1..Min({2 - Len(buffer[c]), Len(arriving[c])}) :
              LET data == buffer[c] \o SubSeq(arriving[c], 1, n)
              IN  /\ Take(c, n)
                  /\ \/ Complete(c, data) /\ Dispatch(c, data)
                     \/ /\ ~Complete(c, data) /\ KeepForLater(c, data)
                        /\ reading' = IF Len(data) < 2 THEN None ELSE c
    BY <1>2 DEF RecvLength
  <2>2. PICK n \in 1..Min({2 - Len(buffer[c]), Len(arriving[c])}) :
              LET data == buffer[c] \o SubSeq(arriving[c], 1, n)
              IN  /\ Take(c, n)
                  /\ \/ Complete(c, data) /\ Dispatch(c, data)
                     \/ /\ ~Complete(c, data) /\ KeepForLater(c, data)
                        /\ reading' = IF Len(data) < 2 THEN None ELSE c
    BY <2>1
  <2>3. n \in 1..Len(arriving[c]) /\ n <= 2 - Len(buffer[c])
    <3> DEFINE want == 2 - Len(buffer[c])
               have == Len(arriving[c])
    <3>1. want \in Int /\ have \in Int
      BY <1>1
    <3> HIDE DEF want, have
    <3>2. Min({want, have}) <= want /\ Min({want, have}) <= have /\ Min({want, have}) \in Int
      BY ONLY <3>1, MinOfTwo
    <3>3. n \in 1..Min({want, have})
      BY DEF want, have
    <3>4. n \in 1..have /\ n <= want
      BY ONLY <3>1, <3>2, <3>3
    <3> QED
      BY <3>4 DEF want, have
  <2> DEFINE data == buffer[c] \o SubSeq(arriving[c], 1, n)
  <2>4. reading' = (IF Len(data) < 2 THEN None ELSE c)
           => reading' = None \/ (reading' = c /\ Len(data) >= 2)
    <3>1. Len(data) \in Nat
      <4>1. n \in 0..Len(arriving[c]) /\ arriving[c] \in Seq(OctetSet) /\ buffer[c] \in Seq(OctetSet)
        BY <1>1, <2>3
      <4>2. SubSeq(arriving[c], 1, n) \in Seq(OctetSet)
        BY <4>1, Cut
      <4>3. data \in Seq(OctetSet)
        BY <4>1, <4>2, ConcatProperties
      <4> QED
        BY <4>3
    <3> HIDE DEF data
    <3> QED
      BY <3>1
  <2>5. /\ Take(c, n)
        /\ \/ Complete(c, data) /\ Dispatch(c, data)
           \/ /\ ~Complete(c, data) /\ KeepForLater(c, data)
              /\ reading' = None \/ (reading' = c /\ Len(data) >= 2)
    BY <2>2, <2>4
  <2>6. data = buffer[c] \o SubSeq(arriving[c], 1, n)
    OBVIOUS
  <2> HIDE DEF data
  <2> QED
    BY <2>1, <2>3, <2>5, <2>6, ReceiveStep
<1>3. ASSUME NEW c \in Conns, RecvData(c) PROVE RequestInv'
  <2>1. Len(buffer[c]) >= 2
    BY <1>3 DEF RecvData, RequestInv, ConnInv
  <2>2. PICK n \in 1..Min({Remaining(c), Len(arriving[c])}) :
              LET data == buffer[c] \o SubSeq(arriving[c], 1, n)
              IN  /\ Take(c, n)
                  /\ \/ Complete(c, data) /\ Dispatch(c, data)
                     \/ /\ ~Complete(c, data) /\ KeepForLater(c, data)
                        /\ reading' = None
    BY <1>3 DEF RecvData
  <2>3. n \in 1..Len(arriving[c]) /\ n <= Remaining(c)
    <3> DEFINE want == Remaining(c)
               have == Len(arriving[c])
    <3>1. want \in Int /\ have \in Int
      <4>1. MessageLength(c, buffer[c]) \in Nat
        BY <2>1, LengthKnown DEF RequestInv
      <4> QED
        BY <1>1, <4>1 DEF Remaining
    <3> HIDE DEF want, have
    <3>2. Min({want, have}) <= want /\ Min({want, have}) <= have /\ Min({want, have}) \in Int
      BY ONLY <3>1, MinOfTwo
    <3>3. n \in 1..Min({want, have})
      BY DEF want, have
    <3>4. n \in 1..have /\ n <= want
      BY ONLY <3>1, <3>2, <3>3
    <3> QED
      BY <3>4 DEF want, have
  <2> DEFINE data == buffer[c] \o SubSeq(arriving[c], 1, n)
  <2>5. /\ Take(c, n)
        /\ \/ Complete(c, data) /\ Dispatch(c, data)
           \/ /\ ~Complete(c, data) /\ KeepForLater(c, data)
              /\ reading' = None \/ (reading' = c /\ Len(data) >= 2)
    BY <2>2
  <2>6. data = buffer[c] \o SubSeq(arriving[c], 1, n)
    OBVIOUS
  <2> HIDE DEF data
  <2> QED
    BY <2>1, <2>3, <2>5, <2>6, ReceiveStep
<1>4. CASE /\ UNCHANGED <<buffer, arriving, unsent, received>>
           /\ reading' \in {reading, None}
           /\ tasks' = tasks \/ (tasks # <<>> /\ tasks' = Tail(tasks))
  <2>1. tasks' \in Seq(Requests)
    <3>1. tasks \in Seq(Requests)
      BY DEF RequestInv, RequestTypes
    <3>2. tasks # <<>> => Tail(tasks) \in Seq(Requests)
      BY <3>1, HeadTailProperties
    <3> QED
      BY <1>4, <3>1, <3>2
  <2>2. RequestTypes'
    BY <1>4, <2>1 DEF RequestInv, RequestTypes
  <2>3. ASSUME NEW d \in Conns PROVE ConnInv(d)'
    <3>1. ConnInv(d) /\ None \notin Conns
      BY TcpConnectionsAssumption DEF RequestInv
    <3>2. Rest(d)' = Rest(d)
      BY <1>4 DEF Rest
    <3> QED
      BY <1>4, <3>1, <3>2 DEF ConnInv, Complete, MessageLength
  <2> QED
    BY <2>2, <2>3 DEF RequestInv
<1> QED
  BY <1>2, <1>3, <1>4, SendStep, RequestChanges

(* The requests that are handed to workers are the messages that the       *)
(* client sent, each whole, in their order, whatever the pieces.           *)
THEOREM RequestsAreAsSent == Spec => []RequestsAsSent
<1>1. RequestInv => RequestsAsSent
  <2> SUFFICES ASSUME RequestInv, NEW c \in Conns, NEW i \in DOMAIN received[c]
               PROVE  /\ i \in DOMAIN Messages[c]
                      /\ received[c][i] = SubSeq(Octets(i, 2 + Messages[c][i]), 3, 2 + Messages[c][i])
    BY DEF RequestsAsSent
  <2>1. received[c] \in Seq(Seq(OctetSet)) /\ Messages[c] \in Seq(Nat)
    BY TcpConnectionsAssumption DEF RequestInv, RequestTypes
  <2>2. ConnInv(c)
    BY DEF RequestInv
  <2>3. i \in 1..Len(received[c]) /\ Len(received[c]) <= Len(Messages[c])
    BY <2>1, <2>2 DEF ConnInv
  <2>4. i \in DOMAIN Messages[c]
    BY <2>1, <2>3
  <2> QED
    BY <2>2, <2>3, <2>4 DEF ConnInv
<1> QED
  BY <1>1, InitRequests, RequestStep, PTL DEF Spec

-----------------------------------------------------------------------------
(* Replies                                                                 *)

ReplyTypes ==
    /\ out \in [Conns -> Seq(OctetSet)] /\ broken \in [Conns -> BOOLEAN]
    /\ lock \in [Conns -> SUBSET Workers] /\ job \in [Workers -> Jobs \cup {None}]

Left(w) == Len(job[w].octets)
Number(w) == job[w].request.number

(* What is left of a reply is its end; nothing is written without the lock.*)
JobInv(w) == job[w] # None =>
    /\ Left(w) <= ReplyOctets
    /\ \A k \in 1..Left(w) : job[w].octets[k] = Octet(Number(w), ReplyOctets - Left(w) + k)
    /\ w \notin lock[To(w)] => Left(w) = ReplyOctets

LockInv(c) ==
    /\ \A w \in lock[c] : job[w] # None /\ To(w) = c
    /\ \A v, w \in lock[c] : v = w

Follows(o, p) == p = [o EXCEPT !.index = @ + 1] \/ (o.index = ReplyOctets /\ p.index = 1)
Whole(s) ==
    /\ s # <<>> => Head(s).index = 1
    /\ \A k \in 1..Len(s) - 1 : Follows(s[k], s[k + 1])

AtEnd(c) == out[c] = <<>> \/ out[c][Len(out[c])].index = ReplyOctets
InReply(c, w) ==
    /\ out[c] # <<>>
    /\ out[c][Len(out[c])] = Octet(Number(w), ReplyOctets - Left(w))

(* A reply has ended when nobody holds the lock; else the octet that was   *)
(* written last is the one before what the holder has left.                *)
OutInv(c) == ~broken[c] =>
    /\ Whole(out[c])
    /\ lock[c] = {} => AtEnd(c)
    /\ \A w \in lock[c] : /\ Left(w) = ReplyOctets => AtEnd(c)
                          /\ Left(w) # ReplyOctets => InReply(c, w)

ReplyInv ==
    /\ ReplyTypes /\ \A w \in Workers : JobInv(w)
    /\ \A c \in Conns : LockInv(c) /\ OutInv(c)

LEMMA JobType ==
    ASSUME ReplyTypes, NEW w \in Workers, job[w] # None
    PROVE  /\ job[w] \in Jobs /\ job[w].octets \in Seq(OctetSet) /\ Left(w) \in Nat
           /\ job[w].request \in Requests /\ To(w) \in Conns /\ Number(w) \in Nat
<1>1. job[w] \in Jobs
  BY DEF ReplyTypes
<1>2. job[w].octets \in Seq(OctetSet) /\ job[w].request \in Requests
  BY <1>1 DEF Jobs, OctetSet
<1>3. Left(w) \in Nat
  BY <1>2 DEF Left
<1>4. To(w) \in Conns /\ Number(w) \in Nat
  BY <1>2 DEF Requests, To, Number
<1> QED
  BY <1>1, <1>2, <1>3, <1>4

(* One worker and one connection change at a time.                         *)
LEMMA OtherWorker ==
    ASSUME NEW v \in Workers, JobInv(v), job'[v] = job[v],
           job[v] # None => (v \notin lock'[To(v)] => v \notin lock[To(v)])
    PROVE  JobInv(v)'
BY DEF JobInv, Left, Number, To

LEMMA OtherLine ==
    ASSUME NEW d \in Conns, LockInv(d), OutInv(d), lock'[d] = lock[d], out'[d] = out[d],
           broken'[d] = broken[d], \A v \in lock[d] : job'[v] = job[v]
    PROVE  LockInv(d)' /\ OutInv(d)'
<1>1. LockInv(d)'
  BY DEF LockInv, To
<1>2. \A v \in lock[d] : Left(v)' = Left(v) /\ Number(v)' = Number(v)
  BY DEF Left, Number
<1>3. ASSUME ~broken[d] PROVE OutInv(d)'
  BY <1>2, <1>3 DEF OutInv, AtEnd, InReply
<1>4. ASSUME broken[d] PROVE OutInv(d)'
  BY <1>4 DEF OutInv
<1> QED
  BY <1>1, <1>3, <1>4

LEMMA StartHandlingStep ==
    ASSUME ReplyInv, RequestTypes, NEW w \in Workers, StartHandling(w)
    PROVE  ReplyInv'
<1> DEFINE new == [request |-> Head(tasks), octets |-> Octets(Head(tasks).number, ReplyOctets)]
<1>1. /\ job[w] = None /\ job' = [job EXCEPT ![w] = new]
      /\ UNCHANGED <<lock, out, broken>> /\ tasks # <<>>
  BY DEF StartHandling
<1>2. Head(tasks) \in Requests
  BY <1>1, HeadTailProperties DEF RequestTypes
<1>3. /\ Octets(Head(tasks).number, ReplyOctets) \in Seq(OctetSet)
      /\ Len(Octets(Head(tasks).number, ReplyOctets)) = ReplyOctets
      /\ \A k \in 1..ReplyOctets :
           Octets(Head(tasks).number, ReplyOctets)[k] = Octet(Head(tasks).number, k)
  <2>1. Head(tasks).number \in Nat /\ ReplyOctets \in Nat
    BY <1>2, TcpConnectionsAssumption DEF Requests
  <2> QED
    BY <2>1, OctetsType
<1>4. new \in Jobs
  BY <1>2, <1>3 DEF Jobs, OctetSet
<1>5. job \in [Workers -> Jobs \cup {None}]
  BY DEF ReplyInv, ReplyTypes
<1>6. ReplyTypes'
  BY <1>1, <1>4, <1>5 DEF ReplyInv, ReplyTypes
<1>7. job'[w] = new /\ \A v \in Workers \ {w} : job'[v] = job[v]
  BY <1>1, <1>5
<1>8. \A c \in Conns : w \notin lock[c]
  BY <1>1 DEF ReplyInv, LockInv
<1>9. ASSUME NEW v \in Workers PROVE JobInv(v)'
  <2>1. CASE v = w
    <3>1. Left(w)' = ReplyOctets /\ Number(w)' = Head(tasks).number
      BY <1>3, <1>7 DEF Left, Number
    <3>2. ReplyOctets \in Nat
      BY TcpConnectionsAssumption
    <3>3. job'[w].octets = Octets(Head(tasks).number, ReplyOctets)
      BY <1>7
    <3>4. \A k \in 1..ReplyOctets : ReplyOctets - ReplyOctets + k = k
      BY <3>2
    <3> QED
      BY <1>3, <2>1, <3>1, <3>2, <3>3, <3>4 DEF JobInv
  <2>2. CASE v # w
    BY <1>1, <1>7, <2>2, OtherWorker DEF ReplyInv
  <2> QED
    BY <2>1, <2>2
<1>10. ASSUME NEW c \in Conns PROVE LockInv(c)' /\ OutInv(c)'
  <2>1. \A v \in lock[c] : job'[v] = job[v]
    BY <1>7, <1>8 DEF ReplyInv, ReplyTypes
  <2> QED
    BY <1>1, <2>1, OtherLine DEF ReplyInv
<1> QED
  BY <1>6, <1>9, <1>10 DEF ReplyInv

LEMMA StartReplyStep ==
    ASSUME ReplyInv, NEW w \in Workers, StartReply(w)
    PROVE  ReplyInv'
<1>0. PICK c \in Conns : c = To(w)
  <2>1. job[w] # None
    BY DEF StartReply
  <2> QED
    BY <2>1, JobType DEF ReplyInv
<1>1. /\ job[w] # None /\ w \notin lock[c] /\ lock[c] = {}
      /\ lock' = [lock EXCEPT ![c] = @ \cup {w}]
      /\ UNCHANGED <<job, out, broken>>
  BY <1>0 DEF StartReply, Unlocked
<1>3. lock \in [Conns -> SUBSET Workers]
  BY DEF ReplyInv, ReplyTypes
<1>4. lock'[c] = {w} /\ \A d \in Conns \ {c} : lock'[d] = lock[d]
  BY <1>1, <1>3
<1>5. ReplyTypes'
  <2>1. lock' \in [Conns -> SUBSET Workers]
    BY <1>1, <1>3
  <2> QED
    BY <1>1, <2>1 DEF ReplyInv, ReplyTypes
<1>6. ASSUME NEW v \in Workers PROVE JobInv(v)'
  <2>1. ASSUME job[v] # None PROVE v \notin lock'[To(v)] => v \notin lock[To(v)]
    <3>1. To(v) \in Conns
      BY <2>1, JobType DEF ReplyInv
    <3> QED
      BY <1>1, <1>4, <3>1
  <2> QED
    BY <1>1, <2>1, OtherWorker DEF ReplyInv
<1>7. LockInv(c)' /\ OutInv(c)'
  <2>1. LockInv(c)'
    BY <1>0, <1>1, <1>4 DEF LockInv, To
  <2>2. Left(w) = ReplyOctets
    BY <1>0, <1>1 DEF ReplyInv, JobInv
  <2>3. Left(w)' = Left(w) /\ AtEnd(c)' = AtEnd(c)
    BY <1>1 DEF Left, AtEnd
  <2>4. OutInv(c)
    BY DEF ReplyInv
  <2>5. ASSUME ~broken[c] PROVE OutInv(c)'
    BY <1>1, <1>4, <2>2, <2>3, <2>4, <2>5 DEF OutInv, AtEnd
  <2>6. ASSUME broken[c] PROVE OutInv(c)'
    BY <1>1, <2>6 DEF OutInv
  <2> QED
    BY <2>1, <2>5, <2>6
<1>8. ASSUME NEW d \in Conns \ {c} PROVE LockInv(d)' /\ OutInv(d)'
  BY <1>1, <1>4, OtherLine DEF ReplyInv
<1> QED
  BY <1>5, <1>6, <1>7, <1>8 DEF ReplyInv

(* A piece that goes on where the octets before it ended.                  *)
LEMMA WholeGoesOn ==
    ASSUME NEW s \in Seq(OctetSet), NEW p \in Seq(OctetSet), p # <<>>, Whole(s),
           \A k \in 1..Len(p) - 1 : Follows(p[k], p[k + 1]),
           s = <<>> => p[1].index = 1,
           s # <<>> => Follows(s[Len(s)], p[1])
    PROVE  /\ s \o p \in Seq(OctetSet) /\ s \o p # <<>> /\ Whole(s \o p)
           /\ (s \o p)[Len(s \o p)] = p[Len(p)]
<1> DEFINE m == Len(s)
           n == Len(p)
           t == s \o p
<1>1. m \in Nat /\ n \in Nat /\ n > 0 /\ (s = <<>> <=> m = 0)
  OBVIOUS
<1>2. /\ t \in Seq(OctetSet) /\ Len(t) = m + n
      /\ \A k \in 1..m + n : t[k] = IF k <= m THEN s[k] ELSE p[k - m]
  BY ConcatProperties
<1>3. \A k \in 1..m - 1 : Follows(s[k], s[k + 1])
  BY DEF Whole
<1>4. s # <<>> => s[1].index = 1
  BY DEF Whole
<1> HIDE DEF t, m, n
<1>5. t # <<>> /\ Head(t) = t[1]
  BY <1>1, <1>2
<1>6. t[1].index = 1
  <2>1. 1 \in 1..m + n
    BY <1>1
  <2>2. CASE m = 0
    BY <1>1, <1>2, <2>1, <2>2
  <2>3. CASE m > 0
    BY <1>1, <1>2, <1>4, <2>1, <2>3
  <2> QED
    BY <1>1, <2>2, <2>3
<1>7. ASSUME NEW k \in 1..Len(t) - 1 PROVE Follows(t[k], t[k + 1])
  <2>0. k \in 1..m + n /\ k + 1 \in 1..m + n
    BY <1>1, <1>2
  <2>1. CASE k < m
    <3>1. t[k] = s[k] /\ t[k + 1] = s[k + 1] /\ k \in 1..m - 1
      BY <1>1, <1>2, <2>0, <2>1
    <3> QED
      BY <1>3, <3>1
  <2>2. CASE k = m
    <3>1. t[k] = s[m] /\ t[k + 1] = p[1] /\ s # <<>>
      BY <1>1, <1>2, <2>0, <2>2
    <3> QED
      BY <3>1 DEF m
  <2>3. CASE k > m
    <3>1. t[k] = p[k - m] /\ t[k + 1] = p[k + 1 - m]
      BY <1>1, <1>2, <2>0, <2>3
    <3>2. k - m \in 1..n - 1 /\ k + 1 - m = k - m + 1
      BY <1>1, <1>2, <2>3
    <3> QED
      BY <3>1, <3>2 DEF n
  <2> QED
    BY <1>1, <2>0, <2>1, <2>2, <2>3
<1>8. t[Len(t)] = p[n]
  <2> DEFINE j == m + n
  <2>1. j \in 1..m + n /\ ~(j <= m) /\ j - m = n
    BY <1>1
  <2>2. Len(t) = j
    BY <1>2
  <2>3. \A k \in 1..m + n : t[k] = IF k <= m THEN s[k] ELSE p[k - m]
    BY <1>2
  <2> HIDE DEF j
  <2>4. t[j] = IF j <= m THEN s[j] ELSE p[j - m]
    BY ONLY <2>1, <2>3
  <2>5. t[j] = p[j - m]
    BY ONLY <2>1, <2>4
  <2> QED
    BY <2>1, <2>2, <2>5
<1>9. Whole(t)
  BY <1>5, <1>6, <1>7 DEF Whole
<1> QED
  BY <1>2, <1>5, <1>8, <1>9 DEF t, n

LEMMA OctetsReplaced ==
    ASSUME NEW r, NEW a, NEW b, NEW x, r = [request |-> a, octets |-> b]
    PROVE  [r EXCEPT !.octets = x] = [request |-> a, octets |-> x]
OBVIOUS

LEMMA WritePieceStep ==
    ASSUME ReplyInv, NEW w \in Workers, WritePiece(w)
    PROVE  ReplyInv'
<1>0. /\ job[w] # None /\ w \in lock[To(w)]
      /\ UNCHANGED <<lock, broken>>
  BY DEF WritePiece, Writes
<1>1. PICK c \in Conns : c = To(w)
  BY <1>0, JobType DEF ReplyInv
<1> DEFINE o == job[w].octets
<1>2. PICK n \in 1..Len(o) :
          /\ out' = [out EXCEPT ![c] = @ \o SubSeq(o, 1, n)]
          /\ job' = [job EXCEPT ![w].octets = SubSeq(@, n + 1, Len(@))]
  BY <1>1 DEF WritePiece
<1> DEFINE piece == SubSeq(o, 1, n)
           rest == SubSeq(o, n + 1, Len(o))
           number == Number(w)
           left == Left(w)
           R == ReplyOctets
<1>3. o \in Seq(OctetSet) /\ job[w] \in Jobs /\ number \in Nat /\ left = Len(o) /\ left \in Nat
  BY <1>0, JobType DEF ReplyInv, Left
<1>4. /\ left <= R /\ R \in Nat
      /\ \A k \in 1..left : o[k] = Octet(number, R - left + k)
  BY <1>0, TcpConnectionsAssumption DEF ReplyInv, JobInv
<1>5. /\ piece \in Seq(OctetSet) /\ Len(piece) = n
      /\ rest \in Seq(OctetSet) /\ Len(rest) = left - n
      /\ \A k \in 1..n : piece[k] = o[k]
      /\ \A k \in 1..left - n : rest[k] = o[n + k]
  <2> HIDE DEF o, left
  <2>1. n \in 0..Len(o)
    BY <1>3
  <2>2. /\ piece \in Seq(OctetSet) /\ Len(piece) = n
        /\ rest \in Seq(OctetSet) /\ Len(rest) = Len(o) - n
        /\ \A k \in 1..n : piece[k] = o[k]
        /\ \A k \in 1..Len(o) - n : rest[k] = o[n + k]
    BY <1>3, <2>1, Cut
  <2> QED
    BY <1>3, <2>2
<1>6. n \in Nat /\ n >= 1 /\ n <= left
  BY <1>3
<1>7. /\ out \in [Conns -> Seq(OctetSet)] /\ lock \in [Conns -> SUBSET Workers]
      /\ job \in [Workers -> Jobs \cup {None}]
  BY DEF ReplyInv, ReplyTypes
<1>8. /\ out' = [out EXCEPT ![c] = @ \o piece]
      /\ job' = [job EXCEPT ![w] = [request |-> job[w].request, octets |-> rest]]
  <2> DEFINE r == job[w]
             a == job[w].request
             b == job[w].octets
             x == rest
  <2>1. r = [request |-> a, octets |-> b]
    BY <1>3 DEF Jobs
  <2> HIDE DEF r, a, b, x
  <2>2. [r EXCEPT !.octets = x] = [request |-> a, octets |-> x]
    BY ONLY <2>1, OctetsReplaced
  <2>3. /\ out' = [out EXCEPT ![c] = @ \o piece]
        /\ job' = [job EXCEPT ![w] = [r EXCEPT !.octets = x]]
    BY <1>2 DEF r, x
  <2> QED
    BY <2>2, <2>3 DEF a, x
<1> HIDE DEF o, piece, rest, left, number
<1>9. out[c] \o piece \in Seq(OctetSet)
  BY <1>5, <1>7, ConcatProperties
<1>10. /\ out'[c] = out[c] \o piece /\ \A d \in Conns \ {c} : out'[d] = out[d]
       /\ job'[w] = [request |-> job[w].request, octets |-> rest]
       /\ \A v \in Workers \ {w} : job'[v] = job[v]
  BY <1>7, <1>8
<1>11. [request |-> job[w].request, octets |-> rest] \in Jobs
  BY <1>3, <1>5 DEF Jobs, OctetSet
<1>12. ReplyTypes'
  <2>1. out' \in [Conns -> Seq(OctetSet)]
    BY <1>7, <1>8, <1>9
  <2>2. job' \in [Workers -> Jobs \cup {None}]
    BY <1>7, <1>8, <1>11
  <2> QED
    BY <1>0, <2>1, <2>2 DEF ReplyInv, ReplyTypes
<1>13. Left(w)' = left - n /\ Number(w)' = number /\ To(w)' = To(w) /\ job'[w].octets = rest
  BY <1>5, <1>10 DEF Left, Number, To, number
<1>14. JobInv(w)'
  <2>1. left - n <= R
    BY <1>4, <1>6, <1>3
  <2>2. ASSUME NEW k \in 1..left - n
        PROVE  rest[k] = Octet(number, R - (left - n) + k)
    <3>1. n + k \in 1..left /\ R - left + (n + k) = R - (left - n) + k
      BY <1>3, <1>4, <1>6
    <3> QED
      BY <1>4, <1>5, <3>1
  <2>3. w \in lock'[To(w)']
    BY <1>0, <1>13
  <2> QED
    BY <1>13, <2>1, <2>2, <2>3 DEF JobInv
<1>15. ASSUME NEW v \in Workers \ {w} PROVE JobInv(v)'
  BY <1>0, <1>10, OtherWorker DEF ReplyInv
<1>16. LockInv(c) /\ OutInv(c) /\ w \in lock[c] /\ lock[c] = {w}
  BY <1>0, <1>1 DEF ReplyInv, LockInv
<1>17. LockInv(c)'
  <2>1. lock'[c] = {w} /\ To(w)' = c
    BY <1>0, <1>1, <1>13, <1>16
  <2>2. job'[w] # None
    BY <1>10, <1>11, TcpConnectionsAssumption
  <2> QED
    BY <2>1, <2>2 DEF LockInv
<1>18. ASSUME ~broken[c]
       PROVE  /\ Whole(out'[c]) /\ out'[c] # <<>>
              /\ out'[c][Len(out'[c])] = Octet(number, R - (left - n))
  <2>1. \A k \in 1..n : piece[k] = Octet(number, R - left + k)
    BY <1>3, <1>4, <1>5, <1>6
  <2>2. ASSUME NEW k \in 1..Len(piece) - 1 PROVE Follows(piece[k], piece[k + 1])
    <3>1. k \in 1..n /\ k + 1 \in 1..n /\ R - left + (k + 1) = (R - left + k) + 1
      BY <1>3, <1>4, <1>5, <1>6
    <3>2. piece[k] = Octet(number, R - left + k) /\ piece[k + 1] = Octet(number, (R - left + k) + 1)
      BY <2>1, <3>1
    <3> QED
      BY <3>2 DEF Follows, Octet
  <2>3. piece # <<>>
    BY <1>5, <1>6
  <2>4. piece[1] = Octet(number, R - left + 1)
    BY <1>6, <2>1
  <2>5. piece[Len(piece)] = Octet(number, R - (left - n))
    <3>1. n \in 1..n /\ R - left + n = R - (left - n)
      BY <1>3, <1>4, <1>6
    <3> QED
      BY <1>5, <2>1, <3>1
  <2>6. Whole(out[c])
    BY <1>16, <1>18 DEF OutInv
  <2>7. out[c] = <<>> => piece[1].index = 1
    <3>1. CASE left = R
      BY <1>3, <1>4, <2>4, <3>1 DEF Octet
    <3>2. CASE left # R
      <4>1. InReply(c, w)
        BY <1>16, <1>18, <3>2 DEF OutInv, left
      <4> QED
        BY <4>1 DEF InReply
    <3> QED
      BY <3>1, <3>2
  <2>8. out[c] # <<>> => Follows(out[c][Len(out[c])], piece[1])
    <3> SUFFICES ASSUME out[c] # <<>> PROVE Follows(out[c][Len(out[c])], piece[1])
      OBVIOUS
    <3>1. CASE left = R
      <4>1. AtEnd(c)
        BY <1>16, <1>18, <3>1 DEF OutInv, left
      <4>2. piece[1].index = 1
        BY <1>3, <1>4, <2>4, <3>1 DEF Octet
      <4> QED
        BY <4>1, <4>2 DEF AtEnd, Follows
    <3>2. CASE left # R
      <4>1. InReply(c, w)
        BY <1>16, <1>18, <3>2 DEF OutInv, left
      <4>2. out[c][Len(out[c])] = Octet(number, R - left)
        BY <4>1 DEF InReply, number, left
      <4> QED
        BY <2>4, <4>2 DEF Follows, Octet
    <3> QED
      BY <3>1, <3>2
  <2> DEFINE s == out[c]
  <2>9. s \in Seq(OctetSet)
    BY <1>7
  <2>10. /\ s \o piece # <<>> /\ Whole(s \o piece)
         /\ (s \o piece)[Len(s \o piece)] = piece[Len(piece)]
    BY <1>5, <2>2, <2>3, <2>6, <2>7, <2>8, <2>9, WholeGoesOn
  <2> QED
    BY <1>10, <2>5, <2>10
<1>19. OutInv(c)'
  <2>1. CASE broken[c] = TRUE
    BY <1>0, <2>1 DEF OutInv
  <2>2. CASE broken[c] = FALSE
    <3>1. lock'[c] = {w} /\ Left(w)' # ReplyOctets
      BY <1>0, <1>3, <1>4, <1>6, <1>13, <1>16
    <3>2. InReply(c, w)'
      BY <1>13, <1>18, <2>2 DEF InReply
    <3> QED
      BY <1>18, <2>2, <3>1, <3>2 DEF OutInv
  <2>3. broken[c] \in BOOLEAN
    BY DEF ReplyInv, ReplyTypes
  <2> QED
    BY <2>1, <2>2, <2>3
<1>20. ASSUME NEW d \in Conns \ {c} PROVE LockInv(d)' /\ OutInv(d)'
  <2>1. LockInv(d) /\ OutInv(d) /\ lock[d] \subseteq Workers
    BY <1>7 DEF ReplyInv
  <2>2. w \notin lock[d]
    BY <1>1, <2>1 DEF LockInv
  <2>3. \A v \in lock[d] : job'[v] = job[v]
    BY <1>10, <2>1, <2>2
  <2> QED
    BY <1>0, <1>10, <2>1, <2>3, OtherLine
<1> QED
  BY <1>12, <1>14, <1>15, <1>17, <1>19, <1>20 DEF ReplyInv

LEMMA EndReplyStep ==
    ASSUME ReplyInv, NEW w \in Workers, FinishReply(w) \/ FailToReply(w)
    PROVE  ReplyInv'
<1>0. /\ job[w] # None /\ w \in lock[To(w)] /\ UNCHANGED out
      /\ job' = [job EXCEPT ![w] = None]
  BY DEF FinishReply, FailToReply, Writes
<1>1. PICK c \in Conns : c = To(w)
  BY <1>0, JobType DEF ReplyInv
<1>2. /\ lock' = [lock EXCEPT ![c] = @ \ {w}]
      /\ \/ UNCHANGED broken /\ job[w].octets = <<>>
         \/ broken' = [broken EXCEPT ![c] = TRUE]
  BY <1>1 DEF FinishReply, FailToReply, Released
<1>3. /\ out \in [Conns -> Seq(OctetSet)] /\ lock \in [Conns -> SUBSET Workers]
      /\ job \in [Workers -> Jobs \cup {None}] /\ broken \in [Conns -> BOOLEAN]
  BY DEF ReplyInv, ReplyTypes
<1>4. LockInv(c) /\ OutInv(c) /\ lock[c] = {w}
  BY <1>0, <1>1 DEF ReplyInv, LockInv
<1>5. /\ lock'[c] = {} /\ \A d \in Conns \ {c} : lock'[d] = lock[d] /\ broken'[d] = broken[d]
      /\ job'[w] = None /\ \A v \in Workers \ {w} : job'[v] = job[v]
  BY <1>0, <1>2, <1>3, <1>4
<1>6. ReplyTypes'
  <2>1. lock' \in [Conns -> SUBSET Workers]
    BY <1>2, <1>3
  <2>2. job' \in [Workers -> Jobs \cup {None}] /\ broken' \in [Conns -> BOOLEAN]
    BY <1>0, <1>2, <1>3
  <2> QED
    BY <1>0, <1>3, <2>1, <2>2 DEF ReplyTypes
<1>7. ASSUME NEW v \in Workers PROVE JobInv(v)'
  <2>1. CASE v = w
    BY <1>5, <2>1 DEF JobInv
  <2>2. CASE v # w
    <3>1. ASSUME job[v] # None PROVE v \notin lock'[To(v)] => v \notin lock[To(v)]
      <4>1. To(v) \in Conns
        BY <3>1, JobType DEF ReplyInv
      <4> QED
        BY <1>4, <1>5, <2>2, <4>1
    <3> QED
      BY <1>5, <2>2, <3>1, OtherWorker DEF ReplyInv
  <2> QED
    BY <2>1, <2>2
<1>8. LockInv(c)'
  BY <1>5 DEF LockInv
<1>9. OutInv(c)'
  <2>1. CASE broken'[c] = TRUE
    BY <2>1 DEF OutInv
  <2>2. CASE broken'[c] = FALSE
    <3>1. broken[c] = FALSE /\ job[w].octets = <<>>
      BY <1>2, <1>3, <2>2
    <3>2. Left(w) = 0 /\ ReplyOctets \in Nat \ {0, 1}
      BY <3>1, TcpConnectionsAssumption DEF Left
    <3>3. Whole(out[c]) /\ InReply(c, w)
      BY <1>4, <3>1, <3>2 DEF OutInv
    <3>4. AtEnd(c)
      BY <3>2, <3>3 DEF InReply, AtEnd, Octet
    <3>5. AtEnd(c)'
      BY <1>0, <3>4 DEF AtEnd
    <3> QED
      BY <1>0, <1>5, <3>3, <3>5 DEF OutInv
  <2> QED
    BY <1>6, <2>1, <2>2 DEF ReplyTypes
<1>10. ASSUME NEW d \in Conns \ {c} PROVE LockInv(d)' /\ OutInv(d)'
  <2>1. LockInv(d) /\ OutInv(d) /\ lock[d] \subseteq Workers
    BY <1>3 DEF ReplyInv
  <2>2. w \notin lock[d]
    BY <1>1, <2>1 DEF LockInv
  <2>3. \A v \in lock[d] : job'[v] = job[v]
    BY <1>5, <2>1, <2>2
  <2> QED
    BY <1>0, <1>5, <2>1, <2>3, OtherLine
<1> QED
  BY <1>6, <1>7, <1>8, <1>9, <1>10 DEF ReplyInv

LEMMA ReplyStep == ReplyInv /\ RequestInv /\ [Next]_vars => ReplyInv'
<1> SUFFICES ASSUME ReplyInv, RequestInv, [Next]_vars PROVE ReplyInv'
  OBVIOUS
<1> DEFINE Same == UNCHANGED <<job, lock, out, broken>>
<1>1. CASE Same
  <2>1. ReplyTypes'
    BY <1>1 DEF ReplyInv, ReplyTypes
  <2>2. ASSUME NEW v \in Workers PROVE JobInv(v)'
    BY <1>1, OtherWorker DEF ReplyInv
  <2>3. ASSUME NEW d \in Conns PROVE LockInv(d)' /\ OutInv(d)'
    BY <1>1, OtherLine DEF ReplyInv
  <2> QED
    BY <2>1, <2>2, <2>3 DEF ReplyInv
<1>2. ASSUME NEW c \in Conns PROVE SendPiece(c) \/ Close(c) \/ Accept(c) => Same
  BY DEF SendPiece, Close, Accept, workerVars
<1>3. ASSUME NEW c \in Conns PROVE RecvLength(c) \/ RecvData(c) => Same
  BY DEF RecvLength, RecvData, Take, workerVars
<1>4. ASSUME NEW c \in Conns PROVE NothingThere(c) \/ Forget(c) \/ AcceptNothing => Same
  BY DEF NothingThere, Forget, AcceptNothing, workerVars
<1>5. AcceptNothing \/ UNCHANGED vars => Same
  BY DEF AcceptNothing, vars, workerVars
<1>6. ASSUME NEW w \in Workers, Worker(w) PROVE ReplyInv'
  BY <1>6, StartHandlingStep, StartReplyStep, WritePieceStep, EndReplyStep
  DEF Worker, RequestInv
<1> QED
  BY <1>1, <1>2, <1>3, <1>4, <1>5, <1>6 DEF Next, Master

LEMMA InitReplies == Init => ReplyInv
<1> SUFFICES ASSUME Init PROVE ReplyInv
  OBVIOUS
<1>1. ReplyTypes
  BY DEF Init, ReplyTypes
<1>2. \A w \in Workers : JobInv(w)
  BY DEF Init, JobInv
<1>3. ASSUME NEW c \in Conns PROVE LockInv(c) /\ OutInv(c)
  <2>1. lock[c] = {} /\ out[c] = <<>>
    BY DEF Init
  <2>2. Whole(<<>>)
    BY DEF Whole
  <2> QED
    BY <2>1, <2>2 DEF LockInv, OutInv, AtEnd
<1> QED
  BY <1>1, <1>2, <1>3 DEF ReplyInv

(* What a client receives is a sequence of whole replies, if no send has   *)
(* failed, however many workers write to its connection.                   *)
THEOREM RepliesAreWhole == Spec => []RepliesWhole
<1>1. ReplyInv => RepliesWhole
  <2> SUFFICES ASSUME ReplyInv, NEW c \in Conns, ~broken[c]
               PROVE  /\ out[c] # <<>> => Head(out[c]).index = 1
                      /\ \A k \in 1..Len(out[c]) - 1 :
                            \/ out[c][k + 1] = [out[c][k] EXCEPT !.index = @ + 1]
                            \/ out[c][k].index = ReplyOctets /\ out[c][k + 1].index = 1
    BY DEF RepliesWhole
  <2>1. Whole(out[c])
    BY DEF ReplyInv, OutInv
  <2> QED
    BY <2>1 DEF Whole, Follows
<1>2. Init => RequestInv /\ ReplyInv
  BY InitRequests, InitReplies
<1>3. (RequestInv /\ ReplyInv) /\ [Next]_vars => (RequestInv /\ ReplyInv)'
  BY RequestStep, ReplyStep
<1> QED
  BY <1>1, <1>2, <1>3, PTL DEF Spec

-----------------------------------------------------------------------------
(* The connections implement Exchanges                                     *)

(* A request is in the queue or with a worker, and only once.              *)
OnceInv ==
    /\ \A i, j \in DOMAIN tasks : tasks[i] = tasks[j] => i = j
    /\ \A i \in DOMAIN tasks, w \in Workers : job[w] # None => tasks[i] # job[w].request
    /\ \A v, w \in Workers : job[v] # None /\ job[w] # None =>
                             (job[v].request = job[w].request => v = w)
    /\ \A i \in DOMAIN tasks : tasks[i].number <= Len(received[tasks[i].conn])
    /\ \A w \in Workers : job[w] # None => Number(w) <= Len(received[To(w)])

Request(c, i) == [conn |-> c, number |-> i]

(* What Dispatch() does with the queue.                                    *)
Queued(c) ==
    /\ tasks' = Append(tasks, Request(c, Len(received[c]) + 1))
    /\ \E data : received' = [received EXCEPT ![c] = Append(@, data)]
    /\ UNCHANGED <<job, out>>

LEMMA DispatchQueues ==
    ASSUME RequestInv, NEW c \in Conns, NEW data, Dispatch(c, data), UNCHANGED <<job, out>>
    PROVE  Queued(c)
<1> DEFINE end == Min({2 + MessageLength(c, data), Len(data)})
           body == SubSeq(data, 3, end)
<1>1. /\ received' = [received EXCEPT ![c] = Append(@, body)]
      /\ tasks' = Append(tasks, [conn |-> c, number |-> Len(received'[c])])
  BY DEF Dispatch
<1> HIDE DEF body
<1>2. received \in [Conns -> Seq(Seq(OctetSet))]
  BY DEF RequestInv, RequestTypes
<1>3. received'[c] = Append(received[c], body) /\ received[c] \in Seq(Seq(OctetSet))
  BY <1>1, <1>2
<1>4. Len(received'[c]) = Len(received[c]) + 1
  BY <1>3
<1> QED
  BY <1>1, <1>4 DEF Queued, Request

LEMMA ExchangeChanges ==
    ASSUME RequestInv, [Next]_vars
    PROVE  \/ \E c \in Conns : Queued(c)
           \/ \E w \in Workers : \/ StartHandling(w) \/ WritePiece(w)
                                 \/ FinishReply(w) \/ FailToReply(w)
           \/ UNCHANGED <<received, tasks, job, out>>
<1> DEFINE Same == UNCHANGED <<received, tasks, job, out>>
<1> USE DEF masterVars, workerVars
<1>1. ASSUME NEW c \in Conns PROVE SendPiece(c) \/ Close(c) \/ Accept(c) => Same
  BY DEF SendPiece, Close, Accept
<1>2. ASSUME NEW c \in Conns PROVE NothingThere(c) \/ Forget(c) => Same
  BY DEF NothingThere, Forget
<1>3. AcceptNothing \/ UNCHANGED vars => Same
  BY DEF AcceptNothing, vars
<1>4. ASSUME NEW c \in Conns, RecvLength(c) \/ RecvData(c) PROVE Same \/ Queued(c)
  <2>1. UNCHANGED <<job, out>> /\ \E data : Dispatch(c, data) \/ KeepForLater(c, data)
    BY <1>4 DEF RecvLength, RecvData, Take
  <2>2. PICK data : Dispatch(c, data) \/ KeepForLater(c, data)
    BY <2>1
  <2> QED
    BY <2>1, <2>2, DispatchQueues DEF KeepForLater
<1>5. ASSUME NEW w \in Workers PROVE StartReply(w) => Same
  BY DEF StartReply
<1> QED
  BY <1>1, <1>2, <1>3, <1>4, <1>5 DEF Next, Master, Worker

LEMMA QueuedStep ==
    ASSUME RequestInv, RequestInv', ReplyInv, OnceInv, NEW c \in Conns, Queued(c)
    PROVE  OnceInv' /\ Service!Take(c)
<1> DEFINE new == Request(c, Len(received[c]) + 1)
           n == Len(tasks)
<1>1. /\ received \in [Conns -> Seq(Seq(OctetSet))] /\ tasks \in Seq(Requests)
      /\ \A d \in Conns : Len(received[d]) \in Nat
  BY DEF RequestInv, RequestTypes
<1>2. PICK data : received' = [received EXCEPT ![c] = Append(@, data)]
  BY DEF Queued
<1>3. /\ Len(received'[c]) = Len(received[c]) + 1
      /\ \A d \in Conns \ {c} : received'[d] = received[d]
  BY <1>1, <1>2
<1>4. UNCHANGED <<job, out>> /\ tasks' = Append(tasks, new)
  BY DEF Queued
<1>5. new \in Requests /\ new.conn = c /\ new.number = Len(received[c]) + 1
  BY <1>1 DEF Request, Requests
<1>6. ASSUME NEW d \in Conns
      PROVE  Len(received[d]) <= Len(received'[d]) /\ Len(received'[d]) \in Nat
  <2> DEFINE m == Len(received[d])
  <2>1. m \in Nat
    BY <1>1
  <2>2. CASE d = c
    BY <1>3, <2>1, <2>2
  <2>3. CASE d # c
    <3>1. Len(received'[d]) = m
      BY <1>3, <2>3
    <3> HIDE DEF m
    <3> QED
      BY <2>1, <3>1 DEF m
  <2> QED
    BY <2>2, <2>3
<1> HIDE DEF new
<1>7. /\ n \in Nat /\ DOMAIN tasks = 1..n /\ DOMAIN tasks' = 1..n + 1
      /\ \A i \in 1..n : tasks'[i] = tasks[i] /\ tasks[i] \in Requests
      /\ tasks'[n + 1] = new
  BY <1>1, <1>4, <1>5
<1> HIDE DEF n
<1>8. \A i \in 1..n + 1 : i \in 1..n \/ i = n + 1
  BY <1>7
<1>9. \A i \in 1..n : tasks[i].conn \in Conns /\ tasks[i].number \in Nat
  BY <1>7 DEF Requests
<1>10. \A i \in 1..n : tasks[i] # new
  <2> SUFFICES ASSUME NEW i \in 1..n, tasks[i] = new PROVE FALSE
    OBVIOUS
  <2>1. tasks[i].number = Len(received[c]) + 1 /\ tasks[i].conn = c
    BY <1>5
  <2>2. tasks[i].number <= Len(received[tasks[i].conn])
    BY <1>7 DEF OnceInv
  <2> QED
    BY <1>1, <2>1, <2>2
<1>11. \A w \in Workers : job[w] # None => job[w].request # new
  <2> SUFFICES ASSUME NEW w \in Workers, job[w] # None, job[w].request = new PROVE FALSE
    OBVIOUS
  <2>1. Number(w) = Len(received[c]) + 1 /\ To(w) = c
    BY <1>5 DEF Number, To
  <2>2. Number(w) <= Len(received[To(w)])
    BY DEF OnceInv
  <2> QED
    BY <1>1, <2>1, <2>2
<1>12. OnceInv'
  <2>1. \A i, j \in DOMAIN tasks' : tasks'[i] = tasks'[j] => i = j
    BY <1>7, <1>8, <1>10 DEF OnceInv
  <2>2. \A i \in DOMAIN tasks', w \in Workers : job'[w] # None => tasks'[i] # job'[w].request
    BY <1>4, <1>7, <1>8, <1>11 DEF OnceInv
  <2>3. \A v, w \in Workers : job'[v] # None /\ job'[w] # None =>
                              (job'[v].request = job'[w].request => v = w)
    BY <1>4 DEF OnceInv
  <2>4. ASSUME NEW i \in DOMAIN tasks' PROVE tasks'[i].number <= Len(received'[tasks'[i].conn])
    <3>1. CASE i \in 1..n
      <4>1. tasks[i].number <= Len(received[tasks[i].conn])
        BY <1>7, <3>1 DEF OnceInv
      <4> QED
        BY <1>1, <1>6, <1>7, <1>9, <3>1, <4>1
    <3>2. CASE i = n + 1
      BY <1>1, <1>3, <1>5, <1>7, <3>2
    <3> QED
      BY <1>7, <1>8, <3>1, <3>2
  <2>5. ASSUME NEW w \in Workers, job'[w] # None PROVE Number(w)' <= Len(received[To(w)])'
    <3>1. job[w] # None /\ Number(w)' = Number(w) /\ To(w)' = To(w)
      BY <1>4, <2>5 DEF Number, To
    <3>2. To(w) \in Conns /\ Number(w) \in Nat /\ Number(w) <= Len(received[To(w)])
      BY <3>1, JobType DEF ReplyInv, OnceInv
    <3> QED
      BY <1>1, <1>6, <3>1, <3>2
  <2> QED
    BY <2>1, <2>2, <2>3, <2>4, <2>5 DEF OnceInv
<1>13. Len(received[c]) < Len(Messages[c])
  <2>1. Len(received'[c]) <= Len(Messages[c]) /\ Messages[c] \in Seq(Nat)
    BY TcpConnectionsAssumption DEF RequestInv, ConnInv
  <2> QED
    BY <1>1, <1>3, <2>1
<1>14. Waiting' = Waiting \cup {Request(c, Len(received[c]) + 1)}
  <2>1. {tasks'[i] : i \in DOMAIN tasks'} = {tasks[i] : i \in DOMAIN tasks} \cup {new}
    <3>1. {tasks'[i] : i \in 1..n + 1} = {tasks[i] : i \in 1..n} \cup {new}
      BY <1>7, <1>8
    <3> QED
      BY <1>7, <3>1
  <2> QED
    BY <1>4, <2>1 DEF Waiting, new
<1>15. Answered' = Answered
  BY <1>4 DEF Answered
<1>16. [d \in Conns |-> Taken(d)]' = [[d \in Conns |-> Taken(d)] EXCEPT ![c] = @ + 1]
  BY <1>3 DEF Taken
<1> QED
  BY <1>12, <1>13, <1>14, <1>15, <1>16
  DEF Service!Take, Service!Exchange, Request, Taken

(* The request that a worker has not answered.                             *)
Busy(v) == job[v] # None /\ job[v].octets # <<>>
InQueue == {tasks[i] : i \in DOMAIN tasks}
WithWorkers == {job[v].request : v \in {u \in Workers : Busy(u)}}

LEMMA WaitingParts == Waiting = InQueue \cup WithWorkers
BY DEF Waiting, InQueue, WithWorkers, Busy

(* The request moves from the queue to the worker and goes on waiting.     *)
LEMMA RequestHandled ==
    ASSUME RequestInv, ReplyInv, OnceInv, NEW w \in Workers, StartHandling(w)
    PROVE  OnceInv' /\ UNCHANGED <<received, out, Waiting>>
<1> DEFINE r == Head(tasks)
           reply == Octets(r.number, ReplyOctets)
           n == Len(tasks)
<1>1. /\ job[w] = None /\ tasks # <<>> /\ tasks' = Tail(tasks)
      /\ job' = [job EXCEPT ![w] = [request |-> r, octets |-> reply]]
      /\ UNCHANGED <<received, out>>
  BY DEF StartHandling, masterVars
<1>2. tasks \in Seq(Requests) /\ job \in [Workers -> Jobs \cup {None}]
  BY DEF RequestInv, RequestTypes, ReplyInv, ReplyTypes
<1>3. /\ n \in Nat /\ n >= 1 /\ DOMAIN tasks = 1..n /\ DOMAIN tasks' = 1..n - 1
      /\ r = tasks[1] /\ r \in Requests /\ \A i \in 1..n - 1 : tasks'[i] = tasks[i + 1]
  BY <1>1, <1>2, HeadTailProperties
<1>4. reply \in Seq(OctetSet) /\ reply # <<>>
  <2>1. r.number \in Nat /\ ReplyOctets \in Nat /\ ReplyOctets > 0
    BY <1>3, TcpConnectionsAssumption DEF Requests
  <2> QED
    BY <2>1, OctetsType
<1>5. [request |-> r, octets |-> reply] \in Jobs
  BY <1>3, <1>4 DEF Jobs, OctetSet
<1> HIDE DEF r, reply, n
<1>6. /\ job'[w] # None /\ job'[w].request = r /\ job'[w].octets # <<>>
      /\ \A v \in Workers \ {w} : job'[v] = job[v]
  BY <1>1, <1>2, <1>4, <1>5, TcpConnectionsAssumption
<1>7. \A i \in 1..n - 1 : i + 1 \in 1..n /\ i + 1 # 1
  BY <1>3
<1>8. \A i \in 1..n : i = 1 \/ (i - 1 \in 1..n - 1 /\ (i - 1) + 1 = i)
  BY <1>3
<1>9. ASSUME NEW i \in DOMAIN tasks' PROVE tasks'[i] # r
  <2>1. tasks'[i] = tasks[i + 1] /\ i + 1 \in DOMAIN tasks /\ 1 \in DOMAIN tasks /\ i + 1 # 1
    BY <1>3, <1>7
  <2> QED
    BY <1>3, <2>1 DEF OnceInv
<1>10. ASSUME NEW v \in Workers, job[v] # None PROVE job[v].request # r
  <2>1. 1 \in DOMAIN tasks
    BY <1>3
  <2> QED
    BY <1>3, <1>10, <2>1 DEF OnceInv
<1>11. OnceInv'
  <2>1. ASSUME NEW i \in DOMAIN tasks', NEW j \in DOMAIN tasks', tasks'[i] = tasks'[j]
        PROVE  i = j
    <3>1. /\ i + 1 \in DOMAIN tasks /\ j + 1 \in DOMAIN tasks
          /\ tasks[i + 1] = tasks[j + 1] /\ i \in Int /\ j \in Int
      BY <1>3, <1>7, <2>1
    <3>2. i + 1 = j + 1
      BY <3>1 DEF OnceInv
    <3> QED
      BY <3>1, <3>2
  <2>2. ASSUME NEW i \in DOMAIN tasks', NEW v \in Workers, job'[v] # None
        PROVE  tasks'[i] # job'[v].request
    <3>1. tasks'[i] = tasks[i + 1] /\ i + 1 \in DOMAIN tasks
      BY <1>3, <1>7
    <3>2. CASE v = w
      BY <1>6, <1>9, <3>2
    <3>3. CASE v # w
      BY <1>6, <2>2, <3>1, <3>3 DEF OnceInv
    <3> QED
      BY <3>2, <3>3
  <2>3. \A u, v \in Workers : job'[u] # None /\ job'[v] # None =>
                              (job'[u].request = job'[v].request => u = v)
    <3> SUFFICES ASSUME NEW u \in Workers, NEW v \in Workers, job'[u] # None,
                        job'[v] # None, job'[u].request = job'[v].request
                 PROVE  u = v
      OBVIOUS
    <3>1. CASE u # w /\ v # w
      BY <1>6, <3>1 DEF OnceInv
    <3>2. CASE u = w /\ v # w
      BY <1>6, <1>10, <3>2
    <3>3. CASE u # w /\ v = w
      BY <1>6, <1>10, <3>3
    <3> QED
      BY <3>1, <3>2, <3>3
  <2>4. ASSUME NEW i \in DOMAIN tasks' PROVE tasks'[i].number <= Len(received'[tasks'[i].conn])
    <3>1. tasks'[i] = tasks[i + 1] /\ i + 1 \in DOMAIN tasks
      BY <1>3, <1>7
    <3> QED
      BY <1>1, <3>1 DEF OnceInv
  <2>5. ASSUME NEW v \in Workers, job'[v] # None PROVE Number(v)' <= Len(received[To(v)])'
    <3>1. CASE v = w
      <4>1. 1 \in DOMAIN tasks
        BY <1>3
      <4>2. r.number <= Len(received[r.conn])
        BY <1>3, <4>1 DEF OnceInv
      <4> QED
        BY <1>1, <1>6, <3>1, <4>2 DEF Number, To
    <3>2. CASE v # w
      BY <1>1, <1>6, <2>5, <3>2 DEF OnceInv, Number, To
    <3> QED
      BY <3>1, <3>2
  <2>6. \A i, j \in DOMAIN tasks' : tasks'[i] = tasks'[j] => i = j
    BY <2>1
  <2>7. \A i \in DOMAIN tasks', v \in Workers : job'[v] # None => tasks'[i] # job'[v].request
    BY <2>2
  <2> QED
    BY <2>3, <2>4, <2>5, <2>6, <2>7 DEF OnceInv
<1>12. InQueue = InQueue' \cup {r}
  <2>1. ASSUME NEW i \in 1..n PROVE tasks[i] \in InQueue' \cup {r}
    <3>1. CASE i = 1
      BY <1>3, <3>1
    <3>2. CASE i # 1
      <4>1. i - 1 \in DOMAIN tasks' /\ tasks'[i - 1] = tasks[i]
        BY <1>3, <1>8, <3>2
      <4> QED
        BY <4>1 DEF InQueue
    <3> QED
      BY <3>1, <3>2
  <2>2. ASSUME NEW i \in 1..n - 1 PROVE tasks'[i] \in InQueue
    BY <1>3, <1>7 DEF InQueue
  <2>3. r \in InQueue
    BY <1>3, <1>8 DEF InQueue
  <2>4. InQueue = {tasks[i] : i \in 1..n} /\ InQueue' = {tasks'[i] : i \in 1..n - 1}
    BY <1>3 DEF InQueue
  <2> QED
    BY <2>1, <2>2, <2>3, <2>4
<1>13. WithWorkers' = WithWorkers \cup {r}
  <2>1. \A v \in Workers : Busy(v)' <=> Busy(v) \/ v = w
    BY <1>6 DEF Busy
  <2>2. ~Busy(w)
    BY <1>1 DEF Busy
  <2> QED
    BY <1>6, <2>1, <2>2 DEF WithWorkers
<1>14. Waiting' = InQueue' \cup WithWorkers'
  BY WaitingParts DEF Waiting, InQueue, WithWorkers, Busy
<1> QED
  BY <1>1, <1>11, <1>12, <1>13, <1>14, WaitingParts

(* What WritePiece() does to the line and to the job.                      *)
LEMMA PieceWritten ==
    ASSUME ReplyInv, NEW w \in Workers, WritePiece(w)
    PROVE  /\ job[w] # None /\ Left(w) > 0
           /\ \E c \in Conns, n \in Nat, piece, rest \in Seq(OctetSet) :
                /\ c = To(w) /\ n > 0 /\ n <= Left(w)
                /\ Len(piece) = n /\ Len(rest) = Left(w) - n
                /\ \A k \in 1..n : piece[k] = Octet(Number(w), ReplyOctets - Left(w) + k)
                /\ out' = [out EXCEPT ![c] = @ \o piece]
                /\ job' = [job EXCEPT ![w] = [request |-> job[w].request, octets |-> rest]]
<1>1. PICK c \in Conns : c = To(w)
  BY JobType DEF WritePiece, Writes, ReplyInv
<1> DEFINE o == job[w].octets
<1>2. PICK n \in 1..Len(o) :
          /\ out' = [out EXCEPT ![c] = @ \o SubSeq(o, 1, n)]
          /\ job' = [job EXCEPT ![w].octets = SubSeq(@, n + 1, Len(@))]
  BY <1>1 DEF WritePiece
<1>3. /\ job[w] # None /\ o \in Seq(OctetSet) /\ job[w] \in Jobs
      /\ Left(w) = Len(o) /\ Left(w) \in Nat
  BY JobType DEF ReplyInv, Left, WritePiece, Writes
<1> DEFINE piece == SubSeq(o, 1, n)
           rest == SubSeq(o, n + 1, Len(o))
<1>4. \A k \in 1..Left(w) : o[k] = Octet(Number(w), ReplyOctets - Left(w) + k)
  BY <1>3 DEF ReplyInv, JobInv
<1>5. [job[w] EXCEPT !.octets = rest] = [request |-> job[w].request, octets |-> rest]
  <2> DEFINE r == job[w]
             a == job[w].request
             b == job[w].octets
             x == rest
  <2>1. r = [request |-> a, octets |-> b]
    BY <1>3 DEF Jobs
  <2> HIDE DEF r, a, b, x
  <2>2. [r EXCEPT !.octets = x] = [request |-> a, octets |-> x]
    BY ONLY <2>1, OctetsReplaced
  <2> QED
    BY <2>2 DEF r, a, x
<1>6. /\ out' = [out EXCEPT ![c] = @ \o piece]
      /\ job' = [job EXCEPT ![w] = [job[w] EXCEPT !.octets = rest]]
  BY <1>2
<1> HIDE DEF o, piece, rest
<1>7. n \in 0..Len(o) /\ n > 0 /\ n <= Left(w) /\ n \in Nat /\ Left(w) > 0
  BY <1>2, <1>3
<1>8. /\ piece \in Seq(OctetSet) /\ Len(piece) = n
      /\ rest \in Seq(OctetSet) /\ Len(rest) = Len(o) - n
      /\ \A k \in 1..n : piece[k] = o[k]
  BY <1>3, <1>7, Cut DEF piece, rest
<1>9. \A k \in 1..n : piece[k] = Octet(Number(w), ReplyOctets - Left(w) + k)
  BY <1>3, <1>4, <1>7, <1>8
<1> DEFINE newJob == [request |-> job[w].request, octets |-> rest]
           newOut == [out EXCEPT ![c] = @ \o piece]
<1>10. out' = newOut /\ job' = [job EXCEPT ![w] = newJob]
  BY <1>5, <1>6
<1> HIDE DEF newJob, newOut
<1>11. /\ c = To(w) /\ n > 0 /\ n <= Left(w) /\ Len(piece) = n /\ Len(rest) = Left(w) - n
  BY <1>1, <1>3, <1>7, <1>8
<1> QED
  BY <1>3, <1>7, <1>8, <1>9, <1>10, <1>11 DEF newJob, newOut

(* The messages whose reply ends in a line.                                *)
Ends(c, s) == {Request(c, s[k].message) : k \in {i \in DOMAIN s : s[i].index = ReplyOctets}}

LEMMA AnsweredEnds == Answered = UNION {Ends(c, out[c]) : c \in Conns}
BY DEF Answered, Ends, Request

LEMMA EndsJoined ==
    ASSUME NEW c, NEW s \in Seq(OctetSet), NEW p \in Seq(OctetSet)
    PROVE  Ends(c, s \o p) = Ends(c, s) \cup Ends(c, p)
<1> DEFINE m == Len(s)
           n == Len(p)
           t == s \o p
<1>1. m \in Nat /\ n \in Nat /\ DOMAIN s = 1..m /\ DOMAIN p = 1..n
  OBVIOUS
<1>2. DOMAIN t = 1..m + n /\ \A k \in 1..m + n : t[k] = IF k <= m THEN s[k] ELSE p[k - m]
  BY ConcatProperties
<1> HIDE DEF t, m, n
<1>3. \A k \in 1..m : k \in 1..m + n /\ t[k] = s[k]
  BY <1>1, <1>2
<1>4. ASSUME NEW k \in 1..n PROVE m + k \in 1..m + n /\ t[m + k] = p[k]
  <2>1. m + k \in 1..m + n /\ ~(m + k <= m) /\ (m + k) - m = k
    BY <1>1
  <2> QED
    BY <1>2, <2>1
<1>5. ASSUME NEW k \in 1..m + n, k \notin 1..m PROVE k - m \in 1..n /\ t[k] = p[k - m]
  <2>1. k - m \in 1..n /\ ~(k <= m)
    BY <1>1, <1>5
  <2> QED
    BY <1>2, <2>1
<1>6. Ends(c, t) \subseteq Ends(c, s) \cup Ends(c, p)
  BY <1>1, <1>2, <1>3, <1>5 DEF Ends
<1>7. Ends(c, s) \subseteq Ends(c, t)
  BY <1>1, <1>2, <1>3 DEF Ends
<1>8. Ends(c, p) \subseteq Ends(c, t)
  BY <1>1, <1>2, <1>4 DEF Ends
<1> QED
  BY <1>6, <1>7, <1>8 DEF t

(* Another piece of the reply is written: the last one answers it.         *)
LEMMA PieceAnswers ==
    ASSUME RequestInv, ReplyInv, OnceInv, NEW w \in Workers, WritePiece(w)
    PROVE  /\ OnceInv' /\ UNCHANGED received
           /\ UNCHANGED <<Waiting, Answered>> \/ Service!Answer(job[w].request)
<1>1. job[w] # None /\ Left(w) > 0 /\ UNCHANGED <<tasks, received>>
  BY PieceWritten DEF WritePiece, masterVars
<1>2. PICK c \in Conns, n \in Nat, piece \in Seq(OctetSet), rest \in Seq(OctetSet) :
        /\ c = To(w) /\ n > 0 /\ n <= Left(w)
        /\ Len(piece) = n /\ Len(rest) = Left(w) - n
        /\ \A k \in 1..n : piece[k] = Octet(Number(w), ReplyOctets - Left(w) + k)
        /\ out' = [out EXCEPT ![c] = @ \o piece]
        /\ job' = [job EXCEPT ![w] = [request |-> job[w].request, octets |-> rest]]
  BY PieceWritten
<1> DEFINE r == job[w].request
<1>3. /\ job[w].octets \in Seq(OctetSet) /\ Left(w) = Len(job[w].octets) /\ Left(w) \in Nat
      /\ r \in Requests /\ To(w) \in Conns /\ Number(w) \in Nat
      /\ ReplyOctets \in Nat /\ Left(w) <= ReplyOctets
  BY <1>1, JobType, TcpConnectionsAssumption DEF ReplyInv, Left, JobInv
<1>4. r = Request(c, Number(w))
  BY <1>2, <1>3 DEF Requests, Request, To, Number
<1>5. [request |-> r, octets |-> rest] \in Jobs
  BY <1>2, <1>3 DEF Jobs, OctetSet
<1>6. /\ job \in [Workers -> Jobs \cup {None}] /\ out \in [Conns -> Seq(OctetSet)]
  BY DEF ReplyInv, ReplyTypes
<1>7. /\ job'[w] # None /\ job'[w].request = r /\ job'[w].octets = rest
      /\ \A v \in Workers \ {w} : job'[v] = job[v]
  BY <1>2, <1>5, <1>6, TcpConnectionsAssumption
<1> HIDE DEF r
<1>8. OnceInv'
  <2>1. \A v \in Workers : /\ job'[v] # None <=> job[v] # None
                           /\ job[v] # None => job'[v].request = job[v].request
    BY <1>1, <1>7 DEF r
  <2>2. \A v \in Workers : job[v] # None => Number(v)' = Number(v) /\ To(v)' = To(v)
    BY <2>1 DEF Number, To
  <2>3. \A u, v \in Workers : job'[u] # None /\ job'[v] # None =>
                              (job'[u].request = job'[v].request => u = v)
    BY <2>1 DEF OnceInv
  <2>4. \A i \in DOMAIN tasks', v \in Workers : job'[v] # None => tasks'[i] # job'[v].request
    BY <1>1, <2>1 DEF OnceInv
  <2>5. ASSUME NEW v \in Workers, job'[v] # None PROVE Number(v)' <= Len(received[To(v)])'
    BY <1>1, <2>1, <2>2, <2>5 DEF OnceInv
  <2> QED
    BY <1>1, <2>3, <2>4, <2>5 DEF OnceInv
<1>9. Busy(w) /\ (Busy(w)' <=> n < Left(w)) /\ \A v \in Workers \ {w} : Busy(v)' <=> Busy(v)
  <2>1. job[w].octets # <<>>
    BY <1>1, <1>3
  <2>2. rest # <<>> <=> n < Left(w)
    BY <1>2, <1>3
  <2> QED
    BY <1>1, <1>7, <2>1, <2>2 DEF Busy
<1>10. Waiting = InQueue \cup WithWorkers /\ Waiting' = InQueue' \cup WithWorkers'
  BY WaitingParts DEF Waiting, InQueue, WithWorkers, Busy
<1>11. InQueue' = InQueue
  BY <1>1 DEF InQueue
<1>12. Answered' = Answered \cup Ends(c, piece)
  <2>1. Answered' = UNION {Ends(d, out'[d]) : d \in Conns}
    BY DEF Answered, Ends, Request
  <2>2. Ends(c, out'[c]) = Ends(c, out[c]) \cup Ends(c, piece)
    BY <1>2, <1>6, EndsJoined
  <2>3. \A d \in Conns \ {c} : out'[d] = out[d]
    BY <1>2, <1>6
  <2> QED
    BY <2>1, <2>2, <2>3, AnsweredEnds
<1>13. DOMAIN piece = 1..n /\ \A k \in 1..n :
         /\ piece[k].message = Number(w)
         /\ piece[k].index = ReplyOctets <=> k = Left(w)
  <2>1. ASSUME NEW k \in 1..n
        PROVE  /\ piece[k].message = Number(w)
               /\ piece[k].index = ReplyOctets <=> k = Left(w)
    <3>1. piece[k].message = Number(w) /\ piece[k].index = ReplyOctets - Left(w) + k
      BY <1>2 DEF Octet
    <3>2. ReplyOctets - Left(w) + k = ReplyOctets <=> k = Left(w)
      BY <1>3
    <3> QED
      BY <3>1, <3>2
  <2> QED
    BY <1>2, <2>1
<1>14. CASE n < Left(w)
  <2>1. Ends(c, piece) = {}
    <3>1. \A k \in 1..n : k # Left(w)
      BY <1>2, <1>3, <1>14
    <3> QED
      BY <1>13, <3>1 DEF Ends
  <2>2. WithWorkers' = WithWorkers
    BY <1>7, <1>9, <1>14 DEF WithWorkers, r
  <2> QED
    BY <1>1, <1>8, <1>10, <1>11, <1>12, <2>1, <2>2
<1>15. CASE n = Left(w)
  <2>1. Ends(c, piece) = {r}
    <3>1. Left(w) \in 1..n
      BY <1>1, <1>2, <1>3, <1>15
    <3> QED
      BY <1>4, <1>13, <3>1 DEF Ends
  <2>2. WithWorkers' = WithWorkers \ {r} /\ r \in WithWorkers
    <3>1. \A v \in Workers \ {w} : Busy(v) => job[v].request # r
      BY <1>1 DEF OnceInv, Busy, r
    <3>2. ~Busy(w)'
      BY <1>3, <1>9, <1>15
    <3> QED
      BY <1>7, <1>9, <3>1, <3>2 DEF WithWorkers, r
  <2>3. r \notin InQueue
    BY <1>1 DEF OnceInv, InQueue, r
  <2>4. Waiting' = Waiting \ {r} /\ r \in Waiting /\ Answered' = Answered \cup {r}
    BY <1>10, <1>11, <1>12, <2>1, <2>2, <2>3
  <2>5. UNCHANGED [d \in Conns |-> Taken(d)]
    BY <1>1 DEF Taken
  <2> QED
    BY <1>1, <1>8, <2>4, <2>5 DEF Service!Answer, r
<1> QED
  BY <1>2, <1>3, <1>14, <1>15

(* A reply that is finished has been answered, one that fails is given up. *)
LEMMA ReplyEnds ==
    ASSUME RequestInv, ReplyInv, OnceInv, NEW w \in Workers, FinishReply(w) \/ FailToReply(w)
    PROVE  /\ OnceInv' /\ UNCHANGED received
           /\ UNCHANGED <<Waiting, Answered>> \/ Service!GiveUp(job[w].request)
<1> DEFINE r == job[w].request
<1>1. /\ job[w] # None /\ job' = [job EXCEPT ![w] = None] /\ UNCHANGED <<tasks, received, out>>
  BY DEF FinishReply, FailToReply, Writes, masterVars
<1>2. job'[w] = None /\ \A v \in Workers \ {w} : job'[v] = job[v]
  BY <1>1 DEF ReplyInv, ReplyTypes
<1>3. OnceInv'
  <2>1. \A u, v \in Workers : job'[u] # None /\ job'[v] # None =>
                              (job'[u].request = job'[v].request => u = v)
    BY <1>2 DEF OnceInv
  <2>2. \A i \in DOMAIN tasks', v \in Workers : job'[v] # None => tasks'[i] # job'[v].request
    BY <1>1, <1>2 DEF OnceInv
  <2>3. ASSUME NEW v \in Workers, job'[v] # None PROVE Number(v)' <= Len(received[To(v)])'
    <3>1. job'[v] = job[v]
      BY <1>2, <2>3
    <3> QED
      BY <1>1, <2>3, <3>1 DEF OnceInv, Number, To
  <2> QED
    BY <1>1, <2>1, <2>2, <2>3 DEF OnceInv
<1>4. Answered' = Answered
  BY <1>1 DEF Answered
<1>5. Waiting = InQueue \cup WithWorkers /\ Waiting' = InQueue' \cup WithWorkers'
  BY WaitingParts DEF Waiting, InQueue, WithWorkers, Busy
<1>6. InQueue' = InQueue /\ ~Busy(w)' /\ \A v \in Workers \ {w} : Busy(v)' <=> Busy(v)
  BY <1>1, <1>2 DEF InQueue, Busy
<1>7. CASE job[w].octets = <<>>
  <2>1. ~Busy(w)
    BY <1>7 DEF Busy
  <2>2. WithWorkers' = WithWorkers
    BY <1>2, <1>6, <2>1 DEF WithWorkers
  <2> QED
    BY <1>1, <1>3, <1>4, <1>5, <1>6, <2>2
<1>8. CASE job[w].octets # <<>>
  <2>1. Busy(w)
    BY <1>1, <1>8 DEF Busy
  <2>2. \A v \in Workers \ {w} : Busy(v) => job[v].request # r
    BY <1>1 DEF OnceInv, Busy
  <2>3. WithWorkers' = WithWorkers \ {r} /\ r \in WithWorkers
    BY <1>2, <1>6, <2>1, <2>2 DEF WithWorkers
  <2>4. r \notin InQueue
    BY <1>1 DEF OnceInv, InQueue
  <2>5. Waiting' = Waiting \ {r} /\ r \in Waiting
    BY <1>5, <1>6, <2>3, <2>4
  <2>6. UNCHANGED [d \in Conns |-> Taken(d)]
    BY <1>1 DEF Taken
  <2> QED
    BY <1>1, <1>3, <1>4, <2>5, <2>6 DEF Service!GiveUp
<1> QED
  BY <1>7, <1>8

LEMMA InitExchanges == Init => OnceInv /\ Service!Init
<1> SUFFICES ASSUME Init PROVE OnceInv /\ Service!Init
  OBVIOUS
<1>1. /\ tasks = <<>> /\ \A w \in Workers : job[w] = None
      /\ \A c \in Conns : received[c] = <<>> /\ out[c] = <<>>
  BY DEF Init
<1>2. DOMAIN tasks = {}
  BY <1>1
<1>3. OnceInv
  BY <1>1, <1>2 DEF OnceInv
<1>4. Waiting = {}
  BY <1>1, <1>2 DEF Waiting
<1>5. Answered = {}
  <2>1. \A c \in Conns : DOMAIN out[c] = {}
    BY <1>1
  <2> QED
    BY <2>1 DEF Answered
<1>6. [c \in Conns |-> Taken(c)] = [c \in Conns |-> 0]
  BY <1>1 DEF Taken
<1> QED
  BY <1>3, <1>4, <1>5, <1>6 DEF Service!Init

(* Every message of a client is taken once and in its order, its request   *)
(* is queued and handled once, and its reply is sent whole and once, or    *)
(* given up: the octets, the queue and the workers implement Exchanges.    *)
THEOREM ConnectionsImplementExchanges == Spec => ImplementsExchanges
<1> DEFINE Same == UNCHANGED <<[c \in Conns |-> Taken(c)], Waiting, Answered>>
           Inv == RequestInv /\ ReplyInv /\ OnceInv
<1>1. Init => Inv
  BY InitRequests, InitReplies, InitExchanges
<1>2. Inv /\ [Next]_vars => OnceInv' /\ (Service!Next \/ Same)
  <2> SUFFICES ASSUME RequestInv, ReplyInv, OnceInv, [Next]_vars
               PROVE  OnceInv' /\ (Service!Next \/ Same)
    OBVIOUS
  <2>1. ASSUME NEW c \in Conns, Queued(c) PROVE OnceInv' /\ Service!Next
    <3>1. RequestInv'
      BY RequestStep
    <3>2. OnceInv' /\ Service!Take(c)
      BY <2>1, <3>1, QueuedStep
    <3> QED
      BY <3>2 DEF Service!Next
  <2>2. ASSUME UNCHANGED <<received, Waiting, Answered>> PROVE Same
    BY <2>2 DEF Taken
  <2>3. ASSUME NEW w \in Workers, StartHandling(w) PROVE OnceInv' /\ Same
    <3>1. UNCHANGED Answered
      BY <2>3, RequestHandled DEF Answered
    <3> QED
      BY <2>2, <2>3, <3>1, RequestHandled
  <2>4. ASSUME NEW w \in Workers, WritePiece(w) PROVE OnceInv' /\ (Service!Next \/ Same)
    <3>1. CASE UNCHANGED <<Waiting, Answered>>
      BY <2>2, <2>4, <3>1, PieceAnswers
    <3>2. CASE Service!Answer(job[w].request)
      <4>1. job[w].request \in Waiting
        BY <3>2 DEF Service!Answer
      <4> QED
        BY <2>4, <3>2, <4>1, PieceAnswers DEF Service!Next
    <3> QED
      BY <2>4, <3>1, <3>2, PieceAnswers
  <2>5. ASSUME NEW w \in Workers, FinishReply(w) \/ FailToReply(w)
        PROVE  OnceInv' /\ (Service!Next \/ Same)
    <3>1. CASE UNCHANGED <<Waiting, Answered>>
      BY <2>2, <2>5, <3>1, ReplyEnds
    <3>2. CASE Service!GiveUp(job[w].request)
      <4>1. job[w].request \in Waiting
        BY <3>2 DEF Service!GiveUp
      <4> QED
        BY <2>5, <3>2, <4>1, ReplyEnds DEF Service!Next
    <3> QED
      BY <2>5, <3>1, <3>2, ReplyEnds
  <2>6. ASSUME UNCHANGED <<received, tasks, job, out>> PROVE OnceInv' /\ Same
    <3>1. OnceInv'
      BY <2>6 DEF OnceInv, Number, To
    <3>2. UNCHANGED <<Waiting, Answered>>
      BY <2>6 DEF Waiting, Answered
    <3> QED
      BY <2>2, <2>6, <3>1, <3>2
  <2> QED
    BY <2>1, <2>3, <2>4, <2>5, <2>6, ExchangeChanges
<1>3. Inv /\ [Next]_vars => Inv'
  BY <1>2, RequestStep, ReplyStep
<1>4. Init => Service!Init
  BY InitExchanges
<1>5. Inv /\ [Next]_vars => [Service!Next]_<<[c \in Conns |-> Taken(c)], Waiting, Answered>>
  BY <1>2
<1> HIDE DEF Inv
<1> QED
  BY <1>1, <1>3, <1>4, <1>5, PTL DEF Spec, ImplementsExchanges, Service!Spec
=============================================================================
