-------------------------- MODULE Statistics_proofs --------------------------
(***************************************************************************)
(* The locks of the counters lose no count, for any number of workers,     *)
(* categories and packets.                                                 *)
(***************************************************************************)
EXTENDS Statistics, FiniteSetTheorems, TLAPS

(* A worker holds a lock of its own set only, nobody else holds it, and    *)
(* what it has read is still the value of the counter.                     *)
Locked ==
    \A w \in Workers : holds[w] # None =>
        /\ holds[w] \in set[w]
        /\ read[w] = value[holds[w]]
        /\ \A v \in Workers : holds[v] = holds[w] => v = w

IInv == TypeOK /\ Locked /\ NothingLost

-----------------------------------------------------------------------------
LEMMA PendingFinite ==
    ASSUME NEW s PROVE IsFiniteSet(Pending(s)) /\ Cardinality(Pending(s)) \in Nat
<1>1. Pending(s) \subseteq Workers /\ IsFiniteSet(Workers)
  BY StatisticsAssumption DEF Pending
<1>2. IsFiniteSet(Pending(s))
  BY <1>1, FS_Subset
<1> QED
  BY <1>2, FS_CardinalityType

LEMMA InitInvariant == Init => IInv
<1> SUFFICES ASSUME Init PROVE IInv
  OBVIOUS
<1>1. TypeOK
  BY StatisticsAssumption DEF Init, TypeOK
<1>2. Locked
  BY DEF Init, Locked
<1>3. NothingLost
  <2>1. \A s \in Objects : Pending(s) = {}
    BY DEF Init, Pending
  <2>2. existing \cup {Global} \subseteq Objects
    BY DEF Init, Objects
  <2> QED
    BY <2>1, <2>2, FS_EmptySet DEF Init, NothingLost
<1> QED
  BY <1>1, <1>2, <1>3 DEF IInv

(* Nobody is counting, so that counters can come and go.                   *)
LEMMA SetCategoriesStep == IInv /\ SetCategories => IInv'
<1> SUFFICES ASSUME IInv, SetCategories PROVE IInv'
  OBVIOUS
<1>1. /\ NoWorkers /\ settings' \in Settings /\ reloads' = reloads + 1
      /\ existing' = IF settings'.given THEN UpdatedCategories(settings'.categories)
                     ELSE existing
      /\ value' = [s \in Objects |-> IF s \in existing' \ existing THEN 0 ELSE value[s]]
      /\ expected' =
           [s \in Objects |-> IF s \in existing' \ existing THEN 0 ELSE expected[s]]
      /\ holds' = holds /\ set' = set /\ read' = read /\ packets' = packets
  BY DEF SetCategories
<1>2. TypeOK
  BY DEF IInv
<1>3. existing' \subseteq Categories
  <2>1. settings'.categories \subseteq Categories
    BY <1>1, StatisticsAssumption
  <2> QED
    BY <1>1, <1>2, <2>1 DEF UpdatedCategories, TypeOK
<1>4. \A w \in Workers : set[w] = {} /\ holds[w] = None
  BY <1>1 DEF NoWorkers, IInv, Locked
<1>5. TypeOK'
  <2>1. value' \in [Objects -> Nat] /\ expected' \in [Objects -> Nat]
    BY <1>1, <1>2 DEF TypeOK
  <2>2. set' \in [Workers -> SUBSET (existing' \cup {Global})]
    BY <1>1, <1>2, <1>4 DEF TypeOK
  <2> QED
    BY <1>1, <1>2, <1>3, <2>1, <2>2 DEF TypeOK
<1>6. Locked'
  BY <1>1, <1>4 DEF Locked
<1>7. NothingLost'
  <2> SUFFICES ASSUME NEW s \in existing' \cup {Global}
               PROVE  value'[s] + Cardinality(Pending(s)') = expected'[s]
    BY DEF NothingLost
  <2>1. Pending(s) = {} /\ Pending(s)' = {}
    BY <1>1, <1>4 DEF Pending
  <2>2. Cardinality(Pending(s)) = 0 /\ Cardinality(Pending(s)') = 0
    BY <2>1, FS_EmptySet
  <2>3. s \in Objects
    BY <1>3 DEF Objects
  <2>4. CASE s \in existing' \ existing
    BY <1>1, <2>2, <2>3, <2>4
  <2>5. CASE s \notin existing' \ existing
    <3>1. s \in existing \cup {Global}
      BY <2>5
    <3>2. value[s] + 0 = expected[s]
      BY <2>2, <3>1 DEF IInv, NothingLost
    <3>3. value'[s] = value[s] /\ expected'[s] = expected[s]
      BY <1>1, <2>3, <2>5
    <3> QED
      BY <2>2, <3>2, <3>3
  <2> QED
    BY <2>4, <2>5
<1> QED
  BY <1>5, <1>6, <1>7 DEF IInv

LEMMA GetUpdateSetStep == ASSUME NEW w \in Workers PROVE IInv /\ GetUpdateSet(w) => IInv'
<1> SUFFICES ASSUME IInv, GetUpdateSet(w) PROVE IInv'
  OBVIOUS
<1>1. PICK matching \in SUBSET Categories :
         LET chosen == {Global} \cup (existing \cap matching)
         IN  /\ set' = [set EXCEPT ![w] = chosen]
             /\ expected' = [s \in Objects |->
                               IF s \in chosen THEN expected[s] + 1 ELSE expected[s]]
  BY DEF GetUpdateSet
<1> DEFINE chosen == {Global} \cup (existing \cap matching)
<1>2. /\ set[w] = {} /\ packets' = packets + 1 /\ settings' = settings
      /\ existing' = existing /\ value' = value /\ holds' = holds /\ read' = read
      /\ reloads' = reloads
  BY DEF GetUpdateSet
<1>3. TypeOK /\ Locked
  BY DEF IInv
<1>4. /\ set \in [Workers -> SUBSET (existing \cup {Global})]
      /\ chosen \in SUBSET (existing \cup {Global})
  BY <1>3 DEF TypeOK
<1>5. \A v \in Workers : set'[v] = IF v = w THEN chosen ELSE set[v]
  BY <1>1, <1>4
<1>6. TypeOK'
  <2>1. set' \in [Workers -> SUBSET (existing \cup {Global})]
    BY <1>1, <1>4
  <2>2. expected' \in [Objects -> Nat]
    BY <1>1, <1>3 DEF TypeOK
  <2> QED
    BY <1>2, <1>3, <2>1, <2>2 DEF TypeOK
<1>7. Locked'
  <2>1. holds[w] = None
    BY <1>2, <1>3 DEF Locked
  <2>2. \A v \in Workers : v # w => set'[v] = set[v]
    BY <1>5
  <2> QED
    BY <1>2, <1>3, <2>1, <2>2 DEF Locked
<1>8. NothingLost'
  <2> SUFFICES ASSUME NEW s \in existing \cup {Global}
               PROVE  value[s] + Cardinality(Pending(s)') = expected'[s]
    BY <1>2 DEF NothingLost
  <2>1. s \in Objects /\ value[s] \in Nat /\ expected[s] \in Nat
    BY <1>3 DEF TypeOK, Objects
  <2>2. value[s] + Cardinality(Pending(s)) = expected[s]
    BY DEF IInv, NothingLost
  <2>3. CASE s \in chosen
    <3>1. w \notin Pending(s) /\ Pending(s)' = Pending(s) \cup {w}
      BY <1>2, <1>5, <2>3 DEF Pending
    <3>2. Cardinality(Pending(s)') = Cardinality(Pending(s)) + 1
      BY <3>1, PendingFinite, FS_AddElement
    <3>3. expected'[s] = expected[s] + 1
      BY <1>1, <2>1, <2>3
    <3> QED
      BY <2>1, <2>2, <3>2, <3>3, PendingFinite
  <2>4. CASE s \notin chosen
    <3>1. Pending(s)' = Pending(s)
      BY <1>2, <1>5, <2>4 DEF Pending
    <3>2. expected'[s] = expected[s]
      BY <1>1, <2>1, <2>4
    <3> QED
      BY <2>2, <3>1, <3>2
  <2> QED
    BY <2>3, <2>4
<1> QED
  BY <1>6, <1>7, <1>8 DEF IInv

LEMMA ReadStep == ASSUME NEW w \in Workers PROVE IInv /\ ReadCounter(w) => IInv'
<1> SUFFICES ASSUME IInv, ReadCounter(w) PROVE IInv'
  OBVIOUS
<1>1. PICK s \in set[w] :
         /\ Free(s)
         /\ holds' = [holds EXCEPT ![w] = s]
         /\ read' = [read EXCEPT ![w] = value[s]]
  BY DEF ReadCounter
<1>2. /\ settings' = settings /\ existing' = existing /\ value' = value
      /\ set' = set /\ packets' = packets /\ reloads' = reloads
      /\ expected' = expected
  BY DEF ReadCounter
<1>3. TypeOK /\ Locked
  BY DEF IInv
<1>4. s \in Objects /\ value[s] \in Nat
  BY <1>3 DEF TypeOK, Objects
<1>5. TypeOK'
  <2>1. holds' \in [Workers -> Objects \cup {None}] /\ read' \in [Workers -> Nat]
    BY <1>1, <1>3, <1>4 DEF TypeOK
  <2> QED
    BY <1>2, <1>3, <2>1 DEF TypeOK
<1>6. Locked'
  <2>1. \A v \in Workers : /\ holds'[v] = IF v = w THEN s ELSE holds[v]
                           /\ read'[v] = IF v = w THEN value[s] ELSE read[v]
    BY <1>1, <1>3 DEF TypeOK
  <2>2. \A v \in Workers : holds[v] # s
    BY <1>1 DEF Free
  <2> QED
    BY <1>2, <1>3, <2>1, <2>2 DEF Locked
<1>7. NothingLost'
  BY <1>2 DEF IInv, NothingLost, Pending
<1> QED
  BY <1>5, <1>6, <1>7 DEF IInv

LEMMA WriteStep == ASSUME NEW w \in Workers PROVE IInv /\ WriteCounter(w) => IInv'
<1> SUFFICES ASSUME IInv, WriteCounter(w) PROVE IInv'
  OBVIOUS
<1> DEFINE c == holds[w]
<1>1. /\ c # None
      /\ value' = [value EXCEPT ![c] = read[w] + 1]
      /\ holds' = [holds EXCEPT ![w] = None]
      /\ set' = [set EXCEPT ![w] = @ \ {c}]
      /\ settings' = settings /\ existing' = existing /\ read' = read
      /\ packets' = packets /\ reloads' = reloads /\ expected' = expected
  BY DEF WriteCounter
<1>2. TypeOK /\ Locked
  BY DEF IInv
<1>3. /\ c \in set[w] /\ read[w] = value[c]
      /\ \A v \in Workers : holds[v] = c => v = w
  BY <1>1, <1>2 DEF Locked
<1>4. c \in Objects /\ value[c] \in Nat /\ value'[c] = value[c] + 1
  BY <1>1, <1>2, <1>3 DEF TypeOK
<1>5. \A v \in Workers : /\ set'[v] = IF v = w THEN set[w] \ {c} ELSE set[v]
                         /\ holds'[v] = IF v = w THEN None ELSE holds[v]
  BY <1>1, <1>2 DEF TypeOK
<1>6. TypeOK'
  <2>1. value' \in [Objects -> Nat]
    BY <1>1, <1>2, <1>3, <1>4 DEF TypeOK
  <2>2. set' \in [Workers -> SUBSET (existing \cup {Global})]
    BY <1>1, <1>2 DEF TypeOK
  <2>3. holds' \in [Workers -> Objects \cup {None}]
    BY <1>1, <1>2 DEF TypeOK
  <2> QED
    BY <1>1, <1>2, <2>1, <2>2, <2>3 DEF TypeOK
<1>7. Locked'
  <2> SUFFICES ASSUME NEW v \in Workers, holds'[v] # None
               PROVE  /\ holds'[v] \in set'[v]
                      /\ read'[v] = value'[holds'[v]]
                      /\ \A u \in Workers : holds'[u] = holds'[v] => u = v
    BY DEF Locked
  <2>1. v # w /\ holds'[v] = holds[v] /\ holds[v] # c /\ set'[v] = set[v]
    BY <1>3, <1>5
  <2>2. /\ holds[v] \in set[v] /\ read[v] = value[holds[v]]
        /\ \A u \in Workers : holds[u] = holds[v] => u = v
    BY <1>2, <2>1 DEF Locked
  <2>3. value'[holds[v]] = value[holds[v]]
    BY <1>1, <1>2, <2>1, <2>2 DEF TypeOK
  <2> QED
    BY <1>1, <1>5, <2>1, <2>2, <2>3
<1>8. NothingLost'
  <2> SUFFICES ASSUME NEW s \in existing \cup {Global}
               PROVE  value'[s] + Cardinality(Pending(s)') = expected[s]
    BY <1>1 DEF NothingLost
  <2>1. value[s] + Cardinality(Pending(s)) = expected[s]
    BY DEF IInv, NothingLost
  <2>2. CASE s = c
    <3>1. w \in Pending(s) /\ Pending(s)' = Pending(s) \ {w}
      BY <1>3, <1>5, <2>2 DEF Pending
    <3>2. Cardinality(Pending(s)') = Cardinality(Pending(s)) - 1
      BY <3>1, PendingFinite, FS_RemoveElement
    <3> QED
      BY <1>4, <2>1, <2>2, <3>2, PendingFinite
  <2>3. CASE s # c
    <3>1. Pending(s)' = Pending(s)
      BY <1>5, <2>3 DEF Pending
    <3>2. s \in Objects
      BY <1>2 DEF TypeOK, Objects
    <3>3. value'[s] = value[s]
      BY <1>1, <1>2, <2>3, <3>2 DEF TypeOK
    <3> QED
      BY <2>1, <3>1, <3>3
  <2> QED
    BY <2>2, <2>3
<1> QED
  BY <1>6, <1>7, <1>8 DEF IInv

LEMMA Invariance == Spec => []IInv
<1>1. IInv /\ Next => IInv'
  BY SetCategoriesStep, GetUpdateSetStep, ReadStep, WriteStep DEF Next, Worker
<1>2. IInv /\ UNCHANGED vars => IInv'
  <2> SUFFICES ASSUME IInv, UNCHANGED vars PROVE IInv'
    OBVIOUS
  <2>1. /\ settings' = settings /\ existing' = existing /\ value' = value
        /\ holds' = holds /\ set' = set /\ read' = read /\ packets' = packets
        /\ reloads' = reloads /\ expected' = expected
    BY DEF vars
  <2> QED
    BY <2>1 DEF IInv, TypeOK, Locked, NothingLost, Pending
<1> QED
  BY InitInvariant, <1>1, <1>2, PTL DEF Spec

(* Statistics have their types, and workers count on statistics that       *)
(* exist only, for any number of workers and categories.                   *)
THEOREM TypeCorrect == Spec => []TypeOK
<1>1. IInv => TypeOK
  BY DEF IInv
<1> QED
  BY Invariance, <1>1, PTL

(* No count is lost, however many workers update a counter at a time.      *)
THEOREM CountsKept == Spec => []NothingLost
<1>1. IInv => NothingLost
  BY DEF IInv
<1> QED
  BY Invariance, <1>1, PTL

(* Whatever is reloaded, no category is counted that is not configured.    *)
THEOREM OnlyWanted == Spec => []UnwantedRemoved
<1>1. Init => UnwantedRemoved
  BY DEF Init, UnwantedRemoved
<1>2. UnwantedRemoved /\ [Next]_vars => UnwantedRemoved'
  <2> SUFFICES ASSUME UnwantedRemoved, [Next]_vars PROVE UnwantedRemoved'
    OBVIOUS
  <2>1. CASE SetCategories
    BY <2>1 DEF SetCategories, UpdatedCategories, UnwantedRemoved
  <2>2. CASE existing' = existing /\ settings' = settings
    BY <2>2 DEF UnwantedRemoved
  <2>3. ASSUME NEW w \in Workers, Worker(w)
        PROVE  UnwantedRemoved'
    BY <2>2, <2>3 DEF Worker, GetUpdateSet, ReadCounter, WriteCounter
  <2>4. CASE UNCHANGED vars
    BY <2>2, <2>4 DEF vars
  <2> QED
    BY <2>1, <2>2, <2>3, <2>4 DEF Next
<1> QED
  BY <1>1, <1>2, PTL DEF Spec
=============================================================================
