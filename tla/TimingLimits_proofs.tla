------------------------- MODULE TimingLimits_proofs -------------------------
(***************************************************************************)
(* The limits on T1 and T2 for all sections, times and chains of handlers. *)
(***************************************************************************)
EXTENDS TimingLimits, WellFoundedInduction, TLAPS

(* Every handler was constructed from an accepted section.                 *)
HandlersConstructed ==
    \A i \in DOMAIN sections :
        Accepted(sections[i]) /\ handlers[i] = Constructed(sections[i])

IInv == TypeOK /\ HandlersConstructed /\ TimersOrdered /\ LimitsKept /\ Settled

Options == [t1 : Times, t2 : Times, lifetimes : SUBSET Times]

(* What the constructor makes of an accepted section.                      *)
Consistent(h) == h.minT1 <= h.maxT2 /\ h.minT1 <= h.minT2 /\ h.maxT1 <= h.maxT2

-----------------------------------------------------------------------------
(* A set of times has a least element.                                     *)
LEMMA LeastElement ==
    ASSUME NEW T \in SUBSET Nat, T # {}
    PROVE  \E x \in T : \A y \in T : x <= y
<1> DEFINE R == OpToRel(<, Nat)
<1>1. IsWellFoundedOn(R, Nat)
  BY NatLessThanWellFounded
<1> HIDE DEF R
<1>2. PICK x \in T : \A y \in T : ~ (<<y, x>> \in R)
  BY <1>1, WFMin
<1>3. \A y \in T : y < x => <<y, x>> \in R
  BY DEF R, OpToRel
<1>4. \A y \in T : ~ (y < x)
  BY <1>2, <1>3
<1>5. \A m, n \in Nat : ~ (m < n) => n <= m
  OBVIOUS
<1> QED
  BY <1>4, <1>5

LEMMA TimesAreNaturals == Infinity \in Nat /\ Times \subseteq Nat /\ 0 \in Times
BY TimingAssumption DEF Times

LEMMA ShortestIsLeast ==
    ASSUME NEW L \in SUBSET Times, L # {}
    PROVE  Shortest(L) \in L /\ \A l \in L : Shortest(L) <= l
<1>1. \E x \in L : \A y \in L : x <= y
  BY LeastElement, TimesAreNaturals
<1> QED
  BY <1>1 DEF Shortest

(* A bounded timer is a time, whatever was calculated.                     *)
LEMMA BetweenBounds ==
    ASSUME NEW min \in Times, NEW max \in Times, NEW end \in Times, NEW t \in Nat
    PROVE  LET b == Between(min, t, max, end)
           IN  /\ b \in Times /\ b <= max /\ b <= end
               /\ \A m \in Times : m <= min /\ m <= max /\ m <= end => m <= b
BY TimingAssumption DEF Between, Least, Most, Times

LEMMA CalculatedType ==
    ASSUME NEW t \in Times, NEW f \in Factors, NEW s \in Times
    PROVE  Calculated(t, f, s) \in Nat
<1>1. CASE t # 0 \/ f = None
  BY <1>1, TimesAreNaturals DEF Calculated
<1>2. CASE ~ (t # 0 \/ f = None)
  <2>1. f \in Nat
    BY <1>2, TimingAssumption DEF Factors
  <2>2. s * f \in Nat
    BY <2>1, TimesAreNaturals
  <2>3. \A p \in Nat \ {0}, n \in Nat : n \div p \in Nat
    OBVIOUS
  <2>4. (s * f) \div Parts \in Nat
    BY <2>2, <2>3, TimingAssumption
  <2> QED
    BY <1>2, <2>4, TimesAreNaturals DEF Calculated
<1> QED
  BY <1>1, <1>2

(* The timer that a handler makes of the timer t.                          *)
Timer(min, t, f, s, max, end) == Between(min, Calculated(t, f, s), max, end)

(* Calculating and limiting a timer again gives the same timer: it was     *)
(* zero and calculated in the same way, or a bound of zero made it so.     *)
LEMMA LimitedAgain ==
    ASSUME NEW min \in Times, NEW max \in Times, NEW end \in Times,
           NEW t \in Times, NEW f \in Factors, NEW s \in Times
    PROVE  Timer(min, Timer(min, t, f, s, max, end), f, s, max, end)
             = Timer(min, t, f, s, max, end)
<1> DEFINE c == Calculated(t, f, s)
           b == Timer(min, t, f, s, max, end)
<1>1. c \in Nat
  BY CalculatedType
<1>2. b = Between(min, c, max, end)
  BY DEF Timer
<1> HIDE DEF b, c
<1>3. b \in Times
  BY <1>1, <1>2, BetweenBounds
<1> SUFFICES Between(min, Calculated(b, f, s), max, end) = b
  BY DEF Timer, b
<1>4. CASE b # 0 \/ f = None
  <2>1. Calculated(b, f, s) = b
    BY <1>4 DEF Calculated
  <2>2. Between(min, b, max, end) = b
    BY <1>1, <1>2, TimesAreNaturals DEF Between, Least, Most, Times
  <2> QED
    BY <2>1, <2>2
<1>5. CASE b = 0 /\ t = 0
  BY <1>2, <1>5 DEF c
<1>6. CASE b = 0 /\ t # 0
  <2>1. c = t
    BY <1>6 DEF Calculated, c
  <2>2. max = 0 \/ end = 0
    BY <1>2, <1>6, <2>1, TimesAreNaturals DEF Between, Least, Most, Times
  <2>3. \A n \in Nat : Between(min, n, max, end) = 0
    BY <2>2, TimesAreNaturals DEF Between, Least, Most, Times
  <2>4. Calculated(b, f, s) \in Nat
    BY <1>3, CalculatedType
  <2> QED
    BY <1>6, <2>3, <2>4
<1> QED
  BY <1>4, <1>5, <1>6

(* The timers that a handler gives to an option with leases.               *)
T2(h, o) == Timer(h.minT2, o.t2, h.factorT2, Shortest(o.lifetimes),
                  h.maxT2, Shortest(o.lifetimes))
T1(h, o) == Timer(h.minT1, o.t1, h.factorT1, Shortest(o.lifetimes),
                  h.maxT1, T2(h, o))

LEMMA LimitedTimers ==
    ASSUME NEW h, NEW o \in Options, o.lifetimes # {}
    PROVE  Limited(h, o) = [t1 |-> T1(h, o), t2 |-> T2(h, o), lifetimes |-> o.lifetimes]
<1>1. Limited(h, o) = [o EXCEPT !.t1 = T1(h, o), !.t2 = T2(h, o)]
  BY Zenon DEF Limited, T1, T2, Timer
<1> QED
  BY <1>1 DEF Options

(* What handle() does to an option with leases.                            *)
LEMMA HandleLimits ==
    ASSUME NEW h \in Limits, Consistent(h), NEW o \in Options, o.lifetimes # {}
    PROVE  LET r == Limited(h, o) IN
           /\ r \in Options /\ r.lifetimes = o.lifetimes
           /\ r.t1 <= r.t2 /\ \A l \in r.lifetimes : r.t2 <= l
           /\ r.t1 <= h.maxT1 /\ r.t2 <= h.maxT2
           /\ \A m \in Times : (\A l \in r.lifetimes : m <= l) =>
                /\ m <= h.minT1 /\ m <= h.maxT1 => m <= r.t1
                /\ m <= h.minT2 /\ m <= h.maxT2 => m <= r.t2
           /\ Limited(h, r) = r
<1> DEFINE s == Shortest(o.lifetimes)
           c2 == Calculated(o.t2, h.factorT2, s)
           c1 == Calculated(o.t1, h.factorT1, s)
           t2 == T2(h, o)
           t1 == T1(h, o)
           r == Limited(h, o)
<1>1. s \in Times /\ s \in o.lifetimes /\ \A l \in o.lifetimes : s <= l /\ l \in Times
  BY ShortestIsLeast DEF Options
<1>2. /\ h.minT1 \in Times /\ h.maxT1 \in Times /\ h.factorT1 \in Factors
      /\ h.minT2 \in Times /\ h.maxT2 \in Times /\ h.factorT2 \in Factors
      /\ o.t1 \in Times /\ o.t2 \in Times
  BY DEF Limits, Options
<1>3. c1 \in Nat /\ c2 \in Nat
  BY <1>1, <1>2, CalculatedType
<1>4. t2 = Between(h.minT2, c2, h.maxT2, s) /\ t1 = Between(h.minT1, c1, h.maxT1, t2)
  BY DEF T1, T2, Timer
<1>5. r = [t1 |-> t1, t2 |-> t2, lifetimes |-> o.lifetimes]
  BY LimitedTimers
<1> HIDE DEF s, c1, c2, t1, t2, r
<1>6. /\ t2 \in Times /\ t2 <= h.maxT2 /\ t2 <= s
      /\ \A m \in Times : m <= h.minT2 /\ m <= h.maxT2 /\ m <= s => m <= t2
  BY <1>1, <1>2, <1>3, <1>4, BetweenBounds
<1>7. /\ t1 \in Times /\ t1 <= h.maxT1 /\ t1 <= t2
      /\ \A m \in Times : m <= h.minT1 /\ m <= h.maxT1 /\ m <= t2 => m <= t1
  BY <1>2, <1>3, <1>4, <1>6, BetweenBounds
<1>8. \A m \in Times : m <= h.minT1 /\ m <= h.maxT1 /\ m <= s => m <= t1
  <2> TAKE m \in Times
  <2> HAVE m <= h.minT1 /\ m <= h.maxT1 /\ m <= s
  <2>1. m <= h.minT2 /\ m <= h.maxT2
    BY <1>2, TimesAreNaturals DEF Consistent, Times
  <2> QED
    BY <2>1, <1>6, <1>7
<1>9. r \in Options /\ r.lifetimes = o.lifetimes /\ r.t1 = t1 /\ r.t2 = t2
  BY <1>5, <1>6, <1>7 DEF Options
<1>10. \A l \in o.lifetimes : t2 <= l
  BY <1>1, <1>6, TimesAreNaturals DEF Times
<1>11. Limited(h, r) = r
  <2>1. Limited(h, r) = [t1 |-> T1(h, r), t2 |-> T2(h, r), lifetimes |-> r.lifetimes]
    BY <1>9, LimitedTimers
  <2>2. /\ t2 = Timer(h.minT2, o.t2, h.factorT2, s, h.maxT2, s)
        /\ t1 = Timer(h.minT1, o.t1, h.factorT1, s, h.maxT1, t2)
    BY DEF t1, t2, T1, T2, s
  <2>3. T2(h, r) = Timer(h.minT2, t2, h.factorT2, s, h.maxT2, s)
    BY <1>9 DEF T2, s
  <2>4. T2(h, r) = t2
    <3>1. Timer(h.minT2, Timer(h.minT2, o.t2, h.factorT2, s, h.maxT2, s),
                h.factorT2, s, h.maxT2, s)
            = Timer(h.minT2, o.t2, h.factorT2, s, h.maxT2, s)
      BY <1>1, <1>2, LimitedAgain
    <3> QED
      BY <2>2, <2>3, <3>1, Zenon
  <2>5. T1(h, r) = Timer(h.minT1, t1, h.factorT1, s, h.maxT1, t2)
    BY <1>9, <2>4 DEF T1, s
  <2>6. T1(h, r) = t1
    <3>1. Timer(h.minT1, Timer(h.minT1, o.t1, h.factorT1, s, h.maxT1, t2),
                h.factorT1, s, h.maxT1, t2)
            = Timer(h.minT1, o.t1, h.factorT1, s, h.maxT1, t2)
      <4> DEFINE Again(min, t, f, end, max) ==
                   Timer(min, Timer(min, t, f, s, max, end), f, s, max, end)
                     = Timer(min, t, f, s, max, end)
      <4>1. \A min, t, end, max \in Times : \A f \in Factors : Again(min, t, f, end, max)
        BY <1>1, LimitedAgain
      <4>2. t2 \in Times
        BY <1>6
      <4> HIDE DEF Again
      <4>3. Again(h.minT1, o.t1, h.factorT1, t2, h.maxT1)
        BY <1>2, <4>1, <4>2
      <4> QED
        BY <4>3 DEF Again
    <3> QED
      BY <2>2, <2>5, <3>1, Zenon
  <2> QED
    BY <2>1, <2>4, <2>6, <1>5, <1>9
<1>12. \A m \in Times : (\A l \in o.lifetimes : m <= l) => m <= s
  BY <1>1
<1> QED
  BY <1>6, <1>7, <1>8, <1>9, <1>10, <1>11, <1>12 DEF r

-----------------------------------------------------------------------------
(* A handler that was constructed from an accepted section.                *)
LEMMA ConstructedConsistent ==
    ASSUME NEW s \in Sections, Accepted(s)
    PROVE  /\ Constructed(s) \in Limits /\ Consistent(Constructed(s))
           /\ Constructed(s).minT1 = s.minT1 /\ Constructed(s).maxT2 = s.maxT2
           /\ s.minT1 \in Times /\ s.minT2 \in Times /\ s.maxT1 \in Times
           /\ Constructed(s).maxT1 <= s.maxT1 /\ s.minT2 <= Constructed(s).minT2
           /\ s.minT1 <= s.maxT1 => s.minT1 <= Constructed(s).maxT1
<1> DEFINE h == Constructed(s)
<1>1. /\ s \in Limits /\ s.minT1 \in Times /\ s.maxT1 \in Times
      /\ s.minT2 \in Times /\ s.maxT2 \in Times
  BY TimingAssumption DEF Limits
<1>2. h = [s EXCEPT !.maxT1 = Least(s.maxT1, s.maxT2), !.minT2 = Most(s.minT1, s.minT2)]
  BY DEF Constructed
<1>3. s.minT1 <= s.maxT2
  BY DEF Accepted
<1>4. /\ h.minT1 = s.minT1 /\ h.maxT1 = Least(s.maxT1, s.maxT2)
      /\ h.minT2 = Most(s.minT1, s.minT2) /\ h.maxT2 = s.maxT2
  BY <1>1, <1>2 DEF Limits
<1>5. Least(s.maxT1, s.maxT2) \in Times /\ Most(s.minT1, s.minT2) \in Times
  BY <1>1 DEF Least, Most
<1>6. h \in Limits
  BY <1>1, <1>2, <1>5 DEF Limits
<1> HIDE DEF h
<1>7. /\ Consistent(h) /\ h.maxT1 <= s.maxT1 /\ s.minT2 <= h.minT2
      /\ s.minT1 <= s.maxT1 => s.minT1 <= h.maxT1
  BY <1>1, <1>3, <1>4, TimesAreNaturals DEF Consistent, Least, Most, Times
<1> QED
  BY <1>1, <1>4, <1>6, <1>7 DEF h

LEMMA InitInvariant == Init => IInv
<1> SUFFICES ASSUME Init PROVE IInv
  OBVIOUS
<1>1. TypeOK
  BY TimesAreNaturals DEF Init, NoLeases, TypeOK
<1>2. HandlersConstructed /\ TimersOrdered /\ LimitsKept /\ Settled
  BY DEF Init, HandlersConstructed, TimersOrdered, LimitsKept, Settled
<1> QED
  BY <1>1, <1>2 DEF IInv

(* Without leases there is nothing to limit.                               *)
LEMMA NothingToLimitNext ==
    ASSUME option'.lifetimes = {}
    PROVE  TimersOrdered' /\ LimitsKept' /\ Settled'
BY DEF TimersOrdered, LimitsKept, Settled, Limited

LEMMA ConfigureStep == IInv /\ Configure => IInv'
<1> SUFFICES ASSUME IInv, Configure PROVE IInv'
  OBVIOUS
<1>1. option' = NoLeases
  BY DEF Configure, Idle
<1>2. PICK n \in 0..MaxHandlers : \E chosen \in [1..n -> {s \in Sections : Accepted(s)}] :
         /\ sections' = chosen
         /\ handlers' = [i \in 1..n |-> Constructed(chosen[i])]
         /\ at' = n + 1
  BY DEF Configure
<1>3. n \in Nat
  BY TimingAssumption
<1>4. PICK chosen \in [1..n -> {s \in Sections : Accepted(s)}] :
         /\ sections' = chosen
         /\ handlers' = [i \in 1..n |-> Constructed(chosen[i])]
         /\ at' = n + 1
  BY <1>2
<1>5. \A i \in 1..n : /\ chosen[i] \in Sections /\ Accepted(chosen[i])
                      /\ Constructed(chosen[i]) \in Limits
                      /\ Consistent(Constructed(chosen[i]))
  BY ConstructedConsistent
<1>6. sections' \in Seq(Sections) /\ Len(sections') = n /\ DOMAIN sections' = 1..n
  BY <1>3, <1>4, <1>5
<1>7. handlers' \in Seq(Limits) /\ Len(handlers') = n /\ DOMAIN handlers' = 1..n
  BY <1>3, <1>4, <1>5
<1>8. TypeOK'
  <2>1. \A i \in 1..n : handlers'[i] = Constructed(chosen[i])
    BY <1>4
  <2>2. option' \in [t1 : Times, t2 : Times, lifetimes : SUBSET Times]
    BY <1>1, TimesAreNaturals DEF NoLeases
  <2>3. at' \in 1..Len(handlers') + 1
    BY <1>3, <1>4, <1>7
  <2> QED
    BY <1>5, <1>6, <1>7, <2>1, <2>2, <2>3 DEF TypeOK, Consistent
<1>9. HandlersConstructed'
  BY <1>4, <1>5, <1>6 DEF HandlersConstructed
<1>10. option'.lifetimes = {}
  BY <1>1 DEF NoLeases
<1> QED
  BY <1>8, <1>9, <1>10, NothingToLimitNext DEF IInv

LEMMA AssignStep == IInv /\ Assign => IInv'
<1> SUFFICES ASSUME IInv, Assign PROVE IInv'
  OBVIOUS
<1>1. /\ at' = 1 /\ sections' = sections /\ handlers' = handlers
      /\ option' \in [t1 : Timers, t2 : Timers, lifetimes : SUBSET Lifetimes]
  BY DEF Assign
<1>2. option' \in [t1 : Times, t2 : Times, lifetimes : SUBSET Times]
  BY <1>1, TimingAssumption
<1>3. Len(handlers) \in Nat
  BY DEF IInv, TypeOK
<1>4. TypeOK'
  BY <1>1, <1>2, <1>3 DEF IInv, TypeOK
<1>5. HandlersConstructed'
  BY <1>1 DEF IInv, HandlersConstructed
<1>6. TimersOrdered' /\ LimitsKept' /\ Settled'
  BY <1>1 DEF TimersOrdered, LimitsKept, Settled
<1> QED
  BY <1>4, <1>5, <1>6 DEF IInv

LEMMA HandleStep == IInv /\ Handle => IInv'
<1> SUFFICES ASSUME IInv, Handle PROVE IInv'
  OBVIOUS
<1> DEFINE h == handlers[at]
           s == sections[at]
<1>1. /\ at <= Len(handlers) /\ at' = at + 1 /\ option' = Limited(h, option)
      /\ sections' = sections /\ handlers' = handlers
  BY DEF Handle
<1>2. /\ handlers \in Seq(Limits) /\ sections \in Seq(Sections)
      /\ Len(sections) = Len(handlers) /\ at \in 1..Len(handlers) + 1
      /\ option \in Options
  BY DEF IInv, TypeOK, Options
<1>3. at \in Nat /\ at \in DOMAIN handlers /\ at \in DOMAIN sections
  BY <1>1, <1>2
<1>4. /\ h \in Limits /\ s \in Sections /\ h = Constructed(s) /\ Accepted(s)
      /\ Consistent(h)
  BY <1>2, <1>3, ConstructedConsistent DEF IInv, HandlersConstructed
<1>5. HandlersConstructed'
  BY <1>1 DEF IInv, HandlersConstructed
<1>6. at' - 1 = at /\ at' > 1 /\ at' \in 1..Len(handlers') + 1
  BY <1>1, <1>2, <1>3
<1>7. handlers'[at' - 1] = h /\ sections'[at' - 1] = s
  BY <1>1, <1>6
<1>8. CASE option.lifetimes = {}
  <2>1. option' = option
    BY <1>1, <1>8 DEF Limited
  <2>2. TypeOK'
    BY <1>1, <1>6, <2>1 DEF IInv, TypeOK
  <2> QED
    BY <1>5, <1>8, <2>1, <2>2, NothingToLimitNext DEF IInv
<1>9. CASE option.lifetimes # {}
  <2> DEFINE r == option'
  <2>1. /\ r \in Options
        /\ r.t1 <= r.t2 /\ \A l \in r.lifetimes : r.t2 <= l
        /\ r.t1 <= h.maxT1 /\ r.t2 <= h.maxT2
        /\ \A m \in Times : (\A l \in r.lifetimes : m <= l) =>
             /\ m <= h.minT1 /\ m <= h.maxT1 => m <= r.t1
             /\ m <= h.minT2 /\ m <= h.maxT2 => m <= r.t2
        /\ Limited(h, r) = r
        /\ r.lifetimes = option.lifetimes
    BY <1>1, <1>2, <1>4, <1>9, HandleLimits
  <2>2. TypeOK'
    BY <1>1, <1>6, <2>1 DEF IInv, TypeOK, Options
  <2>3. TimersOrdered'
    BY <2>1 DEF TimersOrdered
  <2>4. LimitsKept'
    <3> SUFFICES
          /\ r.t1 <= s.maxT1 /\ r.t2 <= s.maxT2
          /\ s.minT1 <= s.maxT1 /\ (\A l \in r.lifetimes : s.minT1 <= l)
               => s.minT1 <= r.t1
          /\ s.minT2 <= s.maxT2 /\ (\A l \in r.lifetimes : s.minT2 <= l)
               => s.minT2 <= r.t2
      BY <1>7 DEF LimitsKept
    <3>1. /\ h.minT1 = s.minT1 /\ h.maxT2 = s.maxT2
          /\ s.minT1 \in Times /\ s.minT2 \in Times /\ s.maxT1 \in Times
          /\ h.maxT1 <= s.maxT1 /\ s.minT2 <= h.minT2
          /\ s.minT1 <= s.maxT1 => s.minT1 <= h.maxT1
      BY <1>4, ConstructedConsistent
    <3>2. r.t1 \in Nat /\ h.maxT1 \in Nat /\ s.maxT1 \in Nat /\ s.minT1 <= h.minT1
      <4>1. r.t1 \in Times /\ h.maxT1 \in Times
        BY <2>1, <1>4 DEF Options, Limits
      <4> QED
        BY <3>1, <4>1, TimesAreNaturals DEF Times
    <3>3. r.t1 <= s.maxT1 /\ r.t2 <= s.maxT2
      BY <2>1, <3>1, <3>2
    <3> QED
      BY <2>1, <3>1, <3>2, <3>3
  <2>5. Settled'
    BY <1>7, <2>1 DEF Settled
  <2> QED
    BY <1>5, <2>2, <2>3, <2>4, <2>5 DEF IInv
<1> QED
  BY <1>8, <1>9

(* A response that has been through all handlers is sent.                  *)
LEMMA SendStep == IInv /\ Send => IInv'
<1> SUFFICES ASSUME IInv, Send PROVE IInv'
  OBVIOUS
<1>1. /\ option' = NoLeases /\ sections' = sections /\ handlers' = handlers
      /\ at' = at
  BY DEF Send
<1>2. TypeOK'
  BY <1>1, TimesAreNaturals DEF IInv, TypeOK, NoLeases
<1>3. HandlersConstructed'
  BY <1>1 DEF IInv, HandlersConstructed
<1>4. option'.lifetimes = {}
  BY <1>1 DEF NoLeases
<1> QED
  BY <1>2, <1>3, <1>4, NothingToLimitNext DEF IInv

LEMMA Stutter == IInv /\ UNCHANGED vars => IInv'
<1> SUFFICES ASSUME IInv, UNCHANGED vars PROVE IInv'
  OBVIOUS
<1>1. sections' = sections /\ handlers' = handlers /\ at' = at /\ option' = option
  BY DEF vars
<1> QED
  BY <1>1 DEF IInv, TypeOK, HandlersConstructed, TimersOrdered, LimitsKept, Settled

LEMMA Invariance == Spec => []IInv
<1>1. IInv /\ [Next]_vars => IInv'
  BY ConfigureStep, AssignStep, HandleStep, SendStep, Stutter DEF Next
<1> QED
  BY InitInvariant, <1>1, PTL DEF Spec

-----------------------------------------------------------------------------
(* Type correctness, and the agreement of the bounds that the constructor  *)
(* makes, for every set of sections.                                       *)
THEOREM TypeCorrect == Spec => []TypeOK
<1>1. IInv => TypeOK
  BY DEF IInv
<1> QED
  BY Invariance, <1>1, PTL

(* However handlers are combined, T1 is not after T2 and T2 not after the  *)
(* end of the first lease.                                                 *)
THEOREM Ordered == Spec => []TimersOrdered
<1>1. IInv => TimersOrdered
  BY DEF IInv
<1> QED
  BY Invariance, <1>1, PTL

(* The limits of the last section that applied hold as they were           *)
(* configured, unless a lease ends before.                                 *)
THEOREM Kept == Spec => []LimitsKept
<1>1. IInv => LimitsKept
  BY DEF IInv
<1> QED
  BY Invariance, <1>1, PTL

(* A section that applies twice changes nothing the second time.           *)
THEOREM Idempotent == Spec => []Settled
<1>1. IInv => Settled
  BY DEF IInv
<1> QED
  BY Invariance, <1>1, PTL
=============================================================================
