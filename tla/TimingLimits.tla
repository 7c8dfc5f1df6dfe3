---------------------------- MODULE TimingLimits -----------------------------
(***************************************************************************)
(* The timers T1 and T2 of an IA option in a response, limited by the      *)
(* <iana-timing-limits> and <iapd-timing-limits> handlers of the chain.    *)
(*                                                                         *)
(* Source: dhcpkit/ipv6/server/extensions/timing_limits.  The handlers for *)
(* IA_NA and IA_PD differ in the options they look at only.  A factor is   *)
(* given as a number of Parts of one; the rounding of floats is left out.  *)
(***************************************************************************)
EXTENDS Integers, Sequences, FiniteSets

CONSTANTS
    Infinity,   \* the largest time, which stands for infinity
    Parts,      \* a factor of n stands for n / Parts
    None,       \* no factor
    Sections,   \* timing limits sections that a configuration can have
    Timers,     \* timers that other handlers set
    Lifetimes,  \* preferred lifetimes that other handlers give
    MaxHandlers \* bound: sections that apply to one response

Times == 0..Infinity
Factors == 0..Parts \cup {None}
Limits == [minT1 : Times, maxT1 : Times, factorT1 : Factors,
           minT2 : Times, maxT2 : Times, factorT2 : Factors]

ASSUME TimingAssumption ==
    /\ Infinity \in Nat /\ Parts \in Nat \ {0} /\ None \notin Nat
    /\ Sections \subseteq Limits
    /\ 0 \in Timers /\ Timers \subseteq Times /\ Lifetimes \subseteq Times
    /\ MaxHandlers \in Nat

VARIABLES
    sections, \* the sections of the configuration, in order
    handlers, \* the handlers created from them
    at,       \* the handler that is next
    option    \* the IA option: timers and preferred lifetimes

vars == <<sections, handlers, at, option>>

Least(a, b) == IF a <= b THEN a ELSE b
Most(a, b) == IF a >= b THEN a ELSE b

-----------------------------------------------------------------------------
AsGiven(s) == s \* faulty variant of Constructed: bounds as configured
(* The constructor: the bounds of T1 and T2 are made to agree.  The other  *)
(* limits it applies have no effect on values that a section can have.     *)
Constructed(s) ==
    [s EXCEPT !.maxT1 = Least(s.maxT1, s.maxT2), !.minT2 = Most(s.minT1, s.minT2)]

(* validate_config_section(), and the same tests in the constructor: a     *)
(* factor of zero counts as no factor.                                     *)
Accepted(s) ==
    /\ s.minT1 <= s.maxT2
    /\ {s.factorT1, s.factorT2} \cap {None, 0} = {} => s.factorT1 <= s.factorT2

NoLeases == [t1 |-> 0, t2 |-> 0, lifetimes |-> {}]

Init ==
    /\ sections = <<>> /\ handlers = <<>> /\ at = 1
    /\ option = NoLeases

(* A configuration is loaded; no response is being handled.                *)
Idle == at = Len(handlers) + 1 /\ option = NoLeases

Configure ==
    /\ Idle
    /\ \E n \in 0..MaxHandlers : \E chosen \in [1..n -> {s \in Sections : Accepted(s)}] :
         /\ sections' = chosen
         /\ handlers' = [i \in 1..n |-> Constructed(chosen[i])]
         /\ at' = n + 1
    /\ UNCHANGED option

(* The handlers that assign addresses or prefixes have filled an option.   *)
Assign ==
    /\ Idle /\ at' = 1
    /\ option' \in [t1 : Timers, t2 : Timers, lifetimes : SUBSET Lifetimes]
    /\ UNCHANGED <<sections, handlers>>

Shortest(lifetimes) == CHOOSE l \in lifetimes : \A m \in lifetimes : l <= m

(* A timer that is not set is a fraction of the shortest lifetime.         *)
Calculated(timer, factor, shortest) ==
    IF timer # 0 \/ factor = None THEN timer
    ELSE IF shortest = Infinity THEN Infinity
    ELSE (shortest * factor) \div Parts

Between(min, timer, max, end) == Least(Least(Most(min, timer), max), end)

T1First(h, o) == \* faulty variant: T1 is limited by the T2 that was asked for
    IF o.lifetimes = {} THEN o
    ELSE LET shortest == Shortest(o.lifetimes)
             t2 == Calculated(o.t2, h.factorT2, shortest)
             t1 == Calculated(o.t1, h.factorT1, shortest)
         IN  [o EXCEPT !.t1 = Between(h.minT1, t1, h.maxT1, t2),
                       !.t2 = Between(h.minT2, t2, h.maxT2, shortest)]

(* The bounds give way to the shortest lifetime, and those of T1 to T2.    *)
Limited(h, o) ==
    IF o.lifetimes = {} THEN o
    ELSE LET shortest == Shortest(o.lifetimes)
             t2 == Between(h.minT2, Calculated(o.t2, h.factorT2, shortest),
                           h.maxT2, shortest)
             t1 == Between(h.minT1, Calculated(o.t1, h.factorT1, shortest),
                           h.maxT1, t2)
         IN  [o EXCEPT !.t1 = t1, !.t2 = t2]

Handle ==
    /\ at <= Len(handlers) /\ at' = at + 1
    /\ option' = Limited(handlers[at], option)
    /\ UNCHANGED <<sections, handlers>>

(* The response has been through all handlers.                             *)
Send ==
    /\ at = Len(handlers) + 1 /\ option' = NoLeases
    /\ UNCHANGED <<sections, handlers, at>>

Next == Configure \/ Assign \/ Handle \/ Send

Spec == Init /\ [][Next]_vars

-----------------------------------------------------------------------------
(* Properties                                                              *)

(* Type correctness; the bounds of every handler that has been constructed *)
(* agree with each other ("impossible values" are refused), but for a T1   *)
(* or T2 whose own two bounds contradict each other.                       *)
TypeOK ==
    /\ sections \in Seq(Sections) /\ handlers \in Seq(Limits)
    /\ Len(sections) = Len(handlers)
    /\ at \in 1..Len(handlers) + 1
    /\ option \in [t1 : Times, t2 : Times, lifetimes : SUBSET Times]
    /\ \A i \in DOMAIN handlers :
         LET h == handlers[i]
         IN  h.minT1 <= h.maxT2 /\ h.minT1 <= h.minT2 /\ h.maxT1 <= h.maxT2

(* A handler that has limited an option with leases leaves T1 at or before *)
(* T2 and T2 at or before the end of the first lease, whatever its limits  *)
(* and what the handlers before it did ("making sure that t1 is not larger *)
(* than t2").                                                              *)
TimersOrdered ==
    at > 1 /\ option.lifetimes # {} =>
        /\ option.t1 <= option.t2
        /\ \A l \in option.lifetimes : option.t2 <= l

(* "Minimum value for T1", "Maximum value for T2" and so on: the bounds of *)
(* the section (not those that the constructor makes of them) hold, unless *)
(* a lease ends before ("This will ignore the given boundaries if they     *)
(* conflict with shortest_preferred lifetime") or they contradict.         *)
LimitsKept ==
    at > 1 /\ option.lifetimes # {} =>
        LET s == sections[at - 1]
            longEnough(min) == \A l \in option.lifetimes : min <= l
        IN  /\ option.t1 <= s.maxT1 /\ option.t2 <= s.maxT2
            /\ s.minT1 <= s.maxT1 /\ longEnough(s.minT1) => s.minT1 <= option.t1
            /\ s.minT2 <= s.maxT2 /\ longEnough(s.minT2) => s.minT2 <= option.t2

(* A section that applies twice, as it may in nested filters, changes      *)
(* nothing the second time: neither the calculation nor the bounds work on *)
(* their own results.                                                      *)
Settled == at > 1 => Limited(handlers[at - 1], option) = option
=============================================================================
