----------------------------- MODULE Statistics ------------------------------
(***************************************************************************)
(* The shared statistics: one set of counters for the server and one for   *)
(* every category (interface, subnet or relay) that is configured, in      *)
(* memory that all worker processes update and the master exports.         *)
(*                                                                         *)
(* Source: dhcpkit/ipv6/server/statistics.py.  Statistics has a counter    *)
(* for every kind of event; one of them (incoming_packets) stands for all: *)
(* they are counted in the same way and do not influence each other.       *)
(***************************************************************************)
EXTENDS Integers, FiniteSets

CONSTANTS
    Categories, \* interfaces, subnets and relays
    Settings,   \* <statistics> in a configuration: is there such a section,
                \* and the categories it asks for
    Global,     \* the statistics of the server as a whole
    Workers,    \* worker processes
    None,       \* no statistics object
    MaxPackets, \* bound: packets
    MaxReloads  \* bound: configurations applied

Objects == Categories \cup {Global}

ASSUME StatisticsAssumption ==
    /\ Settings \subseteq [given : BOOLEAN, categories : SUBSET Categories]
    /\ IsFiniteSet(Workers)
    /\ Global \notin Categories /\ None \notin Objects
    /\ MaxPackets \in Nat /\ MaxReloads \in Nat

VARIABLES
    settings, \* config.statistics
    existing, \* the keys of interface_stats, subnet_stats and relay_stats
    value,    \* the value of the counter
    holds,    \* the counter whose lock a worker holds
    set,      \* what is left to update of a worker's StatisticsSet
    read,     \* the value that a worker that holds a lock has read
    packets, reloads,
    expected  \* history: packets that were to be counted since creation

vars == <<settings, existing, value, holds, set, read, packets, reloads, expected>>

NoSection == [given |-> FALSE, categories |-> {}]

Init ==
    /\ settings = NoSection /\ existing = {}
    /\ value = [s \in Objects |-> 0]
    /\ holds = [w \in Workers |-> None]
    /\ set = [w \in Workers |-> {}] /\ read = [w \in Workers |-> 0]
    /\ packets = 0 /\ reloads = 0
    /\ expected = [s \in Objects |-> 0]

-----------------------------------------------------------------------------
(* set_categories() runs when the pool of the previous configuration has   *)
(* been joined.  The set of categories to remove ("remaining") is pruned   *)
(* only where a category is new, so that all old ones are removed.         *)
AnyTime == TRUE \* faulty variant: workers are still counting
NoWorkers == \A w \in Workers : set[w] = {}

OnlyAdded(wanted) == existing \cup wanted \* faulty variant: all stay
UpdatedCategories(wanted) ==
    LET remaining == existing
    IN  (existing \cup wanted) \ remaining

SetCategories ==
    /\ NoWorkers
    /\ reloads < MaxReloads /\ reloads' = reloads + 1
    /\ settings' \in Settings
    /\ existing' = IF settings'.given THEN UpdatedCategories(settings'.categories)
                   ELSE existing
    /\ value' = [s \in Objects |-> IF s \in existing' \ existing THEN 0 ELSE value[s]]
    /\ expected' =
         [s \in Objects |-> IF s \in existing' \ existing THEN 0 ELSE expected[s]]
    /\ UNCHANGED <<holds, set, read, packets>>

(* get_update_set(): the interface, subnets and relays of a packet.        *)
GetUpdateSet(w) ==
    /\ set[w] = {} /\ packets < MaxPackets /\ packets' = packets + 1
    /\ \E matching \in SUBSET Categories :
         LET chosen == {Global} \cup (existing \cap matching)
         IN  /\ set' = [set EXCEPT ![w] = chosen]
             /\ expected' = [s \in Objects |->
                               IF s \in chosen THEN expected[s] + 1 ELSE expected[s]]
    /\ UNCHANGED <<settings, existing, value, holds, read, reloads>>

(* count_method(): 'with counter.get_lock(): counter.value += 1' for every *)
(* object of the set; their order does not matter.                         *)
Unlocked(s) == TRUE \* faulty variant: the lock is not waited for
Free(s) == \A w \in Workers : holds[w] # s

ReadCounter(w) ==
    /\ holds[w] = None
    /\ \E s \in set[w] :
         /\ Free(s)
         /\ holds' = [holds EXCEPT ![w] = s]
         /\ read' = [read EXCEPT ![w] = value[s]]
    /\ UNCHANGED <<settings, existing, value, set, packets, reloads, expected>>

WriteCounter(w) ==
    /\ holds[w] # None
    /\ value' = [value EXCEPT ![holds[w]] = read[w] + 1]
    /\ holds' = [holds EXCEPT ![w] = None]
    /\ set' = [set EXCEPT ![w] = @ \ {holds[w]}]
    /\ UNCHANGED <<settings, existing, read, packets, reloads, expected>>

Worker(w) == GetUpdateSet(w) \/ ReadCounter(w) \/ WriteCounter(w)

Next == SetCategories \/ \E w \in Workers : Worker(w)

Spec == Init /\ [][Next]_vars

-----------------------------------------------------------------------------
(* Properties                                                              *)

(* Type correctness; a worker that counts does so on statistics that exist *)
(* and that set_categories() does not take away meanwhile.                 *)
TypeOK ==
    /\ settings \in Settings \cup {NoSection}
    /\ existing \subseteq Categories
    /\ value \in [Objects -> Nat] /\ expected \in [Objects -> Nat]
    /\ holds \in [Workers -> Objects \cup {None}]
    /\ set \in [Workers -> SUBSET (existing \cup {Global})]
    /\ read \in [Workers -> Nat]
    /\ packets \in Nat /\ reloads \in Nat

(* No count is lost: every counter shows all packets that were to be       *)
(* counted but for those of the workers that have not come to it yet.      *)
Pending(s) == {w \in Workers : s \in set[w]}
NothingLost ==
    \A s \in existing \cup {Global} :
        value[s] + Cardinality(Pending(s)) = expected[s]

(* After a reload no category is counted that is not configured any more  *)
(* ("Remove unwanted categories", statistics.py line 305).  The converse   *)
(* is not true: see UpdatedCategories.                                     *)
UnwantedRemoved ==
    settings.given => existing \subseteq settings.categories
=============================================================================
