------------------------- MODULE MCMessageHandling --------------------------
(* Small instances of MessageHandling for TLC.                             *)
EXTENDS MessageHandling
CONSTANTS x, y, peer, stranger

(* A prefix and a part of it.                                              *)
Wide == {1, 2}
Narrow == {1}

IA(k, i, addrs) == [kind |-> k, iaid |-> i, addrs |-> addrs]
Message(type, ias, rapid, server, via, query) ==
    [type |-> type, ias |-> ias, rapid |-> rapid, server |-> server,
     via |-> via, query |-> query, peer |-> peer]

Ways == {"multicast", "unicast", "relayed", "tcp"}
Configure(name, ways) == [name |-> name, for |-> ways]

(* One IA or two, with the address of the client, with another one, with   *)
(* none, with prefixes that are and that overlap the client's.             *)
IALists ==
    {<<>>, <<IA("na", 1, {})>>, <<IA("na", 1, {x, y})>>,
     <<IA("na", 1, {y}), IA("na", 2, {x})>>,
     <<IA("na", 1, {}), IA("pd", 1, {})>>,
     <<IA("pd", 1, {Wide}), IA("na", 1, {x})>>,
     <<IA("pd", 1, {Narrow}), IA("pd", 2, {Wide})>>,
     <<IA("ta", 1, {y}), IA("pd", 1, {Wide, Narrow})>>}

(* What module Contents lets through: messages for one server name it,     *)
(* the others do not; a decline has no IA_PD.                              *)
Without(kind) == {ias \in IALists : \A i \in DOMAIN ias : ias[i].kind # kind}

LeaseRequests ==
    {Message(t, ias, FALSE, "none", "multicast", "none") :
        t \in {"Solicit", "Rebind", "Confirm"}, ias \in IALists} \cup
    {Message(t, ias, FALSE, "ours", "multicast", "none") :
        t \in {"Request", "Renew", "Release"}, ias \in IALists} \cup
    {Message("Decline", ias, FALSE, "ours", "multicast", "none") : ias \in Without("pd")} \cup
    {Message("Solicit", ias, TRUE, "none", "relayed", "none") : ias \in IALists} \cup
    {Message("Request", <<IA("na", 1, {})>>, FALSE, s, v, "none") :
        s \in {"ours", "other"}, v \in {"unicast", "relayed", "tcp"}}

(* Leasequeries over UDP and TCP, and other messages on the way.           *)
Queries ==
    {Message("Leasequery", <<>>, FALSE, "none", v, q) :
        v \in {"multicast", "unicast", "tcp"}, q \in {"simple", "bulk"}} \cup
    {Message("InformationRequest", <<>>, FALSE, "none", v, "none") :
        v \in {"multicast", "unicast", "tcp"}} \cup
    {[Message("Leasequery", <<>>, FALSE, "none", "relayed", "simple")
        EXCEPT !.peer = stranger]}

AllRequests == LeaseRequests \cup Queries

(* Filters select some handlers for some messages only; there are two      *)
(* leasequery handlers in the chain of a message over TCP.                 *)
Handlers ==
    <<Configure("RateLimit", {"unicast"}), Configure("ServerUnicast", {"tcp"}),
      [name |-> "Ignore", types |-> {"InformationRequest"}, for |-> {"unicast"}],
      Configure("Leasequery", {"tcp"}),
      [name |-> "Static", address |-> x, prefix |-> Wide, for |-> Ways],
      Configure("Leasequery", Ways)>>

Peers == {peer}

ASSUME DistinctAssumption == RequestsAreDistinct
ASSUME AssignmentAssumption == OneAssignment
=============================================================================
