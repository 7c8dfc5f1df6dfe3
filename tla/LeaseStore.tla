----------------------------- MODULE LeaseStore -----------------------------
(***************************************************************************)
(* The SQLite store behind leasequery: worker processes record the leases  *)
(* of the replies they send (remember_lease) and look leases up            *)
(* (find_leases), each with a database connection of its own.              *)
(*                                                                         *)
(* Source: dhcpkit/ipv6/server/extensions/leasequery/sqlite.py.            *)
(* One action is one transaction, or one statement outside a transaction:  *)
(* the connections use isolation_level IMMEDIATE, so a transaction starts  *)
(* (and takes the write lock) at the first INSERT, UPDATE or DELETE, not   *)
(* at 'with self.db'; a SELECT before that sees an older snapshot.         *)
(***************************************************************************)
EXTENDS Integers, FiniteSets

CONSTANTS
    Clients,   \* client identities: pairs of client-id and link-address
    Addrs,     \* addresses
    Prefixes,  \* prefixes, each the set of subnets it covers
    Relays,    \* relay-ids
    Remotes,   \* remote-ids
    Workers,   \* worker processes
    Replies,   \* what a reply can ask the store to remember
    NoOwner,   \* not a client
    MaxJobs,   \* bound: replies and queries that reach the store
    MaxFaults, \* bound: transactions that fail ("database is locked")
    MaxTime    \* bound: the clock

ASSUME StoreAssumption ==
    /\ NoOwner \notin Clients
    /\ MaxJobs \in Nat /\ MaxFaults \in Nat /\ MaxTime \in Nat
    /\ Replies \subseteq [client : Clients, addrs : SUBSET Addrs,
                          prefixes : SUBSET Prefixes, relays : SUBSET Relays,
                          remotes : SUBSET Remotes, life : Nat]

VARIABLES
    \* the tables
    clients,   \* rows of 'clients'
    addresses, \* rows of 'addresses'
    prefixes,  \* rows of 'prefixes'
    relayIds,  \* rows of 'relay_ids', by client
    remoteIds, \* rows of 'remote_ids', by client
    \* the workers
    pc,        \* what a worker does next
    job,       \* the reply it remembers
    seen,      \* relay-ids its SELECT returned
    stale,     \* has the database changed since that SELECT?
    query,     \* the address it looks up
    found,     \* client rows the look-up returned
    \* the world
    now, jobs, faults

tables == <<clients, addresses, prefixes, relayIds, remoteIds>>
queryVars == <<query, found>>
vars == <<tables, pc, job, seen, stale, queryVars, now, jobs, faults>>

-----------------------------------------------------------------------------
Init ==
    /\ clients = {} /\ addresses = {} /\ prefixes = {}
    /\ relayIds = [c \in Clients |-> {}] /\ remoteIds = [c \in Clients |-> {}]
    /\ pc = [w \in Workers |-> "idle"]
    /\ job \in [Workers -> Replies] /\ \A v, w \in Workers : job[v] = job[w]
    /\ seen = [w \in Workers |-> {}] /\ stale = [w \in Workers |-> FALSE]
    /\ query \in [Workers -> Addrs] /\ \A v, w \in Workers : query[v] = query[w]
    /\ found = [w \in Workers |-> {}]
    /\ now = 0 /\ jobs = 0 /\ faults = 0

(* A change that is committed makes every other snapshot an old one.       *)
Commit(w, changed) ==
    stale' = [v \in Workers |-> stale[v] \/ (changed /\ v # w)]

Goto(w, label) == pc' = [pc EXCEPT ![w] = label]

Me(w) == job[w].client

-----------------------------------------------------------------------------
(* remember_lease()                                                        *)

Start(w) ==
    /\ pc[w] = "idle" /\ jobs < MaxJobs /\ jobs' = jobs + 1
    /\ \E r \in Replies : job' = [job EXCEPT ![w] = r]
    /\ Goto(w, "client")
    /\ UNCHANGED <<tables, seen, stale, queryVars, now, faults>>

(* get_client_row_id(): only a client with leases gets a new row.          *)
GetClientRow(w) ==
    /\ pc[w] = "client"
    /\ \/ /\ job[w].addrs \cup job[w].prefixes # {}
          /\ clients' = clients \cup {Me(w)}
          /\ Commit(w, Me(w) \notin clients)
          /\ Goto(w, "remotes")
       \/ /\ job[w].addrs \cup job[w].prefixes = {}
          /\ UNCHANGED <<clients, stale>>
          /\ Goto(w, IF Me(w) \in clients THEN "remotes" ELSE "idle")
    /\ UNCHANGED <<addresses, prefixes, relayIds, remoteIds, job, seen,
                   queryVars, now, jobs, faults>>

(* update_last_interaction() starts a transaction that replace_remote_ids()*)
(* commits: its SELECT, DELETEs and INSERTs see and change one snapshot.   *)
MergeRemoteIds(old, new) == old \cup new \* faulty variant: nothing is deleted
ReplacedIds(old, new) == (old \cap new) \cup (new \ old)

ReplaceRemoteIds(w) ==
    /\ pc[w] = "remotes"
    /\ remoteIds' = [remoteIds EXCEPT ![Me(w)] = ReplacedIds(@, job[w].remotes)]
    /\ Commit(w, TRUE)
    /\ Goto(w, "relays")
    /\ UNCHANGED <<clients, addresses, prefixes, relayIds, job, seen, queryVars,
                   now, jobs, faults>>

(* replace_relay_ids(): the SELECT comes before any transaction, ...       *)
OtherTable(w) == remoteIds[Me(w)] \* faulty variant: a copied SELECT
KnownRelayIds(w) == relayIds[Me(w)]

SelectRelayIds(w) ==
    /\ pc[w] = "relays"
    /\ seen' = [seen EXCEPT ![w] = KnownRelayIds(w)]
    /\ stale' = [stale EXCEPT ![w] = FALSE]
    /\ Goto(w, "relays2")
    /\ UNCHANGED <<tables, job, queryVars, now, jobs, faults>>

(* ... the DELETEs and INSERTs for what it returned are in one.            *)
WriteRelayIds(w) ==
    LET gone == seen[w] \ job[w].relays
        new == job[w].relays \ seen[w]
    IN  /\ pc[w] = "relays2"
        /\ ~(stale[w] /\ Cardinality(gone) > 1)
        /\ relayIds' = [relayIds EXCEPT ![Me(w)] = (@ \ gone) \cup new]
        /\ Commit(w, gone \cup new # {})
        /\ Goto(w, "addresses")
        /\ UNCHANGED <<clients, addresses, prefixes, remoteIds, job, seen,
                       queryVars, now, jobs, faults>>

(* A DELETE while the SELECT still has rows to return cannot upgrade an    *)
(* old snapshot: "database is locked", and remember_lease() ends here.     *)
RelayIdsLocked(w) ==
    /\ pc[w] = "relays2" /\ stale[w]
    /\ Cardinality(seen[w]) > 1 /\ seen[w] \ job[w].relays # {}
    /\ Goto(w, "idle")
    /\ UNCHANGED <<tables, job, seen, stale, queryVars, now, jobs, faults>>

(* update_address_leases(): rows of other clients for the same addresses   *)
(* go, rows of this client are updated or inserted, expired ones deleted.  *)
OwnRowsFor(w) == \* faulty variant: other clients keep their rows
    {r \in addresses : r.client = Me(w) /\ r.address \in job[w].addrs}
OverriddenRows(w) == {r \in addresses : r.address \in job[w].addrs}

RowEnd(w) == now + job[w].life

AddressRows(w) ==
    (addresses \ OverriddenRows(w)) \cup
    {[client |-> Me(w), address |-> a, end |-> RowEnd(w)] :
        a \in job[w].addrs}

AllExpired(r, w) == r.end < now \* faulty variant: expired rows of anyone
Expired(r, w) == r.client = Me(w) /\ r.end < now

UpdateAddresses(w) ==
    /\ pc[w] = "addresses"
    /\ addresses' = {r \in AddressRows(w) : ~Expired(r, w)}
    /\ Commit(w, addresses' # addresses \/ job[w].addrs # {})
    /\ Goto(w, "prefixes")
    /\ UNCHANGED <<clients, prefixes, relayIds, remoteIds, job, seen, queryVars,
                   now, jobs, faults>>

(* update_prefix_leases(): overlapping prefixes of other clients go.       *)
SamePrefixRows(w) == \* faulty variant: only the very same prefix goes
    {r \in prefixes : r.prefix \in job[w].prefixes}
OverlappingRows(w) ==
    {r \in prefixes :
        \/ r.client = Me(w) /\ r.prefix \in job[w].prefixes
        \/ r.client # Me(w) /\ \E p \in job[w].prefixes : p \cap r.prefix # {}}

UpdatePrefixes(w) ==
    /\ pc[w] = "prefixes"
    /\ prefixes' =
         {r \in (prefixes \ OverlappingRows(w)) \cup
                {[client |-> Me(w), prefix |-> p, end |-> RowEnd(w)] :
                    p \in job[w].prefixes} :
            ~Expired(r, w)}
    /\ Commit(w, prefixes' # prefixes \/ job[w].prefixes # {})
    /\ Goto(w, "idle")
    /\ UNCHANGED <<clients, addresses, relayIds, remoteIds, job, seen, queryVars,
                   now, jobs, faults>>

(* A transaction that does not get the write lock in time raises; what was *)
(* committed before stays, the rest of remember_lease() is not done.       *)
LockTimeout(w) ==
    /\ \/ pc[w] \in {"remotes", "addresses", "prefixes"}
       \/ pc[w] = "client" /\ job[w].addrs \cup job[w].prefixes # {}
       \/ pc[w] = "relays2" /\ seen[w] # job[w].relays
    /\ faults < MaxFaults /\ faults' = faults + 1
    /\ Goto(w, "idle")
    /\ UNCHANGED <<tables, job, seen, stale, queryVars, now, jobs>>

-----------------------------------------------------------------------------
(* find_leases() with a query by address                                   *)

StartQuery(w) ==
    /\ pc[w] = "idle" /\ jobs < MaxJobs /\ jobs' = jobs + 1
    /\ \E a \in Addrs : query' = [query EXCEPT ![w] = a]
    /\ Goto(w, "lookup")
    /\ UNCHANGED <<tables, job, seen, stale, found, now, faults>>

(* find_client_by_address(): an address, or a prefix around it, would do;  *)
(* here the address.                                                       *)
FindClients(w) ==
    /\ pc[w] = "lookup"
    /\ found' = [found EXCEPT ![w] =
                   {r.client : r \in {q \in addresses : q.address = query[w]}}]
    /\ Goto(w, IF found'[w] = {} THEN "idle" ELSE "data")
    /\ UNCHANGED <<tables, job, seen, stale, query, now, jobs, faults>>

(* generate_client_data_options() is a generator: its SELECTs run when the *)
(* reply is built, after find_leases() has returned.                       *)
ClientData(w) ==
    {r \in addresses : r.client \in found[w] \cap clients /\ r.end > now}

GenerateData(w) ==
    /\ pc[w] = "data"
    /\ Goto(w, "idle")
    /\ UNCHANGED <<tables, job, seen, stale, queryVars, now, jobs, faults>>

-----------------------------------------------------------------------------
(* create_tables() runs in the master when a configuration is applied: the *)
(* pool of the previous one has been joined, no worker is at work.         *)
AnyTime == TRUE \* faulty variant: workers of the old configuration run on
NoWorkers == \A w \in Workers : pc[w] = "idle"

CreateTables ==
    LET live == {r \in addresses : r.end >= now}
        livePrefixes == {r \in prefixes : r.end >= now}
        used == {r.client : r \in live} \cup {r.client : r \in livePrefixes}
    IN  /\ NoWorkers
        /\ addresses' = live /\ prefixes' = livePrefixes
        /\ clients' = clients \cap used
        /\ relayIds' = [c \in Clients |-> IF c \in used THEN relayIds[c] ELSE {}]
        /\ remoteIds' = [c \in Clients |-> IF c \in used THEN remoteIds[c] ELSE {}]
        /\ UNCHANGED <<pc, job, seen, stale, queryVars, now, jobs, faults>>

Tick ==
    /\ now < MaxTime /\ now' = now + 1
    /\ UNCHANGED <<tables, pc, job, seen, stale, queryVars, jobs, faults>>

Remember(w) == \/ Start(w) \/ GetClientRow(w) \/ ReplaceRemoteIds(w)
               \/ SelectRelayIds(w) \/ WriteRelayIds(w) \/ RelayIdsLocked(w)
               \/ UpdateAddresses(w) \/ UpdatePrefixes(w) \/ LockTimeout(w)
Lookup(w) == StartQuery(w) \/ FindClients(w) \/ GenerateData(w)

Next == (\E w \in Workers : Remember(w) \/ Lookup(w)) \/ CreateTables \/ Tick

Spec == Init /\ [][Next]_vars

-----------------------------------------------------------------------------
(* Properties                                                              *)

Recording(w) == pc[w] \in {"remotes", "relays", "relays2", "addresses", "prefixes"}

(* Type correctness of the tables and the workers.                         *)
TypeOK ==
    /\ clients \subseteq Clients
    /\ addresses \subseteq [client : Clients, address : Addrs, end : Nat]
    /\ prefixes \subseteq [client : Clients, prefix : Prefixes, end : Nat]
    /\ relayIds \in [Clients -> SUBSET Relays]
    /\ remoteIds \in [Clients -> SUBSET Remotes]
    /\ pc \in [Workers -> {"idle", "client", "remotes", "relays", "relays2",
                           "addresses", "prefixes", "lookup", "data"}]
    /\ job \in [Workers -> Replies] /\ seen \in [Workers -> SUBSET Relays]
    /\ stale \in [Workers -> BOOLEAN] /\ query \in [Workers -> Addrs]
    /\ found \in [Workers -> SUBSET Clients]
    /\ now \in Nat /\ jobs \in Nat /\ faults \in Nat

(* An address is leased to one client, by one row, however the workers'    *)
(* transactions interleave and wherever remember_lease() is cut short      *)
(* ("this newer one overrides it", sqlite.py line 477).                    *)
AddressHasOneOwner ==
    \A r, s \in addresses : r.address = s.address => r = s

(* Prefixes of different clients never overlap, and a client has one row   *)
(* for a prefix (sqlite.py line 532).                                      *)
PrefixesDisjoint ==
    \A r, s \in prefixes :
        /\ r.client # s.client => r.prefix \cap s.prefix = {}
        /\ r.client = s.client /\ r.prefix = s.prefix => r = s

(* A worker that records for a client, and every lease, refers to a client *)
(* row that exists (the foreign keys): clean-up never removes a row that   *)
(* is in use.                                                              *)
RowsHaveClients ==
    /\ \A w \in Workers : Recording(w) => Me(w) \in clients
    /\ \A r \in addresses : r.client \in clients
    /\ \A r \in prefixes : r.client \in clients
    /\ \A c \in Clients \ clients : relayIds[c] = {} /\ remoteIds[c] = {}

(* The address table implements the table of owners, whatever the number   *)
(* of workers.                                                             *)
Owner(a) == IF \E r \in addresses : r.address = a
            THEN (CHOOSE r \in addresses : r.address = a).client ELSE NoOwner
Owners == INSTANCE LeaseOwners WITH owner <- [a \in Addrs |-> Owner(a)]
ImplementsOwners == Owners!Spec

(* The ids of a client are replaced (sqlite.py line 431): after            *)
(* replace_remote_ids() they are those of its own request, after           *)
(* replace_relay_ids() too, unless another worker has committed between    *)
(* its SELECT and its writes; then ids of both requests may be left.       *)
IdsReplaced ==
    [][\A w \in Workers :
         /\ pc[w] = "remotes" /\ pc'[w] = "relays" =>
              remoteIds'[Me(w)] = job[w].remotes
         /\ pc[w] = "relays2" /\ pc'[w] = "addresses" /\ ~stale[w] =>
              relayIds'[Me(w)] = job[w].relays]_vars
=============================================================================
