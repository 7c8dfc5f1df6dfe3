------------------------- MODULE LeaseStore_proofs --------------------------
(***************************************************************************)
(* Proofs about LeaseStore, for any number of clients, addresses,          *)
(* prefixes, workers and replies.                                          *)
(***************************************************************************)
EXTENDS LeaseStore, TLAPS

(* The type invariant is inductive.                                        *)
LEMMA InitType == Init => TypeOK
  BY StoreAssumption DEF Init, TypeOK

LEMMA ReplyType ==
  ASSUME TypeOK, NEW w \in Workers
  PROVE  /\ Me(w) \in Clients
         /\ job[w].addrs \subseteq Addrs
         /\ job[w].prefixes \subseteq Prefixes
         /\ job[w].relays \subseteq Relays
         /\ job[w].remotes \subseteq Remotes
         /\ job[w].life \in Nat
  BY StoreAssumption DEF TypeOK, Me

LEMMA StepType == TypeOK /\ [Next]_vars => TypeOK'
<1> SUFFICES ASSUME TypeOK, [Next]_vars PROVE TypeOK'
  OBVIOUS
<1> USE StoreAssumption
<1> USE DEF TypeOK
<1>1. ASSUME NEW w \in Workers, Start(w) PROVE TypeOK'
  BY <1>1 DEF Start, tables, queryVars, Goto
<1>2. ASSUME NEW w \in Workers, GetClientRow(w) PROVE TypeOK'
  BY <1>2, ReplyType DEF GetClientRow, queryVars, Goto, Commit
<1>3. ASSUME NEW w \in Workers, ReplaceRemoteIds(w) PROVE TypeOK'
  BY <1>3, ReplyType DEF ReplaceRemoteIds, ReplacedIds, queryVars, Goto, Commit
<1>4. ASSUME NEW w \in Workers, SelectRelayIds(w) PROVE TypeOK'
  BY <1>4, ReplyType DEF SelectRelayIds, KnownRelayIds, tables, queryVars, Goto
<1>5. ASSUME NEW w \in Workers, WriteRelayIds(w) PROVE TypeOK'
  BY <1>5, ReplyType DEF WriteRelayIds, queryVars, Goto, Commit
<1>6. ASSUME NEW w \in Workers, RelayIdsLocked(w) PROVE TypeOK'
  BY <1>6 DEF RelayIdsLocked, tables, queryVars, Goto
<1>7. ASSUME NEW w \in Workers, UpdateAddresses(w) PROVE TypeOK'
  BY <1>7, ReplyType
     DEF UpdateAddresses, AddressRows, OverriddenRows, RowEnd, queryVars, Goto,
         Commit
<1>8. ASSUME NEW w \in Workers, UpdatePrefixes(w) PROVE TypeOK'
  BY <1>8, ReplyType
     DEF UpdatePrefixes, OverlappingRows, RowEnd, queryVars, Goto, Commit
<1>9. ASSUME NEW w \in Workers, LockTimeout(w) PROVE TypeOK'
  BY <1>9 DEF LockTimeout, tables, queryVars, Goto
<1>10. ASSUME NEW w \in Workers, Lookup(w) PROVE TypeOK'
  <2>1. CASE StartQuery(w)
    BY <2>1 DEF StartQuery, tables, Goto
  <2>2. CASE FindClients(w)
    BY <2>2 DEF FindClients, tables, Goto
  <2>3. CASE GenerateData(w)
    BY <2>3 DEF GenerateData, tables, queryVars, Goto
  <2> QED BY <1>10, <2>1, <2>2, <2>3 DEF Lookup
<1>11. CASE CreateTables
  BY <1>11 DEF CreateTables, queryVars
<1>12. CASE Tick
  BY <1>12 DEF Tick, tables, queryVars
<1>13. CASE UNCHANGED vars
  BY <1>13 DEF vars, tables, queryVars
<1> QED
  BY <1>1, <1>2, <1>3, <1>4, <1>5, <1>6, <1>7, <1>8, <1>9, <1>10, <1>11,
     <1>12, <1>13 DEF Next, Remember

(* The tables and the workers always have their types.                     *)
THEOREM TypeCorrect == Spec => []TypeOK
  BY InitType, StepType, PTL DEF Spec

-----------------------------------------------------------------------------
(* Every lease has one owner                                               *)

(* Only two actions write 'addresses', and only two write 'prefixes'.      *)
LEMMA AddressesChange ==
  ASSUME [Next]_vars
  PROVE  \/ \E w \in Workers : UpdateAddresses(w)
         \/ CreateTables
         \/ UNCHANGED addresses
  BY DEF Next, Remember, Lookup, Start, GetClientRow, ReplaceRemoteIds,
         SelectRelayIds, WriteRelayIds, RelayIdsLocked, UpdatePrefixes,
         LockTimeout, StartQuery, FindClients, GenerateData, Tick, vars, tables

LEMMA PrefixesChange ==
  ASSUME [Next]_vars
  PROVE  \/ \E w \in Workers : UpdatePrefixes(w)
         \/ CreateTables
         \/ UNCHANGED prefixes
  BY DEF Next, Remember, Lookup, Start, GetClientRow, ReplaceRemoteIds,
         SelectRelayIds, WriteRelayIds, RelayIdsLocked, UpdateAddresses,
         LockTimeout, StartQuery, FindClients, GenerateData, Tick, vars, tables

(* The rows a transaction writes carry the same client and deadline, and   *)
(* the rows for their addresses that were there before are gone.           *)
LEMMA OneOwnerStep ==
  ASSUME AddressHasOneOwner, [Next]_vars
  PROVE  AddressHasOneOwner'
<1>1. ASSUME NEW w \in Workers, UpdateAddresses(w)
      PROVE  AddressHasOneOwner'
  <2>1. addresses' \subseteq AddressRows(w)
    BY <1>1 DEF UpdateAddresses
  <2>2. ASSUME NEW r \in AddressRows(w), NEW s \in AddressRows(w),
               r.address = s.address
        PROVE  r = s
    BY <2>2 DEF AddressHasOneOwner, AddressRows, OverriddenRows
  <2> QED BY <2>1, <2>2 DEF AddressHasOneOwner
<1>2. CASE CreateTables
  BY <1>2 DEF CreateTables, AddressHasOneOwner
<1>3. CASE UNCHANGED addresses
  BY <1>3 DEF AddressHasOneOwner
<1> QED BY <1>1, <1>2, <1>3, AddressesChange

(* An address has one owner, whatever the workers do ("this newer one      *)
(* overrides it", sqlite.py line 477).                                     *)
THEOREM OneOwner == Spec => []AddressHasOneOwner
<1>1. Init => AddressHasOneOwner
  BY DEF Init, AddressHasOneOwner
<1>2. AddressHasOneOwner /\ [Next]_vars => AddressHasOneOwner'
  BY OneOwnerStep
<1> QED BY <1>1, <1>2, PTL DEF Spec

(* A row that is kept does not overlap a row another client gets, and a    *)
(* client's row for the same prefix is replaced.                           *)
LEMMA DisjointStep ==
  ASSUME PrefixesDisjoint, [Next]_vars
  PROVE  PrefixesDisjoint'
<1>1. ASSUME NEW w \in Workers, UpdatePrefixes(w)
      PROVE  PrefixesDisjoint'
  <2> DEFINE kept == prefixes \ OverlappingRows(w)
  <2> DEFINE given == {[client |-> Me(w), prefix |-> p, end |-> RowEnd(w)] :
                         p \in job[w].prefixes}
  <2> DEFINE Apart(r, s) ==
        /\ r.client # s.client => r.prefix \cap s.prefix = {}
        /\ r.client = s.client /\ r.prefix = s.prefix => r = s
  <2>1. prefixes' \subseteq kept \cup given
    BY <1>1 DEF UpdatePrefixes
  <2>2. \A r, s \in kept : Apart(r, s)
    BY DEF PrefixesDisjoint
  <2>3. \A r, s \in given : Apart(r, s)
    OBVIOUS
  <2>4. \A r \in kept, s \in given : Apart(r, s) /\ Apart(s, r)
    BY DEF OverlappingRows
  <2> HIDE DEF kept, given
  <2>5. \A r, s \in kept \cup given : Apart(r, s)
    BY <2>2, <2>3, <2>4
  <2> QED BY <2>1, <2>5 DEF PrefixesDisjoint
<1>2. CASE CreateTables
  BY <1>2 DEF CreateTables, PrefixesDisjoint
<1>3. CASE UNCHANGED prefixes
  BY <1>3 DEF PrefixesDisjoint
<1> QED BY <1>1, <1>2, <1>3, PrefixesChange

(* Prefixes of different clients never overlap (sqlite.py line 532).       *)
THEOREM DisjointPrefixes == Spec => []PrefixesDisjoint
<1>1. Init => PrefixesDisjoint
  BY DEF Init, PrefixesDisjoint
<1>2. PrefixesDisjoint /\ [Next]_vars => PrefixesDisjoint'
  BY DisjointStep
<1> QED BY <1>1, <1>2, PTL DEF Spec

-----------------------------------------------------------------------------
(* No row, and no worker, refers to a client row that is gone              *)

LEMMA RowsHaveClientsStep ==
  ASSUME TypeOK, RowsHaveClients, [Next]_vars
  PROVE  RowsHaveClients'
<1> USE DEF RowsHaveClients, Recording, Me, TypeOK
<1>1. ASSUME NEW w \in Workers, Start(w) PROVE RowsHaveClients'
  BY <1>1 DEF Start, tables, Goto
<1>2. ASSUME NEW w \in Workers, GetClientRow(w) PROVE RowsHaveClients'
  <2>1. clients \subseteq clients' /\ UNCHANGED <<addresses, prefixes, relayIds,
                                                remoteIds, job>>
    BY <1>2 DEF GetClientRow
  <2>2. pc' = [pc EXCEPT ![w] = pc'[w]] /\ (pc'[w] = "remotes" => Me(w) \in clients')
        /\ pc'[w] \in {"remotes", "idle"}
    BY <1>2 DEF GetClientRow, Goto
  <2> QED BY <2>1, <2>2
<1>3. ASSUME NEW w \in Workers, ReplaceRemoteIds(w) PROVE RowsHaveClients'
  BY <1>3 DEF ReplaceRemoteIds, Goto
<1>4. ASSUME NEW w \in Workers, SelectRelayIds(w) PROVE RowsHaveClients'
  BY <1>4 DEF SelectRelayIds, tables, Goto
<1>5. ASSUME NEW w \in Workers, WriteRelayIds(w) PROVE RowsHaveClients'
  BY <1>5 DEF WriteRelayIds, Goto
<1>6. ASSUME NEW w \in Workers, RelayIdsLocked(w) PROVE RowsHaveClients'
  BY <1>6 DEF RelayIdsLocked, tables, Goto
<1>7. ASSUME NEW w \in Workers, UpdateAddresses(w) PROVE RowsHaveClients'
  <2>1. \A r \in addresses' : r.client = Me(w) \/ r \in addresses
    BY <1>7 DEF UpdateAddresses, AddressRows
  <2> QED BY <1>7, <2>1 DEF UpdateAddresses, Goto
<1>8. ASSUME NEW w \in Workers, UpdatePrefixes(w) PROVE RowsHaveClients'
  <2>1. \A r \in prefixes' : r.client = Me(w) \/ r \in prefixes
    BY <1>8 DEF UpdatePrefixes
  <2> QED BY <1>8, <2>1 DEF UpdatePrefixes, Goto
<1>9. ASSUME NEW w \in Workers, LockTimeout(w) PROVE RowsHaveClients'
  BY <1>9 DEF LockTimeout, tables, Goto
<1>10. ASSUME NEW w \in Workers, Lookup(w) PROVE RowsHaveClients'
  BY <1>10 DEF Lookup, StartQuery, FindClients, GenerateData, tables, Goto
<1>11. CASE CreateTables
  BY <1>11 DEF CreateTables, NoWorkers
<1>12. CASE Tick
  BY <1>12 DEF Tick, tables
<1>13. CASE UNCHANGED vars
  BY <1>13 DEF vars, tables
<1> QED
  BY <1>1, <1>2, <1>3, <1>4, <1>5, <1>6, <1>7, <1>8, <1>9, <1>10, <1>11,
     <1>12, <1>13 DEF Next, Remember

(* The foreign keys are never dangling, and a worker never records for a   *)
(* client row that clean-up has removed.                                   *)
THEOREM ClientRowsStay == Spec => []RowsHaveClients
<1>1. Init => RowsHaveClients
  BY DEF Init, RowsHaveClients, Recording
<1>2. TypeOK /\ RowsHaveClients /\ [Next]_vars => RowsHaveClients'
  BY RowsHaveClientsStep
<1> QED BY <1>1, <1>2, TypeCorrect, PTL DEF Spec

-----------------------------------------------------------------------------
(* The table of addresses implements the table of owners                   *)

LEMMA OwnerOfRow ==
  ASSUME AddressHasOneOwner, NEW r \in addresses
  PROVE  Owner(r.address) = r.client
  BY DEF AddressHasOneOwner, Owner

LEMMA NoRowNoOwner ==
  ASSUME NEW a, \A r \in addresses : r.address # a
  PROVE  Owner(a) = NoOwner
  BY DEF Owner

LEMMA NoOwnerNoRow ==
  ASSUME TypeOK, AddressHasOneOwner, NEW a, Owner(a) = NoOwner
  PROVE  \A r \in addresses : r.address # a
  BY OwnerOfRow, StoreAssumption DEF TypeOK

(* A transaction of update_address_leases() is a Grant: the new rows do    *)
(* not expire in it, the other rows it deletes are the client's own.       *)
LEMMA UpdateIsGrant ==
  ASSUME TypeOK, AddressHasOneOwner, TypeOK', AddressHasOneOwner',
         NEW w \in Workers, UpdateAddresses(w)
  PROVE  Owners!Next
<1> DEFINE given == job[w].addrs
<1> DEFINE dropped == {a \in Addrs : Owner(a) = Me(w) /\ Owner(a)' = NoOwner}
<1>1. given \subseteq Addrs /\ Me(w) \in Clients /\ job[w].life \in Nat
  BY ReplyType
<1>2. addresses' = {r \in AddressRows(w) : ~Expired(r, w)}
  BY DEF UpdateAddresses
<1>3. ASSUME NEW a \in given PROVE Owner(a)' = Me(w)
  <2> DEFINE row == [client |-> Me(w), address |-> a, end |-> RowEnd(w)]
  <2>1. row \in AddressRows(w)
    BY DEF AddressRows
  <2>2. ~Expired(row, w)
    BY <1>1 DEF Expired, RowEnd, TypeOK
  <2>3. row \in addresses'
    BY <2>1, <2>2, <1>2
  <2>4. \A r \in addresses' : r.address = a => r = row
    BY <2>3 DEF AddressHasOneOwner
  <2> QED BY <2>3, <2>4 DEF Owner
<1>4. ASSUME NEW a \in Addrs \ given, a \notin dropped
      PROVE  Owner(a)' = Owner(a)
  <2>1. ASSUME NEW r \in addresses', r.address = a PROVE r \in addresses
    BY <2>1, <1>2, <1>4 DEF AddressRows
  <2>2. CASE \E r \in addresses : r.address = a
    <3>1. PICK r \in addresses : r.address = a
      BY <2>2
    <3>2. Owner(a) = r.client
      BY <3>1, OwnerOfRow
    <3>3. CASE r \in addresses'
      <4>1. \A q \in addresses' : q.address = a => q = r
        BY <3>1, <3>3 DEF AddressHasOneOwner
      <4>2. Owner(a)' = r.client
        BY <3>1, <3>3, <4>1 DEF Owner
      <4> QED BY <3>2, <4>2
    <3>4. CASE r \notin addresses'
      <4>1. r \in AddressRows(w)
        BY <3>1, <1>4 DEF AddressRows, OverriddenRows
      <4>2. r.client = Me(w)
        BY <4>1, <3>4, <1>2 DEF Expired
      <4>3. \A q \in addresses' : q.address # a
        BY <2>1, <3>1, <3>4 DEF AddressHasOneOwner
      <4>4. Owner(a)' = NoOwner
        BY <4>3 DEF Owner
      <4> QED BY <4>2, <4>4, <3>2, <1>4
    <3> QED BY <3>3, <3>4
  <2>3. CASE \A r \in addresses : r.address # a
    <3>1. \A r \in addresses' : r.address # a
      BY <2>1, <2>3
    <3> QED BY <2>3, <3>1 DEF Owner
  <2> QED BY <2>2, <2>3
<1>5. \A a \in dropped : a \notin given
  BY <1>1, <1>3, StoreAssumption
<1> HIDE DEF given
<1>6. [a \in Addrs |-> Owner(a)]' =
        [a \in Addrs |-> IF a \in given THEN Me(w)
                         ELSE IF a \in dropped THEN NoOwner
                         ELSE [b \in Addrs |-> Owner(b)][a]]
  BY <1>3, <1>4, <1>5
<1>7. Owners!Grant(Me(w), given, dropped)
  BY <1>6 DEF Owners!Grant
<1> QED BY <1>1, <1>7 DEF Owners!Next

(* Cleaning up forgets owners and gives no address to anybody.             *)
LEMMA CleanUpIsForget ==
  ASSUME TypeOK, AddressHasOneOwner, CreateTables
  PROVE  Owners!Next
<1> DEFINE dropped == {a \in Addrs : Owner(a)' = NoOwner}
<1>1. addresses' \subseteq addresses
  BY DEF CreateTables
<1>2. ASSUME NEW a \in Addrs, a \notin dropped PROVE Owner(a)' = Owner(a)
  <2>1. PICK r \in addresses' : r.address = a
    BY <1>2 DEF Owner
  <2>2. \A q \in addresses' : q.address = a => q = r
    BY <1>1, <2>1 DEF AddressHasOneOwner
  <2>3. Owner(a)' = r.client
    BY <2>1, <2>2 DEF Owner
  <2> QED BY <1>1, <2>1, <2>3, OwnerOfRow
<1>3. [a \in Addrs |-> Owner(a)]' =
        [a \in Addrs |-> IF a \in dropped THEN NoOwner
                         ELSE [b \in Addrs |-> Owner(b)][a]]
  BY <1>2
<1> QED BY <1>3 DEF Owners!Next, Owners!Forget

(* The store implements the table of owners: interleaved transactions look *)
(* like grants made one after the other.                                   *)
THEOREM StoreImplementsOwners == Spec => ImplementsOwners
<1>1. Init => Owners!Init
  BY DEF Init, Owners!Init, Owner
<1>2. ASSUME TypeOK, TypeOK', AddressHasOneOwner, AddressHasOneOwner',
             [Next]_vars
      PROVE  [Owners!Next]_([a \in Addrs |-> Owner(a)])
  <2>1. CASE UNCHANGED addresses
    BY <2>1 DEF Owner
  <2> QED BY <1>2, <2>1, UpdateIsGrant, CleanUpIsForget, AddressesChange
<1> QED
  BY <1>1, <1>2, TypeCorrect, OneOwner, PTL DEF Spec, ImplementsOwners, Owners!Spec

-----------------------------------------------------------------------------
(* The ids of a client                                                     *)

(* A worker whose SELECT is not an old one has seen what is stored.        *)
SeenIsCurrent ==
  \A w \in Workers : pc[w] = "relays2" /\ ~stale[w] => seen[w] = relayIds[Me(w)]

(* Only two actions write 'relayIds'.                                      *)
LEMMA RelayIdsChange ==
  ASSUME [Next]_vars
  PROVE  \/ \E w \in Workers : WriteRelayIds(w)
         \/ CreateTables
         \/ UNCHANGED relayIds
  BY DEF Next, Remember, Lookup, Start, GetClientRow, ReplaceRemoteIds,
         SelectRelayIds, RelayIdsLocked, UpdateAddresses, UpdatePrefixes,
         LockTimeout, StartQuery, FindClients, GenerateData, Tick, vars, tables

(* A worker at its writes has done its SELECT before, or does it now.      *)
LEMMA SeenChange ==
  ASSUME TypeOK, [Next]_vars, NEW w \in Workers, pc'[w] = "relays2"
  PROVE  \/ SelectRelayIds(w)
         \/ /\ pc[w] = "relays2" /\ seen'[w] = seen[w] /\ job'[w] = job[w]
            /\ stale[w] => stale'[w]
<1> DEFINE Same == /\ pc[w] = "relays2" /\ seen'[w] = seen[w] /\ job'[w] = job[w]
                   /\ stale[w] => stale'[w]
<1> USE DEF TypeOK
<1>1. ASSUME NEW v \in Workers, Start(v) PROVE Same
  BY <1>1 DEF Start, Goto
<1>2. ASSUME NEW v \in Workers, GetClientRow(v) PROVE Same
  BY <1>2 DEF GetClientRow, Goto, Commit
<1>3. ASSUME NEW v \in Workers, ReplaceRemoteIds(v) PROVE Same
  BY <1>3 DEF ReplaceRemoteIds, Goto, Commit
<1>4. ASSUME NEW v \in Workers, SelectRelayIds(v), v # w PROVE Same
  BY <1>4 DEF SelectRelayIds, Goto
<1>5. ASSUME NEW v \in Workers, WriteRelayIds(v) PROVE Same
  BY <1>5 DEF WriteRelayIds, Goto, Commit
<1>6. ASSUME NEW v \in Workers, RelayIdsLocked(v) PROVE Same
  BY <1>6 DEF RelayIdsLocked, Goto
<1>7. ASSUME NEW v \in Workers, UpdateAddresses(v) PROVE Same
  BY <1>7 DEF UpdateAddresses, Goto, Commit
<1>8. ASSUME NEW v \in Workers, UpdatePrefixes(v) PROVE Same
  BY <1>8 DEF UpdatePrefixes, Goto, Commit
<1>9. ASSUME NEW v \in Workers, LockTimeout(v) PROVE Same
  BY <1>9 DEF LockTimeout, Goto
<1>10. ASSUME NEW v \in Workers, Lookup(v) PROVE Same
  BY <1>10 DEF Lookup, StartQuery, FindClients, GenerateData, Goto
<1>11. CreateTables \/ Tick \/ UNCHANGED vars => Same
  BY DEF CreateTables, Tick, vars
<1> QED
  BY <1>1, <1>2, <1>3, <1>4, <1>5, <1>6, <1>7, <1>8, <1>9, <1>10, <1>11
  DEF Next, Remember

LEMMA SeenIsCurrentStep ==
  ASSUME TypeOK, SeenIsCurrent, [Next]_vars
  PROVE  SeenIsCurrent'
<1> SUFFICES ASSUME NEW w \in Workers, pc'[w] = "relays2", ~stale'[w]
             PROVE  seen'[w] = relayIds'[job'[w].client]
  BY DEF SeenIsCurrent, Me
<1>1. CASE SelectRelayIds(w)
  BY <1>1 DEF SelectRelayIds, KnownRelayIds, tables, Me, TypeOK
<1>2. CASE /\ pc[w] = "relays2" /\ seen'[w] = seen[w] /\ job'[w] = job[w]
           /\ stale[w] => stale'[w]
  <2>1. seen[w] = relayIds[Me(w)] /\ Me(w) \in Clients
    BY <1>2, ReplyType DEF SeenIsCurrent
  <2>2. ASSUME NEW v \in Workers, WriteRelayIds(v) PROVE relayIds'[Me(w)] = relayIds[Me(w)]
    <3>1. v # w
      BY <2>2 DEF WriteRelayIds, Goto, TypeOK
    <3>2. (seen[v] \ job[v].relays) \cup (job[v].relays \ seen[v]) = {}
      BY <2>2, <3>1 DEF WriteRelayIds, Commit
    <3> QED
      BY <2>2, <2>1, <3>2 DEF WriteRelayIds, TypeOK
  <2>3. ~CreateTables
    BY <1>2 DEF CreateTables, NoWorkers
  <2> QED
    BY <1>2, <2>1, <2>2, <2>3, RelayIdsChange DEF Me
<1> QED
  BY <1>1, <1>2, SeenChange

(* After a request is recorded the remote-ids of its client are its own,   *)
(* and so are the relay-ids, unless another worker has committed between   *)
(* the SELECT and the writes (sqlite.py line 431).                         *)
THEOREM IdsAreReplaced == Spec => IdsReplaced
<1> DEFINE Inv == TypeOK /\ SeenIsCurrent
           Replaced == \A w \in Workers :
             /\ pc[w] = "remotes" /\ pc'[w] = "relays" =>
                  remoteIds'[Me(w)] = job[w].remotes
             /\ pc[w] = "relays2" /\ pc'[w] = "addresses" /\ ~stale[w] =>
                  relayIds'[Me(w)] = job[w].relays
<1>1. Init => Inv
  BY InitType DEF Init, SeenIsCurrent
<1>2. Inv /\ [Next]_vars => Inv'
  BY StepType, SeenIsCurrentStep
<1>3. Inv /\ [Next]_vars => [Replaced]_vars
  <2> SUFFICES ASSUME Inv, Next, NEW w \in Workers
               PROVE  /\ pc[w] = "remotes" /\ pc'[w] = "relays" =>
                           remoteIds'[Me(w)] = job[w].remotes
                      /\ pc[w] = "relays2" /\ pc'[w] = "addresses" /\ ~stale[w] =>
                           relayIds'[Me(w)] = job[w].relays
    BY DEF vars
  <2>1. ASSUME pc[w] = "remotes", pc'[w] = "relays" PROVE ReplaceRemoteIds(w)
    BY <2>1 DEF Next, Remember, Lookup, Start, GetClientRow, ReplaceRemoteIds,
         SelectRelayIds, WriteRelayIds, RelayIdsLocked, UpdateAddresses, UpdatePrefixes,
         LockTimeout, StartQuery, FindClients, GenerateData, CreateTables, Tick, Goto, TypeOK
  <2>2. ASSUME pc[w] = "relays2", pc'[w] = "addresses" PROVE WriteRelayIds(w)
    BY <2>2 DEF Next, Remember, Lookup, Start, GetClientRow, ReplaceRemoteIds,
         SelectRelayIds, WriteRelayIds, RelayIdsLocked, UpdateAddresses, UpdatePrefixes,
         LockTimeout, StartQuery, FindClients, GenerateData, CreateTables, Tick, Goto, TypeOK
  <2>3. ASSUME ReplaceRemoteIds(w) PROVE remoteIds'[Me(w)] = job[w].remotes
    BY <2>3, ReplyType DEF ReplaceRemoteIds, ReplacedIds, TypeOK
  <2>4. ASSUME WriteRelayIds(w), seen[w] = relayIds[Me(w)]
        PROVE  relayIds'[Me(w)] = job[w].relays
    BY <2>4, ReplyType DEF WriteRelayIds, TypeOK
  <2> QED
    BY <2>1, <2>2, <2>3, <2>4 DEF SeenIsCurrent
<1> HIDE DEF Inv
<1>4. Spec => [][Replaced]_vars
  BY <1>1, <1>2, <1>3, PTL DEF Spec
<1> QED
  BY <1>4 DEF IdsReplaced
=============================================================================
