---------------------------- MODULE LeaseOwners -----------------------------
(***************************************************************************)
(* What the leasequery store promises about addresses, without rows,       *)
(* transactions and workers: every address has at most one owner, a reply  *)
(* hands a set of addresses to its client in one step and may drop expired *)
(* leases of that client only; starting up may drop anybody's.             *)
(***************************************************************************)
CONSTANTS Clients, Addrs, NoOwner
VARIABLE owner

TypeOK == owner \in [Addrs -> Clients \cup {NoOwner}]

Init == owner = [a \in Addrs |-> NoOwner]

Grant(c, given, dropped) ==
    /\ \A a \in dropped : owner[a] = c
    /\ owner' = [a \in Addrs |-> IF a \in given THEN c
                                 ELSE IF a \in dropped THEN NoOwner
                                 ELSE owner[a]]

Forget(dropped) ==
    owner' = [a \in Addrs |-> IF a \in dropped THEN NoOwner ELSE owner[a]]

Next == \/ \E c \in Clients, given, dropped \in SUBSET Addrs :
             Grant(c, given, dropped)
        \/ \E dropped \in SUBSET Addrs : Forget(dropped)

Spec == Init /\ [][Next]_owner
=============================================================================
