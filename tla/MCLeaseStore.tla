---------------------------- MODULE MCLeaseStore ----------------------------
(* Small instances of LeaseStore for TLC.                                  *)
EXTENDS LeaseStore
CONSTANTS a, b, x, y, r1, r2, r3, m1, m2, w1, w2

Reply(c, as, ps, rs, ms, l) ==
    [client |-> c, addrs |-> as, prefixes |-> ps, relays |-> rs,
     remotes |-> ms, life |-> l]

Wide == {1, 2}
Narrow == {1}
Other == {2}

(* Two clients that are given the same addresses and overlapping prefixes, *)
(* one of them through other relays; a reply without leases (a release)    *)
(* and a withdrawn one (lifetime 0).                                       *)
LeaseReplies ==
    {Reply(a, {x}, {Wide}, {r1, r2}, {m1}, 1), Reply(a, {x, y}, {}, {}, {m2}, 0),
     Reply(b, {y}, {Narrow}, {}, {}, 1), Reply(b, {x}, {Other}, {}, {}, 1),
     Reply(b, {}, {}, {}, {}, 1)}
=============================================================================
