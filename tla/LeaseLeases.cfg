SPECIFICATION Spec
CONSTANTS
  a = a b = b x = x y = y r1 = r1 r2 = r2 r3 = r3 m1 = m1 m2 = m2
  Clients = {a, b}
  Addrs = {x, y}
  Prefixes = {{1, 2}, {1}, {2}}
  Relays = {r1, r2, r3}
  Remotes = {m1, m2}
  Workers = {w1, w2}
  w1 = w1 w2 = w2
  Replies <- LeaseReplies
  NoOwner = NoOwner
  MaxJobs = 3
  MaxFaults = 1
  MaxTime = 2
INVARIANTS TypeOK AddressHasOneOwner PrefixesDisjoint RowsHaveClients
PROPERTIES ImplementsOwners IdsReplaced
