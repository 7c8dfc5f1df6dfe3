SPECIFICATION Spec
CONSTANTS
  Datagrams <- AllDatagrams
  Lengths <- HeaderLengths
  PrefixOctets <- Prefixes
  MaxDepth = 3
INVARIANTS TypeOK  ElementsAreTheirBytes
