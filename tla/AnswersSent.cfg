SPECIFICATION AnswersSpec
CONSTANTS
  client = client
  other = other
  us = us
  eth0 = eth0
  eth1 = eth1
  server = server
  host = host
  OurId <- us
  NoValue = NoValue
  Requests <- AllRequests
  RelayChains <- AllRelayChains
  Ways <- AllWays
  Handlers <- AllHandlers
  MaxLeases = 3
INVARIANTS  RelayRepliesMirror
