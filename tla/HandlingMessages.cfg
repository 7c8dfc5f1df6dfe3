SPECIFICATION Spec
CONSTANTS
  x = x y = y peer = peer stranger = stranger
  None = None
  Requests <- AllRequests
  Configured <- Handlers
  AllowFrom <- Peers
  AllowRapidCommit = TRUE
  RapidCommitRejections = FALSE
  MaxRequests = 3
INVARIANTS TypeOK   RapidCommitGrantsAll  ErrorsStandAlone
CHECK_DEADLOCK FALSE
