CONSTANTS
  Modes = {"run", "cancel"}
  Omits = {FALSE}
  Proofs = {1, 2, 3, 4, 5, 6, 7, 8}
  Window = 2
  MaxTime = 4
  MaxFaults = 1
  MaxPartyMoves = 0
SPECIFICATION CancelSpec
PROPERTIES ExpiredLockLeadsToRefund
CHECK_DEADLOCK FALSE
