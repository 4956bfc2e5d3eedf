CONSTANTS
  Modes = {"run"}
  Omits = {FALSE}
  Proofs = {1, 2, 3, 4, 5, 6, 7, 8}
  Window = 1
  MaxTime = 1
  MaxFaults = 1
  MaxPartyMoves = 0
SPECIFICATION ResumeSpec
PROPERTIES SettledLeadsToRedeemed
CHECK_DEADLOCK FALSE
