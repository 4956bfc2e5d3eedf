CONSTANTS
  Modes = {"run", "cancel"}
  Omits = {FALSE}
  Proofs = {1, 2, 3, 4, 5, 6, 7, 8, 9}
  Window = 1
  MaxTime = 2
  MaxFaults = 2
  MaxPartyMoves = 0
SPECIFICATION ResumeSpec
PROPERTIES ReservedLeadsToLocked AuthorizedLeadsToMinted RedeemedLeadsToReleased
CHECK_DEADLOCK FALSE
