CONSTANTS
  Modes = {"run", "cancel", "expiry"}
  Omits = {FALSE, TRUE}
  Proofs = {1, 2, 3, 4, 5, 6, 7, 8, 9}
  Window = 1
  MaxTime = 2
  MaxFaults = 2
  MaxPartyMoves = 1
SPECIFICATION Spec
INVARIANTS TypeOK CirculationBacked ReleaseAfterBurn ExposureCoversValue JournalTruthful MintApprovalResumable SupplyInVault OutcomeApproved
PROPERTIES ValuePathImplemented
CHECK_DEADLOCK FALSE
