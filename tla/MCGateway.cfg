SPECIFICATION Spec
CONSTANTS
  Locks = {l1, l2}
  Trades = {t1, t2}
  Terms <- MCTerms
  Legs <- MCLegs
  Attesters <- MCAttesters
  Attestations <- MCAttestations
  Requesters = {"seller"}
  MaxRequests = 2
  MaxAllocations = 2
  MaxRepeats = 2
SYMMETRY Interchangeable
INVARIANTS TypeOK EvidenceSound EvidenceComplete ReadersAgree
PROPERTIES CashIsBacked
CHECK_DEADLOCK FALSE
