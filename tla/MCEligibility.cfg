\* One trade whose buyer's attestation changes; transfers outside the trade.
CONSTANTS
  Trades = {"t1"}
  Terms <- SlowTerms
  Specs <- Expected
  Joint <- Expected
  Attestations <- AllAttestations
  Granted <- Undisputed
  Revocable <- Changing
  MaxSupply = 1
  MaxInputs = 1
  MaxCopies = 1
  MaxTime = 3
SPECIFICATION Spec
PROPERTIES DeliveredWhileEligible
CHECK_DEADLOCK FALSE
