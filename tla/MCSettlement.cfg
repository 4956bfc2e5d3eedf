\* Two identical trades, their allocations and near misses.
CONSTANTS
  Trades = {"t1", "t2"}
  Terms <- MCTerms
  Specs <- AllSpecs
  Joint <- None
  Attestations <- Everyone
  Granted <- Everyone
  Revocable <- None
  MaxSupply = 2
  MaxInputs = 2
  MaxCopies = 1
  MaxTime = 2
SPECIFICATION Spec
INVARIANTS TypeOK LocksBackAllocations
PROPERTIES AtomicDvpImplemented
CHECK_DEADLOCK FALSE
