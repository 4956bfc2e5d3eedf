CONSTANTS
  Operations = {o1, o2}
  Amounts = {1, 2}
  MaxAttempts = 2
  MaxFaults = 1
  Radix = 2
  MaxDecimals = 3
  Places = 2
  MaxU64 = 21
  MaxU128 = 85
SYMMETRY Symmetry
SPECIFICATION Spec
INVARIANTS DecryptableTruthful RecordsUsable ClosedIsSpendable AmountsExact
PROPERTIES CustodyImplemented
CHECK_DEADLOCK FALSE
