\* Three reservations of two clients; limits below, at and above an amount;
\* MaxU small enough for the counters to overflow.
CONSTANTS
  Reservations = {r1, r2, r3}
  Clients = {c1, c2}
  MaxU = 4
  EpochModulus = 2
  Amounts = {0, 1, 2, 3}
  Limits = {2, 4}
SPECIFICATION Spec
SYMMETRY IdSymmetry
INVARIANTS TypeOK ExposureAccounted
PROPERTIES GrowthWithinPolicy RejectedIsInert
