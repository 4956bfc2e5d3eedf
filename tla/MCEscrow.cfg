\* One operation with competing destinations, terms and deadlines.
CONSTANTS
  Operations = {op1}
  Keys = {k1, k2, k3, k4}
  Accounts = {source, payee}
  Terms = {t1}
  Proofs = {p1}
  MaxTime = 3
SPECIFICATION Spec
SYMMETRY KeySymmetry
INVARIANTS TypeOK RecordsCoherent MintQuorumExcludesCancel TerminalIsApproved
PROPERTIES QuorumOnOneDigest NoStaleAuthorization ReceiptFinal
CHECK_DEADLOCK FALSE
