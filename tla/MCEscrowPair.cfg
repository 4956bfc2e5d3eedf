\* Two operations that share the vault.
CONSTANTS
  Operations = {op1, op2}
  Keys = {k1, k2, k3}
  Accounts = {source}
  Terms = {t1}
  Proofs = {p1}
  MaxTime = 1
SPECIFICATION Spec
SYMMETRY KeySymmetry
INVARIANTS VaultBacked
CHECK_DEADLOCK FALSE
