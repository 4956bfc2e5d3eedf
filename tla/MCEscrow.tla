------------------------------ MODULE MCEscrow ------------------------------
(* Escrow on small instances: attester keys are interchangeable.           *)
EXTENDS Escrow, TLC

KeySymmetry == Permutations(Keys)
=============================================================================
