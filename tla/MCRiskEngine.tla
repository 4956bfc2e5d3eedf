---------------------------- MODULE MCRiskEngine ----------------------------
(* RiskEngine on a small instance: reservation ids are interchangeable.    *)
EXTENDS RiskEngine, TLC

IdSymmetry == Permutations(Reservations)
=============================================================================
