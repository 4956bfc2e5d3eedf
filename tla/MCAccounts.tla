---------------------------- MODULE MCAccounts ----------------------------
(***************************************************************************)
(* Accounts for TLC, together with the conversion of the amounts that its  *)
(* journals hold as base units.  Operations are interchangeable.           *)
(***************************************************************************)
EXTENDS Accounts, Units, TLC

Symmetry == Permutations(Operations)

(* The conversions of units.rs, canton.rs and canton_history.rs are exact, *)
(* invert each other and agree about which amounts are equal.  They depend *)
(* on no state: the first one of a behaviour is enough.                    *)
AmountsExact == attempts = 0 => UnitsAgree
=============================================================================
