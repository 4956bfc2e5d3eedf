----------------------------- MODULE BackedCash -----------------------------
(***************************************************************************)
(* What the bridge gateway promises about the stablecoin it issues: a lock *)
(* is minted at most once and redeemed at most once, in that order, each   *)
(* time for the amount locked, and nothing else changes the amount in      *)
(* circulation.  Module Gateway implements this specification.             *)
(***************************************************************************)
EXTENDS Integers

CONSTANTS Locks, Amount

VARIABLES stage,   \* "locked", "minted" or "redeemed", for each lock
          supply   \* stablecoin in circulation

vars == <<stage, supply>>

Init == stage = [l \in Locks |-> "locked"] /\ supply = 0

Mint(l) == /\ stage[l] = "locked"
           /\ stage' = [stage EXCEPT ![l] = "minted"]
           /\ supply' = supply + Amount[l]

Redeem(l) == /\ stage[l] = "minted"
             /\ stage' = [stage EXCEPT ![l] = "redeemed"]
             /\ supply' = supply - Amount[l]

Next == \E l \in Locks : Mint(l) \/ Redeem(l)

Spec == Init /\ [][Next]_vars
=============================================================================
