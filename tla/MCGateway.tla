----------------------------- MODULE MCGateway -----------------------------
(***************************************************************************)
(* A small instance of CantonHistory: locks for the same amount and trades *)
(* with the same legs, so that nothing but contract ids tells their coins  *)
(* apart, two honest attesters, a false one and an outsider.               *)
(***************************************************************************)
EXTENDS CantonHistory, TLC

MCTerms == [l \in Locks |-> [amount |-> 2, delivery |-> 1, digest |-> l, payout |-> l]]

MCLegs == [t \in Trades |-> [payment |-> 2, delivery |-> 1]]

MCAttesters == {"a1", "a2", "a3"}

Directions == {"mint", "redeem"}

(* The false attester and the outsider overstate the amount.               *)
Overstated == {[Honest(p, l, d) EXCEPT !.amount = 3] :
                 p \in {"a3", "outsider"}, l \in Locks, d \in Directions}

(* The false attester signs one more time for the lock, to be paid itself. *)
Diverted == {[Honest("a3", l, "redeem") EXCEPT !.payout = "a3"] : l \in Locks}

(* It may also sign the same false amount in two contracts.                *)
Repeated == {[a EXCEPT !.payout = "a3"] : a \in Overstated}

MCAttestations == {Honest(p, l, d) : p \in {"a1", "a2"}, l \in Locks, d \in Directions}
                    \cup Overstated \cup Diverted \cup Repeated

Interchangeable == Permutations(Locks) \cup Permutations(Trades)
=============================================================================
