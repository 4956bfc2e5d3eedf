---------------------------- MODULE MCSettlement ----------------------------
(***************************************************************************)
(* Small instances of Settlement: identical trades, their expected         *)
(* allocations and near misses of them.                                    *)
(***************************************************************************)
EXTENDS Settlement

MCTerms == [t \in Trades |-> [delivery |-> 1, payment |-> 1,
                              allocateBefore |-> 1, settleBefore |-> 2]]

(* Terms that leave time to allocate after an attestation has changed.     *)
SlowTerms == [t \in Trades |-> [delivery |-> 1, payment |-> 1,
                                allocateBefore |-> 2, settleBefore |-> 3]]

Expected == {ExpectedAllocation(t, leg) : t \in Trades, leg \in LegIds}

(* A delivery of another amount and a payment with a later deadline.       *)
NearMisses == {[ExpectedAllocation("t1", "delivery") EXCEPT !.amount = 2],
               [ExpectedAllocation("t1", "payment") EXCEPT !.settleBefore = 3]}

AllSpecs == Expected \cup NearMisses

Good(i, p) == [instrument |-> i, investor |-> p, status |-> "Eligible", from |-> 0, until |-> 3]

Everyone == {Good(i, p) : i \in Instruments, p \in Parties}

BuyersTreasury == Good("treasury", "buyer")

(* The buyer's Treasury attestation comes and goes, and may instead be too *)
(* short, suspended or not yet valid.                                      *)
Changing == {BuyersTreasury, [BuyersTreasury EXCEPT !.until = 2],
             [BuyersTreasury EXCEPT !.status = "Suspended"],
             [BuyersTreasury EXCEPT !.from = 1]}

AllAttestations == Everyone \cup Changing

Undisputed == Everyone \ Changing

None == {}
=============================================================================
