------------------------------ MODULE Custody ------------------------------
(***************************************************************************)
(* What the bridge's token accounts promise over many operations: the      *)
(* whole supply is in one account at a time.  An operation takes it from   *)
(* an endpoint into the vault once, and it comes out once: back to where   *)
(* it was, or to the other endpoint.                                       *)
(***************************************************************************)
CONSTANTS Operations, Endpoints, Vault

VARIABLES holders,  \* the accounts that hold any of the supply
          stage     \* where each operation is on its way

vars == <<holders, stage>>

NotYet == [at |-> "none"]

Locked(from) == [at |-> "locked", from |-> from]

Init == holders = {} /\ stage = [o \in Operations |-> NotYet]

Fund == /\ holders = {}
        /\ \E e \in Endpoints : holders' = {e}
        /\ stage' = stage

Lock(o) == /\ stage[o] = NotYet
           /\ \E e \in Endpoints : /\ holders = {e}
                                   /\ stage' = [stage EXCEPT ![o] = Locked(e)]
           /\ holders' = {Vault}

(* A refund ends at the account the value came from, a payment elsewhere.  *)
Close(o) == \E e \in Endpoints, f \in Endpoints :
              /\ stage[o] = Locked(e) /\ holders = {Vault}
              /\ holders' = {f}
              /\ stage' = [stage EXCEPT ![o] = [at |-> IF f = e THEN "refunded" ELSE "paid"]]

Next == Fund \/ \E o \in Operations : Lock(o) \/ Close(o)

Spec == Init /\ [][Next]_vars
=============================================================================
