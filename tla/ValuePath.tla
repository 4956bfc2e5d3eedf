----------------------------- MODULE ValuePath -----------------------------
(***************************************************************************)
(* What the bridge promises about the value of one operation, whatever     *)
(* the coordinator, the three ledgers and the network do: the value is in  *)
(* one place at a time and takes one of two routes,                        *)
(*                                                                         *)
(*    source -> vault -> canton -> burned -> paid                          *)
(*                   \-> refunded                                          *)
(*                                                                         *)
(* and the encrypted exposure covers it from before the lock until after   *)
(* the route has ended.  Module Coordinator implements this specification. *)
(***************************************************************************)
VARIABLES at,      \* where the value is
          exposed  \* an approved reservation is held for it

vars == <<at, exposed>>

Route == {<<"vault", "canton">>, <<"canton", "burned">>, <<"burned", "paid">>,
          <<"vault", "refunded">>}

Init == at = "source" /\ exposed = FALSE

Reserve == /\ at = "source" /\ ~exposed
           /\ exposed' = TRUE /\ at' = at

Lock == /\ at = "source" /\ exposed
        /\ at' = "vault" /\ exposed' = exposed

Move == /\ <<at, at'>> \in Route /\ exposed
        /\ exposed' = exposed

Free == /\ at \in {"paid", "refunded"} /\ exposed
        /\ exposed' = FALSE /\ at' = at

Next == Reserve \/ Lock \/ Move \/ Free

Spec == Init /\ [][Next]_vars
=============================================================================
