----------------------------- MODULE AtomicDvp -----------------------------
(***************************************************************************)
(* What delivery versus payment promises: balances change hands only in    *)
(* whole trades, both legs in one step with the agreed amounts, at most    *)
(* once per trade; otherwise only the registries create Treasury or cash   *)
(* and only the cash registry destroys some.  Module Settlement implements *)
(* this specification.                                                     *)
(***************************************************************************)
EXTENDS Integers

CONSTANTS Parties, Instruments, Trades,
          Legs          \* the two expected transfers of each trade

VARIABLES balance,      \* what each party owns of each instrument
          settled       \* trades that have been settled

vars == <<balance, settled>>

Init == /\ balance = [p \in Parties |-> [i \in Instruments |-> 0]]
        /\ settled = {}

Create(p, i) == /\ settled' = settled
                /\ balance'[p][i] > balance[p][i]
                /\ balance' = [balance EXCEPT ![p][i] = balance'[p][i]]

Destroy(p) == /\ settled' = settled
              /\ balance'[p]["cash"] < balance[p]["cash"]
              /\ balance' = [balance EXCEPT ![p]["cash"] = balance'[p]["cash"]]

Swap(t) ==
  LET d == Legs[t].delivery
      c == Legs[t].payment
  IN  /\ t \notin settled
      /\ settled' = settled \cup {t}
      /\ balance[d.sender][d.instrument] >= d.amount
      /\ balance[c.sender][c.instrument] >= c.amount
      /\ balance' = [balance EXCEPT ![d.sender][d.instrument] = @ - d.amount,
                                    ![d.receiver][d.instrument] = @ + d.amount,
                                    ![c.sender][c.instrument] = @ - c.amount,
                                    ![c.receiver][c.instrument] = @ + c.amount]

Next == \/ \E p \in Parties : Destroy(p) \/ \E i \in Instruments : Create(p, i)
        \/ \E t \in Trades : Swap(t)

Spec == Init /\ [][Next]_vars
=============================================================================
