--------------------------- MODULE CantonHistory ---------------------------
(***************************************************************************)
(* The verifier of a completed operation.  When a coordinator resumes an   *)
(* operation whose redemption it recorded, it trusts neither its file nor  *)
(* the active contracts: verify-bridge-completion.canton prints the update *)
(* history of all participants as facts and connect_canton_history follows *)
(* the lock's value through them, from Gateway_Mint to the burn.           *)
(*                                                                         *)
(* The facts are merged per contract and update from the views of five     *)
(* participants and printed in no particular order, so a set is what the   *)
(* Rust code sees.  Instruments and registries are left out: there is one  *)
(* of each.                                                                *)
(***************************************************************************)
EXTENDS Gateway

(* What the coordinator recorded when it minted for the lock.              *)
MintHolding(l) == Cid("mint", <<"mint", l, 1>>)

(* unique_created and unique_exercised: none and several are errors.       *)
Sole(facts) == IF Cardinality(facts) = 1 THEN facts ELSE {}

(* consumed_in.                                                            *)
ConsumedIn(cid, update) ==
  \/ \E f \in archived : f.cid = cid /\ f.update = update
  \/ \E f \in exercised : f.consuming /\ f.cid = cid /\ f.update = update

(* The MintedLock of the lock, for the recorded holding and amount.        *)
MintedFor(l) ==
  {m \in Sole({f \in CreatedAs("MintedLock") : f.lock = l}) :
     /\ m.holding = MintHolding(l) /\ m.amount = Terms[l].amount
     /\ ~\E f \in CreatedAs("MintedLock") : f.holding = MintHolding(l) /\ f.lock # l
     /\ \E c \in CreatedAs("StablecoinHolding") :
          c.cid = m.holding /\ c.owner = m.beneficiary /\ c.amount = m.amount}

Bindings(l) == {f \in CreatedAs("BridgeTradeBinding") : f.lock = l}

(* Faulty variant: the recorded payment does not decide.                   *)
AnyBinding(l) == Bindings(l)

(* binding_for_lock keeps a binding with a recorded payment if there is    *)
(* one: max_by_key returns the last such, and the facts have no order.     *)
BindingForLock(l) ==
  LET paid == {b \in Bindings(l) : b.payment # {}}
  IN  IF paid # {} THEN paid ELSE Bindings(l)

(* authorized_binding: the lock's mint reference was consumed into its     *)
(* first binding, and all its bindings name one holding and one trade.     *)
Authorized(l, m) ==
  /\ Sole({f \in ExercisedAs("Gateway_Mint") : f.update = m.update}) # {}
  /\ \E ref \in Sole({f \in CreatedAs("BridgeMintRef") : f.update = m.update /\ f.lock = l}) :
       /\ ref.mintHolding = m.holding /\ ref.buyer = m.beneficiary
       /\ \E bind \in Sole({f \in ExercisedAs("BridgeMintRef_Bind") : f.cid = ref.cid}) :
            /\ ConsumedIn(ref.cid, bind.update)
            /\ \E b \in Sole({f \in Bindings(l) : f.update = bind.update}) :
                 b.mintHolding = m.holding
  /\ {b.mintHolding : b \in Bindings(l)} = {m.holding}
  /\ Cardinality({b.trade : b \in Bindings(l)}) = 1

(* The one payment allocation that names the minted holding; it consumed   *)
(* the holding and locked the whole amount for the seller.                 *)
AllocationsOf(l, m) ==
  {x \in Sole({f \in ExercisedAs("AllocationFactory_Allocate") : m.holding \in f.args.inputs}) :
     /\ ConsumedIn(m.holding, x.update)
     /\ x.args.sender = m.beneficiary /\ x.args.amount = Terms[l].amount}

(* allocation_locked_holding and the checks on what it finds.              *)
LockedBy(l, m, x) ==
  {c \in CreatedAs("StablecoinHolding") :
     /\ \E a \in CreatedAs("StablecoinAllocation") :
          a.cid = x.args.allocation /\ a.update = x.update /\ a.lockedHolding = c.cid
     /\ c.update = x.update /\ c.owner = m.beneficiary /\ c.amount = Terms[l].amount}

(* Faulty variant: the settled trade is not compared with the bound one.   *)
SettlesAny(s, b) == TRUE

SettlesBoundTrade(s, b) == s.cid = b.trade

(* The one settlement that used the payment allocation.                    *)
SettlementsOf(b, x, locked) ==
  {s \in Sole({f \in ExercisedAs("DvpTrade_Settle") : f.args.payment = x.args.allocation}) :
     /\ s.args.treasury # x.args.allocation
     /\ SettlesBoundTrade(s, b)
     /\ ConsumedIn(x.args.allocation, s.update) /\ ConsumedIn(locked.cid, s.update)}

(* Its two outputs: the seller's payment and the buyer's Treasury.         *)
SellerPayment(l, x, s) ==
  {c \in Sole({f \in CreatedAs("StablecoinHolding") :
                 f.update = s.update /\ f.owner = x.args.receiver /\ f.amount = Terms[l].amount}) :
     c.cid \in s.args.paymentResult}

BuyerTreasury(l, m, s) ==
  {c \in Sole({f \in CreatedAs("TreasuryHolding") :
                 f.update = s.update /\ f.owner = m.beneficiary /\ f.amount = Terms[l].delivery}) :
     c.cid \in s.args.treasuryResult}

(* The one redemption request of the lock, for that payment.               *)
RequestOf(l, x, coin) ==
  {q \in Sole({f \in CreatedAs("RedemptionRequest") : f.lock = l}) :
     /\ q.holding = coin.cid /\ q.payout = Terms[l].payout
     /\ q.amount = Terms[l].amount /\ q.holder = x.args.receiver}

(* The one Gateway_Redeem of the request burned the payment.               *)
Burned(l, m, b, x, coin, q) ==
  \E r \in Sole({f \in ExercisedAs("Gateway_Redeem") : f.args.request = q.cid}) :
    /\ r.args.mintedLock = m.cid /\ r.args.binding = b.cid
    /\ ConsumedIn(coin.cid, r.update)
    /\ \E f \in ExercisedAs("Burn") : f.cid = coin.cid /\ f.update = r.update
    /\ \E d \in Sole({f \in CreatedAs("RedeemedLock") : f.update = r.update /\ f.lock = l}) :
         d.amount = Terms[l].amount /\ d.holder = x.args.receiver

(* connect_canton_history, with the binding that binding_for_lock kept:    *)
(* the seller payments it returns in its evidence, one or none.            *)
Evidence(l, b) ==
  {coin \in CreatedAs("StablecoinHolding") :
     \E m \in MintedFor(l) :
       /\ Authorized(l, m)
       /\ \E x \in AllocationsOf(l, m) : \E locked \in LockedBy(l, m, x) :
            \E s \in SettlementsOf(b, x, locked) :
              /\ coin \in SellerPayment(l, x, s) /\ BuyerTreasury(l, m, s) # {}
              /\ \E q \in RequestOf(l, x, coin) : Burned(l, m, b, x, coin, q)}

(* What require_canton_ledger_evidence lets through: the evidence that     *)
(* some order of the facts yields.                                         *)
Accepted(l) == UNION {Evidence(l, b) : b \in BindingForLock(l)}

(* verify-bridge-completion.canton hands the facts on after making the     *)
(* same connections, one for one those of Evidence, but for the binding:   *)
(* it takes the one that records the payment.                              *)
ScriptAccepts(l) ==
  \E b \in Bindings(l) :
    /\ {p \in Bindings(l) : p.payment = b.payment} = {b}
    /\ \E coin \in Evidence(l, b) : b.payment = {coin.cid}

-----------------------------------------------------------------------------
(* Properties *)

(* A holding's value goes into the holdings its consuming update creates.  *)
FlowsInto(c, d) == \E f \in archived : f.cid = c.cid /\ f.update = d.update

(* Through the coin that the payment allocation locks.                     *)
PaidFrom(c, d) == \E locked \in CreatedAs("StablecoinHolding") :
                    locked.locked /\ FlowsInto(c, locked) /\ FlowsInto(locked, d)

BoundTrade(l) == {b.trade : b \in Bindings(l)}

(* Accepted evidence is true whatever was requested, recorded, bound and   *)
(* attested around it: the gateway redeemed this lock by burning this very *)
(* coin, it was paid out of the coin minted for the lock, the lock's own   *)
(* trade paid it against the buyer's Treasury, and no other lock's         *)
(* evidence is accepted on the same burn.                                  *)
EvidenceSound ==
  \A l \in Locks : \A coin \in Accepted(l) :
    /\ l \in gateway.redeemedLocks
    /\ \E f \in ExercisedAs("Burn") : f.cid = coin.cid /\ f.args.lock = l
    /\ \E c \in CreatedAs("StablecoinHolding") : c.cid = MintHolding(l) /\ PaidFrom(c, coin)
    /\ \E s \in ExercisedAs("DvpTrade_Settle"), bill \in CreatedAs("TreasuryHolding") :
         /\ BoundTrade(l) = {s.cid}
         /\ s.update = coin.update /\ s.update = bill.update /\ bill.owner = "buyer"
    /\ \A k \in Locks \ {l} : coin \notin Accepted(k)

(* The two implementations of the check do not part ways: what the console *)
(* script accepts, the Rust reader accepts in every order of the facts.    *)
ReadersAgree ==
  \A l \in Locks : ScriptAccepts(l) => \A b \in BindingForLock(l) : Evidence(l, b) # {}

(* The run of a coordinator that nothing disturbs: the minted coin alone   *)
(* pays the bound trade, which has the recorded amounts, the Treasury is   *)
(* recorded before the payment, the payment is the one the trade made, and *)
(* one request is redeemed.                                                *)
Undisturbed(l) ==
  /\ l \in gateway.redeemedLocks
  /\ Cardinality({f \in CreatedAs("RedemptionRequest") : f.lock = l}) = 1
  /\ \E b \in Active("BridgeTradeBinding") :
       /\ b.lock = l /\ b.treasury /\ b.update[1] = "record-payment"
       /\ \E s \in ExercisedAs("DvpTrade_Settle"), x \in ExercisedAs("AllocationFactory_Allocate") :
            /\ s.cid = b.trade /\ b.payment = s.args.paymentResult
            /\ s.args.payment = x.args.allocation /\ x.args.inputs = {MintHolding(l)}
            /\ x.args.amount = Terms[l].amount
            /\ \E bill \in CreatedAs("TreasuryHolding") :
                 bill.update = s.update /\ bill.amount = Terms[l].delivery

(* Such a run is accepted in every order in which the facts may be read    *)
(* back, so a finished operation is never refused as another one's.        *)
EvidenceComplete ==
  \A l \in Locks : Undisturbed(l) => \A b \in BindingForLock(l) : Evidence(l, b) # {}
=============================================================================
