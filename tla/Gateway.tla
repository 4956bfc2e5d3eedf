------------------------------ MODULE Gateway ------------------------------
(***************************************************************************)
(* The bridge gateway on the Canton ledger (daml/bridge-gateway): two of   *)
(* three attesters let it mint stablecoin for value locked on Solana, the  *)
(* buyer binds the lock to a trade and pays with the coin, the seller      *)
(* records what it was paid and asks for redemption, and the gateway burns *)
(* that coin.                                                              *)
(*                                                                         *)
(* Every choice is one Daml transaction, one action here.  The state is    *)
(* the update history as canton_history.rs reads it back: sets of created, *)
(* exercised and archived facts.  A contract is active when it was created *)
(* and not archived.  Contracts of several parties meet here under names,  *)
(* unlike in Settlement, because the gateway and the verifier follow       *)
(* contract ids; eligibility, deadlines, the Treasury side of a trade and  *)
(* the splitting of holdings are Settlement's subject and left out.        *)
(* There is one gateway, one registry and one stablecoin; the registry     *)
(* mints and burns through the gateway only.                               *)
(***************************************************************************)
EXTENDS Integers, FiniteSetsExt

CONSTANTS Locks,         \* locks on Solana, named by their lock ids
          Terms,         \* what the coordinator recorded of each lock
          Trades,        \* accepted trades between the buyer and the seller
          Legs,          \* amounts of the two legs of each trade
          Attesters,     \* the gateway's three attesters
          Attestations,  \* attestation contracts, from whomever
          Requesters,    \* parties that ask for redemption
          MaxRequests,   \* bound on the redemption requests
          MaxAllocations,\* bound on the payment allocations
          MaxRepeats     \* bound on any choice with the same subject

Parties == {"buyer", "seller"}

(* The contract an honest attester signs for a lock, once per direction.   *)
Honest(p, l, d) ==
  [attester |-> p, direction |-> d, lock |-> l,
   amount |-> Terms[l].amount, digest |-> Terms[l].digest,
   beneficiary |-> IF d = "mint" THEN "buyer" ELSE "seller",
   payout |-> IF d = "mint" THEN "none" ELSE Terms[l].payout]

(* What is signed is true: the lock exists and has these terms.            *)
Truthful(a) == a.lock \in Locks /\ a = Honest(a.attester, a.lock, a.direction)

(* Two of three signatures are asked for because one may be false.         *)
ASSUME GatewayAssumption ==
  /\ MaxRequests \in Nat /\ MaxAllocations \in Nat /\ MaxRepeats \in Nat
  /\ \A l \in Locks : Terms[l].amount \in Nat \ {0} /\ Terms[l].delivery \in Nat \ {0}
  /\ \A t \in Trades : Legs[t].payment \in Nat \ {0} /\ Legs[t].delivery \in Nat \ {0}
  /\ IsFiniteSet(Attesters) /\ Cardinality(Attesters) = 3
  /\ \A a \in Attestations : a.amount \in Nat \ {0} /\ a.attester \notin Parties
  /\ Cardinality({a.attester : a \in {b \in Attestations : ~Truthful(b)}} \cap Attesters) <= 1

VARIABLES created,    \* created facts: template, contract id, update, arguments
          exercised,  \* exercised facts: choice, contract id, update, arguments
          archived,   \* archived facts: contract id, update
          gateway     \* mintedLocks and redeemedLocks of the gateway contract

history == <<created, exercised, archived>>
vars == <<history, gateway>>

-----------------------------------------------------------------------------
(* Updates and contracts.  An update is named by its choice and subject    *)
(* and a contract by its role in the update that created it, so that the   *)
(* order of independent updates leaves no trace in the names.              *)

Updates == {f.update : f \in created}

Fresh(kind, subject) ==
  LET earlier == {u \in Updates : u[1] = kind /\ u[2] = subject}
  IN  {u \in {<<kind, subject, 1 + Cardinality(earlier)>>} : u[3] <= MaxRepeats}

Cid(role, update) == <<role, update>>

TradeCid(t) == Cid("trade", <<"accept", t, 1>>)

(* The seller's Treasury allocation for a trade, made before it settles.   *)
TreasuryAllocation(t) == Cid("treasury-allocation", <<"accept", t, 1>>)

CreatedAs(template) == {f \in created : f.template = template}

ExercisedAs(choice) == {f \in exercised : f.choice = choice}

Active(template) ==
  LET gone == {f.cid : f \in archived}
  IN  {f \in CreatedAs(template) : f.cid \notin gone}

StablecoinHolding(role, update, owner, amount, locked) ==
  [template |-> "StablecoinHolding", cid |-> Cid(role, update), update |-> update,
   owner |-> owner, amount |-> amount, locked |-> locked]

(* One transaction: the facts it leaves in the history.                    *)
Commit(update, creates, exercises, archives) ==
  /\ created' = created \cup creates
  /\ exercised' = exercised \cup exercises
  /\ archived' = archived \cup {[cid |-> c, update |-> update] : c \in archives}

(* A consuming exercise of a choice; r holds the arguments the history     *)
(* reader looks at.                                                        *)
Exercise(choice, cid, update, r) ==
  [choice |-> choice, cid |-> cid, update |-> update, consuming |-> TRUE, args |-> r]

-----------------------------------------------------------------------------
(* Gateway_Mint *)

(* Faulty variant: one attester may sign twice.                            *)
AnyTwo(first, second, direction) ==
  /\ first # second
  /\ first.attester \in Attesters /\ second.attester \in Attesters
  /\ first.direction = direction /\ second.direction = direction

(* Two attestation contracts by different configured attesters.            *)
Quorum(first, second, direction) ==
  /\ first # second /\ first.attester # second.attester
  /\ first.attester \in Attesters /\ second.attester \in Attesters
  /\ first.direction = direction /\ second.direction = direction

Agree(first, second, fields) == \A f \in fields : first[f] = second[f]

(* The mint attestations that a second one confirms.                       *)
MintClaims ==
  {first \in Attestations : \E second \in Attestations :
     /\ Quorum(first, second, "mint")
     /\ Agree(first, second, {"lock", "amount", "beneficiary", "digest"})}

Gateway_Mint(first) ==
  LET l == first.lock
  IN  /\ l \notin gateway.mintedLocks
      /\ first.beneficiary \in Parties
      /\ \E u \in Fresh("mint", l) :
           LET coin == StablecoinHolding("mint", u, first.beneficiary, first.amount, FALSE)
           IN  Commit(u, {coin,
                          [template |-> "MintedLock", cid |-> Cid("minted", u), update |-> u,
                           lock |-> l, holding |-> coin.cid, amount |-> first.amount,
                           beneficiary |-> first.beneficiary],
                          [template |-> "BridgeMintRef", cid |-> Cid("ref", u), update |-> u,
                           lock |-> l, mintHolding |-> coin.cid, buyer |-> first.beneficiary]},
                         {Exercise("Gateway_Mint", Cid("gateway", u), u, [lock |-> l])}, {})
      /\ gateway' = [gateway EXCEPT !.mintedLocks = @ \cup {l}]

-----------------------------------------------------------------------------
(* The binding of a lock to a trade *)

(* The buyer consumes the mint reference.  It may name any trade; the      *)
(* trades here are with the one seller, who is not the buyer, as the       *)
(* assertion of the choice demands.                                        *)
BridgeMintRef_Bind(ref, t) ==
  /\ \E u \in Fresh("bind", ref.lock) :
       Commit(u, {[template |-> "BridgeTradeBinding", cid |-> Cid("binding", u), update |-> u,
                   lock |-> ref.lock, mintHolding |-> ref.mintHolding, buyer |-> ref.buyer,
                   seller |-> "seller", trade |-> TradeCid(t),
                   treasury |-> FALSE, payment |-> {}]},
              {Exercise("BridgeMintRef_Bind", ref.cid, u, [lock |-> ref.lock])}, {ref.cid})
  /\ UNCHANGED gateway

(* Replace a binding by a copy with more recorded in it.                   *)
Rebind(kind, b, copy) ==
  /\ \E u \in Fresh(kind, b.lock) :
       Commit(u, {[copy EXCEPT !.cid = Cid("binding", u), !.update = u]}, {}, {b.cid})
  /\ UNCHANGED gateway

(* The buyer notes the Treasury it received, as a text nothing reads.      *)
BridgeTradeBinding_RecordTreasury(b) ==
  /\ ~b.treasury
  /\ Rebind("record-treasury", b, [b EXCEPT !.treasury = TRUE])

(* The seller notes a holding as its payment, and no choice compares it    *)
(* with what the trade paid.  Only coins it owns are tried: Gateway_Redeem *)
(* fetches the recorded one and refuses it unless the holder owns it.      *)
BridgeTradeBinding_RecordPayment(b, coin) ==
  /\ coin.owner = b.seller
  /\ b.payment = {}
  /\ Rebind("record-payment", b, [b EXCEPT !.payment = {coin.cid}])

-----------------------------------------------------------------------------
(* Payment *)

Total(coins) == MapThenSumSet(LAMBDA c : c.amount, coins)

(* Faulty variant: change is created whatever is left.                     *)
ChangeAlways(u, rest) == {StablecoinHolding("change", u, "buyer", rest, FALSE)}

(* Holdings must have a positive amount, so none is created for nothing.   *)
Change(u, rest) ==
  IF rest > 0 THEN {StablecoinHolding("change", u, "buyer", rest, FALSE)} ELSE {}

(* AllocationFactory_Allocate for the payment leg of a trade.              *)
Allocate(t, inputs) ==
  /\ Cardinality(CreatedAs("StablecoinAllocation")) < MaxAllocations
  /\ inputs # {}
  /\ \A c \in inputs : c.owner = "buyer" /\ ~c.locked
  /\ Total(inputs) >= Legs[t].payment
  /\ \E u \in Fresh("allocate", t) :
       LET coin == StablecoinHolding("locked", u, "buyer", Legs[t].payment, TRUE)
           leg  == [inputs |-> {c.cid : c \in inputs}, sender |-> "buyer",
                    receiver |-> "seller", amount |-> Legs[t].payment,
                    allocation |-> Cid("allocation", u)]
       IN  Commit(u, Change(u, Total(inputs) - Legs[t].payment) \cup
                     {coin, [template |-> "StablecoinAllocation", cid |-> Cid("allocation", u),
                             update |-> u, for |-> t, lockedHolding |-> coin.cid]},
                  {[Exercise("AllocationFactory_Allocate", Cid("rules", u), u, leg)
                      EXCEPT !.consuming = FALSE]},
                  {c.cid : c \in inputs})
  /\ UNCHANGED gateway

(* Allocation_Withdraw: the locked coin returns to the buyer as a new one. *)
Withdraw(a) ==
  /\ \E u \in Fresh("withdraw", a.for) :
       Commit(u, {StablecoinHolding("returned", u, "buyer", Legs[a.for].payment, FALSE)},
              {}, {a.cid, a.lockedHolding})
  /\ UNCHANGED gateway

(* DvpTrade_Settle: both legs change hands in one update, once per trade.  *)
DvpTrade_Settle(t, a) ==
  /\ \A f \in ExercisedAs("DvpTrade_Settle") : f.cid # TradeCid(t)
  /\ a.for = t
  /\ \E u \in Fresh("settle", t) :
       LET coin == StablecoinHolding("payment", u, "seller", Legs[t].payment, FALSE)
           bill == [template |-> "TreasuryHolding", cid |-> Cid("delivery", u), update |-> u,
                    owner |-> "buyer", amount |-> Legs[t].delivery]
       IN  Commit(u, {coin, bill},
                  {Exercise("DvpTrade_Settle", TradeCid(t), u,
                            [payment |-> a.cid, treasury |-> TreasuryAllocation(t),
                             paymentResult |-> {coin.cid}, treasuryResult |-> {bill.cid}])},
                  {a.cid, a.lockedHolding})
  /\ UNCHANGED gateway

-----------------------------------------------------------------------------
(* Redemption *)

(* A holder may sign a request for any lock, on the terms of any other,    *)
(* naming any coin it owns; requests are checked when they are redeemed,   *)
(* where one for another coin or amount is refused.                        *)
RedemptionRequest(coin, l, k) ==
  /\ coin.owner \in Requesters
  /\ Cardinality(CreatedAs("RedemptionRequest")) < MaxRequests
  /\ \E u \in Fresh("request", l) :
       Commit(u, {[template |-> "RedemptionRequest", cid |-> Cid("request", u), update |-> u,
                   holder |-> coin.owner, lock |-> l, holding |-> coin.cid, amount |-> coin.amount,
                   digest |-> Terms[k].digest, payout |-> Terms[k].payout]}, {}, {})
  /\ UNCHANGED gateway

(* The lock's binding names the holding to be burned.                      *)
BindingMatches(b, request) ==
  /\ b.lock = request.lock /\ b.seller = request.holder
  /\ b.payment = {request.holding}

(* The redeem attestations that a second one confirms.                     *)
RedeemClaims ==
  {first \in Attestations : \E second \in Attestations :
     /\ Quorum(first, second, "redeem")
     /\ Agree(first, second, {"lock", "amount", "beneficiary", "digest", "payout"})}

(* Gateway_Redeem; the request, the attestations, the minted lock and the  *)
(* binding are fetched and stay active, the holding is burned.             *)
Gateway_Redeem(request, first, minted, b, coin) ==
  LET l == request.lock
  IN  /\ request.holding = coin.cid
      /\ coin.owner = request.holder /\ ~coin.locked /\ coin.amount = request.amount
      /\ Agree(first, request, {"lock", "amount", "digest", "payout"})
      /\ first.beneficiary = request.holder
      /\ minted.lock = l /\ l \in gateway.mintedLocks
      /\ minted.amount = request.amount
      /\ l \notin gateway.redeemedLocks
      /\ BindingMatches(b, request)
      /\ \E u \in Fresh("redeem", l) :
           Commit(u, {[template |-> "RedeemedLock", cid |-> Cid("redeemed", u), update |-> u,
                       lock |-> l, amount |-> request.amount, holder |-> request.holder]},
                  {Exercise("Gateway_Redeem", Cid("gateway", u), u,
                            [request |-> request.cid, mintedLock |-> minted.cid,
                             binding |-> b.cid]),
                   Exercise("Burn", coin.cid, u, [lock |-> l])},
                  {coin.cid})
      /\ gateway' = [gateway EXCEPT !.redeemedLocks = @ \cup {l}]

-----------------------------------------------------------------------------
(* The specification *)

Init == /\ created = {} /\ exercised = {} /\ archived = {}
        /\ gateway = [mintedLocks |-> {}, redeemedLocks |-> {}]

Coins == Active("StablecoinHolding")

Next ==
  \/ \E first \in MintClaims : Gateway_Mint(first)
  \/ \E ref \in Active("BridgeMintRef"), t \in Trades : BridgeMintRef_Bind(ref, t)
  \/ \E b \in Active("BridgeTradeBinding") : BridgeTradeBinding_RecordTreasury(b)
  \/ \E b \in Active("BridgeTradeBinding"), coin \in Coins :
       BridgeTradeBinding_RecordPayment(b, coin)
  \/ \E t \in Trades, inputs \in SUBSET Coins : Allocate(t, inputs)
  \/ \E a \in Active("StablecoinAllocation") : Withdraw(a)
  \/ \E t \in Trades, a \in Active("StablecoinAllocation") : DvpTrade_Settle(t, a)
  \/ \E coin \in Coins, l, k \in Locks : RedemptionRequest(coin, l, k)
  \/ \E request \in Active("RedemptionRequest"), first \in RedeemClaims,
        minted \in Active("MintedLock"), b \in Active("BridgeTradeBinding"), coin \in Coins :
       Gateway_Redeem(request, first, minted, b, coin)

Spec == Init /\ [][Next]_vars

-----------------------------------------------------------------------------
(* Properties *)

(* Every holding has a positive amount, contract ids are not reused, and   *)
(* only a contract that was created is archived, once.                     *)
TypeOK ==
  /\ \A f \in CreatedAs("StablecoinHolding") : f.owner \in Parties /\ f.amount \in Nat \ {0}
  /\ Cardinality({f.cid : f \in created}) = Cardinality(created)
  /\ Cardinality({f.cid : f \in archived}) = Cardinality(archived)
  /\ {f.cid : f \in archived} \subseteq {f.cid : f \in created}
  /\ gateway.redeemedLocks \subseteq gateway.mintedLocks /\ gateway.mintedLocks \subseteq Locks

Backed == INSTANCE BackedCash WITH
            Amount <- [l \in Locks |-> Terms[l].amount],
            stage  <- [l \in Locks |->
                         IF l \in gateway.redeemedLocks THEN "redeemed"
                         ELSE IF l \in gateway.mintedLocks THEN "minted" ELSE "locked"],
            supply <- Total(Coins)

(* The gateway issues backed cash only: with at most one false attester,   *)
(* each lock is minted once and redeemed once, for the amount locked on    *)
(* Solana, and no trade or withdrawal changes the supply.                  *)
CashIsBacked == Backed!Spec
=============================================================================
