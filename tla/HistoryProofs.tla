--------------------------- MODULE HistoryProofs ---------------------------
(***************************************************************************)
(* What the verifier of a completed operation may conclude, for any locks, *)
(* trades and attestations with at most one false attester: accepted       *)
(* evidence is true, both readers of the history agree, and an undisturbed *)
(* run is accepted.                                                        *)
(*                                                                         *)
(* HInv says what each fact of the history stands for.  Most of it is of   *)
(* one form: facts of the same update, or facts archived by it, exist.     *)
(* Facts are never removed (Grows), so only the facts of the last update   *)
(* need an argument.  The exception are the bindings of a lock, which form *)
(* a chain with one active end (ChainInv).                                 *)
(***************************************************************************)
EXTENDS CantonHistory, GatewayProofs

-----------------------------------------------------------------------------
(* The invariant *)

MintUpdate(l) == <<"mint", l, 1>>

ArchivedAt(c, u) == \E f \in archived : f.cid = c /\ f.update = u

(* The first binding of a lock consumed its mint reference.                *)
Bound(l) ==
  \E e \in ExercisedAs("BridgeMintRef_Bind"), b \in Bindings(l) :
    e.cid = Cid("ref", MintUpdate(l)) /\ b.update = e.update

HoldingFact(f) == f.update[1] = "settle" => f.cid[1] = "payment"

MintedFact(f) == f.cid = Cid("minted", MintUpdate(f.lock)) /\ f.lock \in gateway.mintedLocks

RefFact(f) == /\ f.cid = Cid("ref", MintUpdate(f.lock)) /\ f.lock \in gateway.mintedLocks
              /\ f.mintHolding = MintHolding(f.lock)

BindingFact(f) == /\ f.cid = Cid("binding", f.update) /\ f.lock \in gateway.mintedLocks
                  /\ f.mintHolding = MintHolding(f.lock) /\ f.seller = "seller"
                  /\ Bound(f.lock)

RedeemedLockFact(f) == /\ f.cid = Cid("redeemed", f.update) /\ f.update[2] = f.lock
                       /\ f.lock \in gateway.redeemedLocks

CreatedFact(f) ==
  /\ f.cid[1] \notin {"gateway", "trade"}
  /\ f.template = "StablecoinHolding" => HoldingFact(f)
  /\ f.template = "TreasuryHolding" => f.cid = Cid("delivery", f.update)
  /\ f.template = "StablecoinAllocation" => f.for = f.update[2]
  /\ f.template = "MintedLock" => MintedFact(f)
  /\ f.template = "BridgeMintRef" => RefFact(f)
  /\ f.template = "BridgeTradeBinding" => BindingFact(f)
  /\ f.template = "RedeemedLock" => RedeemedLockFact(f)

AllocateFact(e) ==
  /\ e.args.sender = "buyer" /\ e.args.receiver = "seller"
  /\ e.args.allocation = Cid("allocation", e.update)
  /\ e.args.amount = Legs[e.update[2]].payment
  /\ \A c \in e.args.inputs : ArchivedAt(c, e.update)
  /\ \E a \in CreatedAs("StablecoinAllocation") : a.cid = Cid("allocation", e.update)
  /\ \E c \in CreatedAs("StablecoinHolding") :
       c.cid = Cid("locked", e.update) /\ c.owner = "buyer" /\ c.amount = e.args.amount

(* The update of the allocation that a settlement used.                    *)
SettlesFrom(e, v) ==
  /\ e.args.payment = Cid("allocation", v) /\ v[2] = e.update[2]
  /\ ArchivedAt(Cid("allocation", v), e.update) /\ ArchivedAt(Cid("locked", v), e.update)

SettleFact(e) ==
  /\ e.update[1] = "settle" /\ \E v \in Updates : SettlesFrom(e, v)
  /\ e.args.treasury[1] = "treasury-allocation"
  /\ e.args.paymentResult = {Cid("payment", e.update)}
  /\ e.args.treasuryResult = {Cid("delivery", e.update)}
  /\ \E c \in CreatedAs("StablecoinHolding") :
       c.cid = Cid("payment", e.update) /\ c.owner = "seller" /\ c.amount = Legs[e.update[2]].payment
  /\ \E c \in CreatedAs("TreasuryHolding") : c.cid = Cid("delivery", e.update) /\ c.owner = "buyer"

(* The redemption of a lock: its request, binding, burn and receipt.       *)
RedeemFact(e) ==
  LET l == e.update[2]
  IN  /\ l \in gateway.redeemedLocks
      /\ e.args.mintedLock = Cid("minted", MintUpdate(l))
      /\ \E q \in CreatedAs("RedemptionRequest"), b \in Bindings(l) :
           /\ q.cid = e.args.request /\ q.lock = l /\ q.amount = Terms[l].amount
           /\ q.payout = Terms[l].payout /\ q.holder = "seller"
           /\ e.args.binding = b.cid /\ b.payment = {q.holding}
           /\ \E f \in ExercisedAs("Burn") : f.cid = q.holding /\ f.update = e.update
      /\ \E d \in CreatedAs("RedeemedLock") :
           d.update = e.update /\ d.lock = l /\ d.amount = Terms[l].amount /\ d.holder = "seller"

ExercisedFact(e) ==
  /\ e.update \in Updates
  /\ e.consuming => ArchivedAt(e.cid, e.update) \/ e.cid[1] \in {"gateway", "trade"}
  /\ e.choice = "Burn" => e.args.lock = e.update[2] /\ ArchivedAt(e.cid, e.update)
  /\ e.choice = "BridgeMintRef_Bind" => ArchivedAt(e.cid, e.update)
  /\ e.choice = "AllocationFactory_Allocate" => AllocateFact(e)
  /\ e.choice = "DvpTrade_Settle" => SettleFact(e)
  /\ e.choice = "Gateway_Redeem" => RedeemFact(e)

(* Facts of the history, and what tells exercises apart.                   *)
RecordInv ==
  /\ \A f \in created : CreatedFact(f)
  /\ \A e \in exercised : ExercisedFact(e)
  /\ \A e, f \in exercised : e.choice = f.choice /\ e.update = f.update => e = f

(* What Gateway_Mint left behind for a lock.                               *)
MintedOnce(l) ==
  /\ \E c \in CreatedAs("StablecoinHolding") :
       c.cid = MintHolding(l) /\ c.owner = "buyer" /\ c.amount = Terms[l].amount
  /\ \E m \in CreatedAs("MintedLock") :
       /\ m.lock = l /\ m.holding = MintHolding(l) /\ m.update = MintUpdate(l)
       /\ m.beneficiary = "buyer" /\ m.amount = Terms[l].amount
  /\ \E r \in CreatedAs("BridgeMintRef") :
       r.lock = l /\ r.mintHolding = MintHolding(l) /\ r.buyer = "buyer" /\ r.update = MintUpdate(l)
  /\ \E e \in ExercisedAs("Gateway_Mint") : e.update = MintUpdate(l)

(* Locks are minted in their first update and redeemed once.               *)
LockInv ==
  /\ \A l \in gateway.mintedLocks : MintedOnce(l)
  /\ \A u \in Updates : u[1] = "mint" => u[2] \in gateway.mintedLocks
  /\ \A m \in CreatedAs("MintedLock") : m.holding = MintHolding(m.lock)
  /\ \A l \in gateway.redeemedLocks : \E e \in ExercisedAs("Gateway_Redeem") : e.update[2] = l
  /\ \A e, f \in ExercisedAs("Gateway_Redeem") : e.update[2] = f.update[2] => e = f

(* The bindings of a lock are a chain: one reference starts it, one of     *)
(* them is active, and what was recorded as the payment stays.             *)
ChainInv ==
  \A b \in CreatedAs("BridgeTradeBinding") :
    /\ Cid("ref", MintUpdate(b.lock)) \in Gone
    /\ \A c \in Bindings(b.lock) :
         /\ c.trade = b.trade
         /\ b.payment # {} /\ c.payment # {} => b.payment = c.payment
         /\ b.cid \notin Gone =>
              /\ c.cid \notin Gone => b = c
              /\ c.payment # {} => b.payment = c.payment
              /\ b.update[1] = "record-payment" /\ c.payment # {} => b = c

HInv == RecordInv /\ LockInv /\ ChainInv

-----------------------------------------------------------------------------
(* Reading the evidence *)

LEMMA SoleIn ==
  ASSUME NEW S, NEW x \in Sole(S)
  PROVE  x \in S
BY DEF Sole

LEMMA SoleIs ==
  ASSUME NEW S, NEW x \in S, \A y \in S : y = x
  PROVE  Sole(S) = {x}
<1>1. S = {x}
  OBVIOUS
<1>2. Cardinality(S) = 1
  BY <1>1, FS_Singleton
<1> QED BY <1>1, <1>2 DEF Sole

(* The facts that one piece of evidence connects.                          *)
Connects(l, b, coin, m, x, s, locked, q) ==
  /\ m \in MintedFor(l) /\ Authorized(l, m)
  /\ x \in AllocationsOf(l, m) /\ locked \in LockedBy(l, m, x)
  /\ s \in SettlementsOf(b, x, locked)
  /\ coin \in SellerPayment(l, x, s) /\ BuyerTreasury(l, m, s) # {}
  /\ q \in RequestOf(l, x, coin) /\ Burned(l, m, b, x, coin, q)

LEMMA EvidenceIs ==
  ASSUME NEW l, NEW b, NEW coin
  PROVE  coin \in Evidence(l, b) <=> \E m, x, s, locked, q : Connects(l, b, coin, m, x, s, locked, q)
<1>1. ASSUME NEW m, NEW x, NEW s, NEW locked, NEW q, Connects(l, b, coin, m, x, s, locked, q)
      PROVE  coin \in Evidence(l, b)
  <2>1. coin \in CreatedAs("StablecoinHolding")
    BY <1>1, SoleIn DEF Connects, SellerPayment
  <2> QED BY <2>1, <1>1 DEF Connects, Evidence
<1>2. coin \in Evidence(l, b) => \E m, x, s, locked, q : Connects(l, b, coin, m, x, s, locked, q)
  BY DEF Connects, Evidence
<1> QED BY <1>1, <1>2

LEMMA Consumed ==
  ASSUME HInv, NEW f \in created, NEW u, ConsumedIn(f.cid, u)
  PROVE  ArchivedAt(f.cid, u)
<1>1. f.cid[1] \notin {"gateway", "trade"}
  BY DEF HInv, RecordInv, CreatedFact
<1>2. \A e \in exercised : e.consuming =>
        ArchivedAt(e.cid, e.update) \/ e.cid[1] \in {"gateway", "trade"}
  BY DEF HInv, RecordInv, ExercisedFact
<1> QED BY <1>1, <1>2 DEF ConsumedIn, ArchivedAt

(* A contract is archived by one update.                                   *)
LEMMA ArchivedOnce ==
  ASSUME GInv, NEW c, NEW u, NEW v, ArchivedAt(c, u), ArchivedAt(c, v)
  PROVE  u = v
BY DEF GInv, StructInv, ArchivedAt

(* What one piece of evidence says, fact by fact.                          *)
Says(l, b, coin, m, x, s, locked) ==
  /\ m.holding = MintHolding(l)
  /\ \E c \in CreatedAs("StablecoinHolding") : c.cid = m.holding
  /\ Cardinality({d.trade : d \in Bindings(l)}) = 1
  /\ x \in ExercisedAs("AllocationFactory_Allocate") /\ ConsumedIn(m.holding, x.update)
  /\ x.args.sender = m.beneficiary
  /\ locked \in CreatedAs("StablecoinHolding") /\ locked.update = x.update
  /\ \E a \in CreatedAs("StablecoinAllocation") : a.lockedHolding = locked.cid
  /\ s \in ExercisedAs("DvpTrade_Settle") /\ s.cid = b.trade
  /\ ConsumedIn(locked.cid, s.update)
  /\ coin \in CreatedAs("StablecoinHolding") /\ coin.update = s.update
  /\ \E c \in CreatedAs("TreasuryHolding") : c.update = s.update /\ c.owner = m.beneficiary
  /\ \E f \in ExercisedAs("Burn"), d \in CreatedAs("RedeemedLock") :
       f.cid = coin.cid /\ d.update = f.update /\ d.lock = l

LEMMA ConnectsFacts ==
  ASSUME NEW l, NEW b, NEW coin, NEW m, NEW x, NEW s, NEW locked, NEW q,
         Connects(l, b, coin, m, x, s, locked, q)
  PROVE  Says(l, b, coin, m, x, s, locked)
<1>1. /\ m.holding = MintHolding(l)
      /\ \E c \in CreatedAs("StablecoinHolding") : c.cid = m.holding
      /\ Cardinality({d.trade : d \in Bindings(l)}) = 1
  BY DEF Connects, MintedFor, Authorized
<1>2. /\ x \in ExercisedAs("AllocationFactory_Allocate") /\ ConsumedIn(m.holding, x.update)
      /\ x.args.sender = m.beneficiary
  BY SoleIn DEF Connects, AllocationsOf
<1>3. /\ locked \in CreatedAs("StablecoinHolding") /\ locked.update = x.update
      /\ \E a \in CreatedAs("StablecoinAllocation") : a.lockedHolding = locked.cid
  BY DEF Connects, LockedBy
<1>4. /\ s \in ExercisedAs("DvpTrade_Settle") /\ s.cid = b.trade
      /\ ConsumedIn(locked.cid, s.update)
  BY SoleIn DEF Connects, SettlementsOf, SettlesBoundTrade
<1>5. coin \in CreatedAs("StablecoinHolding") /\ coin.update = s.update
  BY SoleIn DEF Connects, SellerPayment
<1>6. \E c \in CreatedAs("TreasuryHolding") : c.update = s.update /\ c.owner = m.beneficiary
  <2>1. PICK c : c \in BuyerTreasury(l, m, s)
    BY DEF Connects
  <2>2. c \in Sole({f \in CreatedAs("TreasuryHolding") :
                 f.update = s.update /\ f.owner = m.beneficiary /\ f.amount = Terms[l].delivery})
    BY <2>1 DEF BuyerTreasury
  <2> QED BY <2>2, SoleIn
<1>7. \E f \in ExercisedAs("Burn"), d \in CreatedAs("RedeemedLock") :
        f.cid = coin.cid /\ d.update = f.update /\ d.lock = l
  <2>1. PICK r : /\ \E f \in ExercisedAs("Burn") : f.cid = coin.cid /\ f.update = r.update
                 /\ \E d \in Sole({f \in CreatedAs("RedeemedLock") : f.update = r.update /\ f.lock = l}) :
                      d.amount = Terms[l].amount
    BY DEF Connects, Burned
  <2> QED BY <2>1, SoleIn
<1> QED BY <1>1, <1>2, <1>3, <1>4, <1>5, <1>6, <1>7 DEF Says

(* The burn behind the evidence names the lock and the update.             *)
LEMMA BurnNamesLock ==
  ASSUME HInv, NEW f \in ExercisedAs("Burn"), NEW d \in CreatedAs("RedeemedLock"),
         d.update = f.update
  PROVE  /\ d.lock \in gateway.redeemedLocks /\ f.args.lock = d.lock /\ d.lock = f.update[2]
         /\ ArchivedAt(f.cid, f.update)
<1>1. f \in exercised /\ f.choice = "Burn" /\ d \in created /\ d.template = "RedeemedLock"
  BY DEF ExercisedAs, CreatedAs
<1>2. f.args.lock = f.update[2] /\ ArchivedAt(f.cid, f.update)
  BY <1>1 DEF HInv, RecordInv, ExercisedFact
<1>3. d.update[2] = d.lock /\ d.lock \in gateway.redeemedLocks
  BY <1>1 DEF HInv, RecordInv, CreatedFact, RedeemedLockFact
<1> QED BY <1>2, <1>3

LEMMA Sound == GInv /\ HInv => EvidenceSound
<1> SUFFICES ASSUME GInv, HInv, NEW l \in Locks, NEW coin \in Accepted(l)
             PROVE  /\ l \in gateway.redeemedLocks
                    /\ \E f \in ExercisedAs("Burn") : f.cid = coin.cid /\ f.args.lock = l
                    /\ \E c \in CreatedAs("StablecoinHolding") :
                         c.cid = MintHolding(l) /\ PaidFrom(c, coin)
                    /\ \E s \in ExercisedAs("DvpTrade_Settle"), bill \in CreatedAs("TreasuryHolding") :
                         /\ BoundTrade(l) = {s.cid}
                         /\ s.update = coin.update /\ s.update = bill.update /\ bill.owner = "buyer"
                    /\ \A k \in Locks \ {l} : coin \notin Accepted(k)
  BY DEF EvidenceSound
<1>0. PICK b \in BindingForLock(l) : coin \in Evidence(l, b)
  BY DEF Accepted
<1>1. PICK m, x, s, locked : Says(l, b, coin, m, x, s, locked) /\ b \in Bindings(l)
  BY <1>0, EvidenceIs, ConnectsFacts DEF BindingForLock
<1>2. PICK f \in ExercisedAs("Burn"), d \in CreatedAs("RedeemedLock") :
        f.cid = coin.cid /\ d.update = f.update /\ d.lock = l
  BY <1>1 DEF Says
<1>3. l \in gateway.redeemedLocks /\ f.args.lock = l
  BY <1>2, BurnNamesLock
<1>4. \E c \in CreatedAs("StablecoinHolding") : c.cid = MintHolding(l) /\ PaidFrom(c, coin)
  <2>1. PICK c \in CreatedAs("StablecoinHolding") : c.cid = MintHolding(l) /\ c.cid = m.holding
    BY <1>1 DEF Says
  <2>2. /\ locked \in CreatedAs("StablecoinHolding") /\ locked.update = x.update
        /\ coin.update = s.update
        /\ ConsumedIn(c.cid, x.update) /\ ConsumedIn(locked.cid, s.update)
    BY <1>1, <2>1 DEF Says
  <2>3. c \in created /\ locked \in created
    BY <2>2 DEF CreatedAs
  <2>4. ArchivedAt(c.cid, x.update) /\ ArchivedAt(locked.cid, s.update)
    BY <2>2, <2>3, Consumed
  <2>5. FlowsInto(c, locked) /\ FlowsInto(locked, coin)
    BY <2>2, <2>4 DEF FlowsInto, ArchivedAt
  <2>6. locked.locked = TRUE
    <3>1. PICK a \in CreatedAs("StablecoinAllocation") : a.lockedHolding = locked.cid
      BY <1>1 DEF Says
    <3>2. locked.cid = Cid("locked", a.update) /\ CoinOK(locked)
      BY <2>2, <3>1 DEF GInv, FactInv, AllocationOK
    <3>3. locked.cid[1] = "locked"
      BY <3>2 DEF Cid
    <3> QED BY <3>2, <3>3 DEF CoinOK
  <2> QED BY <2>1, <2>2, <2>5, <2>6 DEF PaidFrom
<1>5. \E t \in ExercisedAs("DvpTrade_Settle"), bill \in CreatedAs("TreasuryHolding") :
        /\ BoundTrade(l) = {t.cid}
        /\ t.update = coin.update /\ t.update = bill.update /\ bill.owner = "buyer"
  <2>1. /\ s \in ExercisedAs("DvpTrade_Settle") /\ s.cid = b.trade /\ s.update = coin.update
        /\ Cardinality(BoundTrade(l)) = 1
    BY <1>1 DEF Says, BoundTrade
  <2>2. BoundTrade(l) = {s.cid}
    <3>1. IsFiniteSet(BoundTrade(l))
      <4> DEFINE trade == [c \in Bindings(l) |-> c.trade]
      <4>1. IsFiniteSet(Bindings(l))
        BY FS_Subset DEF Bindings, CreatedAs, GInv, StructInv
      <4>2. DOMAIN trade = Bindings(l) /\ trade = [c \in Bindings(l) |-> trade[c]]
        OBVIOUS
      <4>3. IsFiniteSet({trade[c] : c \in Bindings(l)})
        <5> HIDE DEF trade
        <5> QED BY <4>1, <4>2, Image
      <4> QED BY <4>3 DEF BoundTrade
    <3>2. PICK t : BoundTrade(l) = {t}
      BY <2>1, <3>1, FS_Singleton
    <3>3. b.trade \in BoundTrade(l)
      BY <1>1 DEF BoundTrade
    <3> QED BY <2>1, <3>2, <3>3
  <2>3. m.beneficiary = "buyer"
    <3>1. x \in ExercisedAs("AllocationFactory_Allocate") /\ x.args.sender = m.beneficiary
      BY <1>1 DEF Says
    <3> QED BY <3>1 DEF ExercisedAs, HInv, RecordInv, ExercisedFact, AllocateFact
  <2> QED BY <1>1, <2>1, <2>2, <2>3 DEF Says
<1>6. ASSUME NEW k \in Locks, coin \in Accepted(k) PROVE k = l
  <2>0. PICK c : coin \in Evidence(k, c)
    BY <1>6 DEF Accepted
  <2>1. PICK m1, x1, s1, locked1 : Says(k, c, coin, m1, x1, s1, locked1)
    BY <2>0, EvidenceIs, ConnectsFacts
  <2>2. PICK g \in ExercisedAs("Burn"), e \in CreatedAs("RedeemedLock") :
          g.cid = coin.cid /\ e.update = g.update /\ e.lock = k
    BY <2>1 DEF Says
  <2>3. ArchivedAt(coin.cid, f.update) /\ l = f.update[2]
    BY <1>2, BurnNamesLock
  <2>4. ArchivedAt(coin.cid, g.update) /\ k = g.update[2]
    BY <2>2, BurnNamesLock
  <2> QED BY <2>3, <2>4, ArchivedOnce
<1> QED BY <1>2, <1>3, <1>4, <1>5, <1>6

(* Both readers: the one recorded payment decides for both.                *)
LEMMA Agreement == GInv /\ HInv => ReadersAgree
<1> SUFFICES ASSUME GInv, HInv, NEW l \in Locks, ScriptAccepts(l), NEW c \in BindingForLock(l)
             PROVE  Evidence(l, c) # {}
  BY DEF ReadersAgree
<1>1. PICK b \in Bindings(l) : /\ {p \in Bindings(l) : p.payment = b.payment} = {b}
                               /\ \E coin \in Evidence(l, b) : b.payment = {coin.cid}
  BY DEF ScriptAccepts
<1>2. b.payment # {}
  BY <1>1
<1>3. c \in Bindings(l) /\ c.payment # {}
  BY <1>1, <1>2 DEF BindingForLock
<1>4. b.lock = l /\ b \in CreatedAs("BridgeTradeBinding")
  BY DEF Bindings
<1>5. c.payment = b.payment
  BY <1>2, <1>3, <1>4 DEF HInv, ChainInv
<1>6. c = b
  BY <1>1, <1>3, <1>5
<1> QED BY <1>1, <1>6

-----------------------------------------------------------------------------
(* An undisturbed run *)

LEMMA ExercisedFacts ==
  ASSUME HInv, NEW T, NEW e \in ExercisedAs(T)
  PROVE  e \in exercised /\ e.choice = T /\ ExercisedFact(e)
BY DEF HInv, RecordInv, ExercisedAs

LEMMA CreatedFacts ==
  ASSUME HInv, NEW T, NEW f \in CreatedAs(T)
  PROVE  f \in created /\ f.template = T /\ CreatedFact(f)
BY DEF HInv, RecordInv, CreatedAs

(* A contract's name holds its update.                                     *)
LEMMA UpdateOf ==
  ASSUME GInv, NEW f \in created, NEW role, NEW u, f.cid = Cid(role, u)
  PROVE  f.update = u /\ f.cid[1] = role
<1>1. f.cid = Cid(f.cid[1], f.update)
  BY DEF GInv, StructInv
<1> QED BY <1>1 DEF Cid

LEMMA MintedForLock ==
  ASSUME GInv, HInv, NEW l \in gateway.mintedLocks
  PROVE  \E m \in MintedFor(l) : /\ m.holding = MintHolding(l) /\ m.update = MintUpdate(l)
                                 /\ m.beneficiary = "buyer" /\ m.amount = Terms[l].amount
                                 /\ m.cid = Cid("minted", MintUpdate(l))
<1>1. MintedOnce(l)
  BY DEF HInv, LockInv
<1>2. PICK m \in CreatedAs("MintedLock") :
        /\ m.lock = l /\ m.holding = MintHolding(l) /\ m.update = MintUpdate(l)
        /\ m.beneficiary = "buyer" /\ m.amount = Terms[l].amount
  BY <1>1 DEF MintedOnce
<1>3. \A f \in CreatedAs("MintedLock") : f \in created /\ f.cid = Cid("minted", MintUpdate(f.lock))
  BY CreatedFacts DEF CreatedFact, MintedFact
<1>4. \A f \in CreatedAs("MintedLock") : f.lock = l => f = m
  BY <1>2, <1>3, Apart
<1>5. Sole({f \in CreatedAs("MintedLock") : f.lock = l}) = {m}
  BY <1>2, <1>4, SoleIs
<1>6. ~\E f \in CreatedAs("MintedLock") : f.holding = MintHolding(l) /\ f.lock # l
  <2>1. \A f \in CreatedAs("MintedLock") : f.holding = MintHolding(f.lock)
    BY DEF HInv, LockInv
  <2>2. \A k : MintHolding(k) = MintHolding(l) => k = l
    BY DEF MintHolding, Cid
  <2> QED BY <2>1, <2>2
<1>7. \E c \in CreatedAs("StablecoinHolding") :
        c.cid = m.holding /\ c.owner = m.beneficiary /\ c.amount = m.amount
  BY <1>1, <1>2 DEF MintedOnce
<1>8. m \in MintedFor(l)
  BY <1>2, <1>5, <1>6, <1>7 DEF MintedFor
<1> QED BY <1>2, <1>3, <1>8

LEMMA AuthorizedForLock ==
  ASSUME GInv, HInv, NEW l \in gateway.mintedLocks, NEW m, m.holding = MintHolding(l),
         m.update = MintUpdate(l), m.beneficiary = "buyer", NEW b \in Bindings(l)
  PROVE  Authorized(l, m)
<1>1. MintedOnce(l)
  BY DEF HInv, LockInv
<1>2. Sole({f \in ExercisedAs("Gateway_Mint") : f.update = m.update}) # {}
  <2>1. PICK e \in ExercisedAs("Gateway_Mint") : e.update = m.update
    BY <1>1 DEF MintedOnce
  <2>2. \A f \in ExercisedAs("Gateway_Mint") : f.update = m.update => f = e
    BY <2>1, ExercisedFacts DEF HInv, RecordInv
  <2>3. Sole({f \in ExercisedAs("Gateway_Mint") : f.update = m.update}) = {e}
    BY <2>1, <2>2, SoleIs
  <2> QED BY <2>3
<1>3. PICK ref \in CreatedAs("BridgeMintRef") :
        /\ ref.lock = l /\ ref.mintHolding = MintHolding(l) /\ ref.buyer = "buyer"
        /\ ref.update = MintUpdate(l)
  BY <1>1 DEF MintedOnce
<1>4. /\ \A f \in CreatedAs("BridgeMintRef") : f \in created /\ f.cid = Cid("ref", MintUpdate(f.lock))
      /\ ref.cid = Cid("ref", MintUpdate(l)) /\ ref \in created
  BY <1>3, CreatedFacts DEF CreatedFact, RefFact
<1>5. Sole({f \in CreatedAs("BridgeMintRef") : f.update = m.update /\ f.lock = l}) = {ref}
  <2>1. \A f \in CreatedAs("BridgeMintRef") : f.lock = l => f = ref
    BY <1>3, <1>4, Apart
  <2> QED BY <1>3, <2>1, SoleIs
<1>6. b \in CreatedAs("BridgeTradeBinding") /\ b.lock = l
  BY DEF Bindings
<1>7. PICK e \in ExercisedAs("BridgeMintRef_Bind"), b0 \in Bindings(l) :
        e.cid = Cid("ref", MintUpdate(l)) /\ b0.update = e.update
  BY <1>6, CreatedFacts DEF CreatedFact, BindingFact, Bound
<1>8. \A f \in ExercisedAs("BridgeMintRef_Bind") : ArchivedAt(f.cid, f.update)
  BY ExercisedFacts DEF ExercisedFact
<1>9. Sole({f \in ExercisedAs("BridgeMintRef_Bind") : f.cid = ref.cid}) = {e}
  <2>1. \A f \in ExercisedAs("BridgeMintRef_Bind") : f.cid = ref.cid => f = e
    <3> SUFFICES ASSUME NEW f \in ExercisedAs("BridgeMintRef_Bind"), f.cid = ref.cid PROVE f = e
      OBVIOUS
    <3>1. ArchivedAt(ref.cid, f.update) /\ ArchivedAt(ref.cid, e.update)
      BY <1>4, <1>7, <1>8
    <3>2. f.update = e.update
      BY <3>1, ArchivedOnce
    <3> QED BY <3>2, ExercisedFacts DEF HInv, RecordInv
  <2> QED BY <1>4, <1>7, <2>1, SoleIs
<1>10. ConsumedIn(ref.cid, e.update)
  BY <1>4, <1>7, <1>8 DEF ConsumedIn, ArchivedAt
<1>11. \A f \in Bindings(l) : /\ f \in created /\ f.cid = Cid("binding", f.update)
                              /\ f.mintHolding = MintHolding(l)
  BY CreatedFacts DEF Bindings, CreatedFact, BindingFact
<1>12. Sole({f \in Bindings(l) : f.update = e.update}) = {b0}
  <2>1. \A f \in Bindings(l) : f.update = e.update => f = b0
    BY <1>7, <1>11, Apart
  <2> QED BY <1>7, <2>1, SoleIs
<1>13. {c.mintHolding : c \in Bindings(l)} = {m.holding}
  BY <1>11
<1>14. Cardinality({c.trade : c \in Bindings(l)}) = 1
  <2>1. \A c \in Bindings(l) : c.trade = b.trade
    BY <1>6 DEF HInv, ChainInv
  <2>2. {c.trade : c \in Bindings(l)} = {b.trade}
    BY <2>1
  <2> QED BY <2>2, FS_Singleton
<1>15. \E r \in Sole({f \in CreatedAs("BridgeMintRef") : f.update = m.update /\ f.lock = l}) :
         /\ r.mintHolding = m.holding /\ r.buyer = m.beneficiary
         /\ \E bind \in Sole({f \in ExercisedAs("BridgeMintRef_Bind") : f.cid = r.cid}) :
              /\ ConsumedIn(r.cid, bind.update)
              /\ \E c \in Sole({f \in Bindings(l) : f.update = bind.update}) :
                   c.mintHolding = m.holding
  <2>1. \E c \in Sole({f \in Bindings(l) : f.update = e.update}) : c.mintHolding = m.holding
    BY <1>7, <1>11, <1>12
  <2>2. \E bind \in Sole({f \in ExercisedAs("BridgeMintRef_Bind") : f.cid = ref.cid}) :
              /\ ConsumedIn(ref.cid, bind.update)
              /\ \E c \in Sole({f \in Bindings(l) : f.update = bind.update}) :
                   c.mintHolding = m.holding
    BY <1>9, <1>10, <2>1
  <2>3. ref \in Sole({f \in CreatedAs("BridgeMintRef") : f.update = m.update /\ f.lock = l})
    BY <1>5
  <2>4. ref.mintHolding = m.holding /\ ref.buyer = m.beneficiary
    BY <1>3
  <2> QED BY <2>2, <2>3, <2>4, Zenon
<1> QED BY <1>2, <1>13, <1>14, <1>15 DEF Authorized

(* The allocation that spent the minted coin, and what it locked.          *)
LEMMA AllocatedForLock ==
  ASSUME GInv, HInv, NEW l, NEW m, m.holding = MintHolding(l), m.beneficiary = "buyer",
         NEW x \in ExercisedAs("AllocationFactory_Allocate"), MintHolding(l) \in x.args.inputs,
         x.args.amount = Terms[l].amount
  PROVE  /\ x \in AllocationsOf(l, m)
         /\ \E c \in LockedBy(l, m, x) : c.cid = Cid("locked", x.update)
<1>1. \A e \in ExercisedAs("AllocationFactory_Allocate") : e \in exercised /\ AllocateFact(e)
                                                        /\ e.choice = "AllocationFactory_Allocate"
  BY ExercisedFacts DEF ExercisedFact
<1>2. Sole({f \in ExercisedAs("AllocationFactory_Allocate") : m.holding \in f.args.inputs}) = {x}
  <2>1. \A f \in ExercisedAs("AllocationFactory_Allocate") : m.holding \in f.args.inputs => f = x
    <3> SUFFICES ASSUME NEW f \in ExercisedAs("AllocationFactory_Allocate"),
                        m.holding \in f.args.inputs
                 PROVE  f = x
      OBVIOUS
    <3>1. ArchivedAt(m.holding, f.update) /\ ArchivedAt(m.holding, x.update)
      BY <1>1 DEF AllocateFact
    <3>2. f.update = x.update
      BY <3>1, ArchivedOnce
    <3> QED BY <1>1, <3>2 DEF HInv, RecordInv
  <2> QED BY <2>1, SoleIs
<1>3. ConsumedIn(m.holding, x.update)
  BY <1>1 DEF AllocateFact, ConsumedIn, ArchivedAt
<1>4. x.args.sender = m.beneficiary
  BY <1>1 DEF AllocateFact
<1>5. x \in AllocationsOf(l, m)
  BY <1>2, <1>3, <1>4 DEF AllocationsOf
<1>6. PICK a \in CreatedAs("StablecoinAllocation") : a.cid = Cid("allocation", x.update)
  BY <1>1 DEF AllocateFact
<1>7. a.update = x.update /\ a.lockedHolding = Cid("locked", x.update)
  <2>1. a \in created /\ AllocationOK(a)
    BY DEF CreatedAs, GInv, FactInv
  <2> QED BY <1>6, <2>1, UpdateOf DEF AllocationOK
<1>8. PICK c \in CreatedAs("StablecoinHolding") :
        c.cid = Cid("locked", x.update) /\ c.owner = "buyer" /\ c.amount = Terms[l].amount
  BY <1>1 DEF AllocateFact
<1>9. c.update = x.update
  BY <1>8, UpdateOf DEF CreatedAs
<1>10. a.cid = x.args.allocation
  BY <1>1, <1>6 DEF AllocateFact
<1>11. c \in LockedBy(l, m, x)
  BY <1>7, <1>8, <1>9, <1>10 DEF LockedBy
<1> QED BY <1>5, <1>8, <1>11

(* The settlement that used the allocation, and its two outputs.           *)
LEMMA SettledForLock ==
  ASSUME GInv, HInv, NEW l, NEW m, m.beneficiary = "buyer", NEW b,
         NEW x \in ExercisedAs("AllocationFactory_Allocate"), x.args.amount = Terms[l].amount,
         NEW s \in ExercisedAs("DvpTrade_Settle"), s.args.payment = x.args.allocation,
         s.cid = b.trade, NEW locked, locked.cid = Cid("locked", x.update),
         \E c \in CreatedAs("TreasuryHolding") : c.update = s.update /\ c.amount = Terms[l].delivery
  PROVE  /\ s \in SettlementsOf(b, x, locked) /\ BuyerTreasury(l, m, s) # {}
         /\ \E c \in SellerPayment(l, x, s) :
              c.cid = Cid("payment", s.update) /\ c \in CreatedAs("StablecoinHolding")
<1>1. x \in exercised /\ AllocateFact(x) /\ s \in exercised /\ SettleFact(s)
      /\ s.choice = "DvpTrade_Settle"
  BY ExercisedFacts DEF ExercisedFact
<1>2. PICK v \in Updates : SettlesFrom(s, v)
  BY <1>1 DEF SettleFact
<1>3. v = x.update /\ x.args.allocation = Cid("allocation", x.update)
  BY <1>1, <1>2 DEF SettlesFrom, AllocateFact, Cid
<1>4. /\ ArchivedAt(x.args.allocation, s.update) /\ ArchivedAt(locked.cid, s.update)
      /\ x.update[2] = s.update[2]
  BY <1>2, <1>3 DEF SettlesFrom
<1>5. s \in SettlementsOf(b, x, locked)
  <2>1. \A f \in ExercisedAs("DvpTrade_Settle") : f.args.payment = x.args.allocation => f = s
    <3> SUFFICES ASSUME NEW f \in ExercisedAs("DvpTrade_Settle"), f.args.payment = x.args.allocation
                 PROVE  f = s
      OBVIOUS
    <3>1. f \in exercised /\ SettleFact(f) /\ f.choice = "DvpTrade_Settle"
      BY ExercisedFacts DEF ExercisedFact
    <3>2. ArchivedAt(x.args.allocation, f.update)
      BY <3>1 DEF SettleFact, SettlesFrom
    <3>3. f.update = s.update
      BY <1>4, <3>2, ArchivedOnce
    <3> QED BY <1>1, <3>1, <3>3 DEF HInv, RecordInv
  <2>2. Sole({f \in ExercisedAs("DvpTrade_Settle") : f.args.payment = x.args.allocation}) = {s}
    BY <2>1, SoleIs
  <2>3. s.args.treasury # x.args.allocation
    BY <1>1, <1>3 DEF SettleFact, Cid
  <2>4. ConsumedIn(x.args.allocation, s.update) /\ ConsumedIn(locked.cid, s.update)
    BY <1>4 DEF ConsumedIn, ArchivedAt
  <2> QED BY <2>2, <2>3, <2>4 DEF SettlementsOf, SettlesBoundTrade
<1>6. BuyerTreasury(l, m, s) # {}
  <2>1. PICK c \in CreatedAs("TreasuryHolding") : c.cid = Cid("delivery", s.update) /\ c.owner = "buyer"
    BY <1>1 DEF SettleFact
  <2>2. \A f \in CreatedAs("TreasuryHolding") : f \in created /\ f.cid = Cid("delivery", f.update)
    BY CreatedFacts DEF CreatedFact
  <2>3. \A f \in CreatedAs("TreasuryHolding") : f.update = s.update => f = c
    BY <2>1, <2>2, Apart
  <2>4. c.update = s.update /\ c.amount = Terms[l].delivery
    BY <2>1, <2>2, <2>3, UpdateOf
  <2>5. Sole({f \in CreatedAs("TreasuryHolding") :
                f.update = s.update /\ f.owner = m.beneficiary /\ f.amount = Terms[l].delivery}) = {c}
    <3>1. PICK S : S = {f \in CreatedAs("TreasuryHolding") :
                f.update = s.update /\ f.owner = m.beneficiary /\ f.amount = Terms[l].delivery}
      OBVIOUS
    <3>2. c \in S /\ \A f \in S : f = c
      BY <2>1, <2>3, <2>4, <3>1
    <3> QED BY <3>1, <3>2, SoleIs
  <2>6. c.cid \in s.args.treasuryResult
    BY <1>1, <2>1 DEF SettleFact
  <2> QED BY <2>5, <2>6 DEF BuyerTreasury
<1>7. PICK c \in CreatedAs("StablecoinHolding") :
        /\ c.cid = Cid("payment", s.update) /\ c.owner = "seller"
        /\ c.amount = Legs[s.update[2]].payment
  BY <1>1 DEF SettleFact
<1>8. c \in created /\ c.update = s.update
  BY <1>7, UpdateOf DEF CreatedAs
<1>9. c.amount = Terms[l].amount /\ x.args.receiver = "seller"
  BY <1>1, <1>4, <1>7 DEF AllocateFact
<1>10. \A f \in CreatedAs("StablecoinHolding") : f.update = s.update => f = c
  <2> SUFFICES ASSUME NEW f \in CreatedAs("StablecoinHolding"), f.update = s.update PROVE f = c
    OBVIOUS
  <2>1. f \in created /\ HoldingFact(f)
    BY CreatedFacts DEF CreatedFact
  <2>2. f.cid[1] = "payment"
    BY <1>1, <2>1 DEF HoldingFact, SettleFact
  <2>3. f.cid = Cid(f.cid[1], f.update)
    BY <2>1 DEF GInv, StructInv
  <2> QED BY <1>7, <1>8, <2>1, <2>2, <2>3, Apart
<1>11. c \in SellerPayment(l, x, s)
  <2>1. PICK S : S = {f \in CreatedAs("StablecoinHolding") :
                 f.update = s.update /\ f.owner = x.args.receiver /\ f.amount = Terms[l].amount}
    OBVIOUS
  <2>2. c \in S /\ \A f \in S : f = c
    BY <1>7, <1>8, <1>9, <1>10, <2>1
  <2>3. Sole(S) = {c}
    BY <2>2, SoleIs
  <2>4. c.cid \in s.args.paymentResult
    BY <1>1, <1>7 DEF SettleFact
  <2> QED BY <2>1, <2>3, <2>4 DEF SellerPayment
<1> QED BY <1>5, <1>6, <1>7, <1>11

(* The redemption of the lock burned what its one binding recorded.        *)
LEMMA RedeemedForLock ==
  ASSUME GInv, HInv, NEW l \in gateway.redeemedLocks, NEW m, m.cid = Cid("minted", MintUpdate(l)),
         Cardinality({f \in CreatedAs("RedemptionRequest") : f.lock = l}) = 1,
         NEW b \in Bindings(l), b.payment # {}, \A c \in Bindings(l) : c.payment # {} => c = b,
         NEW x, x.args.receiver = "seller", NEW coin \in CreatedAs("StablecoinHolding"),
         b.payment = {coin.cid}
  PROVE  \E q \in RequestOf(l, x, coin) : Burned(l, m, b, x, coin, q)
<1>1. PICK e \in ExercisedAs("Gateway_Redeem") : e.update[2] = l
  BY DEF HInv, LockInv
<1>2. RedeemFact(e)
  BY ExercisedFacts DEF ExercisedFact
<1>3. PICK q \in CreatedAs("RedemptionRequest"), c \in Bindings(l) :
           /\ q.cid = e.args.request /\ q.lock = l /\ q.amount = Terms[l].amount
           /\ q.payout = Terms[l].payout /\ q.holder = "seller"
           /\ e.args.binding = c.cid /\ c.payment = {q.holding}
           /\ \E f \in ExercisedAs("Burn") : f.cid = q.holding /\ f.update = e.update
  BY <1>1, <1>2 DEF RedeemFact
<1>4. c = b /\ q.holding = coin.cid
  BY <1>3
<1>5. q \in RequestOf(l, x, coin)
  <2>1. q \in Sole({f \in CreatedAs("RedemptionRequest") : f.lock = l})
    BY <1>3 DEF Sole
  <2> QED BY <2>1, <1>3, <1>4 DEF RequestOf
<1>6. Sole({f \in ExercisedAs("Gateway_Redeem") : f.args.request = q.cid}) = {e}
  <2>1. \A f \in ExercisedAs("Gateway_Redeem") : f.args.request = q.cid => f = e
    <3> SUFFICES ASSUME NEW f \in ExercisedAs("Gateway_Redeem"), f.args.request = q.cid PROVE f = e
      OBVIOUS
    <3>1. RedeemFact(f)
      BY ExercisedFacts DEF ExercisedFact
    <3>2. PICK r \in CreatedAs("RedemptionRequest") : r.cid = f.args.request /\ r.lock = f.update[2]
      BY <3>1 DEF RedeemFact
    <3>3. r = q
      BY <3>2, Apart DEF CreatedAs
    <3>4. f.update[2] = e.update[2]
      BY <1>1, <1>3, <3>2, <3>3
    <3> QED BY <3>4 DEF HInv, LockInv
  <2> QED BY <1>3, <2>1, SoleIs
<1>7. PICK f \in ExercisedAs("Burn") : f.cid = coin.cid /\ f.update = e.update
  BY <1>3, <1>4
<1>8. ConsumedIn(coin.cid, e.update)
  <2>1. ArchivedAt(f.cid, f.update)
    BY ExercisedFacts DEF ExercisedFact
  <2> QED BY <1>7, <2>1 DEF ConsumedIn, ArchivedAt
<1>9. PICK d \in CreatedAs("RedeemedLock") :
        d.update = e.update /\ d.lock = l /\ d.amount = Terms[l].amount /\ d.holder = "seller"
  BY <1>1, <1>2 DEF RedeemFact
<1>10. Sole({g \in CreatedAs("RedeemedLock") : g.update = e.update /\ g.lock = l}) = {d}
  <2>1. \A g \in CreatedAs("RedeemedLock") : g \in created /\ g.cid = Cid("redeemed", g.update)
    BY CreatedFacts DEF CreatedFact, RedeemedLockFact
  <2>2. \A g \in CreatedAs("RedeemedLock") : g.update = e.update => g = d
    BY <1>9, <2>1, Apart
  <2> QED BY <1>9, <2>2, SoleIs
<1>11. e.args.mintedLock = m.cid /\ e.args.binding = b.cid
  BY <1>1, <1>2, <1>3, <1>4 DEF RedeemFact
<1>12. \E g \in Sole({h \in CreatedAs("RedeemedLock") : h.update = e.update /\ h.lock = l}) :
         g.amount = Terms[l].amount /\ g.holder = x.args.receiver
  BY <1>9, <1>10
<1>13. e \in Sole({g \in ExercisedAs("Gateway_Redeem") : g.args.request = q.cid})
  BY <1>6
<1>14. Burned(l, m, b, x, coin, q)
  BY <1>7, <1>8, <1>11, <1>12, <1>13 DEF Burned
<1> QED BY <1>5, <1>14

LEMMA Completeness == GInv /\ HInv => EvidenceComplete
<1> SUFFICES ASSUME GInv, HInv, NEW l \in Locks, Undisturbed(l), NEW c \in BindingForLock(l)
             PROVE  Evidence(l, c) # {}
  BY DEF EvidenceComplete
<1>1. /\ l \in gateway.redeemedLocks /\ l \in gateway.mintedLocks
      /\ Cardinality({f \in CreatedAs("RedemptionRequest") : f.lock = l}) = 1
  BY DEF Undisturbed, GInv, GateInv
<1>2. PICK b \in Active("BridgeTradeBinding"), s \in ExercisedAs("DvpTrade_Settle"),
           x \in ExercisedAs("AllocationFactory_Allocate") :
        /\ b.lock = l /\ b.treasury /\ b.update[1] = "record-payment"
        /\ s.cid = b.trade /\ b.payment = s.args.paymentResult
        /\ s.args.payment = x.args.allocation /\ x.args.inputs = {MintHolding(l)}
        /\ x.args.amount = Terms[l].amount
        /\ \E bill \in CreatedAs("TreasuryHolding") :
             bill.update = s.update /\ bill.amount = Terms[l].delivery
  BY DEF Undisturbed
<1>3. b \in Bindings(l) /\ b \in CreatedAs("BridgeTradeBinding") /\ b.cid \notin Gone
  BY <1>2, ActiveFacts DEF Bindings, CreatedAs
<1>4. b.payment = {Cid("payment", s.update)} /\ b.payment # {}
  <2>1. SettleFact(s)
    BY ExercisedFacts DEF ExercisedFact
  <2> QED BY <1>2, <2>1 DEF SettleFact
<1>5. \A d \in Bindings(l) : d.payment # {} => d = b
  BY <1>2, <1>3 DEF HInv, ChainInv
<1>6. c = b
  BY <1>3, <1>4, <1>5 DEF BindingForLock
<1>7. PICK m \in MintedFor(l) : /\ m.holding = MintHolding(l) /\ m.update = MintUpdate(l)
                                /\ m.beneficiary = "buyer" /\ m.cid = Cid("minted", MintUpdate(l))
  BY <1>1, MintedForLock
<1>8. Authorized(l, m)
  BY <1>1, <1>3, <1>7, AuthorizedForLock
<1>9. x \in AllocationsOf(l, m) /\ \E d \in LockedBy(l, m, x) : d.cid = Cid("locked", x.update)
  <2>1. MintHolding(l) \in x.args.inputs /\ x.args.amount = Terms[l].amount
    BY <1>2
  <2> QED BY <1>7, <2>1, AllocatedForLock
<1>10. PICK locked \in LockedBy(l, m, x) : locked.cid = Cid("locked", x.update)
  BY <1>9
<1>11. /\ s \in SettlementsOf(b, x, locked) /\ BuyerTreasury(l, m, s) # {}
       /\ \E d \in SellerPayment(l, x, s) :
            d.cid = Cid("payment", s.update) /\ d \in CreatedAs("StablecoinHolding")
  <2>1. /\ x.args.amount = Terms[l].amount /\ s.args.payment = x.args.allocation /\ s.cid = b.trade
        /\ \E bill \in CreatedAs("TreasuryHolding") :
             bill.update = s.update /\ bill.amount = Terms[l].delivery
    BY <1>2
  <2>2. m.beneficiary = "buyer"
    BY <1>7
  <2> QED BY <1>10, <2>1, <2>2, SettledForLock
<1>12. PICK coin \in SellerPayment(l, x, s) :
         coin.cid = Cid("payment", s.update) /\ coin \in CreatedAs("StablecoinHolding")
  BY <1>11
<1>13. x.args.receiver = "seller"
  BY ExercisedFacts DEF ExercisedFact, AllocateFact
<1>14. PICK q \in RequestOf(l, x, coin) : Burned(l, m, b, x, coin, q)
  <2>1. b.payment = {coin.cid}
    BY <1>4, <1>12
  <2> QED BY <1>1, <1>3, <1>4, <1>5, <1>7, <1>12, <1>13, <2>1, RedeemedForLock
<1>15. Connects(l, b, coin, m, x, s, locked, q)
  BY <1>7, <1>8, <1>9, <1>10, <1>11, <1>12, <1>14 DEF Connects
<1>16. coin \in Evidence(l, b)
  BY <1>15, EvidenceIs
<1> QED BY <1>6, <1>16

-----------------------------------------------------------------------------
(* Facts stay *)

Grows == /\ created \subseteq created' /\ exercised \subseteq exercised'
         /\ archived \subseteq archived'
         /\ gateway.mintedLocks \subseteq gateway'.mintedLocks
         /\ gateway.redeemedLocks \subseteq gateway'.redeemedLocks

LEMMA GrowsFacts ==
  ASSUME Grows
  PROVE  /\ \A T : CreatedAs(T) \subseteq CreatedAs(T)'
         /\ \A T : ExercisedAs(T) \subseteq ExercisedAs(T)'
         /\ \A l : Bindings(l) \subseteq Bindings(l)'
         /\ Updates \subseteq Updates' /\ Gone \subseteq Gone'
         /\ \A c, u : ArchivedAt(c, u) => ArchivedAt(c, u)'
<1>1. /\ \A T : CreatedAs(T) \subseteq CreatedAs(T)'
      /\ \A T : ExercisedAs(T) \subseteq ExercisedAs(T)'
  BY DEF Grows, CreatedAs, ExercisedAs
<1>2. \A l : Bindings(l) \subseteq Bindings(l)'
  BY <1>1 DEF Bindings
<1>3. Updates \subseteq Updates' /\ Gone \subseteq Gone'
  BY DEF Grows, Updates, Gone
<1>4. \A c, u : ArchivedAt(c, u) => ArchivedAt(c, u)'
  BY DEF Grows, ArchivedAt
<1> QED BY <1>1, <1>2, <1>3, <1>4

LEMMA CreatedKept ==
  ASSUME Grows, NEW f, CreatedFact(f)
  PROVE  CreatedFact(f)'
<1>1. gateway.mintedLocks \subseteq gateway'.mintedLocks
      /\ gateway.redeemedLocks \subseteq gateway'.redeemedLocks
  BY DEF Grows
<1>2. f.template = "MintedLock" => MintedFact(f)'
  BY <1>1 DEF CreatedFact, MintedFact
<1>3. f.template = "BridgeMintRef" => RefFact(f)'
  BY <1>1 DEF CreatedFact, RefFact
<1>4. f.template = "BridgeTradeBinding" => BindingFact(f)'
  <2> SUFFICES ASSUME f.template = "BridgeTradeBinding" PROVE BindingFact(f)'
    OBVIOUS
  <2>1. BindingFact(f)
    BY DEF CreatedFact
  <2>2. Bound(f.lock)'
    <3>1. PICK e \in ExercisedAs("BridgeMintRef_Bind"), b \in Bindings(f.lock) :
            e.cid = Cid("ref", MintUpdate(f.lock)) /\ b.update = e.update
      BY <2>1 DEF BindingFact, Bound
    <3>2. e \in ExercisedAs("BridgeMintRef_Bind")' /\ b \in Bindings(f.lock)'
      BY GrowsFacts
    <3> QED BY <3>1, <3>2 DEF Bound
  <2> QED BY <1>1, <2>1, <2>2 DEF BindingFact
<1>5. f.template = "RedeemedLock" => RedeemedLockFact(f)'
  BY <1>1 DEF CreatedFact, RedeemedLockFact
<1>6. f.template = "StablecoinHolding" => HoldingFact(f)'
  BY DEF CreatedFact, HoldingFact
<1> QED BY <1>2, <1>3, <1>4, <1>5, <1>6 DEF CreatedFact

LEMMA ExercisedKept ==
  ASSUME Grows, NEW e, ExercisedFact(e)
  PROVE  ExercisedFact(e)'
<1>1. e.choice = "AllocationFactory_Allocate" => AllocateFact(e)'
  <2> SUFFICES ASSUME AllocateFact(e) PROVE AllocateFact(e)'
    BY DEF ExercisedFact
  <2>1. \A c \in e.args.inputs : ArchivedAt(c, e.update)'
    BY GrowsFacts DEF AllocateFact
  <2>2. /\ \E a \in CreatedAs("StablecoinAllocation")' : a.cid = Cid("allocation", e.update)
        /\ \E c \in CreatedAs("StablecoinHolding")' :
             c.cid = Cid("locked", e.update) /\ c.owner = "buyer" /\ c.amount = e.args.amount
    BY GrowsFacts DEF AllocateFact
  <2> QED BY <2>1, <2>2 DEF AllocateFact
<1>2. e.choice = "DvpTrade_Settle" => SettleFact(e)'
  <2> SUFFICES ASSUME SettleFact(e) PROVE SettleFact(e)'
    BY DEF ExercisedFact
  <2>1. PICK v \in Updates : SettlesFrom(e, v)
    BY DEF SettleFact
  <2>2. v \in Updates' /\ SettlesFrom(e, v)'
    BY <2>1, GrowsFacts DEF SettlesFrom
  <2>3. /\ \E c \in CreatedAs("StablecoinHolding")' :
             /\ c.cid = Cid("payment", e.update) /\ c.owner = "seller"
             /\ c.amount = Legs[e.update[2]].payment
        /\ \E c \in CreatedAs("TreasuryHolding")' :
             c.cid = Cid("delivery", e.update) /\ c.owner = "buyer"
    BY GrowsFacts DEF SettleFact
  <2> QED BY <2>2, <2>3 DEF SettleFact
<1>3. e.choice = "Gateway_Redeem" => RedeemFact(e)'
  <2> SUFFICES ASSUME RedeemFact(e) PROVE RedeemFact(e)'
    BY DEF ExercisedFact
  <2>1. PICK l : l = e.update[2]
    OBVIOUS
  <2>2. l \in gateway'.redeemedLocks
    BY <2>1 DEF RedeemFact, Grows
  <2>3. \E q \in CreatedAs("RedemptionRequest")', b \in Bindings(l)' :
           /\ q.cid = e.args.request /\ q.lock = l /\ q.amount = Terms[l].amount
           /\ q.payout = Terms[l].payout /\ q.holder = "seller"
           /\ e.args.binding = b.cid /\ b.payment = {q.holding}
           /\ \E f \in ExercisedAs("Burn")' : f.cid = q.holding /\ f.update = e.update
    <3>1. PICK q \in CreatedAs("RedemptionRequest"), b \in Bindings(l), f \in ExercisedAs("Burn") :
           /\ q.cid = e.args.request /\ q.lock = l /\ q.amount = Terms[l].amount
           /\ q.payout = Terms[l].payout /\ q.holder = "seller"
           /\ e.args.binding = b.cid /\ b.payment = {q.holding}
           /\ f.cid = q.holding /\ f.update = e.update
      BY <2>1 DEF RedeemFact
    <3>2. /\ q \in CreatedAs("RedemptionRequest")' /\ b \in Bindings(l)'
          /\ f \in ExercisedAs("Burn")'
      BY GrowsFacts
    <3> QED BY <3>1, <3>2
  <2>4. \E d \in CreatedAs("RedeemedLock")' :
          d.update = e.update /\ d.lock = l /\ d.amount = Terms[l].amount /\ d.holder = "seller"
    BY <2>1, GrowsFacts DEF RedeemFact
  <2>5. e.args.mintedLock = Cid("minted", MintUpdate(l))
    BY <2>1 DEF RedeemFact
  <2> QED BY <2>1, <2>2, <2>3, <2>4, <2>5 DEF RedeemFact
<1>4. e.update \in Updates'
  BY GrowsFacts DEF ExercisedFact
<1>5. /\ e.consuming => ArchivedAt(e.cid, e.update)' \/ e.cid[1] \in {"gateway", "trade"}
      /\ e.choice = "Burn" => e.args.lock = e.update[2] /\ ArchivedAt(e.cid, e.update)'
      /\ e.choice = "BridgeMintRef_Bind" => ArchivedAt(e.cid, e.update)'
  BY GrowsFacts DEF ExercisedFact
<1> QED BY <1>1, <1>2, <1>3, <1>4, <1>5 DEF ExercisedFact

LEMMA MintedKept ==
  ASSUME Grows, NEW l, MintedOnce(l)
  PROVE  MintedOnce(l)'
<1>1. /\ \E c \in CreatedAs("StablecoinHolding")' :
           c.cid = MintHolding(l) /\ c.owner = "buyer" /\ c.amount = Terms[l].amount
      /\ \E m \in CreatedAs("MintedLock")' :
           /\ m.lock = l /\ m.holding = MintHolding(l) /\ m.update = MintUpdate(l)
           /\ m.beneficiary = "buyer" /\ m.amount = Terms[l].amount
  BY GrowsFacts DEF MintedOnce
<1>2. /\ \E r \in CreatedAs("BridgeMintRef")' :
           r.lock = l /\ r.mintHolding = MintHolding(l) /\ r.buyer = "buyer" /\ r.update = MintUpdate(l)
      /\ \E e \in ExercisedAs("Gateway_Mint")' : e.update = MintUpdate(l)
  BY GrowsFacts DEF MintedOnce
<1> QED BY <1>1, <1>2 DEF MintedOnce

-----------------------------------------------------------------------------
(* One transaction *)

LEMMA After ==
  ASSUME GInv, NEW kind, NEW subject, NEW u, NEW C, NEW X, NEW A,
         Transaction(kind, subject, u, C, X, A),
         gateway.mintedLocks \subseteq gateway'.mintedLocks,
         gateway.redeemedLocks \subseteq gateway'.redeemedLocks
  PROVE  /\ Grows /\ created' = created \cup C /\ exercised' = exercised \cup X
         /\ Updates' = Updates \cup {u} /\ u \notin Updates
         /\ u[1] = kind /\ u[2] = subject
         /\ Gone' = Gone \cup A /\ \A c \in A : ArchivedAt(c, u)'
         /\ \A T : CreatedAs(T)' = CreatedAs(T) \cup {f \in C : f.template = T}
         /\ \A T : ExercisedAs(T)' = ExercisedAs(T) \cup {e \in X : e.choice = T}
<1>1. /\ created' = created \cup C /\ exercised' = exercised \cup X
      /\ archived' = archived \cup {[cid |-> c, update |-> u] : c \in A}
  BY DEF Transaction, Commit
<1>2. Grows
  BY <1>1 DEF Grows
<1>3. u \in Fresh(kind, subject) /\ WellFormed(u, C, A)
  BY DEF Transaction
<1>4. u = <<kind, subject, 1 + Cardinality(Named(kind, subject))>> /\ u \notin Updates
  BY <1>3, FreshIsNew DEF GInv
<1>5. Updates' = Updates \cup {u}
  BY <1>1, <1>3 DEF Updates, WellFormed
<1>6. Gone' = Gone \cup A
  BY <1>3, ActiveAfter DEF GInv, Transaction
<1>7. ASSUME NEW c \in A PROVE ArchivedAt(c, u)'
  <2>1. [cid |-> c, update |-> u] \in archived'
    BY <1>1
  <2> QED BY <2>1 DEF ArchivedAt
<1>8. \A T : CreatedAs(T)' = CreatedAs(T) \cup {f \in C : f.template = T}
  BY <1>1 DEF CreatedAs
<1>9. \A T : ExercisedAs(T)' = ExercisedAs(T) \cup {e \in X : e.choice = T}
  BY <1>1 DEF ExercisedAs
<1>10. u[1] = kind /\ u[2] = subject
  BY <1>4
<1> QED BY <1>1, <1>2, <1>4, <1>5, <1>6, <1>7, <1>8, <1>9, <1>10

(* Only the facts of the last update need an argument.                     *)
LEMMA RecordAfter ==
  ASSUME GInv, HInv, NEW kind, NEW subject, NEW u, NEW C, NEW X, NEW A,
         Transaction(kind, subject, u, C, X, A),
         gateway.mintedLocks \subseteq gateway'.mintedLocks,
         gateway.redeemedLocks \subseteq gateway'.redeemedLocks,
         \A f \in C : CreatedFact(f)',
         \A e \in X : ExercisedFact(e)' /\ e.update = u,
         \A e, f \in X : e.choice = f.choice => e = f
  PROVE  RecordInv'
<1>1. /\ Grows /\ created' = created \cup C /\ exercised' = exercised \cup X
      /\ u \notin Updates
  BY After
<1>2. \A f \in created' : CreatedFact(f)'
  BY <1>1, CreatedKept DEF HInv, RecordInv
<1>3. \A e \in exercised' : ExercisedFact(e)'
  BY <1>1, ExercisedKept DEF HInv, RecordInv
<1>4. \A e \in exercised : e.update # u
  BY <1>1 DEF HInv, RecordInv, ExercisedFact
<1>5. \A e, f \in exercised' : e.choice = f.choice /\ e.update = f.update => e = f
  BY <1>1, <1>4 DEF HInv, RecordInv
<1> QED BY <1>2, <1>3, <1>5 DEF RecordInv

(* Neither a mint nor a redemption.                                        *)
LEMMA LockAfter ==
  ASSUME GInv, HInv, NEW kind, NEW subject, NEW u, NEW C, NEW X, NEW A,
         Transaction(kind, subject, u, C, X, A), UNCHANGED gateway, kind # "mint",
         \A f \in C : f.template # "MintedLock", \A e \in X : e.choice # "Gateway_Redeem"
  PROVE  LockInv'
<1>1. /\ Grows /\ Updates' = Updates \cup {u} /\ u[1] = kind
      /\ \A T : CreatedAs(T)' = CreatedAs(T) \cup {f \in C : f.template = T}
      /\ \A T : ExercisedAs(T)' = ExercisedAs(T) \cup {e \in X : e.choice = T}
  BY After
<1>2. /\ CreatedAs("MintedLock")' = CreatedAs("MintedLock")
      /\ ExercisedAs("Gateway_Redeem")' = ExercisedAs("Gateway_Redeem")
  BY <1>1
<1>3. \A l \in gateway'.mintedLocks : MintedOnce(l)'
  BY <1>1, MintedKept DEF HInv, LockInv
<1>4. \A v \in Updates' : v[1] = "mint" => v[2] \in gateway'.mintedLocks
  BY <1>1 DEF HInv, LockInv
<1> QED BY <1>2, <1>3, <1>4 DEF HInv, LockInv

(* No binding is made.                                                     *)
LEMMA ChainAfter ==
  ASSUME GInv, HInv, NEW kind, NEW subject, NEW u, NEW C, NEW X, NEW A,
         Transaction(kind, subject, u, C, X, A),
         gateway.mintedLocks \subseteq gateway'.mintedLocks,
         gateway.redeemedLocks \subseteq gateway'.redeemedLocks,
         \A f \in C : f.template # "BridgeTradeBinding"
  PROVE  ChainInv'
<1>1. /\ Gone \subseteq Gone'
      /\ CreatedAs("BridgeTradeBinding")' = CreatedAs("BridgeTradeBinding")
  <2>1. /\ Gone' = Gone \cup A
        /\ \A T : CreatedAs(T)' = CreatedAs(T) \cup {f \in C : f.template = T}
    BY After
  <2> QED BY <2>1
<1>2. \A l : Bindings(l)' = Bindings(l)
  BY <1>1 DEF Bindings
<1>3. ASSUME NEW b \in CreatedAs("BridgeTradeBinding"), NEW c \in Bindings(b.lock)
      PROVE  /\ c.trade = b.trade
             /\ b.payment # {} /\ c.payment # {} => b.payment = c.payment
             /\ b.cid \notin Gone' =>
                  /\ c.cid \notin Gone' => b = c
                  /\ c.payment # {} => b.payment = c.payment
                  /\ b.update[1] = "record-payment" /\ c.payment # {} => b = c
  BY <1>1 DEF HInv, ChainInv
<1>4. \A b \in CreatedAs("BridgeTradeBinding") : Cid("ref", MintUpdate(b.lock)) \in Gone'
  BY <1>1 DEF HInv, ChainInv
<1> QED BY <1>1, <1>2, <1>3, <1>4 DEF ChainInv

LEMMA HistoryInit == Init => HInv
<1> SUFFICES ASSUME Init PROVE HInv
  OBVIOUS
<1>1. created = {} /\ exercised = {} /\ archived = {}
      /\ gateway.mintedLocks = {} /\ gateway.redeemedLocks = {}
  BY DEF Init
<1>2. Updates = {} /\ \A T : CreatedAs(T) = {} /\ ExercisedAs(T) = {}
  BY <1>1 DEF Updates, CreatedAs, ExercisedAs
<1>3. RecordInv
  BY <1>1 DEF RecordInv
<1>4. LockInv
  BY <1>1, <1>2 DEF LockInv
<1>5. ChainInv
  BY <1>2 DEF ChainInv
<1> QED BY <1>3, <1>4, <1>5 DEF HInv

-----------------------------------------------------------------------------
(* Payments and requests *)

(* A step that neither mints, binds nor redeems.                           *)
LEMMA QuietHistory ==
  ASSUME GInv, HInv, NEW kind, NEW subject, NEW u, NEW C, NEW X, NEW A,
         Transaction(kind, subject, u, C, X, A), UNCHANGED gateway, kind # "mint",
         \A f \in C : f.template \notin {"MintedLock", "BridgeTradeBinding"} /\ CreatedFact(f)',
         \A e \in X : e.choice # "Gateway_Redeem" /\ ExercisedFact(e)' /\ e.update = u,
         \A e, f \in X : e = f
  PROVE  HInv'
<1>1. RecordInv'
  BY RecordAfter
<1>2. LockInv'
  BY LockAfter
<1>3. ChainInv'
  BY ChainAfter
<1> QED BY <1>1, <1>2, <1>3 DEF HInv

LEMMA RequestHistory ==
  ASSUME GInv, HInv, NEW coin, NEW l, NEW k, RedemptionRequest(coin, l, k)
  PROVE  HInv'
<1>1. PICK u : Transaction("request", l, u, {RequestFact(u, coin, l, k)}, {}, {})
  BY RequestIs
<1>2. PICK f : f = RequestFact(u, coin, l, k)
  OBVIOUS
<1>3. f.template = "RedemptionRequest" /\ f.cid[1] = "request"
  BY <1>2 DEF RequestFact, Cid
<1>4. CreatedFact(f)'
  BY <1>3 DEF CreatedFact
<1>5. UNCHANGED gateway
  BY DEF RedemptionRequest
<1>6. Transaction("request", l, u, {f}, {}, {})
  BY <1>1, <1>2
<1> QED BY <1>3, <1>4, <1>5, <1>6, QuietHistory

LEMMA WithdrawHistory ==
  ASSUME GInv, HInv, NEW a \in Active("StablecoinAllocation"), Withdraw(a)
  PROVE  HInv'
<1>1. PICK u, x : /\ x = StablecoinHolding("returned", u, "buyer", Legs[a.for].payment, FALSE)
                  /\ Transaction("withdraw", a.for, u, {x}, {}, {a.cid, a.lockedHolding})
  BY WithdrawIs
<1>2. x.template = "StablecoinHolding" /\ x.cid[1] = "returned" /\ x.update = u
  BY <1>1 DEF StablecoinHolding, Cid
<1>3. UNCHANGED gateway
  BY DEF Withdraw
<1>4. u[1] = "withdraw"
  BY <1>1, <1>3, After
<1>5. CreatedFact(x)'
  BY <1>2, <1>4 DEF CreatedFact, HoldingFact
<1>6. \A f \in {x} : f.template \notin {"MintedLock", "BridgeTradeBinding"} /\ CreatedFact(f)'
  BY <1>2, <1>5
<1>7. Transaction("withdraw", a.for, u, {x}, {}, {a.cid, a.lockedHolding})
  BY <1>1
<1> QED BY <1>3, <1>6, <1>7, QuietHistory

LEMMA AllocateHistory ==
  ASSUME GInv, HInv, NEW t \in Trades, NEW inputs \in SUBSET Coins, Allocate(t, inputs)
  PROVE  HInv'
<1>1. PICK u, C, x, y, new : Allocates(u, t, inputs, C, x, y, new)
  BY AllocateIs
<1>2. PICK e : e = Allocation(u, t, inputs)
  OBVIOUS
<1>3. PICK A : A = {c.cid : c \in inputs}
  OBVIOUS
<1>4. /\ Transaction("allocate", t, u, C, {e}, A) /\ C = new \cup {x, y}
      /\ new = Change(u, Total(inputs) - Legs[t].payment)
      /\ x = StablecoinHolding("locked", u, "buyer", Legs[t].payment, TRUE)
      /\ y = [template |-> "StablecoinAllocation", cid |-> Cid("allocation", u),
              update |-> u, for |-> t, lockedHolding |-> Cid("locked", u)]
  BY <1>1, <1>2, <1>3 DEF Allocates
<1>0. Transaction("allocate", t, u, C, {e}, A)
  BY <1>4
<1>5. /\ UNCHANGED gateway /\ gateway.mintedLocks \subseteq gateway'.mintedLocks
      /\ gateway.redeemedLocks \subseteq gateway'.redeemedLocks
  BY DEF Allocate
<1>6. /\ u[1] = "allocate" /\ u[2] = t /\ Updates' = Updates \cup {u}
      /\ \A c \in A : ArchivedAt(c, u)'
      /\ \A T : CreatedAs(T)' = CreatedAs(T) \cup {f \in C : f.template = T}
  BY <1>0, <1>5, After
<1>7. /\ x.template = "StablecoinHolding" /\ x.cid = Cid("locked", u) /\ x.cid[1] = "locked"
      /\ x.update = u /\ x.owner = "buyer" /\ x.amount = Legs[t].payment
      /\ y.template = "StablecoinAllocation" /\ y.cid = Cid("allocation", u)
      /\ y.cid[1] = "allocation" /\ y.update = u /\ y.for = t
  BY <1>4 DEF StablecoinHolding, Cid
<1>8. \A f \in new : f.template = "StablecoinHolding" /\ f.cid[1] = "change" /\ f.update = u
  BY <1>4 DEF Change, StablecoinHolding, Cid
<1>9. ASSUME NEW f \in C
      PROVE  f.template \notin {"MintedLock", "BridgeTradeBinding"} /\ CreatedFact(f)'
  <2>1. CASE f \in new
    BY <2>1, <1>6, <1>8 DEF CreatedFact, HoldingFact
  <2>2. CASE f = x
    BY <2>2, <1>6, <1>7 DEF CreatedFact, HoldingFact
  <2>3. CASE f = y
    BY <2>3, <1>6, <1>7 DEF CreatedFact
  <2> QED BY <2>1, <2>2, <2>3, <1>4
<1>10. /\ e.choice = "AllocationFactory_Allocate" /\ e.update = u /\ e.consuming = FALSE
       /\ e.args.inputs = A /\ e.args.sender = "buyer" /\ e.args.receiver = "seller"
       /\ e.args.amount = Legs[t].payment /\ e.args.allocation = Cid("allocation", u)
  BY <1>2, <1>3 DEF Allocation, Exercise, LegOf
<1>11. AllocateFact(e)'
  <2>1. x \in CreatedAs("StablecoinHolding")' /\ y \in CreatedAs("StablecoinAllocation")'
    BY <1>4, <1>6, <1>7
  <2> QED BY <2>1, <1>6, <1>7, <1>10 DEF AllocateFact
<1>12. ExercisedFact(e)'
  BY <1>6, <1>10, <1>11 DEF ExercisedFact
<1>13. \A f \in {e} : f.choice # "Gateway_Redeem" /\ ExercisedFact(f)' /\ f.update = u
  BY <1>10, <1>12
<1>14. \A f, g \in {e} : f = g
  OBVIOUS
<1> QED BY <1>0, <1>5, <1>9, <1>13, <1>14, QuietHistory

LEMMA SettleHistory ==
  ASSUME GInv, HInv, NEW t \in Trades, NEW a \in Active("StablecoinAllocation"),
         DvpTrade_Settle(t, a)
  PROVE  HInv'
<1>1. PICK u, x, y : /\ x = SettledCoin(u, t) /\ y = SettledBill(u, t)
                     /\ Transaction("settle", t, u, {x, y}, {Settlement(u, t, a)},
                                    {a.cid, a.lockedHolding})
  BY SettleIs
<1>2. PICK e : e = Settlement(u, t, a)
  OBVIOUS
<1>3. UNCHANGED gateway /\ a.for = t
  BY DEF DvpTrade_Settle
<1>4. Transaction("settle", t, u, {x, y}, {e}, {a.cid, a.lockedHolding})
  BY <1>1, <1>2
<1>5. /\ Grows /\ u[1] = "settle" /\ u[2] = t /\ Updates' = Updates \cup {u}
      /\ \A c \in {a.cid, a.lockedHolding} : ArchivedAt(c, u)'
      /\ \A T : CreatedAs(T)' = CreatedAs(T) \cup {f \in {x, y} : f.template = T}
  BY <1>3, <1>4, After
<1>6. /\ x.template = "StablecoinHolding" /\ x.cid = Cid("payment", u) /\ x.cid[1] = "payment"
      /\ x.update = u /\ x.owner = "seller" /\ x.amount = Legs[t].payment
      /\ y.template = "TreasuryHolding" /\ y.cid = Cid("delivery", u)
      /\ y.cid[1] = "delivery" /\ y.update = u /\ y.owner = "buyer"
  BY <1>1 DEF SettledCoin, SettledBill, StablecoinHolding, Cid
<1>7. CreatedFact(x)' /\ CreatedFact(y)'
  BY <1>6 DEF CreatedFact, HoldingFact
<1>8. PICK r : /\ e.args = r /\ r.payment = a.cid /\ r.treasury = TreasuryAllocation(t)
               /\ r.paymentResult = {Cid("payment", u)} /\ r.treasuryResult = {Cid("delivery", u)}
               /\ e.choice = "DvpTrade_Settle" /\ e.update = u /\ e.cid = TradeCid(t)
  BY <1>2 DEF Settlement, Exercise
<1>9. PICK v : v = a.update
  OBVIOUS
<1>10. /\ v \in Updates /\ a.cid = Cid("allocation", v) /\ a.lockedHolding = Cid("locked", v)
       /\ v[2] = t
  <2>1. a \in created /\ a.template = "StablecoinAllocation" /\ AllocationOK(a)
    BY AllocationFacts
  <2>2. a.for = a.update[2]
    BY <2>1 DEF HInv, RecordInv, CreatedFact
  <2> QED BY <1>3, <1>9, <2>1, <2>2 DEF AllocationOK, Updates
<1>11. SettleFact(e)'
  <2>1. x \in CreatedAs("StablecoinHolding")' /\ y \in CreatedAs("TreasuryHolding")'
    BY <1>5, <1>6
  <2>2. SettlesFrom(e, v)' /\ v \in Updates'
    BY <1>5, <1>8, <1>10 DEF SettlesFrom
  <2>3. e.args.treasury[1] = "treasury-allocation"
    BY <1>8 DEF TreasuryAllocation, Cid
  <2> QED BY <2>1, <2>2, <2>3, <1>5, <1>6, <1>8 DEF SettleFact
<1>12. ExercisedFact(e)'
  <2>1. e.cid[1] = "trade"
    BY <1>8 DEF TradeCid, Cid
  <2> QED BY <2>1, <1>5, <1>8, <1>11 DEF ExercisedFact
<1>13. \A f \in {e} : f.choice # "Gateway_Redeem" /\ ExercisedFact(f)' /\ f.update = u
  BY <1>8, <1>12
<1>14. \A f \in {x, y} :
         f.template \notin {"MintedLock", "BridgeTradeBinding"} /\ CreatedFact(f)'
  BY <1>6, <1>7
<1> QED BY <1>3, <1>4, <1>13, <1>14, QuietHistory

-----------------------------------------------------------------------------
(* Mint and redemption *)

LEMMA MintHistory ==
  ASSUME GInv, HInv, NEW first \in MintClaims, Gateway_Mint(first)
  PROVE  HInv'
<1>1. PICK u : Transaction("mint", first.lock, u, MintFacts(u, first),
                           {Exercise("Gateway_Mint", Cid("gateway", u), u,
                                     [lock |-> first.lock])}, {})
  BY MintIs
<1>2. PICK l : l = first.lock
  OBVIOUS
<1>3. first.amount = Terms[l].amount /\ first.beneficiary = "buyer"
  BY <1>2, MintClaimsTrue
<1>4. PICK e, x, m, r :
        /\ e = Exercise("Gateway_Mint", Cid("gateway", u), u, [lock |-> first.lock])
        /\ x = StablecoinHolding("mint", u, first.beneficiary, first.amount, FALSE)
        /\ m = [template |-> "MintedLock", cid |-> Cid("minted", u), update |-> u,
                lock |-> first.lock, holding |-> Cid("mint", u), amount |-> first.amount,
                beneficiary |-> first.beneficiary]
        /\ r = [template |-> "BridgeMintRef", cid |-> Cid("ref", u), update |-> u,
                lock |-> first.lock, mintHolding |-> Cid("mint", u), buyer |-> first.beneficiary]
        /\ MintFacts(u, first) = {x, m, r}
  BY DEF MintFacts
<1>5. Transaction("mint", l, u, {x, m, r}, {e}, {})
  BY <1>1, <1>2, <1>4
<1>6. /\ l \notin gateway.mintedLocks
      /\ gateway'.mintedLocks = gateway.mintedLocks \cup {l}
      /\ gateway'.redeemedLocks = gateway.redeemedLocks
  BY <1>2 DEF Gateway_Mint, GInv, GateInv
<1>7. /\ gateway.mintedLocks \subseteq gateway'.mintedLocks
      /\ gateway.redeemedLocks \subseteq gateway'.redeemedLocks
  BY <1>6
<1>8. /\ Grows /\ Updates' = Updates \cup {u} /\ u[1] = "mint" /\ u[2] = l
      /\ \A T : CreatedAs(T)' = CreatedAs(T) \cup {f \in {x, m, r} : f.template = T}
      /\ \A T : ExercisedAs(T)' = ExercisedAs(T) \cup {f \in {e} : f.choice = T}
  BY <1>5, <1>7, After
<1>9. u = MintUpdate(l)
  <2>1. Named("mint", l) = {}
    BY <1>6 DEF Named, HInv, LockInv
  <2>2. u = <<"mint", l, 1 + Cardinality(Named("mint", l))>>
    BY <1>5, FreshIsNew DEF GInv, Transaction
  <2> QED BY <2>1, <2>2, FS_EmptySet DEF MintUpdate
<1>10. Cid("mint", u) = MintHolding(l)
  BY <1>9 DEF MintUpdate, MintHolding
<1>11. /\ x.template = "StablecoinHolding" /\ x.cid = MintHolding(l) /\ x.cid[1] = "mint"
       /\ x.update = u /\ x.owner = "buyer" /\ x.amount = Terms[l].amount
  BY <1>3, <1>4, <1>10 DEF StablecoinHolding, Cid
<1>12. /\ m.template = "MintedLock" /\ m.cid = Cid("minted", u) /\ m.cid[1] = "minted"
       /\ m.update = u /\ m.lock = l /\ m.holding = MintHolding(l)
       /\ m.amount = Terms[l].amount /\ m.beneficiary = "buyer"
  BY <1>2, <1>3, <1>4, <1>10 DEF Cid
<1>13. /\ r.template = "BridgeMintRef" /\ r.cid = Cid("ref", u) /\ r.cid[1] = "ref"
       /\ r.update = u /\ r.lock = l /\ r.mintHolding = MintHolding(l) /\ r.buyer = "buyer"
  BY <1>2, <1>3, <1>4, <1>10 DEF Cid
<1>14. /\ e.choice = "Gateway_Mint" /\ e.cid[1] = "gateway" /\ e.update = u
  BY <1>4 DEF Exercise, Cid
<1>15. \A f \in {x, m, r} : CreatedFact(f)'
  <2>1. CreatedFact(x)'
    BY <1>8, <1>11 DEF CreatedFact, HoldingFact
  <2>2. CreatedFact(m)'
    BY <1>6, <1>9, <1>12 DEF CreatedFact, MintedFact
  <2>3. CreatedFact(r)'
    BY <1>6, <1>9, <1>13 DEF CreatedFact, RefFact
  <2> QED BY <2>1, <2>2, <2>3
<1>16. \A f \in {e} : ExercisedFact(f)' /\ f.update = u
  BY <1>8, <1>14 DEF ExercisedFact
<1>17. RecordInv'
  <2>1. \A f, g \in {e} : f.choice = g.choice => f = g
    OBVIOUS
  <2> QED BY <1>5, <1>7, <1>15, <1>16, <2>1, RecordAfter
<1>18. LockInv'
  <2>1. MintedOnce(l)'
    BY <1>8, <1>9, <1>11, <1>12, <1>13, <1>14 DEF MintedOnce
  <2>2. \A k \in gateway'.mintedLocks : MintedOnce(k)'
    BY <1>6, <1>8, <2>1, MintedKept DEF HInv, LockInv
  <2>3. \A v \in Updates' : v[1] = "mint" => v[2] \in gateway'.mintedLocks
    BY <1>6, <1>8 DEF HInv, LockInv
  <2>4. \A f \in CreatedAs("MintedLock")' : f.holding = MintHolding(f.lock)
    BY <1>8, <1>11, <1>12, <1>13 DEF HInv, LockInv
  <2>5. ExercisedAs("Gateway_Redeem")' = ExercisedAs("Gateway_Redeem")
    BY <1>8, <1>14
  <2> QED BY <1>6, <2>2, <2>3, <2>4, <2>5 DEF HInv, LockInv
<1>19. ChainInv'
  <2>1. \A f \in {x, m, r} : f.template # "BridgeTradeBinding"
    BY <1>11, <1>12, <1>13
  <2> QED BY <1>5, <1>7, <2>1, ChainAfter
<1> QED BY <1>17, <1>18, <1>19 DEF HInv

(* What Gateway_Redeem read of the request, the claims and the binding.    *)
LEMMA RedeemReads ==
  ASSUME GInv, HInv, NEW request \in Active("RedemptionRequest"), NEW first \in RedeemClaims,
         NEW minted \in Active("MintedLock"), NEW b \in Active("BridgeTradeBinding"), NEW coin,
         Gateway_Redeem(request, first, minted, b, coin)
  PROVE  /\ request \in CreatedAs("RedemptionRequest") /\ b \in Bindings(request.lock)
         /\ request.amount = Terms[request.lock].amount
         /\ request.payout = Terms[request.lock].payout /\ request.holder = "seller"
         /\ b.payment = {request.holding} /\ request.holding = coin.cid
         /\ minted.cid = Cid("minted", MintUpdate(request.lock))
<1>1. /\ request.holding = coin.cid /\ minted.lock = request.lock
      /\ Agree(first, request, {"lock", "amount", "digest", "payout"})
      /\ BindingMatches(b, request)
  BY DEF Gateway_Redeem
<1>2. first.lock = request.lock /\ first.amount = request.amount /\ first.payout = request.payout
  BY <1>1 DEF Agree
<1>3. request.amount = Terms[request.lock].amount /\ request.payout = Terms[request.lock].payout
  BY <1>2, RedeemClaimsTrue
<1>4. request \in CreatedAs("RedemptionRequest") /\ b \in CreatedAs("BridgeTradeBinding")
  BY DEF Active
<1>5. minted \in created /\ minted.template = "MintedLock"
  BY ActiveFacts
<1>6. minted.cid = Cid("minted", MintUpdate(request.lock))
  BY <1>1, <1>5 DEF HInv, RecordInv, CreatedFact, MintedFact
<1>7. b.seller = "seller"
  BY <1>4, CreatedFacts DEF CreatedFact, BindingFact
<1> QED BY <1>1, <1>3, <1>4, <1>6, <1>7 DEF BindingMatches, Bindings

LEMMA RedeemHistory ==
  ASSUME GInv, HInv, NEW request \in Active("RedemptionRequest"), NEW first \in RedeemClaims,
         NEW minted \in Active("MintedLock"), NEW b \in Active("BridgeTradeBinding"),
         NEW coin \in Coins, Gateway_Redeem(request, first, minted, b, coin)
  PROVE  HInv'
<1>1. PICK u : Transaction("redeem", request.lock, u, {RedeemedFact(u, request)},
                           Redemption(u, request, minted, b, coin), {coin.cid})
  BY RedeemIs
<1>2. PICK l : l = request.lock
  OBVIOUS
<1>3. /\ request \in CreatedAs("RedemptionRequest") /\ b \in Bindings(l)
      /\ request.amount = Terms[l].amount
      /\ request.payout = Terms[l].payout /\ request.holder = "seller"
      /\ b.payment = {request.holding} /\ request.holding = coin.cid
      /\ minted.cid = Cid("minted", MintUpdate(l))
  BY <1>2, RedeemReads
<1>4. PICK d, e, f :
        /\ d = RedeemedFact(u, request)
        /\ e = Exercise("Gateway_Redeem", Cid("gateway", u), u,
                        [request |-> request.cid, mintedLock |-> minted.cid, binding |-> b.cid])
        /\ f = Exercise("Burn", coin.cid, u, [lock |-> request.lock])
        /\ Redemption(u, request, minted, b, coin) = {e, f}
  BY DEF Redemption
<1>5. Transaction("redeem", l, u, {d}, {e, f}, {coin.cid})
  BY <1>1, <1>2, <1>4
<1>6. /\ l \notin gateway.redeemedLocks
      /\ gateway'.redeemedLocks = gateway.redeemedLocks \cup {l}
      /\ gateway'.mintedLocks = gateway.mintedLocks
  BY <1>2 DEF Gateway_Redeem, GInv, GateInv
<1>7. /\ gateway.mintedLocks \subseteq gateway'.mintedLocks
      /\ gateway.redeemedLocks \subseteq gateway'.redeemedLocks
  BY <1>6
<1>8. /\ Grows /\ Updates' = Updates \cup {u} /\ u[1] = "redeem" /\ u[2] = l
      /\ \A c \in {coin.cid} : ArchivedAt(c, u)'
      /\ \A T : CreatedAs(T)' = CreatedAs(T) \cup {g \in {d} : g.template = T}
      /\ \A T : ExercisedAs(T)' = ExercisedAs(T) \cup {g \in {e, f} : g.choice = T}
  BY <1>5, <1>7, After
<1>9. /\ d.template = "RedeemedLock" /\ d.cid = Cid("redeemed", u) /\ d.cid[1] = "redeemed"
      /\ d.update = u /\ d.lock = l /\ d.amount = Terms[l].amount /\ d.holder = "seller"
  BY <1>2, <1>3, <1>4 DEF RedeemedFact, Cid
<1>10. /\ e.choice = "Gateway_Redeem" /\ e.cid[1] = "gateway" /\ e.update = u
       /\ e.args.request = request.cid /\ e.args.mintedLock = minted.cid
       /\ e.args.binding = b.cid
  BY <1>4 DEF Exercise, Cid
<1>11. f.choice = "Burn" /\ f.cid = coin.cid /\ f.update = u /\ f.args.lock = l
  BY <1>2, <1>4 DEF Exercise
<1>12. \A g \in {d} : CreatedFact(g)'
  BY <1>6, <1>8, <1>9 DEF CreatedFact, RedeemedLockFact
<1>13. RedeemFact(e)'
  <2>1. /\ request \in CreatedAs("RedemptionRequest")' /\ b \in Bindings(l)'
    BY <1>3, <1>8, GrowsFacts
  <2>2. f \in ExercisedAs("Burn")' /\ d \in CreatedAs("RedeemedLock")'
    BY <1>8, <1>9, <1>11
  <2>3. \E q \in CreatedAs("RedemptionRequest")', p \in Bindings(l)' :
          /\ q.cid = e.args.request /\ q.lock = l /\ q.amount = Terms[l].amount
          /\ q.payout = Terms[l].payout /\ q.holder = "seller"
          /\ e.args.binding = p.cid /\ p.payment = {q.holding}
          /\ \E g \in ExercisedAs("Burn")' : g.cid = q.holding /\ g.update = e.update
    BY <1>2, <1>3, <1>10, <1>11, <2>1, <2>2
  <2>4. /\ l \in gateway'.redeemedLocks /\ l = e.update[2]
        /\ e.args.mintedLock = Cid("minted", MintUpdate(l))
    BY <1>3, <1>6, <1>8, <1>10
  <2>5. \E g \in CreatedAs("RedeemedLock")' :
          g.update = e.update /\ g.lock = l /\ g.amount = Terms[l].amount /\ g.holder = "seller"
    BY <1>9, <1>10, <2>2
  <2> QED BY <2>3, <2>4, <2>5 DEF RedeemFact
<1>14. \A g \in {e, f} : ExercisedFact(g)' /\ g.update = u
  <2>1. ExercisedFact(e)'
    BY <1>8, <1>10, <1>13 DEF ExercisedFact
  <2>2. ExercisedFact(f)'
    BY <1>8, <1>11 DEF ExercisedFact
  <2> QED BY <2>1, <2>2, <1>10, <1>11
<1>15. RecordInv'
  <2>1. \A g, h \in {e, f} : g.choice = h.choice => g = h
    BY <1>10, <1>11
  <2> QED BY <1>5, <1>7, <1>12, <1>14, <2>1, RecordAfter
<1>16. LockInv'
  <2>1. ExercisedAs("Gateway_Redeem")' = ExercisedAs("Gateway_Redeem") \cup {e}
    BY <1>8, <1>10, <1>11
  <2>2. \A g \in ExercisedAs("Gateway_Redeem") : g.update[2] # l
    BY <1>6, ExercisedFacts DEF ExercisedFact, RedeemFact
  <2>3. \A g, h \in ExercisedAs("Gateway_Redeem")' : g.update[2] = h.update[2] => g = h
    BY <1>8, <1>10, <2>1, <2>2 DEF HInv, LockInv
  <2>4. \A k \in gateway'.redeemedLocks : \E g \in ExercisedAs("Gateway_Redeem")' : g.update[2] = k
    BY <1>6, <1>8, <1>10, <2>1 DEF HInv, LockInv
  <2>5. \A k \in gateway'.mintedLocks : MintedOnce(k)'
    BY <1>6, <1>8, MintedKept DEF HInv, LockInv
  <2>6. \A v \in Updates' : v[1] = "mint" => v[2] \in gateway'.mintedLocks
    BY <1>6, <1>8 DEF HInv, LockInv
  <2>7. CreatedAs("MintedLock")' = CreatedAs("MintedLock")
    BY <1>8, <1>9
  <2> QED BY <2>3, <2>4, <2>5, <2>6, <2>7 DEF HInv, LockInv
<1>17. ChainInv'
  <2>1. \A g \in {d} : g.template # "BridgeTradeBinding"
    BY <1>9
  <2> QED BY <1>5, <1>7, <2>1, ChainAfter
<1> QED BY <1>15, <1>16, <1>17 DEF HInv

-----------------------------------------------------------------------------
(* The chain of bindings *)

(* A new binding f of a lock, the end of the lock's chain.                 *)
Extends(f, C, A) ==
  /\ C = {f} /\ f.template = "BridgeTradeBinding" /\ CreatedFact(f)'
  /\ Cid("ref", MintUpdate(f.lock)) \in Gone \cup A
  /\ \A c \in Bindings(f.lock) :
       /\ c.trade = f.trade
       /\ c.payment # {} => f.payment = c.payment /\ f.update[1] # "record-payment"
       /\ c.cid \in Gone \cup A

LEMMA ExtendsChain ==
  ASSUME GInv, HInv, NEW kind, NEW subject, NEW u, NEW C, NEW X, NEW A, NEW f,
         Transaction(kind, subject, u, C, X, A), UNCHANGED gateway, kind # "mint",
         \A e \in X : e.choice # "Gateway_Redeem" /\ ExercisedFact(e)' /\ e.update = u,
         \A e, g \in X : e = g, Extends(f, C, A)
  PROVE  HInv'
<1>1. /\ gateway.mintedLocks \subseteq gateway'.mintedLocks
      /\ gateway.redeemedLocks \subseteq gateway'.redeemedLocks
  OBVIOUS
<1>2. /\ C = {f} /\ f.template = "BridgeTradeBinding" /\ CreatedFact(f)'
      /\ Cid("ref", MintUpdate(f.lock)) \in Gone \cup A
  BY DEF Extends
<1>3. RecordInv'
  <2>1. \A g \in C : CreatedFact(g)'
    BY <1>2
  <2>2. \A e, g \in X : e.choice = g.choice => e = g
    OBVIOUS
  <2> QED BY <1>1, <2>1, <2>2, RecordAfter
<1>4. LockInv'
  <2>1. \A g \in C : g.template # "MintedLock"
    BY <1>2
  <2> QED BY <2>1, LockAfter
<1>5. /\ Gone' = Gone \cup A
      /\ \A T : CreatedAs(T)' = CreatedAs(T) \cup {g \in C : g.template = T}
  BY <1>1, After
<1>6. CreatedAs("BridgeTradeBinding")' = CreatedAs("BridgeTradeBinding") \cup {f}
  BY <1>2, <1>5
<1>7. \A l : Bindings(l)' = {b \in CreatedAs("BridgeTradeBinding") \cup {f} : b.lock = l}
  BY <1>6 DEF Bindings
<1>8. /\ Bindings(f.lock)' = Bindings(f.lock) \cup {f}
      /\ \A l : l # f.lock => Bindings(l)' = Bindings(l)
  BY <1>7 DEF Bindings
<1>9. \A c \in Bindings(f.lock) :
        /\ c.trade = f.trade
        /\ c.payment # {} => f.payment = c.payment /\ f.update[1] # "record-payment"
        /\ c.cid \in Gone'
  BY <1>5 DEF Extends
<1>10. ASSUME NEW b \in CreatedAs("BridgeTradeBinding")'
       PROVE  Cid("ref", MintUpdate(b.lock)) \in Gone'
  <2>1. CASE b = f
    BY <1>2, <1>5, <2>1
  <2>2. CASE b \in CreatedAs("BridgeTradeBinding")
    BY <1>5, <2>2 DEF HInv, ChainInv
  <2> QED BY <1>6, <2>1, <2>2
<1>11. ASSUME NEW b \in CreatedAs("BridgeTradeBinding")', NEW c \in Bindings(b.lock)'
       PROVE  /\ c.trade = b.trade
              /\ b.payment # {} /\ c.payment # {} => b.payment = c.payment
              /\ b.cid \notin Gone' =>
                   /\ c.cid \notin Gone' => b = c
                   /\ c.payment # {} => b.payment = c.payment
                   /\ b.update[1] = "record-payment" /\ c.payment # {} => b = c
  <2>1. CASE b = f
    <3>1. c = f \/ c \in Bindings(f.lock)
      BY <1>8, <2>1
    <3>2. CASE c = f
      BY <2>1, <3>2
    <3>3. CASE c \in Bindings(f.lock)
      BY <1>9, <2>1, <3>3
    <3> QED BY <3>1, <3>2, <3>3
  <2>2. CASE b \in CreatedAs("BridgeTradeBinding") /\ c = f
    <3>1. b.lock = f.lock
      BY <2>2, <1>7
    <3>2. b \in Bindings(f.lock)
      BY <2>2, <3>1 DEF Bindings
    <3> QED BY <1>9, <2>2, <3>2
  <2>3. CASE b \in CreatedAs("BridgeTradeBinding") /\ c \in Bindings(b.lock)
    <3>1. /\ c.trade = b.trade
          /\ b.payment # {} /\ c.payment # {} => b.payment = c.payment
          /\ b.cid \notin Gone =>
               /\ c.cid \notin Gone => b = c
               /\ c.payment # {} => b.payment = c.payment
               /\ b.update[1] = "record-payment" /\ c.payment # {} => b = c
      BY <2>3 DEF HInv, ChainInv
    <3> QED BY <1>5, <3>1
  <2>4. c = f \/ c \in Bindings(b.lock)
    BY <1>7 DEF Bindings
  <2> QED BY <1>6, <2>1, <2>2, <2>3, <2>4
<1>12. ChainInv'
  BY <1>10, <1>11 DEF ChainInv
<1> QED BY <1>3, <1>4, <1>12 DEF HInv

LEMMA BindHistory ==
  ASSUME GInv, HInv, NEW ref \in Active("BridgeMintRef"), NEW t, BridgeMintRef_Bind(ref, t)
  PROVE  HInv'
<1>1. PICK u : Transaction("bind", ref.lock, u, {BindFact(u, ref, t)},
                           {Exercise("BridgeMintRef_Bind", ref.cid, u, [lock |-> ref.lock])},
                           {ref.cid})
  BY BindIs
<1>2. PICK f, e : /\ f = BindFact(u, ref, t)
                  /\ e = Exercise("BridgeMintRef_Bind", ref.cid, u, [lock |-> ref.lock])
  OBVIOUS
<1>3. Transaction("bind", ref.lock, u, {f}, {e}, {ref.cid})
  BY <1>1, <1>2
<1>4. /\ UNCHANGED gateway /\ gateway.mintedLocks \subseteq gateway'.mintedLocks
      /\ gateway.redeemedLocks \subseteq gateway'.redeemedLocks
  BY DEF BridgeMintRef_Bind
<1>5. /\ Updates' = Updates \cup {u} /\ \A c \in {ref.cid} : ArchivedAt(c, u)'
      /\ \A T : CreatedAs(T)' = CreatedAs(T) \cup {g \in {f} : g.template = T}
      /\ \A T : ExercisedAs(T)' = ExercisedAs(T) \cup {g \in {e} : g.choice = T}
  BY <1>3, <1>4, After
<1>6. /\ ref.cid = Cid("ref", MintUpdate(ref.lock)) /\ ref.lock \in gateway.mintedLocks
      /\ ref.mintHolding = MintHolding(ref.lock) /\ ref.cid \notin Gone
  <2>1. ref \in created /\ ref.template = "BridgeMintRef" /\ ref.cid \notin Gone
    BY ActiveFacts
  <2> QED BY <2>1 DEF HInv, RecordInv, CreatedFact, RefFact
<1>7. /\ f.template = "BridgeTradeBinding" /\ f.cid = Cid("binding", u) /\ f.cid[1] = "binding"
      /\ f.update = u /\ f.lock = ref.lock /\ f.mintHolding = ref.mintHolding
      /\ f.seller = "seller"
  BY <1>2 DEF BindFact, Cid
<1>8. e.choice = "BridgeMintRef_Bind" /\ e.cid = ref.cid /\ e.update = u
  BY <1>2 DEF Exercise
<1>9. CreatedFact(f)'
  <2>1. e \in ExercisedAs("BridgeMintRef_Bind")' /\ f \in CreatedAs("BridgeTradeBinding")'
    BY <1>5, <1>7, <1>8
  <2>2. f \in Bindings(f.lock)'
    BY <2>1 DEF Bindings
  <2>3. Bound(f.lock)'
    BY <1>6, <1>7, <1>8, <2>1, <2>2 DEF Bound
  <2>4. BindingFact(f)'
    BY <1>4, <1>6, <1>7, <2>3 DEF BindingFact
  <2> QED BY <1>7, <2>4 DEF CreatedFact
<1>10. \A g \in {e} : g.choice # "Gateway_Redeem" /\ ExercisedFact(g)' /\ g.update = u
  BY <1>5, <1>8 DEF ExercisedFact
<1>11. Extends(f, {f}, {ref.cid})
  <2>1. Bindings(f.lock) = {}
    BY <1>6, <1>7 DEF Bindings, HInv, ChainInv
  <2> QED BY <2>1, <1>6, <1>7, <1>9 DEF Extends
<1>12. \A g, h \in {e} : g = h
  OBVIOUS
<1> QED BY <1>3, <1>4, <1>10, <1>11, <1>12, ExtendsChain

(* Recording keeps the payment, or records the first.                      *)
LEMMA RebindHistory ==
  ASSUME GInv, HInv, NEW b \in Active("BridgeTradeBinding"), NEW kind, NEW treasury, NEW payment,
         NEW u, Transaction(kind, b.lock, u, {Rebound(u, b, treasury, payment)}, {}, {b.cid}),
         UNCHANGED gateway, kind # "mint",
         b.payment = {} \/ (payment = b.payment /\ kind # "record-payment")
  PROVE  HInv'
<1>1. PICK f : f = Rebound(u, b, treasury, payment)
  OBVIOUS
<1>2. Transaction(kind, b.lock, u, {f}, {}, {b.cid})
  BY <1>1
<1>3. /\ DOMAIN b = BindingFields /\ b \in created /\ b.template = "BridgeTradeBinding"
      /\ b.cid \notin Gone
  BY BindingFacts
<1>4. /\ f.cid = Cid("binding", u) /\ f.update = u
      /\ f.payment = payment /\ f.template = b.template /\ f.lock = b.lock
      /\ f.mintHolding = b.mintHolding /\ f.seller = b.seller /\ f.trade = b.trade
  BY <1>1, <1>3, ReboundFields
<1>5. /\ gateway.mintedLocks \subseteq gateway'.mintedLocks
      /\ gateway.redeemedLocks \subseteq gateway'.redeemedLocks
  OBVIOUS
<1>6. Grows /\ u[1] = kind
  BY <1>2, <1>5, After
<1>7. BindingFact(b) /\ BindingFact(b)'
  <2>1. CreatedFact(b) /\ CreatedFact(b)'
    BY <1>3, <1>6, CreatedKept DEF HInv, RecordInv
  <2> QED BY <1>3, <2>1 DEF CreatedFact
<1>8. CreatedFact(f)'
  <2>1. BindingFact(f)'
    BY <1>4, <1>7 DEF BindingFact
  <2>2. f.cid[1] = "binding"
    BY <1>4 DEF Cid
  <2> QED BY <1>3, <1>4, <2>1, <2>2 DEF CreatedFact
<1>9. ASSUME NEW c \in Bindings(f.lock)
      PROVE  /\ c.trade = f.trade
             /\ c.payment # {} => f.payment = c.payment /\ f.update[1] # "record-payment"
             /\ c.cid \in Gone \cup {b.cid}
  <2>1. b \in CreatedAs("BridgeTradeBinding") /\ c \in Bindings(b.lock)
    BY <1>3, <1>4 DEF CreatedAs
  <2>2. /\ c.trade = b.trade /\ (c.cid \notin Gone => b = c)
        /\ (c.payment # {} => b.payment = c.payment)
    BY <1>3, <2>1 DEF HInv, ChainInv
  <2> QED BY <1>4, <1>6, <2>2
<1>10. Cid("ref", MintUpdate(f.lock)) \in Gone
  BY <1>3, <1>4 DEF HInv, ChainInv, CreatedAs
<1>11. Extends(f, {f}, {b.cid})
  BY <1>3, <1>4, <1>8, <1>9, <1>10 DEF Extends
<1> QED BY <1>2, <1>11, ExtendsChain

LEMMA RecordHistory ==
  ASSUME GInv, HInv, NEW b \in Active("BridgeTradeBinding"),
         \/ BridgeTradeBinding_RecordTreasury(b)
         \/ \E coin \in Coins : BridgeTradeBinding_RecordPayment(b, coin)
  PROVE  HInv'
<1>1. CASE BridgeTradeBinding_RecordTreasury(b)
  <2>1. PICK u : Transaction("record-treasury", b.lock, u, {Rebound(u, b, TRUE, b.payment)},
                             {}, {b.cid})
    BY <1>1, RecordTreasuryIs
  <2>2. UNCHANGED gateway
    BY <1>1 DEF BridgeTradeBinding_RecordTreasury, Rebind
  <2>3. PICK kind, noted, payment :
          kind = "record-treasury" /\ noted = TRUE /\ payment = b.payment
    OBVIOUS
  <2>4. Transaction(kind, b.lock, u, {Rebound(u, b, noted, payment)}, {}, {b.cid})
    BY <2>1, <2>3
  <2>5. kind # "mint" /\ payment = b.payment /\ kind # "record-payment"
    BY <2>3
  <2> QED BY <2>2, <2>4, <2>5, RebindHistory
<1>2. CASE \E coin \in Coins : BridgeTradeBinding_RecordPayment(b, coin)
  <2>0. PICK coin \in Coins : BridgeTradeBinding_RecordPayment(b, coin)
    BY <1>2
  <2>1. PICK u : Transaction("record-payment", b.lock, u,
                             {Rebound(u, b, b.treasury, {coin.cid})}, {}, {b.cid})
    BY <2>0, RecordPaymentIs
  <2>2. UNCHANGED gateway /\ b.payment = {}
    BY <2>0 DEF BridgeTradeBinding_RecordPayment, Rebind
  <2> QED BY <2>1, <2>2, RebindHistory
<1> QED BY <1>1, <1>2

-----------------------------------------------------------------------------
(* The theorems *)

LEMMA HistoryStep ==
  ASSUME GInv, HInv, [Next]_vars
  PROVE  HInv'
<1>1. CASE UNCHANGED vars
  <2>1. created' = created /\ exercised' = exercised /\ archived' = archived /\ gateway' = gateway
    BY <1>1 DEF vars, history
  <2>2. Grows
    BY <2>1 DEF Grows
  <2>3. RecordInv'
    BY <2>1, <2>2, CreatedKept, ExercisedKept DEF HInv, RecordInv
  <2>4. /\ Updates' = Updates /\ Gone' = Gone /\ \A l : Bindings(l)' = Bindings(l)
        /\ \A T : CreatedAs(T)' = CreatedAs(T) /\ ExercisedAs(T)' = ExercisedAs(T)
    BY <2>1 DEF Updates, Gone, CreatedAs, ExercisedAs, Bindings
  <2>5. LockInv'
    BY <2>1, <2>2, <2>4, MintedKept DEF HInv, LockInv
  <2>6. ChainInv'
    BY <2>4 DEF HInv, ChainInv
  <2> QED BY <2>3, <2>5, <2>6 DEF HInv
<1>2. ASSUME NEW first \in MintClaims, Gateway_Mint(first) PROVE HInv'
  BY <1>2, MintHistory
<1>3. ASSUME NEW ref \in Active("BridgeMintRef"), NEW t \in Trades, BridgeMintRef_Bind(ref, t)
      PROVE  HInv'
  BY <1>3, BindHistory
<1>4. ASSUME NEW b \in Active("BridgeTradeBinding"),
             \/ BridgeTradeBinding_RecordTreasury(b)
             \/ \E coin \in Coins : BridgeTradeBinding_RecordPayment(b, coin)
      PROVE  HInv'
  BY <1>4, RecordHistory
<1>5. ASSUME NEW t \in Trades, NEW inputs \in SUBSET Coins, Allocate(t, inputs) PROVE HInv'
  BY <1>5, AllocateHistory
<1>6. ASSUME NEW a \in Active("StablecoinAllocation"), Withdraw(a) PROVE HInv'
  BY <1>6, WithdrawHistory
<1>7. ASSUME NEW t \in Trades, NEW a \in Active("StablecoinAllocation"), DvpTrade_Settle(t, a)
      PROVE  HInv'
  BY <1>7, SettleHistory
<1>8. ASSUME NEW coin \in Coins, NEW l \in Locks, NEW k \in Locks, RedemptionRequest(coin, l, k)
      PROVE  HInv'
  BY <1>8, RequestHistory
<1>9. ASSUME NEW request \in Active("RedemptionRequest"), NEW first \in RedeemClaims,
             NEW minted \in Active("MintedLock"), NEW b \in Active("BridgeTradeBinding"),
             NEW coin \in Coins, Gateway_Redeem(request, first, minted, b, coin)
      PROVE  HInv'
  BY <1>9, RedeemHistory
<1> QED BY <1>1, <1>2, <1>3, <1>4, <1>5, <1>6, <1>7, <1>8, <1>9 DEF Next

(* What the facts of the history stand for holds always, beside the        *)
(* gateway's own invariant.                                                *)
THEOREM HistoryInvariance == Spec => [](GInv /\ HInv)
<1>1. Init => GInv /\ HInv
  BY GatewayInit, HistoryInit
<1>2. GInv /\ HInv /\ [Next]_vars => GInv' /\ HInv'
  BY GatewayStep, HistoryStep
<1> QED BY <1>1, <1>2, PTL DEF Spec

(* Evidence that connect_canton_history accepts for a lock is true: the    *)
(* lock was redeemed by burning that very coin, the coin was paid out of   *)
(* the lock's own mint by the lock's own trade against the Treasury, and   *)
(* no other lock is accepted on it.                                        *)
THEOREM EvidenceIsSound == Spec => []EvidenceSound
BY HistoryInvariance, Sound, PTL

(* What verify-bridge-completion.canton accepts, connect_canton_history    *)
(* accepts in every order in which the facts are read back.                *)
THEOREM ReadersNeverDisagree == Spec => []ReadersAgree
BY HistoryInvariance, Agreement, PTL

(* An undisturbed operation is accepted in every order in which the facts  *)
(* are read back, so that its coordinator can finish.                      *)
THEOREM UndisturbedIsAccepted == Spec => []EvidenceComplete
BY HistoryInvariance, Completeness, PTL
=============================================================================
