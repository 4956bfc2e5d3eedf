----------------------------- MODULE Settlement -----------------------------
(***************************************************************************)
(* Delivery versus payment on the Canton ledger: the Treasury and          *)
(* stablecoin registries (daml/treasury-registry, daml/stablecoin-registry:*)
(* the same holding, eligibility and allocation code, written twice) and   *)
(* the trade contracts (daml/dvp-settlement).  A choice is one Daml        *)
(* transaction and so one atomic action; a failed assertMsg or fetch       *)
(* rolls it back and is a disabled action.                                 *)
(*                                                                         *)
(* Contracts are counted, not named: two holdings with the same fields are *)
(* interchangeable, and the only reference between contracts that is       *)
(* stored, an allocation's lockedHoldingCid, is the lock field of the      *)
(* holding.  A trade is named by its original proposal, the settlementRef  *)
(* that its allocations carry; proposals are created with tradeCid = None. *)
(***************************************************************************)
EXTENDS Integers, FiniteSets, SequencesExt

CONSTANTS Trades,        \* original proposals
          Terms,         \* agreed amounts and deadlines of each trade
          Specs,         \* AllocationSpecifications a sender may submit
          Joint,         \* those the three parties may execute without a trade
          Attestations,  \* eligibility contracts the registries may create
          Granted,       \* those created before the first step
          Revocable,     \* those the registries may revoke
          MaxSupply,     \* bound on each instrument's outstanding amount
          MaxInputs,     \* bound on the input holdings of an allocation
          MaxCopies,     \* bound on simultaneous equal allocations
          MaxTime        \* bound on ledger time

Parties == {"seller", "buyer"}
Instruments == {"treasury", "cash"}
LegIds == {"delivery", "payment"}
Amounts == 1..MaxSupply

ASSUME SettlementAssumption ==
  /\ MaxSupply \in Nat \ {0} /\ MaxInputs \in Nat /\ MaxCopies \in Nat /\ MaxTime \in Nat
  /\ \A t \in Trades : Terms[t] \in [delivery : Amounts, payment : Amounts,
                                     allocateBefore : Nat, settleBefore : Nat]
  /\ Specs \subseteq [ref : Trades, leg : LegIds, sender : Parties, receiver : Parties,
                      instrument : Instruments, amount : Amounts,
                      allocateBefore : Nat, settleBefore : Nat]
  /\ IsFiniteSet(Specs) /\ Joint \subseteq Specs
  /\ Attestations \subseteq [instrument : Instruments, investor : Parties,
                             status : {"Eligible", "Suspended"}, from : Nat, until : Nat]
  /\ Granted \subseteq Attestations /\ Revocable \subseteq Attestations

VARIABLES holdings,   \* number of holdings with the same fields
          allocations,\* number of allocations with the same specification
          trade,      \* state of each trade
          approvers,  \* who approved its proposal, while that exists
          attested,   \* attestations: "absent", "active" or "revoked"
          now         \* ledger time

contracts == <<trade, approvers>>
vars == <<holdings, allocations, contracts, attested, now>>

-----------------------------------------------------------------------------
(* Holdings *)

NoLock == [ref |-> "none"]

Holding(owner, instrument, amount) ==
  [owner |-> owner, instrument |-> instrument, amount |-> amount, lock |-> NoLock]

(* The holding an allocation locks, and the one its execution delivers.    *)
LockedFor(s) == [owner |-> s.sender, instrument |-> s.instrument,
                 amount |-> s.amount, lock |-> s]

Delivered(s) == Holding(s.receiver, s.instrument, s.amount)

Returned(s) == Holding(s.sender, s.instrument, s.amount)

Holdings == {Holding(p, i, a) : p \in Parties, i \in Instruments, a \in Amounts}
              \cup {LockedFor(s) : s \in Specs}

Occurrences(h, list) == Cardinality({n \in DOMAIN list : list[n] = h})

(* Archive the contracts of one list and create those of another.          *)
Replace(archived, created) ==
  /\ \A n \in DOMAIN archived : Occurrences(archived[n], archived) <= holdings[archived[n]]
  /\ holdings' = [h \in Holdings |-> holdings[h] - Occurrences(h, archived)
                                                 + Occurrences(h, created)]

Total(list) == FoldSeq(LAMBDA h, sum : h.amount + sum, 0, list)

Owned(p, i) == {h \in Holdings : holdings[h] > 0 /\ h.owner = p /\ h.instrument = i}

(* What a party owns of an instrument, locked or not.                      *)
Balance(p, i) == MapThenSumSet(LAMBDA h : h.amount * holdings[h], Owned(p, i))

Supply(i) == Balance("seller", i) + Balance("buyer", i)

(* Faulty variant: the lock is not looked at.                              *)
AnyHolding(h) == TRUE

Unlocked(h) == h.lock = NoLock

Create(p, i, a) ==
  /\ Supply(i) + a <= MaxSupply
  /\ Replace(<<>>, <<Holding(p, i, a)>>)
  /\ UNCHANGED <<allocations, contracts, attested, now>>

Issue(p, a) == Create(p, "treasury", a)

Mint(p, a) == Create(p, "cash", a)

Burn(h) == /\ h.instrument = "cash" /\ Unlocked(h)
           /\ Replace(<<h>>, <<>>)
           /\ UNCHANGED <<allocations, contracts, attested, now>>

Split(h, a) == /\ Unlocked(h) /\ 0 < a /\ a < h.amount
               /\ Replace(<<h>>, <<[h EXCEPT !.amount = a],
                                   [h EXCEPT !.amount = @ - a]>>)
               /\ UNCHANGED <<allocations, contracts, attested, now>>

(* Faulty variant: the other holding is not archived.                      *)
MergeKeepingOther(h, g) ==
  /\ Unlocked(h) /\ Unlocked(g)
  /\ g.instrument = h.instrument /\ g.owner = h.owner
  /\ Replace(<<h, g>>, <<[h EXCEPT !.amount = @ + g.amount], g>>)
  /\ UNCHANGED <<allocations, contracts, attested, now>>

Merge(h, g) == /\ Unlocked(h) /\ Unlocked(g)
               /\ g.instrument = h.instrument /\ g.owner = h.owner
               /\ Replace(<<h, g>>, <<[h EXCEPT !.amount = @ + g.amount]>>)
               /\ UNCHANGED <<allocations, contracts, attested, now>>

-----------------------------------------------------------------------------
(* Eligibility *)

Attest(e) == /\ attested[e] = "absent" /\ e.from < e.until
             /\ attested' = [attested EXCEPT ![e] = "active"]
             /\ UNCHANGED <<holdings, allocations, contracts, now>>

Revoke(e) == /\ attested[e] = "active"
             /\ attested' = [attested EXCEPT ![e] = "revoked"]
             /\ UNCHANGED <<holdings, allocations, contracts, now>>

(* Faulty variant: validity is only asked for at this moment.              *)
EligibleNow(e, i, p, settleBefore) ==
  /\ e.instrument = i /\ e.investor = p /\ e.status = "Eligible"
  /\ e.from <= now /\ now < e.until

(* requireEligible.                                                        *)
RequireEligible(e, i, p, settleBefore) ==
  /\ e.instrument = i /\ e.investor = p /\ e.status = "Eligible"
  /\ e.from <= now /\ now < e.until /\ settleBefore <= e.until

(* The sender names active attestations of itself and of the receiver.     *)
EligibleParties(s) ==
  \A p \in {s.sender, s.receiver} :
    \E e \in Attestations : /\ attested[e] = "active"
                            /\ RequireEligible(e, s.instrument, p, s.settleBefore)

-----------------------------------------------------------------------------
(* Allocations *)

(* allocationFactory_allocateImpl: lock what the leg needs, return change. *)
Allocate(s, inputs) ==
  /\ now < s.allocateBefore /\ s.allocateBefore < s.settleBefore
  /\ inputs # <<>>
  /\ \A n \in DOMAIN inputs : /\ inputs[n].owner = s.sender
                              /\ inputs[n].instrument = s.instrument
                              /\ Unlocked(inputs[n])
  /\ Total(inputs) >= s.amount
  /\ EligibleParties(s)
  /\ LET rest == Total(inputs) - s.amount
     IN  Replace(inputs, IF rest > 0
                         THEN <<LockedFor(s), Holding(s.sender, s.instrument, rest)>>
                         ELSE <<LockedFor(s)>>)
  /\ allocations' = [allocations EXCEPT ![s] = @ + 1]
  /\ UNCHANGED <<contracts, attested, now>>

(* returnToSender, behind Allocation_Withdraw (by the sender) and          *)
(* Allocation_Cancel (by executor, sender and receiver together).          *)
ReturnToSender(s) ==
  /\ allocations[s] > 0
  /\ Replace(<<LockedFor(s)>>, <<Returned(s)>>)
  /\ allocations' = [allocations EXCEPT ![s] = @ - 1]
  /\ UNCHANGED <<contracts, attested, now>>

Withdraw(s) == ReturnToSender(s)

Cancel(s) == ReturnToSender(s)

(* Allocation_ExecuteTransfer outside a trade needs all three parties.     *)
ExecuteTransfer(s) ==
  /\ allocations[s] > 0
  /\ now < s.settleBefore
  /\ Replace(<<LockedFor(s)>>, <<Delivered(s)>>)
  /\ allocations' = [allocations EXCEPT ![s] = @ - 1]
  /\ UNCHANGED <<contracts, attested, now>>

-----------------------------------------------------------------------------
(* Proposals and trades *)

WellFormedTrade(t) == Terms[t].allocateBefore < Terms[t].settleBefore

Propose(t) == /\ trade[t] = "none" /\ WellFormedTrade(t)
              /\ trade' = [trade EXCEPT ![t] = "proposed"]
              /\ UNCHANGED <<holdings, allocations, approvers, attested, now>>

Accept(t, p) == /\ trade[t] = "proposed" /\ p \notin approvers[t]
                /\ approvers' = [approvers EXCEPT ![t] = @ \cup {p}]
                /\ UNCHANGED <<holdings, allocations, trade, attested, now>>

(* DvpProposal_Reject, AllocationRequest_Reject by a sender and            *)
(* AllocationRequest_Withdraw by the venue archive the contract and        *)
(* nothing else: allocations stay with their senders.                      *)
End(t, state) == /\ trade[t] = state
                 /\ trade' = [trade EXCEPT ![t] = "ended"]
                 /\ approvers' = [approvers EXCEPT ![t] = {}]
                 /\ UNCHANGED <<holdings, allocations, attested, now>>

RejectProposal(t) == End(t, "proposed")

EndRequest(t) == End(t, "open")

InitiateSettlement(t) ==
  /\ trade[t] = "proposed"
  /\ approvers[t] = Parties
  /\ now < Terms[t].allocateBefore
  /\ trade' = [trade EXCEPT ![t] = "open"]
  /\ approvers' = [approvers EXCEPT ![t] = {}]
  /\ UNCHANGED <<holdings, allocations, attested, now>>

(* expectedAllocation: both legs of a trade as its allocations must read.  *)
ExpectedAllocation(t, leg) ==
  LET sender == IF leg = "delivery" THEN "seller" ELSE "buyer"
  IN  [ref |-> t, leg |-> leg, sender |-> sender,
       receiver |-> IF sender = "seller" THEN "buyer" ELSE "seller",
       instrument |-> IF leg = "delivery" THEN "treasury" ELSE "cash",
       amount |-> Terms[t][leg],
       allocateBefore |-> Terms[t].allocateBefore, settleBefore |-> Terms[t].settleBefore]

(* Faulty variant: the leg's amount is not compared.                       *)
AnyAmount(t, leg, s) ==
  [s EXCEPT !.amount = Terms[t][leg]] = ExpectedAllocation(t, leg)

Matches(t, leg, s) == s = ExpectedAllocation(t, leg)

(* DvpTrade_Settle with one allocation per leg: both execute or none.      *)
Settle(t, d, c) ==
  /\ trade[t] = "open"
  /\ now < Terms[t].settleBefore
  /\ d # c /\ allocations[d] > 0 /\ allocations[c] > 0
  /\ Matches(t, "delivery", d) /\ Matches(t, "payment", c)
  /\ now < d.settleBefore /\ now < c.settleBefore
  /\ Replace(<<LockedFor(d), LockedFor(c)>>, <<Delivered(d), Delivered(c)>>)
  /\ allocations' = [allocations EXCEPT ![d] = @ - 1, ![c] = @ - 1]
  /\ trade' = [trade EXCEPT ![t] = "settled"]
  /\ UNCHANGED <<approvers, attested, now>>

Tick == /\ now < MaxTime
        /\ now' = now + 1
        /\ UNCHANGED <<holdings, allocations, contracts, attested>>

-----------------------------------------------------------------------------
Init == /\ holdings = [h \in Holdings |-> 0]
        /\ allocations = [s \in Specs |-> 0]
        /\ trade = [t \in Trades |-> "none"]
        /\ approvers = [t \in Trades |-> {}]
        /\ attested = [e \in Attestations |-> IF e \in Granted THEN "active" ELSE "absent"]
        /\ now = 0

Next ==
  \/ \E p \in Parties, a \in Amounts : Issue(p, a) \/ Mint(p, a)
  \/ \E h \in Holdings : \/ Burn(h)
                         \/ \E a \in Amounts : Split(h, a)
                         \/ \E g \in Holdings : Merge(h, g)
  \/ \E e \in Attestations : Attest(e)
  \/ \E e \in Revocable : Revoke(e)
  \/ \E s \in Specs : \/ /\ allocations[s] < MaxCopies
                         /\ \E inputs \in SeqOf(Owned(s.sender, s.instrument), MaxInputs) :
                              Allocate(s, inputs)
                      \/ Withdraw(s) \/ Cancel(s)
  \/ \E s \in Joint : ExecuteTransfer(s)
  \/ \E t \in Trades : \/ Propose(t) \/ RejectProposal(t)
                       \/ InitiateSettlement(t) \/ EndRequest(t)
                       \/ \E p \in Parties : Accept(t, p)
                       \/ \E d, c \in Specs : Settle(t, d, c)
  \/ Tick

Spec == Init /\ [][Next]_vars

-----------------------------------------------------------------------------
(* Properties *)

TypeOK == /\ holdings \in [Holdings -> 0..MaxSupply]
          /\ allocations \in [Specs -> 0..MaxCopies]
          /\ trade \in [Trades -> {"none", "proposed", "open", "settled", "ended"}]
          /\ approvers \in [Trades -> SUBSET Parties]
          /\ attested \in [Attestations -> {"absent", "active", "revoked"}]
          /\ now \in 0..MaxTime

(* Every allocation owns exactly one locked holding of its leg and no      *)
(* locked holding is left without an allocation: splitting, merging,       *)
(* burning and allocating never touch it, and a withdrawal after the trade *)
(* ended always finds it (Allocation.daml, Holding.daml).                  *)
LocksBackAllocations == \A s \in Specs : holdings[LockedFor(s)] = allocations[s]

(* The legs of a trade as the abstract specification sees them.            *)
Legs == [t \in Trades |-> [delivery |-> ExpectedAllocation(t, "delivery"),
                           payment |-> ExpectedAllocation(t, "payment")]]

A == INSTANCE AtomicDvp WITH
       balance <- [p \in Parties |-> [i \in Instruments |-> Balance(p, i)]],
       settled <- {t \in Trades : trade[t] = "settled"}

(* Delivery versus payment: whatever is allocated, withdrawn, split,       *)
(* merged, rejected or late, what the parties own changes only by a whole  *)
(* trade, with its own amounts and once (DvpTrade_Settle).                 *)
AtomicDvpImplemented == A!Spec

Covered(s) == \A p \in {s.sender, s.receiver} :
                \E e \in Attestations :
                  /\ attested[e] # "absent" /\ e.status = "Eligible"
                  /\ e.instrument = s.instrument /\ e.investor = p
                  /\ e.from <= now /\ now < e.until

(* Both parties of a transfer held an attestation that covers the moment   *)
(* of delivery, though eligibility is checked only when the allocation is  *)
(* made; it may have been revoked since (Rules.daml, requireEligible).     *)
DeliveredWhileEligible ==
  [][\A s \in Specs :
       /\ allocations'[s] < allocations[s]
       /\ Balance(s.receiver, s.instrument)' > Balance(s.receiver, s.instrument)
       => Covered(s)]_vars
=============================================================================
