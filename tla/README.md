# Verification of the Canton Treasury DvP bridge

TLA+ models of the confidential bridge between Solana, Zama and Canton, and of
the delivery-versus-payment contracts it feeds. TLC checks small instances; TLAPS
proves every safety property and refinement of the runs for every instance.
Paths below are relative to the repository root.

## 1. The system

A client locks a confidential Token-2022 balance in a Solana escrow. A risk engine
on Zama keeps the exposure of all such locks encrypted and within limits. Two of
three attesters authorize a mint; the amount appears as cash on Canton, pays for a
Treasury in a DvP trade, is redeemed (burned) by the seller, and the escrow
releases the locked balance to the seller's account on Solana. If nothing was
minted, the lock is refunded. One coordinator process drives all of this from a
journal file.

| component | state | operations |
|---|---|---|
| Escrow program (`solana/programs/confidential-escrow`) | attester set, one receipt per operation, one approval record per operation and direction, the shared vault | initialize, lock, approve (mint, cancel, release), cancel, release |
| Risk engine (`zama/contracts`) | capacity, reserved and active exposure, per client limit and usage, reservations, pause flag, policy epoch | configure, reserve, finalize, cancel, redeem, pause, rollover |
| Coordinator (`bridge/src`) | journal on disk, its copy in memory, proofs and deadlines of unfinished approvals | run, cancel, expiry recovery; fault-injection options |
| Canton bridge scripts (`daml/bridge-tests/.../Runtime.daml`) | none: decide from the ledger | mint, prepare trade, settle, redeem |
| Bridge gateway (`daml/bridge-gateway`) | attestations, minted and redeemed locks, bindings | Gateway_Mint, Gateway_Redeem, record outputs |
| Registries (`daml/treasury-registry`, `daml/stablecoin-registry`) | holdings, eligibility, allocations | issue, mint, burn, split, merge, allocate, withdraw, cancel, execute, revoke |
| DvP contracts (`daml/dvp-settlement`) | proposals, allocation requests, trades | accept, reject, initiate, withdraw, settle |
| Reassignment (`canton/scripts/reassign.canton`) | synchronizer of the Treasury and the trade | unassign, assign |
| Completion history (`canton/scripts/verify-bridge-completion.canton`, `bridge/src/canton_history.rs`) | none: reads the update history of the participants | connect a lock's mint, binding, payment, settlement, request and burn |
| Account set-up (`bridge/src/setup.rs`, `journal.rs`) | one mint, vault and pair of confidential accounts, per operation directory a journal and a secrets file | provision, persist, reuse, reverse, deposit, apply |
| Units (`bridge/src/units.rs`) | none | base units, whole tokens and decimal texts into each other |
| Probes, topology | none of their own | inspection |

How they interact. The ledgers never call each other. The coordinator submits one
transaction at a time, waits for its confirmation, then saves the journal. Whoever
relays a transaction may be slow: a transaction that timed out for the coordinator
can land during a later run. Signatures of the attesters are shared state on
Solana, the reservation's status on Zama, contracts on Canton; on restart the
coordinator compares them with the journal. The trading parties act on Canton on
their own at any time. Several operations, each with a coordinator and a directory of
its own, share the mint, the vault and the two endpoints; a later operation takes the
accounts over from the files of an earlier one, possibly in the opposite direction.

What is hard. Crashes between a submission and its journal entry; late and lost
transactions; approvals that expire, are replaced and are completed late; two
digests competing for one record; a mint and a refund racing for one receipt;
several submissions that only together make one logical step (settlement and the
recording of its outputs, unassign and assign); counters at their width; checks
made when something is allocated and relied on when it is delivered; a balance the
owner decrypts from a copy that only the owner keeps true; files and accounts that
are made in many transactions and found half made.
`PROJECT.json` lists each of these as a hazard at its line.

## 2. Modules

| module | models | state and actions |
|---|---|---|
| `Escrow` | the Solana program | one variable per account kind, one action per instruction (`Initialize`, `LockConfidential`, `ApproveOperation`, `CancelConfidential`, `ReleaseConfidential`) and the clock. A failed `require!` reverts the instruction and is a disabled action |
| `RiskEngine` | `ConfidentialRiskEngine.sol` | one variable per storage field, one action per function. `FHE.select` is a conditional value, a failed try-operation yields its default, a revert is a disabled action |
| `Coordinator` | `workflow.rs`, `recovery.rs`, `reservation.rs`, `journal.rs`, `Runtime.daml`, `reassign.canton` | composes `Escrow` (INSTANCE) with one reservation, one operation's contracts on Canton, the journal, the process and the transactions of dead processes. One action per step of `run_full` between two external effects |
| `ValuePath` | what the bridge promises | the place of the value and whether exposure covers it |
| `Settlement` | both registries and the trade contracts | counted contracts; one action per choice |
| `AtomicDvp` | what DvP promises | balances and the set of settled trades |
| `Gateway` | `daml/bridge-gateway` and, under contract names, the payment side of a trade | the update history as sets of created, exercised and archived facts, and the gateway's two lock sets; one action per choice |
| `BackedCash` | what the gateway promises | the stage of each lock and the cash in circulation |
| `CantonHistory` | `connect_canton_history` and the console script's version of it | operators over `Gateway`'s facts; `Accepted(l)` is the evidence let through for a lock |
| `Accounts` | `setup.rs`, the files of `journal.rs`, account reuse and the balances behind `workflow.rs` | several operations on one set of accounts: the directories, the four balances of each confidential account, a process per operation. One action per step of a run; `Provision` takes one transaction of `create_bridge_accounts` at a time, `Persist` one file |
| `Custody` | what the accounts promise | where the supply is and the stage of each operation |
| `Units` | `units.rs`, the amount readers of `canton.rs` and `canton_history.rs` | operators over texts and base units, with radix and widths as parameters |
| `MCEscrow`, `MCRiskEngine`, `MCSettlement`, `MCGateway`, `MCAccounts` | instances for TLC | symmetry sets, terms, allocations, attestations; `MCAccounts` joins `Accounts` and `Units` |
| `EscrowProofs`, `RiskEngineProofs`, `CoordinatorProofs`, `AccountsProofs`, `SettlementProofs`, `GatewayProofs`, `HistoryProofs` | theorems about the module each is named after (`HistoryProofs`: `CantonHistory`) | section 4 |
| `Sums` | lemmas on finite sums (`MapThenSumSet`), used by the proofs about counters, balances and supply | |

Operators whose comment begins "Faulty variant" are the definitions the mutation
runs substitute for their neighbour; no specification uses them.

### Abstractions

- *Hashes* are the records of the fields they commit to. *Ciphertexts* are
  plaintexts (risk engine) or one unit per operation (escrow). Equal units make the
  values of two operations interchangeable, which is the hard case for the vault.
- *Signatures* in `Escrow` are not scarce: any key may sign anything at any time. In
  `Coordinator` only the coordinator's own requests are signed.
- *Account checks* (owner, mint, extension layout) and role administration accept
  the configured accounts and callers.
- `--stop-after`, `--halt-after-first-approval` and a killed process are all `Crash`,
  which may strike between any two steps. `--omit-journal-save` is the constant
  `Omits`.
- *Canton submissions* take effect at once: the scripts run them synchronously and
  a script that dies between two of them is a crash between two steps. Solana and
  Zama transactions land, are refused, land late or are lost. A hardhat call whose
  answer is lost is sent again by the same process (`Retry`, as `run_hardhat` does);
  each retry counts as a fault, and the first call may land after the second.
- *Contracts in `Settlement`* are counted, not named. The single stored reference,
  an allocation's locked holding, is kept as the lock of the holding. The implicit
  Archive choice, which needs every signatory, is not modelled.
- *Contracts in `Gateway`* are named, because the gateway and the verifier follow
  contract ids. An update is named by its choice and subject and a contract by its
  role in the update that made it, so the order of independent updates leaves no
  trace in the names. Attestations are contracts that exist from the start: creating
  one needs its signer only and no choice archives one. The registry's `Mint` and `Burn`
  are reached through the gateway only. Splitting, merging, eligibility, deadlines
  and the Treasury side of a trade are `Settlement`'s subject. Where a template takes
  whatever its signer writes, the inputs tried are those a later choice could let through: a
  payment or a request names an active coin of its own party, with that coin's amount and the
  digest and payout of some lock (`Gateway.daml:123-165` refuses the rest), and a
  binding names a real trade with the one seller, who is not the buyer.
- *The history reader* sees sets of facts. The script merges the views of five
  participants and prints them in no fixed order; where the Rust code keeps the last
  of several candidates (`max_by_key` in `binding_for_lock`), any of them is
  possible. The reader decides from the facts alone, so it is also
  modelled where the script's own connection failed. The script's connections were
  compared with the reader's one by one and coincide, so `ScriptAccepts` shares them and
  differs where the script does, in the choice of the binding.
- *Confidential accounts* have the ciphertext of the available balance (its value and a
  version), the pending balance with its counter, and the decryptable copy. A transfer
  proof is bound to one version and to what the copy said when it was made. Release and
  cancel proofs are made when the transaction is sent: the vault does not change while an
  operation is open, so proofs saved in the journal and fresh ones are for the same version.
  A lock reads the balances and makes its proof in one step; what changes in between changes
  the version, and the landing transaction is refused as it would be later.
- *Coordinator* has one Treasury holding and one rules contract on their synchronizer, so the
  counts of `reassign.canton` that concern them always hold; the balances that `lock_once`
  compares before a lock are in `Accounts`.
- *Accounts* leaves out what other modules are about: attesters always sign, the
  trade settles, the reservation is approved. Expiry recovery, `--omit-journal-save`,
  the relayer demonstration and chain resets are not in it. The transactions
  that go straight to the RPC node land at their step or not at all; relayed ones (lock,
  release, cancel) may land after their process died. Accounts made before `initialize`
  are known to their attempt only. The mint authority is a key of the attempt that is
  never stored, so the supply is what the first run deposited.
- *Texts* in `Units` are decimals; anything else is refused by every reader.
- `RiskEngine` and the reservation inside `Coordinator` are separate: for one
  operation the engine's decision is an arbitrary Boolean, and `RiskEngine` shows
  what stands behind it.

## 3. Runs

| run | checks | states |
|---|---|---|
| `escrow` | one operation, four keys for three seats, two accounts, every deadline in 0..3 | 0.53 M |
| `escrow_pair` | two operations sharing the vault | 1.2 M |
| `risk` | three reservations, two clients, counters of width 0..4, amounts 0..3 | 0.21 M |
| `coordinator` | safety of one operation across the ledgers | 2.4 M |
| `resume` | liveness of lock, mint and release under restarts | 0.22 M |
| `accounts` | two operations on one set of accounts, provisioning, reuse and reversal, one crash; the conversion of amounts | 1.1 M |
| `dvp` | two identical trades with matching and nearly matching allocations | 52 k |
| `eligibility` | one trade, changing attestations, transfers outside the trade | 36 k |
| `gateway` | two locks and two trades of equal amounts, one false attester, the history checks in every state | 83 k |
| `refund_after_crash`, `outputs_after_crash`, `reassign_after_crash` | one documented claim each, refuted (section 6) | |

**Escrow.** `MintQuorumExcludesCancel`: two mint signatures on record mean the
lock cannot be refunded any more, which the coordinator relies on when it mints
after reading only the signer bitmap. `TerminalIsApproved`: a closed receipt has
exactly one consumed quorum behind it, to the right destination. `RecordsCoherent`:
an approval always speaks about its own lock. `QuorumOnOneDigest`: replacing an
expired approval never keeps old signatures. `NoStaleAuthorization`,
`ReceiptFinal`, `VaultBacked`: deadlines bind, closed receipts stay closed, no
operation is paid from another one's lock.

**Risk engine.** `ExposureAccounted`: the encrypted counters are the sums over the
live reservations; statuses advance even when the arithmetic fails, so a counter
that ever went wrong would stay wrong. `GrowthWithinPolicy`: growth respects the
limits of the moment, also where the counters would overflow. `RejectedIsInert`:
a rejected reservation, though recorded and finalizable like any other, never
moves a counter. `TypeOK` is a well-formed contract: beyond the types, reserved and active
exposure together fit one `euint64`, so that the next `reserve` can add them and `finalize`
can move an amount from one to the other, and a reservation holds an amount exactly when it
was approved.

**Coordinator.** `CirculationBacked`, `ReleaseAfterBurn`, `ExposureCoversValue`
relate the three ledgers: cash on Canton has a lock behind it, the vault pays only
after the burn, exposure brackets the value. `ValuePathImplemented` says the same
as a refinement, over every step: the value takes one route and is in one place.
`JournalTruthful`: whatever a resumed run will skip has happened.
This includes the trade's eligibility attestations, which are separate submissions: a
trade attested halfway is never noted as reassigned or settled.
`SupplyInVault`: the vault holds the unit from the mint until the payout, also between
burn and release, and nothing after an operation the journal ends. `OutcomeApproved`: the
value went where two attesters agreed, for that very account, although each attempt signs
with its own deadline and commitment and signatures of dead processes still land.
`MintApprovalResumable`: mint signatures on chain carry the proof the journal would
sign again. `ReservedLeadsToLocked`: reserved capacity is not left behind by a crash, a
lost answer or a retried hardhat call before the lock, until the mint deadline passes;
after it only an operator can act. `AuthorizedLeadsToMinted` and `RedeemedLeadsToReleased`: over two
crashes, an authorized mint is completed and redeemed value is paid, applied and
freed.

**Accounts.** `CustodyImplemented`: over several operations, crashes and late
transactions the whole supply is in one account, enters the vault once per operation and
leaves it once, back or to the other endpoint. It rests on `lock_once` demanding an
empty vault and exactly the amount at the source. `DecryptableTruthful`: the copy of the
balance the coordinator decides from is right, although `apply_pending` writes what it
expects instead of adding to what is there. `RecordsUsable`: a directory never names
accounts the program does not know, never pairs an account with another one's key, and
refunds to the source, over racing provisioning attempts, reversals and a crash between
any two files. `ClosedIsSpendable`: a journal that says Released or Cancelled is about
value that was applied. Its one exception is the code's: a cancel run that stopped after
the refund landed leaves it pending for good, because the next run sees a cancelled
receipt and goes on to the reservation.

**Units.** `AmountsExact`: what is printed for Canton reads back as the same base units,
a text is read as exactly its worth or refused, whole tokens survive the round trip or do
not fit, and the completion checks call two amounts equal exactly when they are. With
zero decimals the printer writes one place that its reader refuses; the code uses six.

**Settlement.** `AtomicDvpImplemented`: what parties own changes only by whole
trades. The run leaves out executing a leg outside a trade, which takes the
authority of executor, sender and receiver together and is a gift if they agree
to it; the `eligibility` run includes it. `LocksBackAllocations`: an allocation
always finds its holding. `DeliveredWhileEligible`: eligibility is checked on
allocation only, and still covers the delivery because the attestation must
outlast `settleBefore`; revocation after allocation does not stop a delivery, and
the property says no more than that the attestation had existed and its period
covers the delivery.

**Gateway and history.** `CashIsBacked`: with at most one false attester each lock is
minted once and redeemed once, for the amount locked, although attestations stay
active and can be presented again; nothing else changes the cash in circulation.
`EvidenceSound`: accepted evidence names the coin whose burn redeemed this lock, paid by the
lock's own trade out of the lock's own minted coin, whatever else was bound,
recorded, requested or withdrawn; a seller can record any coin it holds as the
payment, so the binding alone proves none of this. `EvidenceComplete`: an operation
that nothing disturbed is accepted in every order of its facts. It supposes that
the Treasury is recorded before the payment, as `recordBindingOutputs` does: in the
other order two bindings carry the payment and `binding_for_lock` may keep the one
that was not redeemed. `ReadersAgree`: what the console script accepts, the Rust
reader does not refuse.

### Bounds

- Escrow: three seats and four keys leave one key outside the committee and give
  every pair of signers. `MaxTime = 3` fits a first approval, its expiry, a
  replacement and a replacement's expiry. The pair run uses one account and
  `MaxTime = 1`: the vault depends on the number of moves, not on deadlines.
- Risk engine: `MaxU = 4` lets two amounts of 3 overflow every counter; limits 2 and
  4 are below, at and above the amounts. `EpochModulus = 2` wraps.
- Coordinator: `MaxFaults = 2` allows a fault in a run and another in the run that
  recovers from it, with both transactions stray at once. `Proofs` has more than
  `MaxFaults + 6` members, so that a fresh one always exists next to those of the journal
  (two), of the approvals (three), of the receipt and of a transaction per fault: the
  code's commitments are 32-byte hashes and never run out. The clock is free up to `MaxTime`; past it, it advances only
  while an unexpired foreign approval blocks the coordinator, up to `Horizon =
  MaxTime + (MaxFaults + 2) * Window`, one block per fault and some. A deadline is at most
  one window later (`Latest`), which is the bound the escrow inside gets. `MaxPartyMoves
  = 1`: one withdrawal, rejection or missed deadline at any point.
- Settlement: two trades with equal terms, so that an allocation of one could be
  mistaken for the other's; near misses in amount and deadline; supply 2, so that
  splits, merges and two-input allocations occur.

- Gateway: `MaxAllocations = 2` covers a withdrawal followed by a second allocation
  and the payment of both trades; `MaxRequests = 2`, by the seller, covers a request
  for each lock and two for one. `MaxRepeats = 2` does not bind below these. Locks
  and trades have equal amounts, so only contract ids tell their coins apart, and
  are interchangeable, which makes the symmetry sound: the terms of a lock differ
  in its own name only.

- Accounts: two operations are enough for a race for the accounts and for a reuse in
  either direction, two attempts for a race to `initialize`; amounts 1 and 2, so
  that an operation can ask for more or less than the supply. Larger instances pass too,
  outside the time of a regular run: three operations without a crash, and two
  operations with two crashes.
- Units: radix 2, three decimals at most, two compared places, `u64` up to 21 and
  `u128` up to 85. Every number of places, padding, and overflow of each product
  and sum occur; the code's 10, 18, 6, 2^64 - 1 and 2^128 - 1 satisfy the same
  assumption. The conversions depend on no state, so they are evaluated in the states
  before the first provisioning only.

Deadlock checking is off where the system may stop: a bounded clock runs out, an
operation is complete, an instrument's supply is at its bound, every lock is redeemed,
the accounts are configured and their keys lost. In the risk engine it is on.

### Fairness

`Progress` assumes weak fairness of the process (it keeps taking steps, and what it
waits for is answered: every wait in `workflow.rs` has a timeout) and of the clock
while the coordinator is blocked. `ResumeSpec` and `CancelSpec` add strong fairness
of starting the coordinator in the given mode: the documented way out of an error
exit is to run it again, and other modes may be tried in between. Nothing is
assumed of the trading parties, of stray transactions or of crashes, which are
bounded in number only.

## 4. Proofs

`EscrowProofs`, from `EscrowAssumption` (finitely many operations, a natural clock
bound; no assumption on keys, accounts, terms or proofs):

- `TypeCorrect`, `MintExcludesRefund`, `TerminalIsExplained`, `RecordsStayCoherent`,
  `VaultIsBacked`, `SignaturesNeverMix`, `DeadlinesBind`, `ReceiptIsFinal`.
- The inductive invariant is `IInv == TypeOK /\ RecordsCoherent /\
  MintQuorumExcludesCancel /\ TerminalIsApproved`. None of the parts is inductive
  alone: that a mint quorum excludes a refund needs a refunded receipt to have no
  mint quorum (`TerminalIsApproved`), and after a lock it needs that no approval
  preceded it (`RecordsCoherent`). All four are invariants of the `escrow` run.
- There is one lemma per action and part; `VaultStep` counts the open operations
  with the library's cardinality theorems.

`RiskEngineProofs`, from `RiskAssumption` (a natural width, finitely many reservations:
their ids are 32 bytes long):

- `GrowthIsBounded` and `RejectionIsInert`, from the types of the fields (`FieldsCorrect`) and
  from the reservation records (`Records`): a recorded rejection has amount zero.
- `RiskInvariance`, `RiskTypeCorrect` and `CapacityNeverLeaks` (`ExposureAccounted`). The contract advances a
  reservation's status even when an encrypted subtraction fails, so the sums are right
  only because none ever fails (`ArithmeticSucceeds`). `RInv == TypeOK /\ Counted`: neither
  part is inductive alone. That both counters together fit the width survives `finalize`
  only when the amount leaves the one counter as it enters the other, which needs
  the counters to be the sums (`Counted`), and the sums need that nothing overflows.

`CoordinatorProofs`, from `CoordinatorAssumption`, for any deadlines, any number of crashes
and party moves and any supply of proof commitments:

- `Backed`, `PaidAfterBurn`, `ExposureBrackets`, `JournalNeverLies`, `MintResumes` are
  the five safety invariants of the `coordinator` run, `ValuePathRefined` its refinement.
- They follow from `CInv`, which says of each program counter what the process may rely
  on (`ProcInv`), of each transaction, awaited or of a dead process, why it may land at
  any later time (`TxOK`), of the journal what it may claim (`JournalInv`), and how the
  stages of the value rest on each other across the ledgers (`LedgerInv`). The argument
  is that everything in the first three is a fact no step takes back: `NothingTakenBack`
  proves that (`Forward`), and `CInv` is preserved because each step only adds to it. The
  properties alone are not inductive: a transaction in flight decides what they say later.
- `EscrowEmbedded` (`Spec => E!Spec`): every step of the coordinator, of the operator and of a
  late transaction is an instruction of `Escrow` with well-formed arguments, or leaves the
  escrow alone. So what `EscrowProofs` shows of the program for any caller holds in the
  composed system as well: `EscrowStaysSound` and `EscrowStepsStaySound` state it, through
  an instance of `EscrowProofs` whose assumption is proved for the coordinator's constants.
- `TypeCorrect` (`TypeOK`) and the embedding need `TInv`: every deadline is within a window of
  the clock, an approval names the destination its direction is for, commitments used
  together are different, and no more transactions are forgotten than there were faults.
  The last bounds what is in flight, and with it proves that a fresh commitment exists
  (`FreshExists`).
- `SupplyIsHeld` and `OutcomeIsApproved` combine both: the ledgers' order from `CInv`, and
  from the escrow that the vault counts open receipts and a closed one consumed a quorum.

`AccountsProofs`, from `AccountsAssumption`, for any number of operations, amounts and
provisioning attempts:

- `ClaimsRight`, `FilesUsable`, `ClosedSpendable`, and `CustodyRefined`.
- The coordinator never adds to a balance; it claims that an account holds the amount of
  its own operation. `AInv` says why that is right: the whole supply is always in one account
  (`BalanceInv`), every operation that locked had the supply as its amount (`ChainInv`), and
  the files, processes and transactions of an operation name the same accounts and amount
  (`DirInv`, `ProcInv`, `TxOK`). Until the one attempt that configured the program has written
  its files, nobody else can start (`FoundInv`).
- `AmountsAreExact`, from `UnitsAssumption`, for every radix, number of places and width: all of
  `UnitsAgree`, which TLC evaluates for a small radix only. Reading digits and the powers
  of the radix are both Horner's scheme, so one kind of table describes them. It exists
  and is unique (`HornerExists`, `HornerAgree`), and the number of a padded, trimmed or printed
  text is read off a table written down for it (`ZerosBehind`, `ZerosInFront`, `DigitsNumber`,
  `TrimNumber`). The two readers are then each one exact number with their refusals (`ReaderIs`,
  `Base6Is`), a number of units of their own number of places (`WorthIn`). A text with a digit
  beyond the compared places is no multiple of their unit (`LastDigit`), which is why
  refusing it loses no match. `NatSet` is induction over a set of naturals, from the
  well-foundedness of `<`. Powers and numbers are recursive functions in `Units` because the
  provers know nothing of `^` and of folds.

`SettlementProofs`, from `SettlementAssumption` (finitely many allocation terms and positive
bounds), for any trades, terms and attestations:

- `SettlementTypeCorrect`, `LocksAreBacked`, `DeliveriesAreEligible`, and `DvpIsAtomic`, which
  assumes `Joint = {}`, as the `dvp` run does: allocations that the parties execute outside a
  trade are by design not delivery versus payment.
- `SInv == TypeOK /\ LocksBackAllocations /\ SupplyBounded /\ AllocatedWhileEligible`. The
  types need the bounded supply (a merged holding or the change of an allocation is again
  a holding of the model), the locks need the types, and delivery after a revocation is
  covered because an allocation was made under attestations that outlast its deadline.
- Balances are sums over all holdings, so each choice needs how archiving and creating a
  list of holdings moves such a sum.

`GatewayProofs`, from `GatewayAssumption` (three attesters, of which the attestations of at
most one are false; an attestation is true when its lock exists and has the terms it names;
positive amounts), for any locks, trades, requests and bounds:

- `GatewayTypeCorrect` and `OnlyBackedCash`, the refinement of `BackedCash`.
- `GInv == StructInv /\ FactInv /\ LockedInv /\ GateInv`, in two layers. `StructInv` says what
  makes a set of facts a history: updates of one kind and subject are numbered, a contract is
  named by its update, and it is archived once. `CommitStruct` and `ActiveAfter` say once for all
  choices what a transaction does to it. Above it, an open allocation has its locked coin for
  the whole leg (`LockedInv`), without which a settlement could change the supply.
- Two attestations by different attesters contain a true one (`OneIsTruthful`), and what the
  gateway compares between them makes the other one's claim true as well
  (`MintClaimsTrue`, `RedeemClaimsTrue`).

`HistoryProofs`, from the same assumption:

- `EvidenceIsSound`, `ReadersNeverDisagree`, `UndisturbedIsAccepted`: whatever was requested,
  recorded, bound and attested around an operation. Soundness is about evidence found with any
  binding of the lock, so it does not depend on the one the reader picks.
- `HInv == RecordInv /\ LockInv /\ ChainInv`. `RecordInv` and `LockInv` say what each fact
  stands for, as other facts of the same update or contracts archived by it. Facts are never
  removed, so these statements stay true (`CreatedKept`, `ExercisedKept`, `MintedKept`) and each
  choice answers for its own facts only (`RecordAfter`). `ChainInv` is about what is still
  active: the bindings of a lock start at its one mint reference, one of them is active, and
  a recorded payment is never replaced. That is why the binding with a payment is the same for
  both readers, and for every order of the facts.
- An undisturbed operation has the recorded amounts: `Undisturbed` compares the Treasury
  that the trade delivered with the journal's, which `BridgeMintRef_Bind` does not.

`Sums` has the facts about sums that `RiskEngineProofs`, `SettlementProofs` and `GatewayProofs`
need. The library's sum is a fold over a set and the induction it calls for
is out of the provers' reach as a rule over arbitrary operators, so `Sums` reasons with a smallest
counterexample: a table of partial sums exists for every finite set (`TableExists`), and from
it come removal, insertion, pointwise addition and counting.

`CInv`, `TInv`, `AInv`, `SInv`, `GInv` and `HInv` were checked by TLC on the instances of the runs
before they were proved, and `E!Spec` on a smaller instance of the coordinator.

Every invariant, action property and refinement that a run checks is a theorem. Only
model-checked: liveness, which depends on fairness and, for a refused transaction, on
ENABLED.

Two redundancies found on the way. Dropping the deadline check of `approve_operation`
alone cannot authorize a mint late: a late signature meets an expired record, which
is replaced, so late signatures never add up to a quorum. When an authorized mint is
resumed, `attesters_needed` and the check of the receipt's status each suffice.

## 5. Not modelled

`PROJECT.json` gives the reason for each part. Byte layouts of instructions and
accounts, the arithmetic of the zero-knowledge proofs, creation of parties and rules,
command-line parsing, probes, topology and privacy inspection have no state machine of
their own. Of the completion history, parsing the printed facts and merging the
participants' views are left out.

Hazards that end in a stop and not in a recovery carry a note: a withdrawn payment
allocation or an expired trade is left to an operator; a reservation whose lock never lands
before the mint deadline keeps its capacity; a refund that lands while the
coordinator is down is never applied; a provisioning run that dies between `initialize`
and the files leaves a program nobody can use; a trade attested halfway is never
reassigned or paid; an operation that was paid but not recorded cannot finish once the
next one moved the balance. No document claims otherwise. No property catches
the stop itself: those named at these hazards state what it preserves.

## 6. Where code and documents disagree

1. `refund_after_crash`. Each cancel run signs a new deadline and proof. A crash after
   the first cancel signature leaves an approval that later runs neither match nor
   replace, even after it has expired: the escrow would accept a replacement,
   `attesters_needed` refuses to ask for one. `README.md:441-445` says resume continues
   the unfinished step.
2. `outputs_after_crash`. A crash between `DvpTrade_Settle` and recording its outputs
   leaves a settled trade that cannot be redeemed (`README.md:270`).
3. `reassign_after_crash`. `reassign.canton` insists on a holding still on the source
   synchronizer and is called again after a crash that followed the unassign
   (`README.md:270`, `README.md:789`).

## 7. Plan

Done, in this order: `Escrow` and its proofs; `RiskEngine` and its proofs;
`Coordinator` with `ValuePath`; `Settlement` with `AtomicDvp`; `Gateway` with
`BackedCash` and `CantonHistory`; `Accounts` with `Custody`; `Units`; in `Coordinator` the
trade's set-up as separate submissions and the hardhat retry.

Proved since: `Coordinator` and its refinement of `ValuePath`; `Accounts` and `Custody`;
`ExposureAccounted`; `Settlement` and `AtomicDvp`; `Gateway` and `BackedCash`; `CantonHistory`; that
the coordinator drives the escrow as `Escrow` allows, its types, and what follows for the
vault and the outcome; the conversions of `Units`.

Open in the model: the merge of the participants' views in
`verify-bridge-completion.canton`, where a fact seen by one participant only must not be
lost or counted twice.
