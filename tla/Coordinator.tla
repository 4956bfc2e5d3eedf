---------------------------- MODULE Coordinator ----------------------------
(***************************************************************************)
(* The bridge coordinator (bridge/src/workflow.rs) driving one operation   *)
(* across the Solana escrow (module Escrow), the Zama reservation and the  *)
(* Canton scripts (daml/bridge-tests/daml/Tests/Bridge/Runtime.daml).      *)
(*                                                                         *)
(* proc is the running process: its program counter, its options, its copy *)
(* of the journal, the approval job and the transaction it waits for.      *)
(* journal is the file on disk.  A crash or a timeout loses proc; what it  *)
(* had sent stays in stray and may still land, late.  An `Err` return is   *)
(* Exit: the operator starts the coordinator again, in any mode.  Reads    *)
(* that feed the same decision are one step; every submission to a ledger  *)
(* is a step of its own.  Canton submissions take effect at once.          *)
(***************************************************************************)
EXTENDS Integers, FiniteSets

CONSTANTS Modes,         \* how an operator starts it: {"run", "cancel", "expiry"}
          Omits,         \* values of --omit-journal-save
          Proofs,        \* proof commitments, more than are ever on record at once
          Window,        \* length of every deadline the coordinator sets
          MaxTime,       \* bound on the chain clock
          MaxFaults,     \* bound on crashes and timeouts
          MaxPartyMoves  \* bound on what the trading parties do on their own

ASSUME CoordinatorAssumption ==
  /\ Modes \subseteq {"run", "cancel", "expiry"} /\ Omits \subseteq BOOLEAN
  /\ Proofs \subseteq Nat \ {0} /\ Window \in Nat \ {0}
  /\ MaxTime \in Nat /\ MaxFaults \in Nat /\ MaxPartyMoves \in Nat
  /\ IsFiniteSet(Proofs) => Cardinality(Proofs) > MaxFaults + 6

VARIABLES config, receipt, approval, vault, now,   \* Solana (module Escrow)
          zama,      \* this operation's reservation: status and approved
          canton,    \* this operation's contracts on the Canton ledger
          applied,   \* the paid account has applied its pending credit
          journal,   \* the journal file
          proc,      \* the running coordinator, or Idle
          stray,     \* transactions sent by a process that stopped waiting
          faults,    \* crashes and timeouts so far
          partyMoves \* independent moves of the trading parties so far

escrow == <<config, receipt, approval, vault, now>>
ledgers == <<escrow, zama, canton, applied>>
environment == <<stray, faults, partyMoves>>
vars == <<ledgers, journal, proc, environment>>

Op == "op"
Attesters == <<"A", "B", "C">>
Horizon == MaxTime + (MaxFaults + 2) * Window   \* bound on the clock while blocked
Latest == Horizon + Window                      \* bound on every deadline

E == INSTANCE Escrow WITH Operations <- {Op}, Keys <- {"A", "B", "C"},
       Accounts <- {"source", "payee"}, Terms <- {"terms"}, MaxTime <- Latest

-----------------------------------------------------------------------------
(* Journal and process *)

Step == <<"Accounts", "Reserved", "Locked", "MintApproved", "CantonMinted",
          "TradePrepared", "Reassigned", "Settled", "Redeemed",
          "ReleaseApproved", "Released", "ZamaRedeemed", "Cancelled">>

Rank(step) == CHOOSE n \in DOMAIN Step : Step[n] = step

NoMaterials == [expiry |-> 0, proof |-> 0]

NewJournal == [completed |-> 0, mintExpiry |-> 0, lockProof |-> 0,
               release |-> NoMaterials]

Idle == [pc |-> "idle"]

NoTx == [kind |-> "none"]

NoJob == [dir |-> "none"]

Running == proc # Idle

Reached(step) == proc.mem.completed >= Rank(step)

Status == receipt[Op].status

(* The process at another program counter, waiting for nothing.            *)
Goto(pc, mem) == [proc EXCEPT !.pc = pc, !.mem = mem, !.tx = NoTx, !.wait = "none"]

(* An error return, or the end of the workflow.                            *)
Exit == proc' = Idle /\ journal' = journal

Jump(pc) == proc' = Goto(pc, proc.mem) /\ journal' = journal

(* halt: note a completed step in memory and, unless saves are omitted, on *)
(* disk.  base is the file's content before it.                            *)
Halt(step, pc, base) ==
  LET mem == [proc.mem EXCEPT !.completed = Rank(step)]
  IN  IF Reached(step)
      THEN proc' = Goto(pc, proc.mem) /\ journal' = base
      ELSE proc' = Goto(pc, mem) /\ journal' = IF proc.omit THEN base ELSE mem

(* The last halt of a workflow: nothing runs afterwards.                   *)
Finish(step, base) ==
  /\ proc' = Idle
  /\ journal' = IF Reached(step) \/ proc.omit THEN base
                ELSE [proc.mem EXCEPT !.completed = Rank(step)]

(* Hand a transaction to the relayer or to hardhat and wait for it.        *)
Send(tx, mem) ==
  /\ proc.wait = "none"
  /\ proc' = [proc EXCEPT !.tx = tx, !.wait = "pending", !.mem = mem]
  /\ journal' = IF mem = proc.mem THEN journal ELSE mem

At(pc) == Running /\ proc.pc = pc /\ proc.wait = "none"

(* Faulty variant: does not wait for the transaction it has sent.          *)
SentIsConfirmed(pc) == Running /\ proc.pc = pc /\ proc.wait \in {"pending", "ok"}

Confirmed(pc) == Running /\ proc.pc = pc /\ proc.wait = "ok"

LockTx(expiry, proof) == [kind |-> "lock", expiry |-> expiry, proof |-> proof]

ApproveTx(job, key) == [kind |-> "approve", dir |-> job.dir, dest |-> job.dest,
                        expiry |-> job.expiry, proof |-> job.proof, key |-> key]

MoveTx(job) == [kind |-> "move", dir |-> job.dir, dest |-> job.dest,
                expiry |-> job.expiry, proof |-> job.proof]

ZamaTx(call) == [kind |-> "zama", call |-> call]

(* Faulty variant: the commitment is never filled in.                      *)
UnsetProof == 0

(* generate_transfer_proofs: a commitment nothing else on record carries.  *)
FreshProof ==
  LET inJournal == {journal.lockProof, journal.release.proof}
      inFlight  == {tx.proof : tx \in {t \in stray : t.kind # "zama"}}
      onChain   == {approval[Op][d].digest.proof :
                      d \in {d \in E!Directions : approval[Op][d] # E!NoApproval}}
      locked    == IF receipt[Op] = E!NoReceipt THEN {} ELSE {receipt[Op].lockProof}
  IN  CHOOSE p \in Proofs : p \notin inJournal \cup inFlight \cup onChain \cup locked

-----------------------------------------------------------------------------
(* Transactions *)

(* The risk engine as far as one reservation can tell: the decision on its *)
(* amount is encrypted, and either outcome is recorded as Reserved.        *)
ZamaCall(call) ==
  \/ /\ call = "reserve" /\ zama.status = "Empty"
     /\ \E ok \in BOOLEAN : zama' = [status |-> "Reserved", approved |-> ok]
  \/ /\ call = "finalize" /\ zama.status = "Reserved"
     /\ zama' = [zama EXCEPT !.status = "Finalized"]
  \/ /\ call = "cancel" /\ zama.status = "Reserved"
     /\ zama' = [zama EXCEPT !.status = "Cancelled"]
  \/ /\ call = "redeem" /\ zama.status = "Finalized"
     /\ zama' = [zama EXCEPT !.status = "Redeemed"]

Execute(tx) ==
  \/ /\ tx.kind = "lock"
     /\ E!LockConfidential(Op, "source", "terms", tx.expiry, tx.proof)
     /\ zama' = zama
  \/ /\ tx.kind = "approve"
     /\ E!ApproveOperation(Op, tx.dir, tx.dest, "terms", tx.expiry, tx.proof, tx.key)
     /\ zama' = zama
  \/ /\ tx.kind = "move"
     /\ E!MoveVaultTokens(Op, tx.dir, tx.dest, "terms", tx.expiry, tx.proof)
     /\ zama' = zama
  \/ /\ tx.kind = "zama"
     /\ ZamaCall(tx.call)
     /\ UNCHANGED escrow

(* wait_confirmed and confirm_on_chain: the awaited transaction lands, or  *)
(* is refused by the ledger and ends the run with an error.                *)
Land == /\ Running /\ proc.wait = "pending"
        /\ Execute(proc.tx)
        /\ proc' = [proc EXCEPT !.wait = "ok"]
        /\ UNCHANGED <<canton, applied, journal, environment>>

Refuse == /\ Running /\ proc.wait = "pending"
          /\ ~ENABLED Execute(proc.tx)
          /\ Exit
          /\ UNCHANGED <<ledgers, environment>>

(* A transaction of an earlier process lands late.                         *)
LandLate == \E tx \in stray :
              /\ Execute(tx)
              /\ stray' = stray \ {tx}
              /\ UNCHANGED <<canton, applied, journal, proc, faults, partyMoves>>

Lose == \E tx \in stray : /\ stray' = stray \ {tx}
                          /\ UNCHANGED <<ledgers, journal, proc, faults, partyMoves>>

(* The process dies, or gives up waiting after its timeout.                *)
Crash == /\ Running /\ faults < MaxFaults
         /\ faults' = faults + 1
         /\ stray' = IF proc.wait = "pending" THEN stray \cup {proc.tx} ELSE stray
         /\ proc' = Idle
         /\ UNCHANGED <<ledgers, journal, partyMoves>>

(* run_hardhat: a call whose answer was lost is made again by the same     *)
(* process, and the first one may still land.                              *)
Retry == /\ Running /\ proc.wait = "pending" /\ proc.tx.kind = "zama"
         /\ faults < MaxFaults /\ faults' = faults + 1
         /\ stray' = stray \cup {proc.tx}
         /\ UNCHANGED <<ledgers, journal, proc, partyMoves>>

(* An approval that is still valid but is not the one the coordinator      *)
(* would sign: it is refused until the approval expires.                   *)
Blocks(dir) ==
  LET a    == approval[Op][dir]
      mine == IF dir = "RELEASE" THEN journal.release
              ELSE IF Running /\ proc.job.dir = dir
              THEN [expiry |-> proc.job.expiry, proof |-> proc.job.proof]
              ELSE NoMaterials
  IN  /\ a # E!NoApproval /\ ~a.consumed /\ now < a.expiry
      /\ mine # [expiry |-> a.expiry, proof |-> a.digest.proof]

Blocked == Blocks("RELEASE") \/ Blocks("CANCEL")

(* The clock is free up to MaxTime.  Beyond it, it only moves on while the *)
(* coordinator is blocked, which stands for runs that from some time on    *)
(* are shorter than Window; Horizon leaves room for one block per fault.   *)
Tick == /\ now < MaxTime \/ (Blocked /\ now < Horizon)
        /\ E!Tick
        /\ UNCHANGED <<zama, canton, applied, journal, proc, environment>>

-----------------------------------------------------------------------------
(* Start, reservation and lock *)

SetUp == /\ ~Running
         /\ E!Initialize(Attesters)
         /\ UNCHANGED <<zama, canton, applied, journal, proc, environment>>

(* Faulty variant: the encrypted decision is not looked at.                *)
AnyReservation == zama.status # "Empty"

(* require_approved: the decrypted decision on the reservation.            *)
ReservationApproved == zama.approved

(* try_completed_resume: a recorded operation whose reservation is         *)
(* redeemed has nothing left to do but be checked.                         *)
TryCompletedResume == /\ journal # NewJournal
                      /\ zama.status = "Redeemed" /\ ReservationApproved

(* run_full up to the first external action.  A journal with an operation  *)
(* whose reservation is redeemed only needs to be recorded.  persist, with *)
(* the deadline, saves whatever saves are to be omitted later.             *)
Start(mode, omit) ==
  LET redeemed == TryCompletedResume
      opened   == [journal EXCEPT !.mintExpiry = IF @ = 0 THEN now + Window ELSE @]
      marked   == [opened EXCEPT !.completed = IF @ = 0 THEN 1 ELSE @]
      cancel   == mode = "cancel" \/ journal.completed = Rank("Cancelled")
  IN  /\ ~Running /\ config # E!NoConfig
      /\ proc' = [pc |-> IF redeemed THEN "record"
                         ELSE IF cancel THEN "cancel" ELSE "reserve",
                  mode |-> mode, omit |-> omit,
                  mem |-> IF redeemed THEN journal ELSE marked,
                  job |-> NoJob, tx |-> NoTx, wait |-> "none"]
      /\ journal' = IF redeemed THEN journal ELSE marked
      /\ UNCHANGED <<ledgers, environment>>

(* Faulty variant: a reservation that was already made is not picked up.   *)
FinalizedOnly == {"Finalized"}

(* reservation_resume: the statuses from which an approved reservation is  *)
(* carried on.                                                             *)
Resumable == {"Reserved", "Finalized"}

(* reserve_once with reservation_resume.                                   *)
Reserve ==
  /\ \/ /\ At("reserve") /\ zama.status = "Empty"
        /\ Send(ZamaTx("reserve"), proc.mem)
     \/ /\ Confirmed("reserve")
        /\ IF ReservationApproved THEN Halt("Reserved", "lock", proc.mem) ELSE Exit
     \/ /\ At("reserve") /\ zama.status \in Resumable
        /\ IF ReservationApproved THEN Halt("Reserved", "lock", journal) ELSE Exit
     \/ /\ At("reserve") /\ zama.status = "Redeemed"
        /\ IF ReservationApproved THEN Jump("record") ELSE Exit
     \/ /\ At("reserve") /\ zama.status = "Cancelled"
        /\ Exit
  /\ UNCHANGED <<ledgers, environment>>

(* Faulty variant: only the journal is asked whether the lock exists.      *)
LockJournaled == Reached("Locked")

(* A receipt that is already there is taken for this lock.                 *)
LockExists == Reached("Locked") \/ receipt[Op] # E!NoReceipt

(* lock_once.                                                              *)
Lock ==
  LET seen  == [proc.mem EXCEPT !.completed = IF Reached("Locked") THEN @ ELSE Rank("Locked")]
      fresh == [proc.mem EXCEPT !.lockProof = FreshProof]
      after == IF proc.mode = "expiry" THEN "expire" ELSE "mint"
  IN  /\ \/ /\ At("lock") /\ LockExists
            /\ proc' = Goto(after, seen) /\ journal' = journal
         \/ /\ At("lock") /\ ~LockExists
            /\ Send(LockTx(fresh.mintExpiry, fresh.lockProof), fresh)
         \/ /\ Confirmed("lock")
            /\ IF proc.mode = "expiry" THEN proc' = Goto(after, proc.mem) /\ journal' = proc.mem
               ELSE Halt("Locked", after, proc.mem)
      /\ UNCHANGED <<ledgers, environment>>

-----------------------------------------------------------------------------
(* Approvals *)

Expired(expiry) == now >= expiry

Refused == {0}

(* attesters_needed: the attesters of {A, B} whose signature is missing;   *)
(* Refused stands for every error it returns.  replace is true for         *)
(* releases only.                                                          *)
AttestersNeeded(job, replace) ==
  LET a     == approval[Op][job.dir]
      same  == /\ a.expiry = job.expiry
               /\ a.digest = E!OperationDigest(Op, job.dir, job.dest, "terms",
                                               job.expiry, job.proof)
  IN  CASE a = E!NoApproval         -> IF Expired(job.expiry) THEN Refused ELSE {1, 2}
        [] a # E!NoApproval /\ a.consumed -> Refused
        [] a # E!NoApproval /\ ~a.consumed /\ Expired(a.expiry)
             -> IF replace THEN {1, 2}
                ELSE IF same /\ E!Quorum(a.signers) THEN {} ELSE Refused
        [] OTHER -> IF same THEN {1, 2} \ a.signers ELSE Refused

(* approve_needed up to its loop: read the record and the clock once.      *)
BeginApproval(job, refused) ==
  LET needed == AttestersNeeded(job, job.dir = "RELEASE")
  IN  /\ journal' = journal
      /\ IF needed = Refused
         THEN proc' = IF refused = "idle" THEN Idle ELSE Goto(refused, proc.mem)
         ELSE proc' = [Goto("approving", proc.mem) EXCEPT
                         !.job = [dir |-> job.dir, dest |-> job.dest, expiry |-> job.expiry,
                                  proof |-> job.proof, todo |-> needed]]

MintJob == [dir |-> "MINT", dest |-> "source", expiry |-> proc.mem.mintExpiry,
            proof |-> proc.mem.lockProof]

(* One signature at a time, in the order A, B.                             *)
SendApproval ==
  /\ At("approving") /\ proc.job.todo # {}
  /\ LET i == CHOOSE i \in proc.job.todo : \A j \in proc.job.todo : i <= j
     IN  Send(ApproveTx(proc.job, Attesters[i]), proc.mem)
  /\ UNCHANGED <<ledgers, environment>>

ApprovalConfirmed ==
  /\ Confirmed("approving")
  /\ LET i == CHOOSE i \in proc.job.todo : \A j \in proc.job.todo : i <= j
     IN  proc' = [Goto("approving", proc.mem) EXCEPT !.job.todo = @ \ {i}]
  /\ journal' = journal
  /\ UNCHANGED <<ledgers, environment>>

(* The record is read again; without two bits the run ends.  Mint          *)
(* approvals after the deadline must have failed (run_expiry_recovery).    *)
Approved ==
  /\ At("approving") /\ proc.job.todo = {}
  /\ IF ~E!Quorum(approval[Op][proc.job.dir].signers) THEN Exit
     ELSE \/ /\ proc.job.dir = "MINT" /\ proc.mode = "run"
             /\ Halt("MintApproved", "cantonMint", proc.mem)
          \/ proc.job.dir = "MINT" /\ proc.mode = "expiry" /\ Exit
          \/ proc.job.dir = "RELEASE" /\ Halt("ReleaseApproved", "releaseMove", journal)
          \/ proc.job.dir = "CANCEL" /\ Jump("cancelMove")
  /\ UNCHANGED <<ledgers, environment>>

MintApproval ==
  /\ At("mint")
  /\ IF proc.mem.lockProof = 0 THEN Exit
     ELSE IF Status \in {"MINT_AUTHORIZED", "RELEASED"}
          THEN Halt("MintApproved", "cantonMint", journal)
          ELSE BeginApproval(MintJob, "idle")
  /\ UNCHANGED <<ledgers, environment>>

(* run_expiry_recovery: wait for the deadline, expect the mint to fail.    *)
ExpiryRecovery ==
  /\ At("expire") /\ Expired(proc.mem.mintExpiry)
  /\ BeginApproval(MintJob, "cancel")
  /\ UNCHANGED <<ledgers, environment>>

-----------------------------------------------------------------------------
(* Canton: mint, trade, reassignment, settlement, redemption *)

(* The Canton ledger as this operation sees it.  `mint` is the minted      *)
(* holding, `trade` the trade the lock is bound to (the binding exists     *)
(* once it is not "none"), `unbound` counts other trades of the venue,     *)
(* `place` is the Treasury holding's synchronizer, `phase` says which of   *)
(* the trade's deadlines have passed.                                      *)
NewCanton == [mintAtts |-> 0, mint |-> "none",
              treasuryElig |-> 0, cashElig |-> 0, trade |-> "none", unbound |-> 0,
              place |-> "source", phase |-> "open",
              treasuryAlloc |-> FALSE, paymentAlloc |-> FALSE,
              treasuryRec |-> FALSE, paymentRec |-> FALSE,
              request |-> FALSE, redeemAtts |-> 0, redeemed |-> FALSE]

Ledger(f) == /\ canton' = f
             /\ UNCHANGED <<escrow, zama, applied, environment>>

(* Runtime.mint: attest, attest, Gateway_Mint, reusing what is there.      *)
CantonMint ==
  /\ At("cantonMint")
  /\ \/ /\ Reached("CantonMinted") /\ Jump("trade") /\ Ledger(canton)
     \/ /\ ~Reached("CantonMinted") /\ canton.mint = "none"
        /\ Jump("cantonMint")
        /\ IF canton.mintAtts < 2
           THEN Ledger([canton EXCEPT !.mintAtts = @ + 1])
           ELSE Ledger([canton EXCEPT !.mint = "held"])
     \/ /\ ~Reached("CantonMinted") /\ canton.mint # "none"
        /\ proc' = Goto("finalize", proc.mem) /\ journal' = proc.mem
        /\ Ledger(canton)

(* Faulty variant: a reservation finalized by an earlier run is an error.  *)
FinalizedAndRedeemed == zama.status = "Redeemed"

FinalizeDone == zama.status \in {"Finalized", "Redeemed"}

Finalize ==
  /\ \/ /\ At("finalize") /\ zama.approved /\ zama.status = "Reserved"
        /\ Send(ZamaTx("finalize"), proc.mem)
     \/ Confirmed("finalize") /\ Halt("CantonMinted", "trade", proc.mem)
     \/ /\ At("finalize") /\ zama.approved /\ FinalizeDone
        /\ Halt("CantonMinted", "trade", journal)
     \/ /\ At("finalize") /\ ~(zama.approved /\ (FinalizeDone \/ zama.status = "Reserved"))
        /\ Exit
  /\ UNCHANGED <<ledgers, environment>>

(* prepareTrade: an open bound trade is reused; with the minted holding    *)
(* spent there is nothing to prepare; otherwise, if the seller's Treasury  *)
(* is there and unlocked, a trade is created and, in a later submission,   *)
(* bound.                                                                  *)
PrepareTrade ==
  /\ At("trade")
  /\ \/ /\ Reached("TradePrepared") /\ Jump("reassign") /\ Ledger(canton)
     \/ /\ ~Reached("TradePrepared") /\ (canton.trade = "bound" \/ canton.mint = "spent")
        /\ Halt("TradePrepared", "reassign", journal) /\ Ledger(canton)
     \/ /\ ~Reached("TradePrepared") /\ canton.trade # "bound" /\ canton.mint = "held"
        /\ IF canton.place = "pending" \/ canton.treasuryAlloc THEN Exit /\ Ledger(canton)
           ELSE Jump("attestTreasury") /\ Ledger(canton)

(* createPreparedTrade: the seller and the buyer are attested in two       *)
(* submissions per registry, and only by a run that finds none of the two. *)
AttestEligibility ==
  \/ /\ At("attestTreasury") /\ canton.treasuryElig = 0
     /\ Jump("attestTreasuryBuyer") /\ Ledger([canton EXCEPT !.treasuryElig = 1])
  \/ /\ At("attestTreasuryBuyer")
     /\ Jump("attestCash") /\ Ledger([canton EXCEPT !.treasuryElig = 2])
  \/ /\ At("attestTreasury") /\ canton.treasuryElig # 0
     /\ Jump("attestCash") /\ Ledger(canton)
  \/ /\ At("attestCash") /\ canton.cashElig = 0
     /\ Jump("attestCashBuyer") /\ Ledger([canton EXCEPT !.cashElig = 1])
  \/ /\ At("attestCashBuyer")
     /\ Jump("propose") /\ Ledger([canton EXCEPT !.cashElig = 2])
  \/ /\ At("attestCash") /\ canton.cashElig # 0
     /\ Jump("propose") /\ Ledger(canton)

(* Proposal, acceptance and initiation: a trade bound to no lock yet.      *)
ProposeTrade ==
  /\ At("propose")
  /\ Jump("bind")
  /\ Ledger([canton EXCEPT !.unbound = IF @ < 2 THEN @ + 1 ELSE @])

(* bindLockToTrade: a lock already bound to another trade is an error.     *)
BindTrade ==
  /\ At("bind")
  /\ IF canton.trade = "none"
     THEN /\ Halt("TradePrepared", "reassign", journal)
          /\ Ledger([canton EXCEPT !.trade = "bound", !.unbound = @ - 1, !.phase = "open"])
     ELSE Exit /\ Ledger(canton)

(* reassign.canton: exactly one trade, two Treasury attestations and the   *)
(* one holding still on treasury-sync are required; unassign, assign and   *)
(* the mark in the journal are separate.                                   *)
Reassign ==
  LET trades == canton.unbound + (IF canton.trade = "bound" THEN 1 ELSE 0)
  IN  \/ /\ At("reassign") /\ Reached("Reassigned")
         /\ Jump("settle") /\ Ledger(canton)
      \/ /\ At("reassign") /\ ~Reached("Reassigned")
         /\ IF trades = 1 /\ canton.treasuryElig = 2 /\ canton.place = "source"
            THEN Jump("assign") /\ Ledger([canton EXCEPT !.place = "pending"])
            ELSE Exit /\ Ledger(canton)
      \/ /\ At("assign")
         /\ Jump("assigned") /\ Ledger([canton EXCEPT !.place = "target"])
      \/ /\ At("assigned")
         /\ Halt("Reassigned", "settle", journal) /\ Ledger(canton)

(* decideSettle.                                                           *)
DecideSettle ==
  LET both == canton.treasuryAlloc /\ canton.paymentAlloc
      resume == /\ canton.trade = "bound"
                /\ canton.phase = "open" \/ (canton.phase = "late" /\ both)
      already == canton.trade \in {"settled", "ended"} /\ canton.mint = "spent"
  IN  /\ At("settle")
      /\ IF resume THEN Jump("allocTreasury")
         ELSE IF already THEN Halt("Settled", "redeem", IF proc.omit THEN journal ELSE proc.mem)
         ELSE Exit
      /\ Ledger(canton)

(* settleExistingTrade, first leg: reuse the allocation or create it.      *)
AllocateTreasury ==
  /\ At("allocTreasury")
  /\ IF canton.treasuryAlloc THEN Jump("allocPayment") /\ Ledger(canton)
     ELSE IF /\ canton.trade = "bound" /\ canton.phase = "open"
             /\ canton.place = "target" /\ canton.treasuryElig = 2
     THEN Jump("allocPayment") /\ Ledger([canton EXCEPT !.treasuryAlloc = TRUE])
     ELSE Exit /\ Ledger(canton)

(* Second leg: it is funded by the minted holding and by nothing else.     *)
AllocatePayment ==
  /\ At("allocPayment")
  /\ IF canton.paymentAlloc THEN Jump("dvp") /\ Ledger(canton)
     ELSE IF /\ canton.trade = "bound" /\ canton.phase = "open"
             /\ canton.mint = "held" /\ canton.cashElig = 2
     THEN Jump("dvp") /\ Ledger([canton EXCEPT !.paymentAlloc = TRUE, !.mint = "spent"])
     ELSE Exit /\ Ledger(canton)

(* DvpTrade_Settle: both legs in one transaction.                          *)
SettleTrade ==
  /\ At("dvp")
  /\ IF /\ canton.trade = "bound" /\ canton.phase # "expired"
        /\ canton.treasuryAlloc /\ canton.paymentAlloc
     THEN /\ Jump("recordTreasury")
          /\ Ledger([canton EXCEPT !.trade = "settled", !.treasuryAlloc = FALSE,
                                   !.paymentAlloc = FALSE])
     ELSE Exit /\ Ledger(canton)

(* recordBindingOutputs: two submissions, by the buyer and by the seller.  *)
RecordOutputs ==
  \/ /\ At("recordTreasury")
     /\ Jump("recordPayment")
     /\ Ledger([canton EXCEPT !.treasuryRec = TRUE])
  \/ /\ At("recordPayment")
     /\ Halt("Settled", "redeem", IF proc.omit THEN journal ELSE proc.mem)
     /\ Ledger([canton EXCEPT !.paymentRec = TRUE])

(* Faulty variant: a redemption request is taken for the redemption.       *)
RedemptionRequested == canton.request

(* The RedeemedLock of this operation is on the ledger.                    *)
RedeemedOnLedger == canton.redeemed

(* redeemFromLedger: request, two attestations, Gateway_Redeem.            *)
Redeem ==
  /\ At("redeem")
  /\ \/ /\ RedeemedOnLedger
        /\ Halt("Redeemed", "release", journal) /\ Ledger(canton)
     \/ /\ ~RedeemedOnLedger /\ ~canton.paymentRec
        /\ Exit /\ Ledger(canton)
     \/ /\ ~RedeemedOnLedger /\ canton.paymentRec
        /\ Jump("redeem")
        /\ IF ~canton.request THEN Ledger([canton EXCEPT !.request = TRUE])
           ELSE IF canton.redeemAtts < 2 THEN Ledger([canton EXCEPT !.redeemAtts = @ + 1])
           ELSE Ledger([canton EXCEPT !.redeemed = TRUE])

(* What the trading parties and time may do to the trade on their own:     *)
(* a sender withdraws its allocation, the request is rejected or           *)
(* withdrawn, a deadline passes.  A withdrawn payment is a new holding;    *)
(* the minted one stays spent.                                             *)
PartyMove ==
  /\ partyMoves < MaxPartyMoves
  /\ partyMoves' = partyMoves + 1
  /\ \/ canton.treasuryAlloc /\ canton' = [canton EXCEPT !.treasuryAlloc = FALSE]
     \/ canton.paymentAlloc /\ canton' = [canton EXCEPT !.paymentAlloc = FALSE]
     \/ canton.trade = "bound" /\ canton' = [canton EXCEPT !.trade = "ended"]
     \/ /\ canton.trade = "bound" /\ canton.phase # "expired"
        /\ \E p \in {"late", "expired"} \ {canton.phase} :
             canton' = [canton EXCEPT !.phase = p]
  /\ UNCHANGED <<escrow, zama, applied, journal, proc, stray, faults>>

-----------------------------------------------------------------------------
(* Release, completion and cancellation *)

(* Faulty variant: an approval on chain is never given up.                 *)
RefreshBeforeApproval == /\ approval[Op]["RELEASE"] = E!NoApproval
                         /\ proc.mem.release.expiry > 0 /\ Expired(proc.mem.release.expiry)

(* should_refresh_release_materials.                                       *)
ShouldRefresh ==
  LET a == approval[Op]["RELEASE"]
  IN  /\ Status # "RELEASED"
      /\ IF a # E!NoApproval THEN ~a.consumed /\ Expired(a.expiry)
         ELSE proc.mem.release.expiry > 0 /\ Expired(proc.mem.release.expiry)

(* release_materials, when the journal holds none.                         *)
ReleaseMaterials == [expiry |-> now + Window, proof |-> FreshProof]

(* release_once: stale materials are dropped, missing ones generated and   *)
(* saved before anything is signed.                                        *)
PrepareRelease ==
  LET kept  == IF ShouldRefresh THEN [proc.mem EXCEPT !.release = NoMaterials] ELSE proc.mem
      fresh == [kept EXCEPT !.release = ReleaseMaterials]
  IN  /\ At("release")
      /\ IF Status = "CANCELLED" THEN Exit
         ELSE IF Reached("Released") \/ Status = "RELEASED" THEN Jump("apply")
         ELSE IF kept.release = NoMaterials
         THEN proc' = Goto("releaseApprove", fresh) /\ journal' = fresh
         ELSE proc' = Goto("releaseApprove", kept) /\ journal' = journal
      /\ UNCHANGED <<ledgers, environment>>

ReleaseApproval ==
  /\ At("releaseApprove")
  /\ BeginApproval([dir |-> "RELEASE", dest |-> "payee",
                    expiry |-> proc.mem.release.expiry,
                    proof |-> proc.mem.release.proof], "idle")
  /\ UNCHANGED <<ledgers, environment>>

Release ==
  /\ \/ At("releaseMove") /\ Send(MoveTx(proc.job), proc.mem)
     \/ Confirmed("releaseMove") /\ (IF Status = "RELEASED" THEN Jump("apply") ELSE Exit)
  /\ UNCHANGED <<ledgers, environment>>

(* should_apply_pending and apply_pending, then the mark in the journal.   *)
ApplyPending ==
  /\ \/ /\ At("apply")
        /\ IF Status = "RELEASED" THEN applied' = TRUE /\ Jump("applied")
           ELSE applied' = applied /\ Exit
     \/ At("applied") /\ applied' = applied /\ Halt("Released", "zamaRedeem", journal)
  /\ UNCHANGED <<escrow, zama, canton, environment>>

ZamaRedeem ==
  /\ \/ /\ At("zamaRedeem") /\ zama.status = "Finalized" /\ ~Reached("ZamaRedeemed")
        /\ Send(ZamaTx("redeem"), proc.mem)
     \/ /\ At("zamaRedeem") /\ (zama.status # "Finalized" \/ Reached("ZamaRedeemed"))
        /\ IF zama.status = "Redeemed" \/ Reached("ZamaRedeemed")
           THEN Finish("ZamaRedeemed", journal) ELSE Exit
     \/ Confirmed("zamaRedeem") /\ Finish("ZamaRedeemed", proc.mem)
  /\ UNCHANGED <<ledgers, environment>>

(* record_completed_operation: all three ledgers must agree.               *)
RecordCompleted ==
  /\ At("record")
  /\ IF canton.redeemed /\ canton.trade = "settled" /\ Status = "RELEASED" /\ applied
     THEN Finish("ZamaRedeemed", journal)
     ELSE Exit
  /\ UNCHANGED <<ledgers, environment>>

(* cancel_locked_operation: a cancelled receipt only needs the reservation *)
(* cancelled; a locked one gets a fresh deadline, proof and digest.        *)
Cancel ==
  /\ At("cancel")
  /\ IF Status = "CANCELLED" THEN Jump("zamaCancel")
     ELSE IF Status = "LOCKED"
     THEN BeginApproval([dir |-> "CANCEL", dest |-> "source",
                         expiry |-> now + Window, proof |-> FreshProof], "idle")
     ELSE Exit
  /\ UNCHANGED <<ledgers, environment>>

CancelMove ==
  /\ \/ At("cancelMove") /\ Send(MoveTx(proc.job), proc.mem) /\ applied' = applied
     \/ Confirmed("cancelMove") /\ applied' = TRUE /\ Jump("zamaCancel")
  /\ UNCHANGED <<escrow, zama, canton, environment>>

(* cancel_zama_if_reserved, then prove_vault_unlocked.                     *)
ZamaCancel ==
  /\ \/ At("zamaCancel") /\ zama.status = "Reserved" /\ Send(ZamaTx("cancel"), proc.mem)
     \/ /\ At("zamaCancel") /\ zama.status # "Reserved"
        /\ IF zama.status = "Cancelled" /\ vault = 0 THEN Finish("Cancelled", journal) ELSE Exit
     \/ /\ Confirmed("zamaCancel")
        /\ IF vault = 0 THEN Finish("Cancelled", proc.mem)
           ELSE proc' = Idle /\ journal' = proc.mem
  /\ UNCHANGED <<ledgers, environment>>

-----------------------------------------------------------------------------
Init == /\ E!Init
        /\ zama = [status |-> "Empty", approved |-> FALSE]
        /\ canton = NewCanton
        /\ applied = FALSE
        /\ journal = NewJournal
        /\ proc = Idle
        /\ stray = {} /\ faults = 0 /\ partyMoves = 0

Coordinate ==
  \/ Reserve \/ Lock \/ MintApproval \/ ExpiryRecovery
  \/ SendApproval \/ ApprovalConfirmed \/ Approved
  \/ CantonMint \/ Finalize \/ PrepareTrade \/ AttestEligibility \/ ProposeTrade
  \/ BindTrade \/ Reassign
  \/ DecideSettle \/ AllocateTreasury \/ AllocatePayment \/ SettleTrade
  \/ RecordOutputs \/ Redeem
  \/ PrepareRelease \/ ReleaseApproval \/ Release \/ ApplyPending \/ ZamaRedeem
  \/ RecordCompleted \/ Cancel \/ CancelMove \/ ZamaCancel

Next == \/ SetUp
        \/ \E mode \in Modes, omit \in Omits : Start(mode, omit)
        \/ Coordinate
        \/ Land \/ Refuse \/ LandLate \/ Lose \/ Crash \/ Retry
        \/ Tick \/ PartyMove

Spec == Init /\ [][Next]_vars

(* A process that is not killed keeps running, what it waits for is        *)
(* answered, and the operator starts the coordinator again after every     *)
(* exit; time passes while an approval blocks it.  Nothing is assumed of   *)
(* the parties or of stray transactions.                                   *)
Progress == /\ WF_vars(SetUp) /\ WF_vars(Coordinate \/ Land \/ Refuse)
            /\ WF_vars(Blocked /\ Tick)

ResumeSpec == Spec /\ Progress /\ SF_vars(Start("run", FALSE))

CancelSpec == Spec /\ Progress /\ SF_vars(Start("cancel", FALSE))

-----------------------------------------------------------------------------
(* Properties *)

Journals == [completed : 0..13, mintExpiry : 0..Latest, lockProof : Proofs \cup {0},
             release : [expiry : 0..Latest, proof : Proofs \cup {0}]]

TypeOK == /\ E!TypeOK /\ now <= Horizon
          /\ zama.status \in {"Empty", "Reserved", "Finalized", "Cancelled", "Redeemed"}
          /\ journal \in Journals
          /\ Running => proc.mem \in Journals
          /\ Running => proc.wait \in {"none", "pending", "ok"}
          /\ faults \in 0..MaxFaults /\ Cardinality(stray) <= faults

(* Every Canton token is backed: from Gateway_Mint until the redemption    *)
(* the Solana receipt is mint-authorized, so the vault holds its value and *)
(* no refund is possible, whichever transactions of dead processes land.   *)
CirculationBacked ==
  canton.mint # "none"
    => Status = "MINT_AUTHORIZED" \/ (Status = "RELEASED" /\ canton.redeemed)

(* The vault pays out on Solana only after Gateway_Redeem burned the       *)
(* payment of the settled trade, and the refund and the mint exclude each  *)
(* other across the chains.                                                *)
ReleaseAfterBurn ==
  /\ Status = "RELEASED" => canton.redeemed /\ canton.trade = "settled"
  /\ Status = "CANCELLED" => canton.mintAtts = 0

(* The encrypted exposure brackets the value at risk: an approved          *)
(* reservation exists before anything is locked and is given up only when  *)
(* the receipt is closed; a rejected one never leads to a lock.            *)
ExposureCoversValue ==
  /\ receipt[Op] # E!NoReceipt => zama.approved
  /\ Status \in {"LOCKED", "MINT_AUTHORIZED"} => zama.status \in {"Reserved", "Finalized"}
  /\ zama.status = "Finalized" => canton.mint # "none"
  /\ zama.status = "Cancelled" => Status = "CANCELLED"
  /\ zama.status = "Redeemed" => Status = "RELEASED" /\ applied

(* The vault holds one unit from the mint on Canton until the payout, also *)
(* between the burn and the release, and a journal that ends the operation *)
(* leaves the vault empty (prove_vault_unlocked, release_once).            *)
SupplyInVault ==
  /\ canton.mint # "none" /\ Status # "RELEASED" => vault = 1
  /\ journal.completed \in {12, 13} => vault = 0

(* The value ends with the payee or back at the source, and only on the    *)
(* word of two attesters for that very account, although every attempt     *)
(* signs with its own deadline and commitment and signatures of dead       *)
(* processes still land; nothing is paid without a mint quorum before.     *)
OutcomeApproved ==
  LET two(d) == \E i, j \in approval[Op][d].signers : i # j
      to(d)  == approval[Op][d].digest.destination
  IN  /\ Status \in {"MINT_AUTHORIZED", "RELEASED"} => two("MINT")
      /\ Status = "RELEASED" => two("RELEASE") /\ to("RELEASE") = "payee"
      /\ Status = "CANCELLED" => two("CANCEL") /\ to("CANCEL") = "source"

(* What the journal file claims has happened on the ledgers: a resumed run *)
(* skips the steps it names.  (A trade the parties ended after the payment *)
(* was allocated is journalled as settled: decideSettle cannot tell.)      *)
JournalTruthful ==
  LET claims(step) == journal.completed \in Rank(step)..12
  IN  /\ claims("Reserved") => zama.approved
      /\ claims("Locked") => receipt[Op] # E!NoReceipt
      /\ claims("MintApproved") => Status \in {"MINT_AUTHORIZED", "RELEASED"}
      /\ claims("CantonMinted") => zama.status \in {"Finalized", "Redeemed"}
      /\ claims("TradePrepared") => canton.trade # "none"
      /\ claims("Reassigned") => canton.place = "target"
      /\ claims("Settled") => /\ canton.trade \in {"settled", "ended"} /\ canton.mint = "spent"
                             /\ canton.treasuryElig = 2 /\ canton.cashElig = 2
      /\ claims("Redeemed") => canton.redeemed
      /\ claims("Released") => Status = "RELEASED" /\ applied
      /\ claims("ZamaRedeemed") => zama.status = "Redeemed"
      /\ journal.completed = 13 => Status = "CANCELLED" /\ zama.status = "Cancelled"

(* Mint signatures on chain stay usable: whenever a mint approval exists   *)
(* it carries the proof the journal would sign again, although a crashed   *)
(* lock attempt may have replaced the journal's proof since, so that a     *)
(* resumed run adds the missing signature instead of being refused.        *)
MintApprovalResumable ==
  approval[Op]["MINT"] # E!NoApproval
    => approval[Op]["MINT"].digest.proof = journal.lockProof

(* Where the value of the operation is, read off the three ledgers.        *)
ValueAt == CASE Status = "NONE"      -> "source"
             [] Status = "CANCELLED" -> "refunded"
             [] Status = "RELEASED"  -> "paid"
             [] OTHER -> IF canton.redeemed THEN "burned"
                         ELSE IF canton.mint # "none" THEN "canton" ELSE "vault"

V == INSTANCE ValuePath WITH at <- ValueAt,
       exposed <- zama.approved /\ zama.status \in {"Reserved", "Finalized"}

(* The three ledgers together move the value along one route, one place at *)
(* a time, under a reservation: no crash, late transaction or repeated run *)
(* skips a place, goes back or pays twice (workflow.rs run_full).          *)
ValuePathImplemented == V!Spec

(* Reserved capacity does not wait for ever on a lock that was lost or     *)
(* refused: a later run locks, unless the mint deadline fixed by the first *)
(* run passed before.  After it the lock is refused, no receipt exists to  *)
(* cancel, and the capacity stays reserved (reserve_once, lock_once).      *)
ReservedLeadsToLocked ==
  zama.status = "Reserved" /\ zama.approved
    ~> receipt[Op] # E!NoReceipt \/ Expired(journal.mintExpiry)

(* A mint-authorized lock is minted on Canton and finalized on Zama, over  *)
(* crashes at any point of the mint, and a later run gets past it: the     *)
(* journal records the mint (approve_needed, Runtime.mint, finalize).      *)
AuthorizedLeadsToMinted ==
  Status = "MINT_AUTHORIZED"
    ~> /\ canton.mint # "none" /\ zama.status \in {"Finalized", "Redeemed"}
       /\ journal.completed >= Rank("CantonMinted")

(* Redeemed value is paid out: the release survives expired approvals,     *)
(* crashes between the signatures and late transactions, the credit is     *)
(* applied and the exposure freed (release_once).                          *)
RedeemedLeadsToReleased ==
  canton.redeemed ~> Status = "RELEASED" /\ applied /\ zama.status = "Redeemed"

(* README.md:441-445: resume reads chain state and continues the           *)
(* unfinished step, and a later 2-of-3 can recover an eligible locked      *)
(* operation after the mint deadline.                                      *)
ExpiredLockLeadsToRefund ==
  Status = "LOCKED" /\ Expired(receipt[Op].expiry) ~> Status # "LOCKED"

(* README.md:270: crash resume uses ledger contracts at each Canton        *)
(* boundary.  A settled trade is therefore redeemed.                       *)
SettledLeadsToRedeemed == canton.trade = "settled" ~> canton.redeemed

(* README.md:270 and 789: resume uses ledger contracts rather than journal *)
(* markers alone.  A started reassignment therefore leads to settlement.   *)
ReassignmentLeadsToSettlement ==
  canton.place # "source" /\ canton.cashElig = 2 ~> canton.trade = "settled"
=============================================================================
