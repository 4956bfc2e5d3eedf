------------------------------ MODULE Accounts ------------------------------
(***************************************************************************)
(* The accounts behind the bridge over several operations: how one mint,   *)
(* vault and pair of endpoints are provisioned (bridge/src/setup.rs),      *)
(* recorded in files (journal.rs), taken over by later operations, with    *)
(* the endpoints reversed if asked (workflow.rs), and what the Token-2022  *)
(* confidential balances do while coordinators of different operations     *)
(* run, crash and are started again.                                       *)
(*                                                                         *)
(* An account has an encrypted available balance, an encrypted pending     *)
(* balance with a counter, and a second copy of the available balance that *)
(* the owner can decrypt.  Nothing but the owner keeps that copy true, and *)
(* the coordinator decides from it alone.                                  *)
(*                                                                         *)
(* Signatures, the trade and the risk decision are modules Escrow,         *)
(* Coordinator and RiskEngine: here approvals are given, the trade settles *)
(* and reservations are approved.  The mint authority exists only while    *)
(* the accounts are made, so the supply is what the first run deposited.   *)
(***************************************************************************)
EXTENDS Integers, FiniteSets

CONSTANTS Operations,  \* one operation directory each
          Amounts,     \* the amounts an operator may ask for
          MaxAttempts, \* bound on provisioning attempts
          MaxFaults    \* bound on crashes

ASSUME AccountsAssumption ==
  /\ IsFiniteSet(Operations) /\ "durable" \notin Operations
  /\ Amounts \subseteq Nat \ {0} /\ MaxAttempts \in Nat /\ MaxFaults \in Nat

VARIABLES config,    \* the attempt whose mint and vault are configured, or 0
          bal,       \* the configured accounts
          receipt,   \* per operation: status and the account locked from
          zama,      \* per operation: the status of its reservation
          dir,       \* per directory: the journal and the secrets file
          proc,      \* per operation: its coordinator, or Idle
          stray,     \* relayed transactions nobody waits for any more
          attempts, faults,
          credit,      \* per operation: the endpoint whose pending balance
                       \* holds its value, or how far it got
          interrupted  \* operations whose cancel run stopped before applying

chain == <<config, bal, receipt, zama, credit>>
vars == <<chain, dir, proc, stray, attempts, faults, interrupted>>

Endpoints == {"a", "b"}
Tokens == Endpoints \cup {"vault"}
Durable == "durable"
Directories == Operations \cup {Durable}

Other(e) == CHOOSE f \in Endpoints : f # e

NoJournal == [mint |-> 0]
NoSecrets == [mint |-> 0]
Idle == [pc |-> "idle"]
NoTx == [kind |-> "none"]
NoAccount == [owner |-> "none"]

Running(o) == proc[o] # Idle

(* Step::rank, for the steps that matter here.                             *)
Rank == [New |-> 0, Accounts |-> 1, Locked |-> 2, Released |-> 3,
         ZamaRedeemed |-> 4, Cancelled |-> 5]

Reached(o, step) == proc[o].mem.completed >= Rank[step]

-----------------------------------------------------------------------------
(* Confidential token accounts *)

Empty == [available |-> 0, decryptable |-> 0, pending |-> 0, counter |-> 0,
          version |-> 0]

(* Transfer: the proofs were made for one ciphertext of the sender, and    *)
(* carry what the sender's decryptable copy said.                          *)
ProofsHold(tx) == /\ tx.version = bal[tx.from].version
                  /\ tx.basis = bal[tx.from].available
                  /\ tx.basis >= tx.amount

Debit(account, tx) == [account EXCEPT !.available = @ - tx.amount,
                                      !.decryptable = tx.basis - tx.amount,
                                      !.version = @ + 1]

Credit(account, amount) == [account EXCEPT !.pending = @ + amount,
                                           !.counter = @ + 1]

(* ApplyPendingBalance: the owner states the new balance and is believed.  *)
Apply(account, claim) == [account EXCEPT !.available = @ + account.pending,
                                         !.decryptable = claim,
                                         !.pending = 0, !.counter = 0,
                                         !.version = @ + 1]

(* generate_transfer_proofs, from the state of the sending account.        *)
Transfer(kind, o, from, to, amount) ==
  [kind |-> kind, op |-> o, from |-> from, to |-> to, amount |-> amount,
   basis |-> bal[from].decryptable, version |-> bal[from].version,
   claim |-> bal[to].decryptable + amount]

(* What the escrow adds: the receipt's status, and on a lock the vault     *)
(* applies the credit in the same instruction with the claim it was given. *)
Allowed(tx) ==
  LET status == receipt[tx.op].status
  IN  CASE tx.kind = "lock"    -> config # 0 /\ status = "NONE"
        [] tx.kind = "cancel"  -> status = "LOCKED"
        [] tx.kind = "release" -> status = "MINT_AUTHORIZED"

NewStatus == [lock |-> "LOCKED", cancel |-> "CANCELLED", release |-> "RELEASED"]

Credited(tx) == IF tx.kind = "lock" THEN Apply(Credit(bal[tx.to], tx.amount), tx.claim)
                ELSE Credit(bal[tx.to], tx.amount)

Execute(tx) ==
  /\ Allowed(tx) /\ ProofsHold(tx)
  /\ bal' = [bal EXCEPT ![tx.from] = Debit(@, tx), ![tx.to] = Credited(tx)]
  /\ receipt' = [receipt EXCEPT ![tx.op].status = NewStatus[tx.kind],
                                ![tx.op].from = IF tx.kind = "lock" THEN tx.from ELSE @]
  /\ credit' = IF tx.kind = "lock" THEN credit ELSE [credit EXCEPT ![tx.op] = tx.to]
  /\ UNCHANGED <<config, zama>>

-----------------------------------------------------------------------------
(* Runs *)

At(o, pc) == Running(o) /\ proc[o].pc = pc

Goto(o, pc) == proc' = [proc EXCEPT ![o].pc = pc, ![o].tx = NoTx]

Exit(o) == proc' = [proc EXCEPT ![o] = Idle]

SaveJournal(d, journal) == dir' = [dir EXCEPT ![d].journal = journal]

SaveSecrets(d, secrets) == dir' = [dir EXCEPT ![d].secrets = secrets]

(* Step::max_completed.                                                    *)
Noted(journal, step) ==
  [journal EXCEPT !.completed = IF @ < Rank[step] THEN Rank[step] ELSE @]

(* halt: the step is noted in memory and on disk, in one step of the run,  *)
(* which ends there if the operator asked for that (stop_after).           *)
Halt(o, step, pc) ==
  LET mem == Noted(proc[o].mem, step)
      on  == [proc[o] EXCEPT !.pc = pc, !.mem = mem, !.tx = NoTx]
  IN  /\ \E next \in IF pc = "idle" THEN {Idle} ELSE {on, Idle} :
           proc' = [proc EXCEPT ![o] = next]
      /\ SaveJournal(o, mem)

Send(o, pc, tx) == proc' = [proc EXCEPT ![o].pc = pc, ![o].tx = tx]

Unchanged == UNCHANGED <<stray, attempts, faults, interrupted>>

(* journal_matches_onchain.                                                *)
MatchesOnChain(d) == dir[d].journal # NoJournal /\ dir[d].journal.mint = config

Recorded(d) == dir[d].secrets # NoSecrets /\ MatchesOnChain(d)

NewProc(pc, mode, durable, journal, secrets) ==
  [pc |-> pc, mode |-> mode, durable |-> durable, mem |-> journal, keys |-> secrets,
   step |-> 1, vault |-> NoAccount, tx |-> NoTx]

(* Faulty variant: the keys stay where they were.                          *)
ReverseJournalOnly(journal, secrets) ==
  [journal |-> [journal EXCEPT !.source = journal.payout, !.payout = journal.source,
                               !.refund = journal.payout],
   secrets |-> secrets]

(* reverse_endpoints.                                                      *)
ReverseEndpoints(journal, secrets) ==
  [journal |-> [journal EXCEPT !.source = journal.payout, !.payout = journal.source,
                               !.refund = journal.payout],
   secrets |-> [secrets EXCEPT !.source = secrets.payout, !.payout = secrets.source]]

(* reuse_existing_accounts: a new operation on the accounts of a directory *)
(* whose operation may be at any stage.                                    *)
ReuseExisting(prior, amount, reverse) ==
  LET journal == [dir[prior].journal EXCEPT !.amount = amount, !.completed = 0]
  IN  IF reverse THEN ReverseEndpoints(journal, dir[prior].secrets)
      ELSE [journal |-> journal, secrets |-> dir[prior].secrets]

(* load_or_create_accounts: the operation's own accounts ...               *)
Resume(o, mode, amount) ==
  /\ ~Running(o) /\ config # 0 /\ Recorded(o) /\ dir[o].journal.amount = amount
  /\ proc' = [proc EXCEPT ![o] =
                NewProc(IF zama[o] = "Redeemed" THEN "record" ELSE "persistJournal",
                        mode, FALSE, dir[o].journal, dir[o].secrets)]
  /\ UNCHANGED <<chain, dir>> /\ Unchanged

(* ... for a directory without a journal the accounts of another one, or   *)
(* of the durable directory when its secrets are there ...                 *)
Reuse(o, mode, prior, amount, reverse) ==
  /\ ~Running(o) /\ config # 0 /\ dir[o].journal = NoJournal
  /\ prior # o /\ Recorded(prior)
  /\ LET new == ReuseExisting(prior, amount, reverse)
     IN  proc' = [proc EXCEPT ![o] =
                    NewProc("persistJournal", mode, FALSE, new.journal, new.secrets)]
  /\ UNCHANGED <<chain, dir>> /\ Unchanged

(* ... or new ones, unless the program is configured already.              *)
Create(o, mode, durable, amount) ==
  /\ ~Running(o) /\ config = 0 /\ dir[o].journal = NoJournal
  /\ attempts < MaxAttempts /\ attempts' = attempts + 1
  /\ LET made == attempts'
     IN  proc' = [proc EXCEPT ![o] =
           NewProc("create", mode, durable,
                   [mint |-> made, source |-> "a", refund |-> "a", payout |-> "b",
                    amount |-> amount, completed |-> 0],
                   [mint |-> made, source |-> "a", payout |-> "b"])]
  /\ UNCHANGED <<chain, dir, stray, faults, interrupted>>

(* create_bridge_accounts: the transactions in their order.                *)
Transactions == <<"mint", "source", "vault", "payout", "authority", "initialize",
                  "mint_to", "deposit", "apply">>

(* create_confidential_account: its transactions configure the account     *)
(* with a fresh proof of its key; a crash between them leaves an account   *)
(* that nobody will ever name.                                             *)
ConfidentialAccount(owner, disablePublicCredits) ==
  [owner |-> owner, publicCredits |-> ~disablePublicCredits]

(* require_confidential_account, as initialize asks it of the vault.       *)
VaultAcceptable(account) ==
  account # NoAccount /\ account.owner = "program" /\ ~account.publicCredits

(* deposit_and_apply: two transactions, the second one with the claim that *)
(* the account holds the deposit.                                          *)
DepositAndApply(account, transaction, amount) ==
  CASE transaction = "deposit" -> Credit(account, amount)
    [] transaction = "apply"   -> Apply(account, amount)
    [] OTHER -> account

(* Everything before "initialize" touches accounts of this attempt alone.  *)
Provision(o) ==
  LET next == Transactions[proc[o].step]
      src  == proc[o].mem.source
      made == CASE next = "vault"     -> ConfidentialAccount("payer", TRUE)
                [] next = "authority" -> [proc[o].vault EXCEPT !.owner = "program"]
                [] OTHER -> proc[o].vault
      onward == proc' = [proc EXCEPT ![o] =
                  IF next # "apply"
                  THEN [proc[o] EXCEPT !.step = proc[o].step + 1, !.vault = made]
                  ELSE NewProc(IF proc[o].durable THEN "durableJournal" ELSE "persistJournal",
                               proc[o].mode, FALSE, proc[o].mem, proc[o].keys)]
  IN  /\ At(o, "create")
      /\ IF next # "initialize"
         THEN /\ onward /\ config' = config
              /\ bal' = [bal EXCEPT ![src] = DepositAndApply(@, next, proc[o].mem.amount)]
         ELSE /\ bal' = bal
              /\ IF config = 0 /\ VaultAcceptable(proc[o].vault)
                 THEN onward /\ config' = proc[o].mem.mint
                 ELSE Exit(o) /\ config' = config
      /\ UNCHANGED <<receipt, zama, credit, dir>> /\ Unchanged

(* save_durable_accounts, then persist: two files each, the journal first. *)
Persist(o) ==
  /\ \/ At(o, "durableJournal") /\ SaveJournal(Durable, proc[o].mem) /\ Goto(o, "durableSecrets")
     \/ At(o, "durableSecrets") /\ SaveSecrets(Durable, proc[o].keys) /\ Goto(o, "persistJournal")
     \/ At(o, "persistJournal") /\ SaveJournal(o, proc[o].mem) /\ Goto(o, "persistSecrets")
     \/ At(o, "persistSecrets") /\ SaveSecrets(o, proc[o].keys) /\ Goto(o, "accounts")
  /\ UNCHANGED chain /\ Unchanged

(* Which way the run goes once it has its accounts.                        *)
Begin(o) ==
  /\ At(o, "accounts")
  /\ Halt(o, "Accounts", IF proc[o].mode = "cancel" \/ proc[o].mem.completed = Rank["Cancelled"]
                         THEN "cancel" ELSE "reserve")
  /\ UNCHANGED chain /\ Unchanged

(* reserve_once: an approved reservation is made once and resumed after.   *)
Reserve(o) ==
  /\ At(o, "reserve")
  /\ IF zama[o] = "Cancelled" THEN Exit(o)
     ELSE Goto(o, IF zama[o] = "Redeemed" THEN "record" ELSE "lock")
  /\ zama' = [zama EXCEPT ![o] = IF @ = "Empty" THEN "Reserved" ELSE @]
  /\ UNCHANGED <<config, bal, receipt, credit, dir>> /\ Unchanged

(* Faulty variant: an occupied vault is no obstacle.                       *)
SourceFunded(o) == bal[proc[o].mem.source].decryptable >= proc[o].mem.amount

(* What lock_once asks of the decryptable balances.                        *)
ReadyToLock(o) == /\ bal[proc[o].mem.source].decryptable = proc[o].mem.amount
                  /\ bal["vault"].decryptable = 0

(* lock_once, after a reservation that a refused lock leaves behind.       *)
Lock(o) ==
  LET mem == proc[o].mem
  IN  /\ \/ /\ At(o, "lock") /\ (Reached(o, "Locked") \/ receipt[o].status # "NONE")
            /\ proc' = [proc EXCEPT ![o].pc = "mint", ![o].mem = Noted(mem, "Locked")]
            /\ dir' = dir
         \/ /\ At(o, "lock") /\ ~Reached(o, "Locked") /\ receipt[o].status = "NONE"
            /\ dir' = dir
            /\ IF ReadyToLock(o)
               THEN Send(o, "lockSent", Transfer("lock", o, mem.source, "vault", mem.amount))
               ELSE Exit(o)
         \/ At(o, "locked") /\ Halt(o, "Locked", "mint")
      /\ UNCHANGED chain /\ Unchanged

(* The mint approvals, and the trade down to the redemption on Canton.     *)
MintAndSettle(o) ==
  /\ \/ /\ At(o, "mint") /\ receipt[o].status = "LOCKED"
        /\ Goto(o, "settle") /\ zama' = zama
        /\ receipt' = [receipt EXCEPT ![o].status = "MINT_AUTHORIZED"]
     \/ /\ At(o, "mint") /\ receipt[o].status # "LOCKED"
        /\ IF receipt[o].status = "CANCELLED" THEN Exit(o) ELSE Goto(o, "settle")
        /\ UNCHANGED <<zama, receipt>>
     \/ /\ At(o, "settle") /\ receipt' = receipt
        /\ zama' = [zama EXCEPT ![o] = IF @ = "Reserved" THEN "Finalized" ELSE @]
        /\ Goto(o, "release")
  /\ UNCHANGED <<config, bal, credit, dir>> /\ Unchanged

(* release_once and should_submit_release.                                 *)
Release(o) ==
  LET mem == proc[o].mem
  IN  /\ At(o, "release")
      /\ IF ~Reached(o, "Released") /\ receipt[o].status # "RELEASED"
         THEN Send(o, "releaseSent", Transfer("release", o, "vault", mem.payout, mem.amount))
         ELSE Goto(o, "apply")
      /\ UNCHANGED <<chain, dir>> /\ Unchanged

(* apply_pending: the owner claims to have exactly the amount.             *)
ApplyPending(e, amount) ==
  /\ bal' = [bal EXCEPT ![e] = Apply(@, amount)]
  /\ credit' = [p \in Operations |-> IF credit[p] = e THEN "available" ELSE credit[p]]

(* should_apply_pending, when nothing is pending: applied before, or an    *)
(* error because the balance is not the expected one.                      *)
AppliedBefore(o) == /\ bal[proc[o].mem.payout].counter = 0
                    /\ bal[proc[o].mem.payout].decryptable = proc[o].mem.amount

(* The balance is read again after the apply; only then the payment is     *)
(* noted.  Until then the payout account may be used by another operation. *)
Pay(o) ==
  LET mem == proc[o].mem
  IN  /\ \/ /\ At(o, "apply") /\ bal[mem.payout].counter > 0
            /\ ApplyPending(mem.payout, mem.amount) /\ Goto(o, "applied") /\ dir' = dir
         \/ /\ At(o, "apply") /\ bal[mem.payout].counter = 0
            /\ UNCHANGED <<bal, credit>>
            /\ IF AppliedBefore(o) THEN Halt(o, "Released", "redeem")
               ELSE Exit(o) /\ dir' = dir
         \/ /\ At(o, "applied")
            /\ UNCHANGED <<bal, credit>>
            /\ IF bal[mem.payout].decryptable = mem.amount THEN Halt(o, "Released", "redeem")
               ELSE Exit(o) /\ dir' = dir
      /\ UNCHANGED <<config, receipt, zama>> /\ Unchanged

(* The reservation is redeemed, and in a later step that is noted.         *)
Redeem(o) ==
  /\ \/ /\ At(o, "redeem") /\ Goto(o, "redeemed") /\ dir' = dir
        /\ zama' = [zama EXCEPT ![o] = IF @ = "Finalized" THEN "Redeemed" ELSE @]
     \/ At(o, "redeemed") /\ Halt(o, "ZamaRedeemed", "idle") /\ zama' = zama
  /\ UNCHANGED <<config, bal, receipt, credit>> /\ Unchanged

(* completed_operation_decision: the payout must still be there.           *)
Record(o) ==
  /\ At(o, "record")
  /\ IF receipt[o].status = "RELEASED" /\ AppliedBefore(o)
     THEN Halt(o, "ZamaRedeemed", "idle") ELSE Exit(o) /\ dir' = dir
  /\ UNCHANGED chain /\ Unchanged

(* cancel_locked_operation.  A refund found on chain is not applied.       *)
Cancel(o) ==
  LET mem == proc[o].mem
  IN  /\ At(o, "cancel")
      /\ CASE receipt[o].status = "CANCELLED" -> Goto(o, "zamaCancel")
           [] receipt[o].status = "LOCKED" ->
                Send(o, "cancelSent", Transfer("cancel", o, "vault", mem.source, mem.amount))
           [] OTHER -> Exit(o)
      /\ UNCHANGED <<chain, dir>> /\ Unchanged

(* Faulty variant: the refund is left where it arrived.                    *)
LeaveRefund(o) == Goto(o, "zamaCancel") /\ UNCHANGED <<bal, credit>>

ApplyRefund(o) ==
  /\ Goto(o, "zamaCancel")
  /\ IF bal[proc[o].mem.source].counter > 0
     THEN ApplyPending(proc[o].mem.source, proc[o].mem.amount)
     ELSE UNCHANGED <<bal, credit>>

(* cancel_zama_if_reserved and prove_vault_unlocked.                       *)
Refund(o) ==
  /\ \/ At(o, "refund") /\ ApplyRefund(o) /\ UNCHANGED <<zama, dir>>
     \/ /\ At(o, "zamaCancel") /\ UNCHANGED <<bal, credit, dir>>
        /\ IF zama[o] \in {"Reserved", "Cancelled"}
           THEN Goto(o, "unlocked") /\ zama' = [zama EXCEPT ![o] = "Cancelled"]
           ELSE Exit(o) /\ zama' = zama
     \/ /\ At(o, "unlocked") /\ UNCHANGED <<bal, credit, zama>>
        /\ IF bal["vault"].counter = 0 /\ bal["vault"].decryptable = 0
           THEN Halt(o, "Cancelled", "idle") ELSE Exit(o) /\ dir' = dir
  /\ UNCHANGED <<config, receipt>> /\ Unchanged

AfterSent == [lockSent |-> "locked", releaseSent |-> "apply", cancelSent |-> "refund"]

(* wait_confirmed: what the run waits for lands, or it is refused.         *)
Land(o) ==
  /\ Running(o) /\ proc[o].tx # NoTx
  /\ \/ Execute(proc[o].tx) /\ Goto(o, AfterSent[proc[o].pc])
     \/ /\ ~(Allowed(proc[o].tx) /\ ProofsHold(proc[o].tx))
        /\ Exit(o) /\ UNCHANGED chain
  /\ dir' = dir /\ Unchanged

LandLate == \E tx \in stray :
              /\ Execute(tx) /\ stray' = stray \ {tx}
              /\ UNCHANGED <<dir, proc, attempts, faults, interrupted>>

Crash(o) ==
  /\ Running(o) /\ faults < MaxFaults /\ faults' = faults + 1
  /\ stray' = IF proc[o].tx # NoTx THEN stray \cup {proc[o].tx} ELSE stray
  /\ interrupted' = IF proc[o].pc \in {"cancelSent", "refund"}
                    THEN interrupted \cup {o} ELSE interrupted
  /\ Exit(o)
  /\ UNCHANGED <<chain, dir, attempts>>

-----------------------------------------------------------------------------
Init == /\ config = 0
        /\ bal = [t \in Tokens |-> Empty]
        /\ receipt = [o \in Operations |-> [status |-> "NONE", from |-> "none"]]
        /\ zama = [o \in Operations |-> "Empty"]
        /\ credit = [o \in Operations |-> "none"]
        /\ dir = [d \in Directories |-> [journal |-> NoJournal, secrets |-> NoSecrets]]
        /\ proc = [o \in Operations |-> Idle]
        /\ stray = {} /\ attempts = 0 /\ faults = 0 /\ interrupted = {}

Modes == {"run", "cancel"}

Start(o) ==
  \E mode \in Modes, amount \in Amounts :
    \/ Resume(o, mode, amount)
    \/ \E prior \in Directories, reverse \in BOOLEAN : Reuse(o, mode, prior, amount, reverse)
    \/ \E durable \in BOOLEAN : Create(o, mode, durable, amount)

Coordinate(o) ==
  \/ Provision(o) \/ Persist(o) \/ Begin(o) \/ Reserve(o) \/ Lock(o) \/ MintAndSettle(o)
  \/ Release(o) \/ Pay(o) \/ Redeem(o) \/ Record(o) \/ Cancel(o) \/ Refund(o) \/ Land(o)

Next == \/ \E o \in Operations : Start(o) \/ Coordinate(o) \/ Crash(o)
        \/ LandLate

Spec == Init /\ [][Next]_vars

-----------------------------------------------------------------------------
(* Properties *)

(* The copy the coordinator decides from is the balance: every claim it    *)
(* wrote on an apply was right although it never adds to what was there,   *)
(* and a credit is never applied together with another one.                *)
DecryptableTruthful ==
  \A t \in Tokens : /\ bal[t].decryptable = bal[t].available
                    /\ bal[t].counter = IF bal[t].pending = 0 THEN 0 ELSE 1

(* Whatever a directory records can be used: it names the configured       *)
(* accounts, the refund goes to the source, and every key it holds belongs *)
(* to the account in the same place, over any chain of reversals and       *)
(* racing provisioning attempts.                                           *)
RecordsUsable ==
  \A d \in Directories :
    /\ dir[d].journal # NoJournal =>
         /\ dir[d].journal.mint = config
         /\ dir[d].journal.refund = dir[d].journal.source
         /\ dir[d].journal.payout = Other(dir[d].journal.source)
    /\ dir[d].secrets # NoSecrets =>
         /\ dir[d].journal # NoJournal
         /\ \A place \in {"mint", "source", "payout"} :
              dir[d].secrets[place] = dir[d].journal[place]

(* A journal that says Released or Cancelled is about value somebody can   *)
(* spend.  The exception is the code's own: a refund whose run stopped     *)
(* before applying it is never applied by a later one.                     *)
ClosedIsSpendable ==
  \A o \in Operations :
    dir[o].journal # NoJournal =>
      /\ dir[o].journal.completed \in {3, 4} => credit[o] = "available"
      /\ dir[o].journal.completed = 5 => credit[o] = "available" \/ o \in interrupted

Holders == {t \in Tokens : bal[t].available + bal[t].pending > 0}

Stage(o) == CASE receipt[o].status = "NONE"      -> [at |-> "none"]
              [] receipt[o].status = "CANCELLED" -> [at |-> "refunded"]
              [] receipt[o].status = "RELEASED"  -> [at |-> "paid"]
              [] OTHER -> [at |-> "locked", from |-> receipt[o].from]

C == INSTANCE Custody WITH Vault <- "vault", holders <- Holders,
       stage <- [o \in Operations |-> Stage(o)]

(* Over any number of operations on the same accounts the whole supply is  *)
(* in one place, and leaves the vault to where it came from or to the      *)
(* other endpoint, once per operation.                                     *)
CustodyImplemented == C!Spec
=============================================================================
