------------------------------- MODULE Escrow -------------------------------
(***************************************************************************)
(* The Solana confidential escrow program                                  *)
(* (solana/programs/confidential-escrow/src).  One instruction is one      *)
(* transaction, so every handler is one atomic action; a failed require!   *)
(* reverts the whole instruction and is a disabled action here.            *)
(*                                                                         *)
(* Hashes are modelled by the tuple of values they commit to, so two       *)
(* digests are equal exactly when every bound field is equal.  amount      *)
(* commitment, Zama reservation and previous operation travel together     *)
(* and are one value of Terms.  Ciphertexts are hidden: every operation    *)
(* moves one unit, which makes the values of two operations                *)
(* interchangeable, the hardest case for the shared vault.                 *)
(* Signatures are not scarce: whoever submits approve_operation may        *)
(* present any configured attester's signature on any digest, again or     *)
(* late, so nothing below relies on the attesters being honest or alive.   *)
(***************************************************************************)
EXTENDS Integers, FiniteSets

CONSTANTS Operations,   \* operation ids (the seed of a receipt account)
          Keys,         \* public keys that may sign
          Accounts,     \* confidential token accounts other than the vault
          Terms,        \* <<amount_commitment, zama_reservation, previous_operation>>
          Proofs,       \* proof commitments of confidential transfers
          MaxTime       \* bound on the chain clock

ASSUME EscrowAssumption == /\ IsFiniteSet(Operations)
                           /\ MaxTime \in Nat

VARIABLES config,       \* the three attester keys, or NoConfig
          receipt,      \* LockReceipt of each operation, or NoReceipt
          approval,     \* OperationApproval of each operation and direction
          vault,        \* units held by the vault account
          now           \* Clock::get()?.unix_timestamp

vars == <<config, receipt, approval, vault, now>>

-----------------------------------------------------------------------------
(* Accounts *)

Directions == {"CANCEL", "RELEASE", "MINT"}

Statuses == {"LOCKED", "MINT_AUTHORIZED", "CANCELLED", "RELEASED"}

Indices == 1..3

Times == 0..MaxTime

NoConfig == [i \in {} |-> i]

NoReceipt == [status |-> "NONE"]

NoApproval == [signers |-> {}, consumed |-> FALSE]

LockReceipt == [status : Statuses, destination : Accounts, terms : Terms,
                expiry : Times, lockProof : Proofs]

Digests == [operation : Operations, direction : Directions,
            destination : Accounts, terms : Terms, expiry : Times,
            proof : Proofs]

OperationApproval == [digest : Digests, signers : SUBSET Indices,
                      consumed : BOOLEAN, expiry : Times]

TypeOK == /\ config = NoConfig \/ config \in [Indices -> Keys]
          /\ receipt \in [Operations -> LockReceipt \cup {NoReceipt}]
          /\ approval \in [Operations ->
                            [Directions -> OperationApproval \cup {NoApproval}]]
          /\ vault \in Nat
          /\ now \in Times

OperationDigest(op, dir, dest, terms, expiry, proof) ==
  [operation |-> op, direction |-> dir, destination |-> dest,
   terms |-> terms, expiry |-> expiry, proof |-> proof]

(* Faulty variant: one signature is enough.                                *)
AnySigner(signers) == signers # {}

(* distinct_signers() >= 2: the bitmap is the set of attester indices.     *)
Quorum(signers) == \E i, j \in signers : i # j

(* Faulty variant: positions counted from zero.                            *)
AttesterIndexFromZero(key) == {i - 1 : i \in {i \in Indices : config[i] = key}}

(* attester_index: the first position that holds the key.                  *)
AttesterIndex(key) == {i \in Indices : /\ config[i] = key
                                       /\ \A j \in Indices : j < i => config[j] # key}

(* Faulty variant: a mint-authorized lock may still be refunded.           *)
CancelUntilReleased(status) == status \in {"LOCKED", "MINT_AUTHORIZED"}

CancelPermitted(status) == status = "LOCKED"

(* Faulty variants: a release without a mint, and after a refund.          *)
ReleaseWhileOpen(status) == status \in {"LOCKED", "MINT_AUTHORIZED"}
ReleaseUnlessLocked(status) == status \in {"MINT_AUTHORIZED", "CANCELLED"}

ReleasePermitted(status) == status = "MINT_AUTHORIZED"

(* An approval record that holds no digest, or one whose deadline passed   *)
(* before it was used, is filled afresh; any other one must match.         *)
Replaceable(a) == a.signers # {} => now >= a.expiry /\ ~a.consumed

-----------------------------------------------------------------------------
(* Instructions *)

Init == /\ config = NoConfig
        /\ receipt = [op \in Operations |-> NoReceipt]
        /\ approval = [op \in Operations |-> [d \in Directions |-> NoApproval]]
        /\ vault = 0
        /\ now = 0

Initialize(attesters) ==
  /\ config = NoConfig
  /\ \A i, j \in Indices : i # j => attesters[i] # attesters[j]
  /\ config' = attesters
  /\ UNCHANGED <<receipt, approval, vault, now>>

(* The receipt account is created with `init`, so an operation locks once. *)
(* The transfer into the vault is applied to its available balance in the  *)
(* same instruction.                                                       *)
LockConfidential(op, dest, terms, expiry, proof) ==
  /\ config # NoConfig
  /\ receipt[op] = NoReceipt
  /\ now < expiry
  /\ receipt' = [receipt EXCEPT ![op] =
                   [status |-> "LOCKED", destination |-> dest, terms |-> terms,
                    expiry |-> expiry, lockProof |-> proof]]
  /\ vault' = vault + 1
  /\ UNCHANGED <<config, approval, now>>

(* Faulty variant: the refund destination is not compared.                 *)
ApprovalOfAnyDestination(op, dir, dest, terms, expiry) ==
  /\ receipt[op] # NoReceipt /\ receipt[op].terms = terms /\ now < expiry
  /\ dir = "MINT" => expiry = receipt[op].expiry

(* Guard of approve_operation up to the signature check.                   *)
ApprovalAcceptable(op, dir, dest, terms, expiry) ==
  /\ receipt[op] # NoReceipt
  /\ receipt[op].terms = terms
  /\ now < expiry
  /\ dir = "MINT" => expiry = receipt[op].expiry
  /\ dir = "CANCEL" => dest = receipt[op].destination

(* Faulty variant: the old bits survive a replacement.                     *)
SignedOnTop(a, i, digest) ==
  [digest |-> digest, expiry |-> digest.expiry, consumed |-> FALSE,
   signers |-> a.signers \cup {i}]

(* The approval record after the bit of attester i has been set.           *)
Signed(a, i, digest) ==
  [digest |-> digest, expiry |-> digest.expiry, consumed |-> FALSE,
   signers |-> IF Replaceable(a) THEN {i} ELSE a.signers \cup {i}]

ApproveOperation(op, dir, dest, terms, expiry, proof, key) ==
  LET digest == OperationDigest(op, dir, dest, terms, expiry, proof)
      old    == approval[op][dir]
  IN  /\ ApprovalAcceptable(op, dir, dest, terms, expiry)
      /\ \E i \in AttesterIndex(key) :
        /\ \/ Replaceable(old)
           \/ /\ ~Replaceable(old) /\ ~old.consumed
              /\ old.digest = digest
              /\ i \notin old.signers
        /\ LET new == Signed(old, i, digest)
           IN  /\ approval' = [approval EXCEPT ![op][dir] = new]
               /\ IF dir = "MINT" /\ Quorum(new.signers)
                  THEN /\ receipt[op].status \in {"LOCKED", "MINT_AUTHORIZED"}
                       /\ receipt' = [receipt EXCEPT ![op].status = "MINT_AUTHORIZED"]
                  ELSE receipt' = receipt
      /\ UNCHANGED <<config, vault, now>>

(* Faulty variant: the approval's deadline is not compared with the clock. *)
NamesDeadline(a, expiry) == a.expiry = expiry

Unexpired(a, expiry) == now < expiry /\ a.expiry = expiry

(* The transfer out of the vault is a CPI that fails without the funds.    *)
MoveVaultTokens(op, dir, dest, terms, expiry, proof) ==
  LET a == approval[op][dir]
      r == receipt[op]
  IN  /\ r # NoReceipt
      /\ Quorum(a.signers)
      /\ Unexpired(a, expiry)
      /\ ~a.consumed
      /\ IF dir = "CANCEL"
         THEN CancelPermitted(r.status) /\ r.destination = dest
         ELSE ReleasePermitted(r.status)
      /\ r.terms = terms
      /\ a.digest = OperationDigest(op, dir, dest, terms, expiry, proof)
      /\ vault >= 1
      /\ vault' = vault - 1
      /\ approval' = [approval EXCEPT ![op][dir].consumed = TRUE]
      /\ receipt' = [receipt EXCEPT ![op].status =
                       IF dir = "CANCEL" THEN "CANCELLED" ELSE "RELEASED"]
      /\ UNCHANGED <<config, now>>

CancelConfidential(op, dest, terms, expiry, proof) ==
  MoveVaultTokens(op, "CANCEL", dest, terms, expiry, proof)

ReleaseConfidential(op, dest, terms, expiry, proof) ==
  MoveVaultTokens(op, "RELEASE", dest, terms, expiry, proof)

Tick == /\ now < MaxTime
        /\ now' = now + 1
        /\ UNCHANGED <<config, receipt, approval, vault>>

Next ==
  \/ \E attesters \in [Indices -> Keys] : Initialize(attesters)
  \/ \E op \in Operations, dest \in Accounts, terms \in Terms,
        expiry \in Times, proof \in Proofs :
       \/ LockConfidential(op, dest, terms, expiry, proof)
       \/ \E dir \in Directions, key \in Keys :
            ApproveOperation(op, dir, dest, terms, expiry, proof, key)
       \/ CancelConfidential(op, dest, terms, expiry, proof)
       \/ ReleaseConfidential(op, dest, terms, expiry, proof)
  \/ Tick

Spec == Init /\ [][Next]_vars

-----------------------------------------------------------------------------
(* Properties *)

Open(op) == receipt[op].status \in {"LOCKED", "MINT_AUTHORIZED"}

(* Every approval record is about its own receipt: it exists only once     *)
(* the operation is locked, names at least one signer, carries the         *)
(* deadline its digest commits to and the terms of the lock; a refund      *)
(* digest names the recorded destination and a mint digest the recorded    *)
(* deadline, whatever else has happened to the operation since.            *)
RecordsCoherent ==
  \A op \in Operations, d \in Directions :
    LET r == receipt[op]
        a == approval[op][d]
    IN  a # NoApproval
          => /\ r # NoReceipt
             /\ a.signers # {}
             /\ a.digest = OperationDigest(op, d, a.digest.destination, r.terms,
                                           a.expiry, a.digest.proof)
             /\ d = "CANCEL" => a.digest.destination = r.destination
             /\ d = "MINT" => a.expiry = r.expiry

(* The shared vault holds exactly the value of the operations that are     *)
(* neither cancelled nor released: no instruction sequence of one          *)
(* operation pays out of another one's lock (move_vault_tokens).           *)
VaultBacked == vault = Cardinality({op \in Operations : Open(op)})

(* Two mint signatures on record mean the lock can no longer be refunded.  *)
(* The coordinator mints on Canton after reading only the approval bitmap  *)
(* (workflow.rs approve_needed), so a cancelled or still cancellable       *)
(* receipt behind a mint quorum would leave the mint unbacked.             *)
MintQuorumExcludesCancel ==
  \A op \in Operations :
    Quorum(approval[op]["MINT"].signers)
      => receipt[op].status \in {"MINT_AUTHORIZED", "RELEASED"}

(* An operation's end is always explained by the records left behind: a    *)
(* terminal receipt has exactly the matching approval consumed, that       *)
(* approval carries two distinct attesters, a refund went to the           *)
(* destination the lock recorded, and a release followed a mint quorum     *)
(* bound to the lock's own deadline.                                       *)
TerminalIsApproved ==
  \A op \in Operations :
    LET r == receipt[op]
        a == approval[op]
    IN  /\ a["CANCEL"].consumed <=> r.status = "CANCELLED"
        /\ a["RELEASE"].consumed <=> r.status = "RELEASED"
        /\ ~a["MINT"].consumed
        /\ \A d \in Directions : a[d].consumed => Quorum(a[d].signers)
        /\ r.status = "CANCELLED" => a["CANCEL"].digest.destination = r.destination
        /\ r.status \in {"MINT_AUTHORIZED", "RELEASED"}
             => /\ Quorum(a["MINT"].signers)
                /\ a["MINT"].digest.expiry = r.expiry

(* Whenever an approval record changes, either its digest stays and its    *)
(* signers only grow, or it starts again from a single signer.  Hence a    *)
(* quorum is never put together from signatures on different digests,      *)
(* however often an expired approval is replaced (approve_operation).      *)
QuorumOnOneDigest ==
  [][\A op \in Operations, d \in Directions :
       LET old == approval[op][d]
           new == approval'[op][d]
       IN  new # old
             => \/ /\ old.signers # {} /\ new.digest = old.digest
                   /\ old.signers \subseteq new.signers
                \/ \E i \in Indices : new.signers = {i}]_vars

MintedInTime ==
  \A op \in Operations :
    receipt'[op].status = "MINT_AUTHORIZED" /\ receipt[op].status # "MINT_AUTHORIZED"
      => receipt[op].status = "LOCKED" /\ now < receipt[op].expiry

PaidInTime ==
  vault' < vault
    => \E op \in Operations, d \in {"CANCEL", "RELEASE"} :
         /\ approval'[op][d].consumed /\ ~approval[op][d].consumed
         /\ now < approval[op][d].expiry

(* Authority never outlives its deadline: a lock becomes mint-authorized   *)
(* only before the receipt's own expiry, and value leaves the vault only   *)
(* while the approval that is consumed by that step is unexpired.          *)
NoStaleAuthorization == [][MintedInTime /\ PaidInTime]_vars

KeepsReceipt(op) ==
  LET r == receipt[op]
  IN  /\ r # NoReceipt => receipt'[op] = [r EXCEPT !.status = receipt'[op].status]
      /\ r.status = "MINT_AUTHORIZED"
           => receipt'[op].status \in {"MINT_AUTHORIZED", "RELEASED"}
      /\ r.status \in {"CANCELLED", "RELEASED"} => receipt'[op] = r

(* A receipt is written once and closed once: its terms never change, a    *)
(* closed receipt stays as it is, and a mint-authorized one can only be    *)
(* released.                                                               *)
ReceiptFinal == [][\A op \in Operations : KeepsReceipt(op)]_vars
=============================================================================
