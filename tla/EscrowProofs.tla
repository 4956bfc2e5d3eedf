---------------------------- MODULE EscrowProofs ----------------------------
(***************************************************************************)
(* Proofs about the confidential escrow program for any finite set of      *)
(* operations, any keys, accounts, terms and proofs, and any clock bound.  *)
(***************************************************************************)
EXTENDS Escrow, FiniteSetTheorems, TLAPS

(* The actions of Next with their parameters named.                        *)
Step(op, dest, terms, expiry, proof) ==
  \/ LockConfidential(op, dest, terms, expiry, proof)
  \/ \E dir \in Directions, key \in Keys :
       ApproveOperation(op, dir, dest, terms, expiry, proof, key)
  \/ CancelConfidential(op, dest, terms, expiry, proof)
  \/ ReleaseConfidential(op, dest, terms, expiry, proof)

(* What approve_operation writes is an approval record with one more       *)
(* signer than it found, or with exactly one.                              *)
LEMMA SignedType ==
  ASSUME NEW a \in OperationApproval \cup {NoApproval}, NEW i \in Indices,
         NEW digest \in Digests
  PROVE  /\ Signed(a, i, digest) \in OperationApproval
         /\ i \in Signed(a, i, digest).signers
         /\ Signed(a, i, digest).digest = digest
         /\ Signed(a, i, digest).expiry = digest.expiry
         /\ ~Signed(a, i, digest).consumed
<1>1. a.signers \in SUBSET Indices
  BY DEF OperationApproval, NoApproval
<1>2. digest.expiry \in Times
  BY DEF Digests
<1> QED BY <1>1, <1>2 DEF Signed, OperationApproval

(* A digest built from typed fields is a digest.                           *)
LEMMA DigestType ==
  ASSUME NEW op \in Operations, NEW dir \in Directions, NEW dest \in Accounts,
         NEW terms \in Terms, NEW expiry \in Times, NEW proof \in Proofs
  PROVE  OperationDigest(op, dir, dest, terms, expiry, proof) \in Digests
BY DEF OperationDigest, Digests

(* lock_confidential writes a well-formed receipt.                         *)
LEMMA LockType ==
  ASSUME TypeOK, NEW op \in Operations, NEW dest \in Accounts, NEW terms \in Terms,
         NEW expiry \in Times, NEW proof \in Proofs,
         LockConfidential(op, dest, terms, expiry, proof)
  PROVE  TypeOK'
BY DEF TypeOK, LockConfidential, LockReceipt, Statuses

(* approve_operation writes well-formed records.                           *)
LEMMA ApproveType ==
  ASSUME TypeOK, NEW op \in Operations, NEW dir \in Directions, NEW dest \in Accounts,
         NEW terms \in Terms, NEW expiry \in Times, NEW proof \in Proofs, NEW key \in Keys,
         ApproveOperation(op, dir, dest, terms, expiry, proof, key)
  PROVE  TypeOK'
<1> DEFINE digest == OperationDigest(op, dir, dest, terms, expiry, proof)
           old    == approval[op][dir]
<1>1. PICK i \in Indices :
        /\ approval' = [approval EXCEPT ![op][dir] = Signed(old, i, digest)]
        /\ receipt' = receipt \/ receipt' = [receipt EXCEPT ![op].status = "MINT_AUTHORIZED"]
  BY DEF ApproveOperation, AttesterIndex
<1>2. Signed(old, i, digest) \in OperationApproval
  BY DigestType, SignedType DEF TypeOK
<1>3. approval' \in [Operations -> [Directions -> OperationApproval \cup {NoApproval}]]
  BY <1>1, <1>2 DEF TypeOK
<1>4. receipt[op] \in LockReceipt
  BY DEF TypeOK, ApproveOperation, ApprovalAcceptable
<1>5. receipt' \in [Operations -> LockReceipt \cup {NoReceipt}]
  BY <1>1, <1>4 DEF TypeOK, LockReceipt, Statuses
<1> QED BY <1>3, <1>5 DEF TypeOK, ApproveOperation

(* move_vault_tokens keeps the vault a natural number and the records well *)
(* formed.                                                                 *)
LEMMA MoveType ==
  ASSUME TypeOK, NEW op \in Operations, NEW dir \in {"CANCEL", "RELEASE"},
         NEW dest \in Accounts, NEW terms \in Terms, NEW expiry \in Times, NEW proof \in Proofs,
         MoveVaultTokens(op, dir, dest, terms, expiry, proof)
  PROVE  TypeOK'
<1>1. dir \in Directions
  BY DEF Directions
<1>2. approval[op][dir] \in OperationApproval
  BY <1>1 DEF TypeOK, MoveVaultTokens, Quorum, NoApproval
<1>3. [approval[op][dir] EXCEPT !.consumed = TRUE] \in OperationApproval
  BY <1>2 DEF OperationApproval
<1>4. approval' \in [Operations -> [Directions -> OperationApproval \cup {NoApproval}]]
  BY <1>1, <1>3 DEF TypeOK, MoveVaultTokens
<1>5. receipt[op] \in LockReceipt
  BY DEF TypeOK, MoveVaultTokens
<1>6. receipt' \in [Operations -> LockReceipt \cup {NoReceipt}]
  BY <1>5 DEF TypeOK, MoveVaultTokens, LockReceipt, Statuses
<1> QED BY <1>4, <1>6 DEF TypeOK, MoveVaultTokens

(* Type correctness of the program's accounts: no instruction writes a     *)
(* receipt, approval or balance outside its declared layout; the vault     *)
(* never goes below zero.                                                  *)
THEOREM TypeCorrect == Spec => []TypeOK
<1>1. Init => TypeOK
  BY EscrowAssumption DEF Init, TypeOK, Times
<1>2. TypeOK /\ [Next]_vars => TypeOK'
  <2> SUFFICES ASSUME TypeOK, [Next]_vars PROVE TypeOK'
    OBVIOUS
  <2>1. ASSUME NEW attesters \in [Indices -> Keys], Initialize(attesters) PROVE TypeOK'
    BY <2>1 DEF Initialize, TypeOK
  <2>2. ASSUME NEW op \in Operations, NEW dest \in Accounts, NEW terms \in Terms,
               NEW expiry \in Times, NEW proof \in Proofs,
               Step(op, dest, terms, expiry, proof)
        PROVE  TypeOK'
    BY <2>2, LockType, ApproveType, MoveType
       DEF Step, CancelConfidential, ReleaseConfidential
  <2>3. CASE Tick
    BY <2>3, EscrowAssumption DEF Tick, TypeOK, Times
  <2>4. CASE UNCHANGED vars
    BY <2>4 DEF vars, TypeOK
  <2> QED BY <2>1, <2>2, <2>3, <2>4 DEF Next, Step
<1> QED BY <1>1, <1>2, PTL DEF Spec

-----------------------------------------------------------------------------
(* The inductive invariant *)

IInv == /\ TypeOK
        /\ RecordsCoherent
        /\ MintQuorumExcludesCancel
        /\ TerminalIsApproved

(* A lock has no approval record yet, so nothing of the invariant moves.   *)
LEMMA LockInv ==
  ASSUME IInv, NEW op \in Operations, NEW dest \in Accounts, NEW terms \in Terms,
         NEW expiry \in Times, NEW proof \in Proofs,
         LockConfidential(op, dest, terms, expiry, proof)
  PROVE  IInv'
<1>1. TypeOK'
  BY LockType DEF IInv
<1>2. receipt[op] = NoReceipt /\ \A d \in Directions : approval[op][d] = NoApproval
  BY DEF LockConfidential, IInv, RecordsCoherent
<1>3. /\ receipt'[op].status = "LOCKED"
      /\ \A o \in Operations : o # op => receipt'[o] = receipt[o]
      /\ approval' = approval
  BY DEF LockConfidential, IInv, TypeOK
<1>4. RecordsCoherent'
  BY <1>2, <1>3 DEF IInv, RecordsCoherent
<1>5. MintQuorumExcludesCancel'
  BY <1>2, <1>3 DEF IInv, MintQuorumExcludesCancel, Quorum, NoApproval, Directions
<1>6. TerminalIsApproved'
  BY <1>2, <1>3 DEF IInv, TerminalIsApproved, NoApproval, Directions
<1> QED BY <1>1, <1>4, <1>5, <1>6 DEF IInv

(* approve_operation: the replaced or extended record is about its receipt *)
(* and completes a mint quorum only while the receipt is open.             *)
LEMMA ApproveInv ==
  ASSUME IInv, NEW op \in Operations, NEW dir \in Directions, NEW dest \in Accounts,
         NEW terms \in Terms, NEW expiry \in Times, NEW proof \in Proofs, NEW key \in Keys,
         ApproveOperation(op, dir, dest, terms, expiry, proof, key)
  PROVE  IInv'
<1> DEFINE digest == OperationDigest(op, dir, dest, terms, expiry, proof)
           old    == approval[op][dir]
<1>1. TypeOK'
  BY ApproveType DEF IInv
<1>2. PICK i \in Indices :
        LET new == Signed(old, i, digest)
        IN  /\ Replaceable(old) \/ (~old.consumed /\ old.digest = digest)
            /\ approval' = [approval EXCEPT ![op][dir] = new]
            /\ IF dir = "MINT" /\ Quorum(new.signers)
               THEN /\ receipt[op].status \in {"LOCKED", "MINT_AUTHORIZED"}
                    /\ receipt' = [receipt EXCEPT ![op].status = "MINT_AUTHORIZED"]
               ELSE receipt' = receipt
  BY DEF ApproveOperation, AttesterIndex
<1> DEFINE new == Signed(old, i, digest)
<1>3. /\ old \in OperationApproval \cup {NoApproval}
      /\ digest \in Digests
  BY DigestType DEF IInv, TypeOK
<1>4. /\ new \in OperationApproval
      /\ new.digest = digest /\ new.expiry = expiry
      /\ ~new.consumed /\ i \in new.signers
  <2>1. digest.expiry = expiry
    BY DEF OperationDigest
  <2>2. new \in OperationApproval
    BY <1>3, SignedType
  <2>3. /\ new.digest = digest /\ new.expiry = digest.expiry
        /\ ~new.consumed /\ i \in new.signers
    BY DEF Signed
  <2> QED BY <2>1, <2>2, <2>3
<1>5. /\ approval'[op][dir] = new
      /\ \A o \in Operations, d \in Directions :
           o # op \/ d # dir => approval'[o][d] = approval[o][d]
  BY <1>2 DEF IInv, TypeOK
<1>6. /\ receipt[op] \in LockReceipt
      /\ receipt[op].terms = terms
      /\ dir = "MINT" => expiry = receipt[op].expiry
      /\ dir = "CANCEL" => dest = receipt[op].destination
  BY DEF IInv, TypeOK, ApproveOperation, ApprovalAcceptable
<1>7. /\ \A o \in Operations : o # op => receipt'[o] = receipt[o]
      /\ receipt'[op] \in LockReceipt
      /\ receipt'[op].terms = receipt[op].terms
      /\ receipt'[op].expiry = receipt[op].expiry
      /\ receipt'[op].destination = receipt[op].destination
      /\ IF dir = "MINT" /\ Quorum(new.signers)
         THEN /\ receipt[op].status \in {"LOCKED", "MINT_AUTHORIZED"}
              /\ receipt'[op].status = "MINT_AUTHORIZED"
         ELSE receipt'[op].status = receipt[op].status
  BY <1>2, <1>6 DEF IInv, TypeOK, LockReceipt, Statuses
<1>8. ~old.consumed
  <2>1. old # NoApproval => old.signers # {}
    BY DEF IInv, RecordsCoherent
  <2> QED BY <2>1, <1>2, <1>3 DEF Replaceable, NoApproval
<1>9. RecordsCoherent'
  <2> SUFFICES ASSUME NEW o \in Operations, NEW d \in Directions,
                      approval'[o][d] # NoApproval
               PROVE  /\ receipt'[o] # NoReceipt
                      /\ approval'[o][d].signers # {}
                      /\ approval'[o][d].digest =
                           OperationDigest(o, d, approval'[o][d].digest.destination,
                                           receipt'[o].terms, approval'[o][d].expiry,
                                           approval'[o][d].digest.proof)
                      /\ d = "CANCEL" => approval'[o][d].digest.destination = receipt'[o].destination
                      /\ d = "MINT" => approval'[o][d].expiry = receipt'[o].expiry
    BY DEF RecordsCoherent
  <2>1. CASE o = op /\ d = dir
    BY <2>1, <1>4, <1>5, <1>6, <1>7 DEF OperationDigest, LockReceipt, NoReceipt, Statuses
  <2>2. CASE ~(o = op /\ d = dir)
    BY <2>2, <1>5, <1>6, <1>7 DEF IInv, RecordsCoherent, LockReceipt, NoReceipt, Statuses
  <2> QED BY <2>1, <2>2
<1>10. MintQuorumExcludesCancel'
  BY <1>5, <1>7 DEF IInv, MintQuorumExcludesCancel, Directions
<1>11. TerminalIsApproved'
  <2> SUFFICES ASSUME NEW o \in Operations
               PROVE  /\ approval'[o]["CANCEL"].consumed <=> receipt'[o].status = "CANCELLED"
                      /\ approval'[o]["RELEASE"].consumed <=> receipt'[o].status = "RELEASED"
                      /\ ~approval'[o]["MINT"].consumed
                      /\ \A d \in Directions :
                           approval'[o][d].consumed => Quorum(approval'[o][d].signers)
                      /\ receipt'[o].status = "CANCELLED"
                           => approval'[o]["CANCEL"].digest.destination = receipt'[o].destination
                      /\ receipt'[o].status \in {"MINT_AUTHORIZED", "RELEASED"}
                           => /\ Quorum(approval'[o]["MINT"].signers)
                              /\ approval'[o]["MINT"].digest.expiry = receipt'[o].expiry
    BY DEF TerminalIsApproved
  <2>1. CASE o # op
    BY <2>1, <1>5, <1>7 DEF IInv, TerminalIsApproved, Directions
  <2>2. CASE o = op
    <3>1. CASE dir = "MINT"
      \* A mint approval cannot be replaced: its deadline is the receipt's.
      <4>1. old # NoApproval => old.signers # {} /\ old.expiry = expiry
        BY <3>1, <1>6 DEF IInv, RecordsCoherent
      <4>2. now < expiry /\ now \in Int /\ expiry \in Int
        BY EscrowAssumption
        DEF ApproveOperation, ApprovalAcceptable, IInv, TypeOK, Times
      <4>3. old # NoApproval => ~Replaceable(old)
        BY <4>1, <4>2 DEF Replaceable
      <4>4. Quorum(old.signers) => Quorum(new.signers)
        BY <4>3 DEF Signed, Quorum, NoApproval
      <4> QED BY <4>4, <3>1, <2>2, <1>4, <1>5, <1>6, <1>7, <1>8
              DEF IInv, TerminalIsApproved, Directions, OperationDigest
    <3>2. CASE dir # "MINT"
      BY <3>2, <2>2, <1>4, <1>5, <1>6, <1>7, <1>8
      DEF IInv, TerminalIsApproved, Directions, OperationDigest
    <3> QED BY <3>1, <3>2
  <2> QED BY <2>1, <2>2
<1> QED BY <1>1, <1>9, <1>10, <1>11 DEF IInv

(* move_vault_tokens: the consumed approval explains the terminal status.  *)
LEMMA MoveInv ==
  ASSUME IInv, NEW op \in Operations, NEW dir \in {"CANCEL", "RELEASE"},
         NEW dest \in Accounts, NEW terms \in Terms, NEW expiry \in Times, NEW proof \in Proofs,
         MoveVaultTokens(op, dir, dest, terms, expiry, proof)
  PROVE  IInv'
<1> DEFINE old == approval[op][dir]
           new == approval'[op][dir]
<1>1. TypeOK' /\ dir \in Directions
  BY MoveType DEF IInv, Directions
<1>2. /\ receipt[op] \in LockReceipt
      /\ old \in OperationApproval
      /\ Quorum(old.signers)
      /\ ~old.consumed
      /\ old.digest.destination = dest
      /\ dir = "CANCEL" => receipt[op].status = "LOCKED" /\ receipt[op].destination = dest
      /\ dir = "RELEASE" => receipt[op].status = "MINT_AUTHORIZED"
  BY <1>1 DEF IInv, TypeOK, MoveVaultTokens, NoApproval, Quorum, CancelPermitted,
              ReleasePermitted, OperationDigest
<1>3. /\ new.consumed
      /\ new.signers = old.signers /\ new.digest = old.digest /\ new.expiry = old.expiry
      /\ \A o \in Operations, d \in Directions :
           o # op \/ d # dir => approval'[o][d] = approval[o][d]
  BY <1>1, <1>2 DEF IInv, TypeOK, MoveVaultTokens, OperationApproval
<1>4. /\ \A o \in Operations : o # op => receipt'[o] = receipt[o]
      /\ receipt'[op].terms = receipt[op].terms
      /\ receipt'[op].expiry = receipt[op].expiry
      /\ receipt'[op].destination = receipt[op].destination
      /\ receipt'[op].status = IF dir = "CANCEL" THEN "CANCELLED" ELSE "RELEASED"
  BY <1>2 DEF IInv, TypeOK, MoveVaultTokens, LockReceipt
<1>5. RecordsCoherent'
  <2> SUFFICES ASSUME NEW o \in Operations, NEW d \in Directions,
                      approval'[o][d] # NoApproval
               PROVE  /\ receipt'[o] # NoReceipt
                      /\ approval'[o][d].signers # {}
                      /\ approval'[o][d].digest =
                           OperationDigest(o, d, approval'[o][d].digest.destination,
                                           receipt'[o].terms, approval'[o][d].expiry,
                                           approval'[o][d].digest.proof)
                      /\ d = "CANCEL" => approval'[o][d].digest.destination = receipt'[o].destination
                      /\ d = "MINT" => approval'[o][d].expiry = receipt'[o].expiry
    BY DEF RecordsCoherent
  <2>1. CASE o = op /\ d = dir
    <3>1. old # NoApproval
      BY <1>2 DEF Quorum, NoApproval
    <3> QED BY <2>1, <3>1, <1>2, <1>3, <1>4 DEF IInv, RecordsCoherent, NoReceipt
  <2>2. CASE ~(o = op /\ d = dir)
    BY <2>2, <1>2, <1>3, <1>4 DEF IInv, RecordsCoherent, NoReceipt
  <2> QED BY <2>1, <2>2
<1>6. MintQuorumExcludesCancel'
  BY <1>2, <1>3, <1>4 DEF IInv, MintQuorumExcludesCancel, Directions
<1>7. TerminalIsApproved'
  <2> SUFFICES ASSUME NEW o \in Operations
               PROVE  /\ approval'[o]["CANCEL"].consumed <=> receipt'[o].status = "CANCELLED"
                      /\ approval'[o]["RELEASE"].consumed <=> receipt'[o].status = "RELEASED"
                      /\ ~approval'[o]["MINT"].consumed
                      /\ \A d \in Directions :
                           approval'[o][d].consumed => Quorum(approval'[o][d].signers)
                      /\ receipt'[o].status = "CANCELLED"
                           => approval'[o]["CANCEL"].digest.destination = receipt'[o].destination
                      /\ receipt'[o].status \in {"MINT_AUTHORIZED", "RELEASED"}
                           => /\ Quorum(approval'[o]["MINT"].signers)
                              /\ approval'[o]["MINT"].digest.expiry = receipt'[o].expiry
    BY DEF TerminalIsApproved
  <2>1. CASE o # op
    BY <2>1, <1>3, <1>4 DEF IInv, TerminalIsApproved, Directions
  <2>2. CASE o = op /\ dir = "CANCEL"
    BY <2>2, <1>2, <1>3, <1>4 DEF IInv, TerminalIsApproved, Directions
  <2>3. CASE o = op /\ dir = "RELEASE"
    BY <2>3, <1>2, <1>3, <1>4 DEF IInv, TerminalIsApproved, Directions
  <2> QED BY <2>1, <2>2, <2>3
<1> QED BY <1>1, <1>5, <1>6, <1>7 DEF IInv

(* Initialize, the clock and stuttering leave receipts and approvals.      *)
LEMMA IdleInv ==
  ASSUME IInv, UNCHANGED <<receipt, approval>>, TypeOK'
  PROVE  IInv'
BY DEF IInv, RecordsCoherent, MintQuorumExcludesCancel, TerminalIsApproved

(* Every instruction preserves the inductive invariant.                    *)
LEMMA NextInv == IInv /\ [Next]_vars => IInv'
<1> SUFFICES ASSUME IInv, [Next]_vars PROVE IInv'
  OBVIOUS
<1>1. ASSUME NEW attesters \in [Indices -> Keys], Initialize(attesters) PROVE IInv'
  BY <1>1, IdleInv DEF Initialize, TypeOK, IInv
<1>2. ASSUME NEW op \in Operations, NEW dest \in Accounts, NEW terms \in Terms,
             NEW expiry \in Times, NEW proof \in Proofs,
             Step(op, dest, terms, expiry, proof)
      PROVE  IInv'
  BY <1>2, LockInv, ApproveInv, MoveInv DEF Step, CancelConfidential, ReleaseConfidential
<1>3. CASE Tick
  BY <1>3, EscrowAssumption, IdleInv DEF Tick, TypeOK, Times, IInv
<1>4. CASE UNCHANGED vars
  BY <1>4, IdleInv DEF vars, TypeOK, IInv
<1> QED BY <1>1, <1>2, <1>3, <1>4 DEF Next, Step

(* The empty ledger satisfies the inductive invariant.                     *)
LEMMA InitInv == Init => IInv
<1> SUFFICES ASSUME Init PROVE IInv
  OBVIOUS
<1>1. TypeOK
  BY EscrowAssumption DEF Init, TypeOK, Times
<1>2. RecordsCoherent
  BY DEF Init, RecordsCoherent
<1>3. MintQuorumExcludesCancel
  BY DEF Init, MintQuorumExcludesCancel, Quorum, NoApproval, Directions
<1>4. TerminalIsApproved
  BY DEF Init, TerminalIsApproved, NoApproval, NoReceipt, Directions
<1> QED BY <1>1, <1>2, <1>3, <1>4 DEF IInv

(* The inductive invariant holds in every reachable state.                 *)
LEMMA EscrowInvariant == Spec => []IInv
BY InitInv, NextInv, PTL DEF Spec

(* Two mint signatures on record shut out a refund, for any number of      *)
(* operations, keys and deadlines: the coordinator mints on Canton after   *)
(* reading only the signer bitmap.                                         *)
THEOREM MintExcludesRefund == Spec => []MintQuorumExcludesCancel
<1>1. IInv => MintQuorumExcludesCancel
  BY DEF IInv
<1> QED BY <1>1, EscrowInvariant, PTL

(* A receipt that cancel_confidential or release_confidential closed is    *)
(* explained by one consumed quorum, to the destination it was paid to.    *)
THEOREM TerminalIsExplained == Spec => []TerminalIsApproved
<1>1. IInv => TerminalIsApproved
  BY DEF IInv
<1> QED BY <1>1, EscrowInvariant, PTL

(* Approval records stay about their own receipt although approve_operation *)
(* overwrites expired ones.                                                *)
THEOREM RecordsStayCoherent == Spec => []RecordsCoherent
<1>1. IInv => RecordsCoherent
  BY DEF IInv
<1> QED BY <1>1, EscrowInvariant, PTL

-----------------------------------------------------------------------------
(* The vault *)

OpenOps == {op \in Operations : Open(op)}

(* Only finitely many operations are open at a time.                       *)
LEMMA OpenFinite == IsFiniteSet(OpenOps) /\ IsFiniteSet(OpenOps')
<1>1. OpenOps \subseteq Operations /\ OpenOps' \subseteq Operations
  BY DEF OpenOps
<1> QED BY <1>1, EscrowAssumption, FS_Subset

(* Every instruction moves the vault with the set of open operations.      *)
LEMMA VaultStep == IInv /\ VaultBacked /\ [Next]_vars => VaultBacked'
<1> SUFFICES ASSUME IInv, VaultBacked, [Next]_vars PROVE vault' = Cardinality(OpenOps')
  BY DEF VaultBacked, OpenOps
<1>0. vault = Cardinality(OpenOps)
  BY DEF VaultBacked, OpenOps
<1>1. ASSUME NEW op \in Operations, NEW dest \in Accounts, NEW terms \in Terms,
             NEW expiry \in Times, NEW proof \in Proofs,
             LockConfidential(op, dest, terms, expiry, proof)
      PROVE  vault' = Cardinality(OpenOps')
  <2>1. OpenOps' = OpenOps \cup {op} /\ op \notin OpenOps
    BY <1>1 DEF LockConfidential, OpenOps, Open, NoReceipt, IInv, TypeOK
  <2> QED BY <2>1, <1>0, <1>1, OpenFinite, FS_AddElement DEF LockConfidential
<1>2. ASSUME NEW op \in Operations, NEW dir \in Directions, NEW dest \in Accounts,
             NEW terms \in Terms, NEW expiry \in Times, NEW proof \in Proofs, NEW key \in Keys,
             ApproveOperation(op, dir, dest, terms, expiry, proof, key)
      PROVE  vault' = Cardinality(OpenOps')
  <2>1. receipt[op] \in LockReceipt
    BY <1>2 DEF ApproveOperation, ApprovalAcceptable, IInv, TypeOK
  <2>2. \/ receipt' = receipt
        \/ /\ receipt[op].status \in {"LOCKED", "MINT_AUTHORIZED"}
           /\ receipt' = [receipt EXCEPT ![op].status = "MINT_AUTHORIZED"]
    BY <1>2 DEF ApproveOperation
  <2>3. OpenOps' = OpenOps
    BY <2>1, <2>2 DEF OpenOps, Open, IInv, TypeOK, LockReceipt
  <2> QED BY <2>3, <1>0, <1>2 DEF ApproveOperation
<1>3. ASSUME NEW op \in Operations, NEW dir \in {"CANCEL", "RELEASE"},
             NEW dest \in Accounts, NEW terms \in Terms, NEW expiry \in Times, NEW proof \in Proofs,
             MoveVaultTokens(op, dir, dest, terms, expiry, proof)
      PROVE  vault' = Cardinality(OpenOps')
  <2>1. receipt[op] \in LockReceipt /\ op \in OpenOps
    BY <1>3 DEF MoveVaultTokens, CancelPermitted, ReleasePermitted, OpenOps, Open, IInv, TypeOK
  <2>2. OpenOps' = OpenOps \ {op}
    BY <2>1, <1>3 DEF MoveVaultTokens, OpenOps, Open, IInv, TypeOK, LockReceipt
  <2>3. Cardinality(OpenOps') = Cardinality(OpenOps) - 1
    BY <2>1, <2>2, OpenFinite, FS_RemoveElement
  <2> QED BY <2>3, <1>0, <1>3 DEF MoveVaultTokens
<1>4. ASSUME NEW attesters \in [Indices -> Keys], Initialize(attesters)
      PROVE  vault' = Cardinality(OpenOps')
  BY <1>4, <1>0 DEF Initialize, OpenOps, Open
<1>5. CASE Tick \/ UNCHANGED vars
  BY <1>5, <1>0 DEF Tick, vars, OpenOps, Open
<1> QED BY <1>1, <1>2, <1>3, <1>4, <1>5
        DEF Next, CancelConfidential, ReleaseConfidential

(* The vault always holds exactly the value of the open operations, for    *)
(* any finite set of operations sharing it.                                *)
THEOREM VaultIsBacked == Spec => []VaultBacked
<1>1. Init => VaultBacked
  <2> SUFFICES ASSUME Init PROVE vault = Cardinality(OpenOps)
    BY DEF VaultBacked, OpenOps
  <2>1. OpenOps = {}
    BY DEF Init, OpenOps, Open, NoReceipt
  <2> QED BY <2>1, FS_EmptySet DEF Init
<1> QED BY <1>1, InitInv, NextInv, VaultStep, PTL DEF Spec

-----------------------------------------------------------------------------
(* Action properties *)

(* Signatures given for different digests never add up to a quorum.        *)
THEOREM SignaturesNeverMix == Spec => QuorumOnOneDigest
<1> DEFINE Grows(op, d) ==
      LET old == approval[op][d]
          new == approval'[op][d]
      IN  new # old
            => \/ /\ old.signers # {} /\ new.digest = old.digest
                  /\ old.signers \subseteq new.signers
               \/ \E i \in Indices : new.signers = {i}
<1>1. IInv /\ [Next]_vars => [\A op \in Operations, d \in Directions : Grows(op, d)]_vars
  <2> SUFFICES ASSUME IInv, Next, NEW op \in Operations, NEW d \in Directions,
                      approval'[op][d] # approval[op][d]
               PROVE  Grows(op, d)
    OBVIOUS
  <2>1. ASSUME NEW o \in Operations, NEW dir \in Directions, NEW dest \in Accounts,
               NEW terms \in Terms, NEW expiry \in Times, NEW proof \in Proofs, NEW key \in Keys,
               ApproveOperation(o, dir, dest, terms, expiry, proof, key)
        PROVE  Grows(op, d)
    <3> DEFINE digest == OperationDigest(o, dir, dest, terms, expiry, proof)
               old    == approval[o][dir]
    <3>1. PICK i \in Indices :
            /\ Replaceable(old) \/ (~Replaceable(old) /\ old.digest = digest)
            /\ approval' = [approval EXCEPT ![o][dir] = Signed(old, i, digest)]
      BY <2>1 DEF ApproveOperation, AttesterIndex
    <3>2. op = o /\ d = dir /\ approval'[o][dir] = Signed(old, i, digest)
      BY <3>1 DEF IInv, TypeOK
    <3>3. CASE Replaceable(old)
      BY <3>2, <3>3 DEF Signed
    <3>4. CASE ~Replaceable(old)
      <4>1. old.signers # {} /\ old.digest = digest
        BY <3>4, <3>1 DEF Replaceable
      <4> QED BY <4>1, <3>2, <3>4 DEF Signed
    <3> QED BY <3>3, <3>4
  <2>2. ASSUME NEW o \in Operations, NEW dir \in {"CANCEL", "RELEASE"},
               NEW dest \in Accounts, NEW terms \in Terms, NEW expiry \in Times, NEW proof \in Proofs,
               MoveVaultTokens(o, dir, dest, terms, expiry, proof)
        PROVE  Grows(op, d)
    <3>1. /\ op = o /\ d = dir
          /\ approval[op][d] \in OperationApproval /\ Quorum(approval[op][d].signers)
          /\ approval'[op][d] = [approval[op][d] EXCEPT !.consumed = TRUE]
      <4>1. dir \in Directions /\ approval[o][dir] \in OperationApproval \cup {NoApproval}
        BY DEF Directions, IInv, TypeOK
      <4>2. Quorum(approval[o][dir].signers)
        BY <2>2 DEF MoveVaultTokens
      <4>3. approval[o][dir] \in OperationApproval
        BY <4>1, <4>2 DEF Quorum, NoApproval
      <4>4. approval' = [approval EXCEPT ![o][dir].consumed = TRUE]
        BY <2>2 DEF MoveVaultTokens
      <4>5. op = o /\ d = dir
        BY <4>1, <4>4 DEF IInv, TypeOK
      <4> QED BY <4>1, <4>2, <4>3, <4>4, <4>5 DEF IInv, TypeOK
    <3> QED BY <3>1 DEF OperationApproval, Quorum
  <2> QED BY <2>1, <2>2 DEF Next, LockConfidential, Initialize, Tick,
                            CancelConfidential, ReleaseConfidential
<1> QED BY <1>1, InitInv, NextInv, PTL DEF Spec, QuorumOnOneDigest

(* approve_operation grants a mint only to a locked receipt and before the *)
(* receipt's own deadline.                                                 *)
LEMMA ApproveInTime ==
  ASSUME IInv, NEW op \in Operations, NEW dir \in Directions, NEW dest \in Accounts,
         NEW terms \in Terms, NEW expiry \in Times, NEW proof \in Proofs, NEW key \in Keys,
         ApproveOperation(op, dir, dest, terms, expiry, proof, key)
  PROVE  /\ vault' = vault
         /\ \A o \in Operations :
              receipt'[o] # receipt[o]
                => /\ receipt[o].status = "LOCKED" /\ now < receipt[o].expiry
                   /\ receipt'[o] = [receipt[o] EXCEPT !.status = "MINT_AUTHORIZED"]
<1>1. receipt[op] \in LockReceipt
  BY DEF ApproveOperation, ApprovalAcceptable, IInv, TypeOK
<1>2. \/ receipt' = receipt
      \/ /\ dir = "MINT"
         /\ receipt[op].status \in {"LOCKED", "MINT_AUTHORIZED"}
         /\ receipt' = [receipt EXCEPT ![op].status = "MINT_AUTHORIZED"]
  BY DEF ApproveOperation
<1>3. dir = "MINT" => now < receipt[op].expiry
  BY DEF ApproveOperation, ApprovalAcceptable
<1>4. vault' = vault
  BY DEF ApproveOperation
<1>5. ASSUME NEW o \in Operations, receipt'[o] # receipt[o]
      PROVE  /\ receipt[o].status = "LOCKED" /\ now < receipt[o].expiry
             /\ receipt'[o] = [receipt[o] EXCEPT !.status = "MINT_AUTHORIZED"]
  <2>1. /\ dir = "MINT"
        /\ receipt[op].status \in {"LOCKED", "MINT_AUTHORIZED"}
        /\ receipt' = [receipt EXCEPT ![op].status = "MINT_AUTHORIZED"]
    BY <1>2, <1>5
  <2>2. o = op /\ receipt'[op] = [receipt[op] EXCEPT !.status = "MINT_AUTHORIZED"]
    BY <2>1, <1>5 DEF IInv, TypeOK
  <2>3. receipt[op].status # "MINT_AUTHORIZED"
    BY <2>2, <1>5, <1>1 DEF LockReceipt
  <2> QED BY <2>1, <2>2, <2>3, <1>3
<1> QED BY <1>4, <1>5

(* move_vault_tokens consumes an unexpired approval and closes the receipt *)
(* of that approval, leaving its terms alone.                              *)
LEMMA MoveInTime ==
  ASSUME IInv, NEW op \in Operations, NEW dir \in {"CANCEL", "RELEASE"},
         NEW dest \in Accounts, NEW terms \in Terms, NEW expiry \in Times, NEW proof \in Proofs,
         MoveVaultTokens(op, dir, dest, terms, expiry, proof)
  PROVE  /\ approval'[op][dir].consumed /\ ~approval[op][dir].consumed
         /\ now < approval[op][dir].expiry
         /\ \A o \in Operations : o # op => receipt'[o] = receipt[o]
         /\ receipt'[op] = [receipt[op] EXCEPT !.status = receipt'[op].status]
         /\ \/ receipt[op].status = "LOCKED" /\ receipt'[op].status = "CANCELLED"
            \/ receipt[op].status = "MINT_AUTHORIZED" /\ receipt'[op].status = "RELEASED"
<1>1. dir \in Directions /\ receipt[op] \in LockReceipt
  BY DEF Directions, MoveVaultTokens, IInv, TypeOK
<1>2. approval[op][dir] \in OperationApproval
  BY <1>1 DEF MoveVaultTokens, Quorum, NoApproval, IInv, TypeOK
<1>3. approval'[op][dir] = [approval[op][dir] EXCEPT !.consumed = TRUE]
  BY <1>1 DEF MoveVaultTokens, IInv, TypeOK
<1>4. approval'[op][dir].consumed
  BY <1>2, <1>3 DEF OperationApproval
<1>5. ~approval[op][dir].consumed /\ now < approval[op][dir].expiry
  BY DEF MoveVaultTokens, Unexpired
<1>6. receipt' = [receipt EXCEPT ![op].status =
                    IF dir = "CANCEL" THEN "CANCELLED" ELSE "RELEASED"]
  BY DEF MoveVaultTokens
<1>7. \A o \in Operations : o # op => receipt'[o] = receipt[o]
  BY <1>6 DEF IInv, TypeOK
<1>8. receipt'[op] = [receipt[op] EXCEPT !.status =
                        IF dir = "CANCEL" THEN "CANCELLED" ELSE "RELEASED"]
  BY <1>6 DEF IInv, TypeOK
<1>9. receipt'[op].status = IF dir = "CANCEL" THEN "CANCELLED" ELSE "RELEASED"
  BY <1>8, <1>1 DEF LockReceipt
<1>10. IF dir = "CANCEL" THEN receipt[op].status = "LOCKED"
                         ELSE receipt[op].status = "MINT_AUTHORIZED"
  BY DEF MoveVaultTokens, CancelPermitted, ReleasePermitted
<1> QED BY <1>4, <1>5, <1>7, <1>8, <1>9, <1>10

(* The instructions that neither approve nor pay, and the clock.           *)
Quiet == \/ \E attesters \in [Indices -> Keys] : Initialize(attesters)
         \/ \E op \in Operations, dest \in Accounts, terms \in Terms,
               expiry \in Times, proof \in Proofs :
              LockConfidential(op, dest, terms, expiry, proof)
         \/ Tick

(* They only fill empty receipts and never take from the vault.            *)
LEMMA QuietSteps ==
  ASSUME IInv, Quiet
  PROVE  /\ ~(vault' < vault)
         /\ \A o \in Operations :
              receipt'[o] # receipt[o] => /\ receipt[o] = NoReceipt
                                          /\ receipt'[o].status = "LOCKED"
<1>1. ASSUME NEW op \in Operations, NEW dest \in Accounts, NEW terms \in Terms,
             NEW expiry \in Times, NEW proof \in Proofs,
             LockConfidential(op, dest, terms, expiry, proof)
      PROVE  /\ ~(vault' < vault)
             /\ \A o \in Operations :
                  receipt'[o] # receipt[o] => /\ receipt[o] = NoReceipt
                                              /\ receipt'[o].status = "LOCKED"
  BY <1>1 DEF LockConfidential, IInv, TypeOK
<1>2. CASE (\E attesters \in [Indices -> Keys] : Initialize(attesters)) \/ Tick
  BY <1>2 DEF Initialize, Tick, IInv, TypeOK
<1> QED BY <1>1, <1>2 DEF Quiet

(* No authority outlives its deadline, for any deadlines and any number of *)
(* replacements: see NoStaleAuthorization.                                 *)
THEOREM DeadlinesBind == Spec => NoStaleAuthorization
<1>1. IInv /\ [Next]_vars => [MintedInTime /\ PaidInTime]_vars
  <2> SUFFICES ASSUME IInv, Next PROVE MintedInTime /\ PaidInTime
    OBVIOUS
  <2>0. vault \in Int
    BY DEF IInv, TypeOK
  <2>1. ASSUME NEW op \in Operations, NEW dir \in Directions, NEW dest \in Accounts,
               NEW terms \in Terms, NEW expiry \in Times, NEW proof \in Proofs, NEW key \in Keys,
               ApproveOperation(op, dir, dest, terms, expiry, proof, key)
        PROVE  MintedInTime /\ PaidInTime
    <3>1. PaidInTime
      <4>1. vault' = vault
        BY <2>1 DEF ApproveOperation
      <4> QED BY <4>1, <2>0 DEF PaidInTime
    <3>2. MintedInTime
      BY <2>1, ApproveInTime DEF MintedInTime
    <3> QED BY <3>1, <3>2
  <2>2. ASSUME NEW op \in Operations, NEW dir \in {"CANCEL", "RELEASE"},
               NEW dest \in Accounts, NEW terms \in Terms, NEW expiry \in Times,
               NEW proof \in Proofs,
               MoveVaultTokens(op, dir, dest, terms, expiry, proof)
        PROVE  MintedInTime /\ PaidInTime
    <3>1. PaidInTime
      BY <2>2, MoveInTime DEF PaidInTime
    <3>2. MintedInTime
      BY <2>2, MoveInTime DEF MintedInTime
    <3> QED BY <3>1, <3>2
  <2>3. CASE Quiet
    <3>1. \A o \in Operations :
            receipt'[o] # receipt[o] => receipt'[o].status # "MINT_AUTHORIZED"
      BY <2>3, QuietSteps
    <3>2. ~(vault' < vault)
      BY <2>3, QuietSteps
    <3> QED BY <3>1, <3>2 DEF MintedInTime, PaidInTime
  <2> QED BY <2>1, <2>2, <2>3 DEF Next, Quiet, CancelConfidential, ReleaseConfidential
<1> QED BY <1>1, InitInv, NextInv, PTL DEF Spec, NoStaleAuthorization

(* A receipt's terms never change and a closed receipt stays closed: see   *)
(* ReceiptFinal.                                                           *)
THEOREM ReceiptIsFinal == Spec => ReceiptFinal
<1>1. IInv /\ [Next]_vars => [\A op \in Operations : KeepsReceipt(op)]_vars
  <2> SUFFICES ASSUME IInv, Next, NEW o \in Operations PROVE KeepsReceipt(o)
    OBVIOUS
  <2>0. receipt[o] = NoReceipt \/ receipt[o] \in LockReceipt
    BY DEF IInv, TypeOK
  <2>1. CASE receipt'[o] = receipt[o]
    BY <2>0, <2>1 DEF LockReceipt, NoReceipt, KeepsReceipt
  <2>2. CASE receipt'[o] # receipt[o]
    <3>1. ASSUME NEW op \in Operations, NEW dir \in Directions, NEW dest \in Accounts,
                 NEW terms \in Terms, NEW expiry \in Times, NEW proof \in Proofs,
                 NEW key \in Keys,
                 ApproveOperation(op, dir, dest, terms, expiry, proof, key)
          PROVE  KeepsReceipt(o)
      <4>1. /\ receipt[o].status = "LOCKED"
            /\ receipt'[o] = [receipt[o] EXCEPT !.status = "MINT_AUTHORIZED"]
        BY <2>2, <3>1, ApproveInTime
      <4> QED BY <4>1, <2>0 DEF LockReceipt, NoReceipt, KeepsReceipt
    <3>2. ASSUME NEW op \in Operations, NEW dir \in {"CANCEL", "RELEASE"},
                 NEW dest \in Accounts, NEW terms \in Terms, NEW expiry \in Times,
                 NEW proof \in Proofs,
                 MoveVaultTokens(op, dir, dest, terms, expiry, proof)
          PROVE  KeepsReceipt(o)
      BY <2>2, <3>2, MoveInTime DEF KeepsReceipt
    <3>3. CASE Quiet
      <4>1. receipt[o] = NoReceipt
        BY <2>2, <3>3, QuietSteps
      <4> QED BY <4>1 DEF NoReceipt, KeepsReceipt
    <3> QED BY <3>1, <3>2, <3>3 DEF Next, Quiet, CancelConfidential, ReleaseConfidential
  <2> QED BY <2>1, <2>2
<1> QED BY <1>1, InitInv, NextInv, PTL DEF Spec, ReceiptFinal
=============================================================================
