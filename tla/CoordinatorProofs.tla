------------------------- MODULE CoordinatorProofs -------------------------
(***************************************************************************)
(* Safety of one operation across the three ledgers, for any length of the *)
(* deadlines, any number of crashes, lost answers and party moves, and any *)
(* supply of proof commitments.                                            *)
(*                                                                         *)
(* The invariant has four parts.  LedgerInv orders what is on the ledgers: *)
(* each stage of the value rests on the one before.  Truthful says what a  *)
(* journal may claim.  ProcInv says what the process knows at each program *)
(* counter and of the transaction it waits for.  TxOK says why a           *)
(* transaction, awaited or forgotten, may land at any later time.          *)
(* Everything a process, a journal or a transaction relies on is a fact    *)
(* that no step takes back (Forward): that is why restarts are safe.       *)
(*                                                                         *)
(* The last section embeds the escrow: TInv has the types, and with them   *)
(* every step is one of Escrow, whose theorems then hold here as well.     *)
(***************************************************************************)
EXTENDS Coordinator, Sequences, FiniteSetTheorems, TLAPS

Fields == {"pc", "mode", "omit", "mem", "job", "tx", "wait"}
JournalFields == {"completed", "mintExpiry", "lockProof", "release"}
JobFields == {"dir", "dest", "expiry", "proof", "todo"}
ReceiptFields == {"status", "destination", "terms", "expiry", "lockProof"}
ApprovalFields == {"digest", "signers", "consumed", "expiry"}
CantonFields == {"mintAtts", "mint", "treasuryElig", "cashElig", "trade", "unbound",
                 "place", "phase", "treasuryAlloc", "paymentAlloc", "treasuryRec",
                 "paymentRec", "request", "redeemAtts", "redeemed"}

Minting == Status \in {"MINT_AUTHORIZED", "RELEASED"}
Final == zama.status \in {"Finalized", "Redeemed"}

-----------------------------------------------------------------------------
(* The invariant *)

(* The escrow as far as the coordinator relies on it.                      *)
EscrowInv ==
  /\ DOMAIN receipt = {Op} /\ DOMAIN approval = {Op}
  /\ DOMAIN approval[Op] = E!Directions
  /\ \/ receipt[Op] = E!NoReceipt
     \/ DOMAIN receipt[Op] = ReceiptFields /\ Status \in E!Statuses
  /\ \A d \in E!Directions :
       \/ approval[Op][d] = E!NoApproval
       \/ receipt[Op] # E!NoReceipt /\ DOMAIN approval[Op][d] = ApprovalFields
  /\ E!Quorum(approval[Op]["MINT"].signers) => Minting

ZamaInv ==
  /\ DOMAIN zama = {"status", "approved"} /\ zama.approved \in BOOLEAN
  /\ zama.status \in {"Empty", "Reserved", "Finalized", "Cancelled", "Redeemed"}
  /\ zama.approved => zama.status # "Empty"

(* The order of the operation's contracts on Canton.                       *)
CantonInv ==
  /\ DOMAIN canton = CantonFields
  /\ canton.mintAtts \in Nat /\ (canton.mintAtts # 0 => Minting)
  /\ canton.mint \in {"none", "held", "spent"}
  /\ canton.trade # "none" => Final
  /\ canton.place # "source" => canton.treasuryElig = 2 /\ canton.trade # "none"
  /\ canton.paymentAlloc => canton.mint = "spent"
  /\ canton.mint = "spent" => canton.place = "target" /\ canton.cashElig = 2
  /\ canton.trade = "settled" => canton.mint = "spent"
  /\ canton.paymentRec => canton.trade = "settled"
  /\ canton.redeemed => canton.paymentRec

LedgerInv == /\ EscrowInv /\ ZamaInv /\ CantonInv
             /\ CirculationBacked /\ ReleaseAfterBurn /\ ExposureCoversValue

(* What a completed step stands for.                                       *)
Truthful(c) ==
  /\ c \in 2..12 => zama.approved
  /\ c \in 3..12 => receipt[Op] # E!NoReceipt
  /\ c \in 4..12 => Minting
  /\ c \in 5..12 => Final
  /\ c \in 6..12 => canton.trade # "none"
  /\ c \in 7..12 => canton.place = "target"
  /\ c \in 8..12 => canton.trade \in {"settled", "ended"} /\ canton.mint = "spent"
  /\ c \in 9..12 => canton.redeemed
  /\ c \in 11..12 => Status = "RELEASED" /\ applied
  /\ c = 12 => zama.status = "Redeemed"
  /\ c = 13 => Status = "CANCELLED" /\ zama.status = "Cancelled"

JournalInv(j) ==
  DOMAIN j = JournalFields /\ j.completed \in 0..13 /\ Truthful(j.completed)

(* Why a transaction may land whenever it does; proof is the lock proof in *)
(* the journal.                                                            *)
TxOK(tx, proof) ==
  /\ tx.kind = "lock" => zama.approved
  /\ tx.kind = "approve" /\ tx.dir = "MINT"
       => receipt[Op] # E!NoReceipt /\ tx.proof = proof
  /\ tx.kind = "move" => \/ tx.dir = "CANCEL"
                         \/ tx.dir = "RELEASE" /\ canton.redeemed
  /\ tx.kind = "zama" =>
       /\ tx.call = "finalize" => canton.mint # "none"
       /\ tx.call = "cancel" => Status = "CANCELLED"
       /\ tx.call = "redeem" => Status = "RELEASED" /\ applied

(* What the process knows at each program counter.                         *)
Where(pc) ==
  /\ pc = "lock" => zama.approved
  /\ pc \in {"mint", "expire"} => receipt[Op] # E!NoReceipt
  /\ pc = "cantonMint" => Minting
  /\ pc = "finalize" => canton.mint # "none"
  /\ pc \in {"trade", "attestTreasury", "attestTreasuryBuyer", "attestCash",
               "attestCashBuyer", "propose", "bind"} => Final
  /\ pc = "reassign" => canton.trade # "none"
  /\ pc = "assign" => canton.place # "source"
  /\ pc \in {"assigned", "settle", "allocTreasury", "allocPayment", "dvp"} => canton.place = "target"
  /\ pc \in {"recordTreasury", "recordPayment"} => canton.trade = "settled"
  /\ pc = "redeem" => canton.trade \in {"settled", "ended"} /\ canton.mint = "spent"
  /\ pc \in {"release", "releaseApprove", "releaseMove", "apply"} => canton.redeemed
  /\ pc \in {"applied", "zamaRedeem"} => Status = "RELEASED" /\ applied
  /\ pc = "zamaCancel" => Status = "CANCELLED"
  /\ pc = "record" => zama.status = "Redeemed"

(* The approval job it works on.                                           *)
JobInv(p) ==
  /\ p.pc = "releaseMove" => p.job.dir = "RELEASE"
  /\ p.pc = "cancelMove" => p.job.dir = "CANCEL"
  /\ p.pc = "approving" =>
       /\ DOMAIN p.job = JobFields
       /\ p.job.dir = "MINT" => receipt[Op] # E!NoReceipt /\ p.job.proof = p.mem.lockProof
       /\ p.job.dir = "RELEASE" => canton.redeemed

(* The transaction it waits for, and what holds once that has landed.      *)
WaitInv(p) ==
  /\ p.wait = "pending" =>
       /\ TxOK(p.tx, p.mem.lockProof)
       /\ p.pc = "lock" => p.tx.kind = "lock"
       /\ p.pc = "finalize" => p.tx = ZamaTx("finalize")
       /\ p.pc = "cancelMove" => p.tx.kind = "move" /\ p.tx.dir = "CANCEL"
       /\ p.pc = "zamaRedeem" => p.tx = ZamaTx("redeem")
       /\ p.pc = "zamaCancel" => p.tx = ZamaTx("cancel")
  /\ p.wait = "ok" =>
       /\ p.pc = "lock" => receipt[Op] # E!NoReceipt
       /\ p.pc = "finalize" => Final
       /\ p.pc = "cancelMove" => Status = "CANCELLED"
       /\ p.pc = "zamaRedeem" => zama.status = "Redeemed"
       /\ p.pc = "zamaCancel" => zama.status = "Cancelled"

ProcInv(p, proof) ==
  /\ DOMAIN p = Fields
  /\ JournalInv(p.mem) /\ p.mem.lockProof = proof
  /\ p.mem.completed = 13 => p.pc \in {"cancel", "zamaCancel", "record"}
  /\ Where(p.pc) /\ JobInv(p) /\ WaitInv(p)

CInv == /\ LedgerInv /\ MintApprovalResumable
        /\ JournalInv(journal)
        /\ Running => ProcInv(proc, journal.lockProof)
        /\ \A tx \in stray : TxOK(tx, journal.lockProof)

(* Nothing a process, a journal or a transaction relies on is taken back.  *)
CantonForward ==
  /\ canton.mint # "none" => canton'.mint # "none"
  /\ canton.mint = "spent" => canton'.mint = "spent"
  /\ canton.trade # "none" => canton'.trade # "none"
  /\ \A s \in {"settled", "ended"} : canton.trade = s => canton'.trade = s
  /\ canton.place # "source" => canton'.place # "source"
  /\ canton.place = "target" => canton'.place = "target"
  /\ canton.redeemed => canton'.redeemed

Forward ==
  /\ zama.approved => zama'.approved
  /\ Final => Final'
  /\ \A s \in {"Redeemed", "Cancelled"} : zama.status = s => zama'.status = s
  /\ receipt[Op] # E!NoReceipt => receipt'[Op] # E!NoReceipt
  /\ Minting => Minting'
  /\ \A s \in {"RELEASED", "CANCELLED"} : Status = s => Status' = s
  /\ applied => applied'
  /\ CantonForward

-----------------------------------------------------------------------------
(* What stays, and what follows from what *)

(* A claim of the journal, once true, stays true (journal.rs completed).   *)
LEMMA TruthStays ==
  ASSUME Forward, NEW c, Truthful(c) PROVE Truthful(c)'
BY DEF Forward, CantonForward, Truthful

(* A transaction that may land now may land later (wait_confirmed, late).  *)
LEMMA TxStays ==
  ASSUME Forward, NEW tx, NEW proof, TxOK(tx, proof) PROVE TxOK(tx, proof)'
BY DEF Forward, CantonForward, TxOK

(* It may land even when a later lock attempt has replaced the proof in    *)
(* the journal meanwhile, because no receipt existed then (lock_once).     *)
LEMMA StrayStays ==
  ASSUME Forward, NEW tx, NEW old, NEW new, TxOK(tx, old),
         new = old \/ receipt[Op] = E!NoReceipt
  PROVE  TxOK(tx, new)'
BY DEF Forward, CantonForward, TxOK

(* What the process knows at a program counter stays true.                 *)
LEMMA WhereStays ==
  ASSUME Forward, NEW pc, Where(pc) PROVE Where(pc)'
BY DEF Forward, CantonForward, Where

(* A process that does nothing loses nothing of what it knows.             *)
LEMMA ProcStays ==
  ASSUME Forward, NEW p, NEW proof, ProcInv(p, proof) PROVE ProcInv(p, proof)'
<1>1. JournalInv(p.mem)'
  BY TruthStays DEF ProcInv, JournalInv
<1>2. Where(p.pc)'
  BY WhereStays DEF ProcInv
<1>3. JobInv(p)'
  BY DEF ProcInv, JobInv, Forward, CantonForward
<1>4. WaitInv(p)'
  BY TxStays DEF ProcInv, WaitInv, Forward, CantonForward
<1> QED BY <1>1, <1>2, <1>3, <1>4 DEF ProcInv

(* A ledger state is left in order and nothing is taken back; approvals    *)
(* and stray transactions are as they were.                                *)
LedgerStep == LedgerInv' /\ Forward /\ approval' = approval /\ stray' = stray

(* A step that touches no ledger is such a step.                           *)
LEMMA QuietStep ==
  ASSUME CInv, UNCHANGED <<ledgers, environment>> PROVE LedgerStep
<1> USE DEF ledgers, escrow, environment
<1>1. LedgerInv'
  <2>1. EscrowInv' /\ ZamaInv'
    BY DEF CInv, LedgerInv, EscrowInv, ZamaInv, Minting, Status
  <2>2. CantonInv'
    BY DEF CInv, LedgerInv, CantonInv, Minting, Final, Status
  <2>3. CirculationBacked' /\ ReleaseAfterBurn' /\ ExposureCoversValue'
    BY DEF CInv, LedgerInv, CirculationBacked, ReleaseAfterBurn, ExposureCoversValue, Status
  <2> QED BY <2>1, <2>2, <2>3 DEF LedgerInv
<1>2. Forward
  BY DEF Forward, CantonForward, Minting, Final, Status
<1> QED BY <1>1, <1>2 DEF LedgerStep

(* The stages rest on each other: a redeemed payment was traded, a traded  *)
(* one minted, a minted one locked, a locked one reserved (run_full).      *)
LEMMA StageOrder ==
  ASSUME LedgerInv
  PROVE  /\ canton.redeemed => canton.paymentRec /\ canton.trade = "settled"
         /\ canton.trade = "settled" => canton.mint = "spent"
         /\ canton.mint = "spent" => canton.place = "target"
         /\ canton.place # "source" => canton.trade # "none"
         /\ canton.trade # "none" => Final
         /\ Final => canton.mint # "none"
         /\ canton.mint # "none" => Minting
         /\ Minting => receipt[Op] # E!NoReceipt
         /\ receipt[Op] # E!NoReceipt => zama.approved
         /\ Status = "RELEASED" => canton.redeemed
         /\ Status = "CANCELLED" => ~Minting /\ receipt[Op] # E!NoReceipt
BY DEF LedgerInv, CantonInv, CirculationBacked, ReleaseAfterBurn, ExposureCoversValue,
       Minting, Final, Status, E!NoReceipt

(* The position of each step in the journal's order (journal.rs Step).     *)
LEMMA RankValues ==
  /\ Rank("Accounts") = 1 /\ Rank("Reserved") = 2 /\ Rank("Locked") = 3
  /\ Rank("MintApproved") = 4 /\ Rank("CantonMinted") = 5 /\ Rank("TradePrepared") = 6
  /\ Rank("Reassigned") = 7 /\ Rank("Settled") = 8 /\ Rank("Redeemed") = 9
  /\ Rank("ReleaseApproved") = 10 /\ Rank("Released") = 11 /\ Rank("ZamaRedeemed") = 12
  /\ Rank("Cancelled") = 13
<1>1. \A n \in DOMAIN Step, m \in DOMAIN Step : Step[n] = Step[m] => n = m
  BY DEF Step
<1>2. \A n \in DOMAIN Step : Rank(Step[n]) = n
  BY <1>1 DEF Rank
<1>3. DOMAIN Step = 1..13
  BY DEF Step
<1>4. /\ Step[1] = "Accounts" /\ Step[2] = "Reserved" /\ Step[3] = "Locked"
      /\ Step[4] = "MintApproved" /\ Step[5] = "CantonMinted" /\ Step[6] = "TradePrepared"
      /\ Step[7] = "Reassigned" /\ Step[8] = "Settled" /\ Step[9] = "Redeemed"
      /\ Step[10] = "ReleaseApproved" /\ Step[11] = "Released"
      /\ Step[12] = "ZamaRedeemed" /\ Step[13] = "Cancelled"
  BY DEF Step
<1> QED BY <1>2, <1>3, <1>4

-----------------------------------------------------------------------------
(* How the process moves *)

(* Goto changes the program counter and the journal copy and ends waiting. *)
LEMMA GotoFields ==
  ASSUME DOMAIN proc = Fields, NEW pc, NEW mem
  PROVE  LET r == Goto(pc, mem)
         IN  /\ DOMAIN r = Fields
             /\ r.pc = pc /\ r.mem = mem /\ r.job = proc.job /\ r.wait = "none"
BY DEF Goto, Fields

(* Goto into an approval loop also replaces the job.                       *)
LEMMA JobFieldsSet ==
  ASSUME DOMAIN proc = Fields, NEW pc, NEW mem, NEW job
  PROVE  LET r == [Goto(pc, mem) EXCEPT !.job = job]
         IN  /\ DOMAIN r = Fields
             /\ r.pc = pc /\ r.mem = mem /\ r.job = job /\ r.wait = "none"
BY DEF Goto, Fields

(* Sending keeps the program counter and waits for the transaction.        *)
LEMMA SendFields ==
  ASSUME DOMAIN proc = Fields, NEW tx, NEW mem, Send(tx, mem)
  PROVE  /\ DOMAIN proc' = Fields
         /\ proc'.pc = proc.pc /\ proc'.mem = mem /\ proc'.job = proc.job
         /\ proc'.tx = tx /\ proc'.wait = "pending"
BY DEF Send, Fields

(* Restarting from the file: whatever a ledger step does, the next run     *)
(* finds a truthful journal and usable stray transactions.  The lock proof *)
(* in the file may only be replaced while no receipt exists.               *)
LEMMA StepInv ==
  ASSUME CInv, LedgerStep,
         JournalInv(journal)',
         journal'.lockProof = journal.lockProof \/ receipt[Op] = E!NoReceipt,
         (Running => ProcInv(proc, journal.lockProof))'
  PROVE  CInv'
<1>1. MintApprovalResumable'
  BY DEF CInv, LedgerInv, EscrowInv, LedgerStep, MintApprovalResumable, E!Directions
<1>2. (\A tx \in stray : TxOK(tx, journal.lockProof))'
  BY StrayStays DEF CInv, LedgerStep
<1> QED BY <1>1, <1>2 DEF CInv, LedgerStep

(* An error return leaves the file and drops the process (`Err` of run_full). *)
LEMMA ExitInv ==
  ASSUME CInv, LedgerStep, Exit PROVE CInv'
<1>1. JournalInv(journal)'
  BY TruthStays DEF CInv, JournalInv, LedgerStep, Exit
<1> QED BY <1>1, StepInv DEF Exit, Running

(* Program counters a process reaches without an approval job.             *)
Plain(pc) == pc \notin {"approving", "releaseMove", "cancelMove"}

(* The process moves on with a journal copy mem that agrees with the file. *)
LEMMA GotoInv ==
  ASSUME CInv, Running, LedgerStep, NEW pc, NEW mem,
         proc' = Goto(pc, mem),
         Where(pc)', Plain(pc) \/ JobInv(proc)',
         JournalInv(mem)', mem.completed = 13 => pc \in {"cancel", "zamaCancel", "record"},
         mem.lockProof = proc.mem.lockProof,
         journal' \in {journal, proc.mem, mem}
  PROVE  CInv'
<1>1. ProcInv(proc, journal.lockProof)
  BY DEF CInv
<1>2. JournalInv(journal)'
  BY <1>1, TruthStays DEF CInv, ProcInv, JournalInv, LedgerStep
<1>3. journal'.lockProof = journal.lockProof /\ mem.lockProof = journal.lockProof
  BY <1>1 DEF ProcInv
<1>4. /\ DOMAIN proc' = Fields
      /\ proc'.pc = pc /\ proc'.mem = mem /\ proc'.wait = "none"
  BY <1>1, GotoFields DEF ProcInv
<1>5. JobInv(proc)'
  BY <1>4 DEF JobInv, Plain
<1>6. WaitInv(proc)'
  BY <1>4 DEF WaitInv
<1>7. ProcInv(proc, journal.lockProof)'
  BY <1>3, <1>4, <1>5, <1>6 DEF ProcInv
<1> QED BY <1>2, <1>3, <1>7, StepInv

(* A process that is where mem.completed cannot be Cancelled moves on      *)
(* without touching its copy of the journal.                               *)
LEMMA JumpInv ==
  ASSUME CInv, Running, LedgerStep, NEW pc,
         Jump(pc), Where(pc)', Plain(pc) \/ JobInv(proc)',
         proc.mem.completed # 13 \/ pc \in {"cancel", "zamaCancel", "record"}
  PROVE  CInv'
<1>1. JournalInv(proc.mem)
  BY DEF CInv, ProcInv
<1>2. JournalInv(proc.mem) => /\ DOMAIN proc.mem = JournalFields
                              /\ proc.mem.completed \in 0..13
                              /\ Truthful(proc.mem.completed)
  BY DEF JournalInv
<1>3. \A mem : mem = proc.mem => JournalInv(mem)'
  BY <1>1, TruthStays DEF JournalInv, LedgerStep
<1> QED BY <1>3, GotoInv DEF Jump

(* halt records a step whose meaning the ledgers already bear out.         *)
LEMMA HaltInv ==
  ASSUME CInv, Running, LedgerStep, NEW step, NEW pc, NEW base,
         base \in {journal, proc.mem},
         Halt(step, pc, base), Where(pc)', Plain(pc) \/ JobInv(proc)',
         Rank(step) \in 1..12, Truthful(Rank(step))',
         proc.mem.completed # 13
  PROVE  CInv'
<1> DEFINE noted == [proc.mem EXCEPT !.completed = Rank(step)]
<1>1. ProcInv(proc, journal.lockProof)
  BY DEF CInv
<1>2. \A mem : mem = proc.mem => JournalInv(mem)'
  BY <1>1, TruthStays DEF JournalInv, LedgerStep, ProcInv
<1>3. /\ DOMAIN noted = JournalFields /\ noted.completed = Rank(step)
      /\ noted.lockProof = proc.mem.lockProof
  BY <1>1 DEF ProcInv, JournalInv, JournalFields
<1>4. \A mem : mem = noted => JournalInv(mem)'
  BY <1>3 DEF JournalInv
<1>5. CASE Reached(step)
  BY <1>2, <1>5, GotoInv DEF Halt
<1>6. CASE ~Reached(step)
  <2>1. proc' = Goto(pc, noted) /\ journal' \in {journal, proc.mem, noted}
    BY <1>6 DEF Halt
  <2>2. noted.completed # 13
    BY <1>3
  <2> HIDE DEF noted
  <2> QED BY <1>3, <1>4, <2>1, <2>2, GotoInv
<1> QED BY <1>5, <1>6

(* The last halt of a workflow.                                            *)
LEMMA FinishInv ==
  ASSUME CInv, Running, LedgerStep, NEW step, NEW base,
         base \in {journal, proc.mem},
         Finish(step, base), Rank(step) \in 1..13, Truthful(Rank(step))'
  PROVE  CInv'
<1> DEFINE noted == [proc.mem EXCEPT !.completed = Rank(step)]
<1>1. ProcInv(proc, journal.lockProof) /\ JournalInv(journal)
  BY DEF CInv
<1>2. \A j : j \in {journal, proc.mem} => JournalInv(j)' /\ j.lockProof = journal.lockProof
  BY <1>1, TruthStays DEF JournalInv, LedgerStep, ProcInv
<1>3. /\ DOMAIN noted = JournalFields /\ noted.completed = Rank(step)
      /\ noted.lockProof = journal.lockProof
  BY <1>1 DEF ProcInv, JournalInv, JournalFields
<1>4. \A j : j = noted => JournalInv(j)'
  BY <1>3 DEF JournalInv
<1>5. JournalInv(journal)' /\ journal'.lockProof = journal.lockProof
  BY <1>2, <1>3, <1>4 DEF Finish
<1> QED BY <1>5, StepInv DEF Finish, Running

(* A transaction is handed over that may land at any later time.           *)
LEMMA SendInv ==
  ASSUME CInv, Running, UNCHANGED <<ledgers, environment>>, NEW tx,
         Send(tx, proc.mem), TxOK(tx, journal.lockProof),
         proc.pc = "lock" => tx.kind = "lock",
         proc.pc = "finalize" => tx = ZamaTx("finalize"),
         proc.pc = "cancelMove" => tx.kind = "move" /\ tx.dir = "CANCEL",
         proc.pc = "zamaRedeem" => tx = ZamaTx("redeem"),
         proc.pc = "zamaCancel" => tx = ZamaTx("cancel")
  PROVE  CInv'
<1>1. ProcInv(proc, journal.lockProof) /\ LedgerStep /\ Forward
  BY QuietStep DEF CInv, LedgerStep
<1>2. journal' = journal
  BY DEF Send
<1>3. /\ DOMAIN proc' = Fields
      /\ proc'.pc = proc.pc /\ proc'.mem = proc.mem /\ proc'.job = proc.job
      /\ proc'.tx = tx /\ proc'.wait = "pending"
  BY <1>1, SendFields DEF ProcInv
<1>4. JournalInv(journal)' /\ JournalInv(proc.mem)' /\ Where(proc.pc)'
  BY <1>1, <1>2, <1>3, TruthStays, WhereStays DEF CInv, ProcInv, JournalInv
<1>5. JobInv(proc)'
  BY <1>1, <1>3 DEF ProcInv, JobInv, Forward, CantonForward
<1>6. TxOK(tx, journal.lockProof)'
  BY <1>1, <1>2, TxStays
<1>7. WaitInv(proc)'
  BY <1>1, <1>2, <1>3, <1>6 DEF ProcInv, WaitInv
<1>8. ProcInv(proc, journal.lockProof)'
  BY <1>1, <1>2, <1>3, <1>4, <1>5, <1>7 DEF ProcInv
<1> QED BY <1>1, <1>2, <1>4, <1>8, StepInv

(* approve_needed up to its loop: a mint job signs the journalled proof of *)
(* an existing lock, a release job exists after the redemption only.       *)
LEMMA BeginInv ==
  ASSUME CInv, Running, UNCHANGED <<ledgers, environment>>, NEW job, NEW refused,
         BeginApproval(job, refused), refused \in {"idle", "cancel"},
         job.dir = "MINT" => receipt[Op] # E!NoReceipt /\ job.proof = proc.mem.lockProof,
         job.dir = "RELEASE" => canton.redeemed,
         proc.mem.completed # 13
  PROVE  CInv'
<1>1. ProcInv(proc, journal.lockProof) /\ LedgerStep /\ Forward
  BY QuietStep DEF CInv, LedgerStep
<1>2. CASE proc' = Idle
  BY <1>1, <1>2, ExitInv DEF BeginApproval, Exit
<1>3. CASE proc' = Goto("cancel", proc.mem)
  <2>1. Jump("cancel") /\ Where("cancel")' /\ Plain("cancel")
    BY <1>3 DEF BeginApproval, Jump, Where, Plain
  <2> QED BY <1>1, <2>1, JumpInv
<1>4. ASSUME NEW new, proc' = [Goto("approving", proc.mem) EXCEPT !.job = new],
             DOMAIN new = JobFields, new.dir = job.dir, new.proof = job.proof
      PROVE  CInv'
  <2>1. /\ DOMAIN proc' = Fields /\ proc'.pc = "approving" /\ proc'.mem = proc.mem
        /\ proc'.job = new /\ proc'.wait = "none" /\ journal' = journal
    BY <1>1, <1>4, JobFieldsSet DEF ProcInv, BeginApproval
  <2>2. JournalInv(journal)' /\ JournalInv(proc.mem)'
    BY <1>1, <2>1, TruthStays DEF CInv, ProcInv, JournalInv
  <2>3. Where(proc.pc)' /\ WaitInv(proc)'
    BY <2>1 DEF Where, WaitInv
  <2>4. JobInv(proc)'
    BY <1>1, <1>4, <2>1 DEF JobInv, Forward, CantonForward
  <2>5. ProcInv(proc, journal.lockProof)'
    BY <1>1, <2>1, <2>2, <2>3, <2>4 DEF ProcInv
  <2> QED BY <1>1, <2>1, <2>2, <2>5, StepInv
<1> DEFINE new(n) == [dir |-> job.dir, dest |-> job.dest, expiry |-> job.expiry,
                      proof |-> job.proof, todo |-> n]
<1>5. \A n : DOMAIN new(n) = JobFields /\ new(n).dir = job.dir /\ new(n).proof = job.proof
  BY DEF JobFields
<1> QED BY <1>2, <1>3, <1>4, <1>5 DEF BeginApproval

-----------------------------------------------------------------------------
(* Reservation, lock and approvals *)

(* Nothing the process has noted is lost when it is started again.         *)
LEMMA StartInv ==
  ASSUME CInv, NEW mode, NEW omit, Start(mode, omit) PROVE CInv'
<1> DEFINE opened == [journal EXCEPT !.mintExpiry = IF @ = 0 THEN now + Window ELSE @]
           marked == [opened EXCEPT !.completed = IF @ = 0 THEN 1 ELSE @]
<1>1. LedgerStep /\ Forward /\ JournalInv(journal)
  BY QuietStep DEF Start, CInv, LedgerStep
<1>2. /\ DOMAIN opened = JournalFields /\ opened.completed = journal.completed
      /\ opened.lockProof = journal.lockProof
  BY <1>1 DEF JournalInv, JournalFields
<1>3. /\ DOMAIN marked = JournalFields /\ marked.lockProof = journal.lockProof
      /\ marked.completed = IF journal.completed = 0 THEN 1 ELSE journal.completed
  BY <1>2 DEF JournalFields
<1> HIDE DEF marked, opened
<1>4. Truthful(1)
  BY DEF Truthful
<1>5. \A j : j \in {journal, opened, marked} => JournalInv(j)' /\ j.lockProof = journal.lockProof
  BY <1>1, <1>2, <1>3, <1>4, TruthStays DEF JournalInv
<1>6. /\ DOMAIN proc' = Fields /\ proc'.wait = "none"
      /\ proc'.pc = IF TryCompletedResume THEN "record"
                    ELSE IF mode = "cancel" \/ journal.completed = Rank("Cancelled")
                    THEN "cancel" ELSE "reserve"
      /\ proc'.mem = IF TryCompletedResume THEN journal ELSE marked
      /\ journal' \in {journal, opened, marked}
  BY DEF Start, Fields, opened, marked
<1>7. Where(proc.pc)' /\ JobInv(proc)' /\ WaitInv(proc)'
  BY <1>1, <1>6 DEF Where, JobInv, WaitInv, TryCompletedResume, Forward
<1>8. proc'.mem.completed = 13 => proc'.pc \in {"cancel", "record"}
  BY <1>3, <1>6, RankValues
<1>9. JournalInv(journal)' /\ JournalInv(proc.mem)' /\ proc'.mem.lockProof = journal'.lockProof
  BY <1>5, <1>6
<1>10. journal'.lockProof = journal.lockProof
  BY <1>5, <1>6
<1>11. ProcInv(proc, journal.lockProof)'
  BY <1>6, <1>7, <1>8, <1>9 DEF ProcInv
<1> QED BY <1>1, <1>9, <1>10, <1>11, StepInv

(* What each step of the journal stands for, as the code checks it.        *)
Claims ==
  /\ zama.approved => Truthful(2)
  /\ receipt[Op] # E!NoReceipt => Truthful(3)
  /\ Minting => Truthful(4)
  /\ Final => Truthful(5)
  /\ canton.trade # "none" => Truthful(6)
  /\ canton.place = "target" => Truthful(7)
  /\ canton.trade \in {"settled", "ended"} /\ canton.mint = "spent" => Truthful(8)
  /\ canton.redeemed => Truthful(9) /\ Truthful(10)
  /\ Status = "RELEASED" /\ applied => Truthful(11)
  /\ zama.status = "Redeemed" => Truthful(12)
  /\ Status = "CANCELLED" /\ zama.status = "Cancelled" => Truthful(13)

(* One ledger fact is enough for every claim of a step, because the stages *)
(* rest on each other.                                                     *)
LEMMA ClaimsHold == LedgerInv => Claims
<1> SUFFICES ASSUME LedgerInv PROVE Claims
  OBVIOUS
<1>1. zama.status = "Redeemed" => Status = "RELEASED" /\ applied /\ Final
  BY DEF LedgerInv, ExposureCoversValue, Final
<1> QED BY <1>1, StageOrder DEF Truthful, Claims

(* The same after a step.                                                  *)
LEMMA ClaimsHoldNext == LedgerInv' => Claims'
BY ClaimsHold, PTL
(* reserve_once: the lock is approached with an approved reservation only. *)
LEMMA ReserveInv ==
  ASSUME CInv, Reserve PROVE CInv'
<1>1. /\ Running /\ ProcInv(proc, journal.lockProof) /\ proc.pc = "reserve"
      /\ proc.mem.completed # 13
  BY DEF CInv, Reserve, At, Confirmed, ProcInv
<1>2. LedgerStep /\ Forward /\ UNCHANGED <<ledgers, environment>> /\ Claims'
  BY QuietStep, ClaimsHoldNext DEF Reserve, LedgerStep
<1>3. CASE Send(ZamaTx("reserve"), proc.mem)
  BY <1>1, <1>2, <1>3, SendInv DEF TxOK, ZamaTx
<1>4. CASE zama.approved /\ \E base \in {journal, proc.mem} : Halt("Reserved", "lock", base)
  <2>1. Where("lock")' /\ Plain("lock") /\ Truthful(2)'
    BY <1>2, <1>4 DEF Where, Plain, Claims, Forward
  <2> QED BY <1>1, <1>2, <1>4, <2>1, HaltInv, RankValues
<1>5. CASE Jump("record") /\ zama.status = "Redeemed"
  <2>1. Where("record")' /\ Plain("record")
    BY <1>2, <1>5 DEF Where, Plain, Forward
  <2> QED BY <1>1, <1>2, <1>5, <2>1, JumpInv
<1>6. CASE Exit
  BY <1>2, <1>6, ExitInv
<1> QED BY <1>3, <1>4, <1>5, <1>6 DEF Reserve, ReservationApproved

(* lock_once: the proof in the journal is replaced only while there is no  *)
(* receipt, so no signature can depend on the old one.                     *)
LEMMA LockInv ==
  ASSUME CInv, Lock PROVE CInv'
<1>1. /\ Running /\ ProcInv(proc, journal.lockProof) /\ proc.pc = "lock"
      /\ proc.mem.completed # 13 /\ zama.approved
  BY DEF CInv, Lock, At, Confirmed, ProcInv, Where
<1>2. LedgerStep /\ Forward /\ UNCHANGED <<ledgers, environment>> /\ Claims'
  BY QuietStep, ClaimsHoldNext DEF Lock, LedgerStep
<1> DEFINE after == IF proc.mode = "expiry" THEN "expire" ELSE "mint"
           seen  == [proc.mem EXCEPT !.completed = IF Reached("Locked") THEN @ ELSE Rank("Locked")]
           fresh == [proc.mem EXCEPT !.lockProof = FreshProof]
<1>7. after \in {"expire", "mint"}
  OBVIOUS
<1>3. ASSUME receipt[Op] # E!NoReceipt
      PROVE  Truthful(3)' /\ \A pc \in {"expire", "mint"} : Where(pc)' /\ Plain(pc)
  BY <1>2, <1>3 DEF Where, Plain, Claims, Forward
<1>4. CASE At("lock") /\ LockExists /\ proc' = Goto(after, seen) /\ journal' = journal
  <2>1. receipt[Op] # E!NoReceipt
    BY <1>1, <1>4, RankValues DEF LockExists, Reached, ProcInv, JournalInv, Truthful
  <2>2. /\ DOMAIN seen = JournalFields /\ seen.lockProof = proc.mem.lockProof
        /\ seen.completed = IF Reached("Locked") THEN proc.mem.completed ELSE 3
    BY <1>1, RankValues DEF ProcInv, JournalInv, JournalFields
  <2> HIDE DEF seen
  <2>3. \A mem : mem = seen => JournalInv(mem)'
    BY <1>1, <1>2, <1>3, <2>1, <2>2, TruthStays DEF ProcInv, JournalInv
  <2> HIDE DEF after
  <2> QED BY <1>1, <1>2, <1>3, <1>4, <1>7, <2>1, <2>2, <2>3, GotoInv
<1>5. CASE At("lock") /\ ~LockExists /\ Send(LockTx(fresh.mintExpiry, fresh.lockProof), fresh)
  <2>1. /\ DOMAIN fresh = JournalFields /\ fresh.completed = proc.mem.completed
    BY <1>1 DEF ProcInv, JournalInv, JournalFields
  <2> HIDE DEF fresh
  <2> DEFINE tx == LockTx(fresh.mintExpiry, fresh.lockProof)
  <2>2. tx.kind = "lock"
    BY DEF LockTx
  <2> HIDE DEF tx
  <2>3. /\ DOMAIN proc' = Fields /\ proc'.pc = "lock" /\ proc'.mem = fresh
        /\ proc'.tx = tx /\ proc'.wait = "pending"
    BY <1>1, <1>5, SendFields DEF ProcInv, tx
  <2>4. journal' \in {journal, fresh} /\ journal'.lockProof = fresh.lockProof
    BY <1>1, <1>5 DEF Send, ProcInv
  <2>5. JournalInv(journal)' /\ JournalInv(proc.mem)'
    BY <1>1, <1>2, <2>1, <2>3, <2>4, TruthStays DEF CInv, ProcInv, JournalInv
  <2>6. Where(proc.pc)' /\ JobInv(proc)' /\ WaitInv(proc)'
    BY <1>1, <1>2, <2>2, <2>3 DEF Where, JobInv, WaitInv, TxOK, Forward
  <2>7. ProcInv(proc, journal.lockProof)'
    BY <1>1, <2>1, <2>3, <2>4, <2>5, <2>6 DEF ProcInv
  <2>8. receipt[Op] = E!NoReceipt
    BY <1>5 DEF LockExists
  <2> QED BY <1>2, <2>5, <2>7, <2>8, StepInv
<1>6. CASE Confirmed("lock")
  <2>1. receipt[Op] # E!NoReceipt
    BY <1>1, <1>6 DEF Confirmed, ProcInv, WaitInv
  <2>2. CASE proc' = Goto(after, proc.mem) /\ journal' = proc.mem
    <3>1. \A mem : mem = proc.mem => JournalInv(mem)'
      BY <1>1, <1>2, TruthStays DEF JournalInv, ProcInv
    <3> HIDE DEF after
    <3> QED BY <1>1, <1>2, <1>3, <1>7, <2>1, <2>2, <3>1, GotoInv
  <2>3. CASE Halt("Locked", after, proc.mem)
    <3> HIDE DEF after
    <3> QED BY <1>1, <1>2, <1>3, <1>7, <2>1, <2>3, HaltInv, RankValues
  <2> QED BY <1>1, <1>6, <2>2, <2>3 DEF Lock, At, Confirmed
<1> QED BY <1>4, <1>5, <1>6 DEF Lock

(* The mint approval signs the proof the journal holds.                    *)
LEMMA MintApprovalInv ==
  ASSUME CInv, MintApproval \/ ExpiryRecovery PROVE CInv'
<1>1. /\ Running /\ ProcInv(proc, journal.lockProof) /\ proc.pc \in {"mint", "expire"}
      /\ proc.mem.completed # 13 /\ receipt[Op] # E!NoReceipt
  BY DEF CInv, MintApproval, ExpiryRecovery, At, ProcInv, Where
<1>2. LedgerStep /\ Forward /\ UNCHANGED <<ledgers, environment>> /\ Claims'
  BY QuietStep, ClaimsHoldNext DEF MintApproval, ExpiryRecovery, LedgerStep
<1>3. ASSUME NEW refused \in {"idle", "cancel"}, BeginApproval(MintJob, refused) PROVE CInv'
  <2>1. MintJob.dir = "MINT" /\ MintJob.proof = proc.mem.lockProof
    BY DEF MintJob
  <2> QED BY <1>1, <1>2, <1>3, <2>1, BeginInv
<1>4. CASE Minting /\ Halt("MintApproved", "cantonMint", journal)
  <2>1. Where("cantonMint")' /\ Plain("cantonMint") /\ Truthful(4)'
    BY <1>2, <1>4 DEF Where, Plain, Claims, Forward
  <2> QED BY <1>1, <1>2, <1>4, <2>1, HaltInv, RankValues
<1>5. CASE Exit
  BY <1>2, <1>5, ExitInv
<1> QED BY <1>3, <1>4, <1>5 DEF MintApproval, ExpiryRecovery, Minting

(* Each signature is asked for the digest of the job.                      *)
LEMMA SendApprovalInv ==
  ASSUME CInv, SendApproval PROVE CInv'
<1>1. /\ Running /\ ProcInv(proc, journal.lockProof) /\ proc.pc = "approving"
      /\ UNCHANGED <<ledgers, environment>>
  BY DEF CInv, SendApproval, At
<1>2. PICK key : Send(ApproveTx(proc.job, key), proc.mem)
  BY DEF SendApproval
<1>3. LET tx == ApproveTx(proc.job, key)
      IN  tx.kind = "approve" /\ tx.dir = proc.job.dir /\ tx.proof = proc.job.proof
  BY DEF ApproveTx
<1>4. TxOK(ApproveTx(proc.job, key), journal.lockProof)
  BY <1>1, <1>3 DEF TxOK, ProcInv, JobInv
<1> QED BY <1>1, <1>2, <1>4, SendInv

(* A landed signature is taken off the list.                               *)
LEMMA ApprovalConfirmedInv ==
  ASSUME CInv, ApprovalConfirmed PROVE CInv'
<1>1. /\ Running /\ ProcInv(proc, journal.lockProof) /\ proc.pc = "approving"
      /\ journal' = journal /\ proc.mem.completed # 13
  BY DEF CInv, ApprovalConfirmed, Confirmed, ProcInv
<1>2. LedgerStep /\ Forward
  BY QuietStep DEF ApprovalConfirmed, LedgerStep
<1>3. PICK i : proc' = [Goto("approving", proc.mem) EXCEPT !.job.todo = @ \ {i}]
  BY DEF ApprovalConfirmed
<1>4. /\ DOMAIN proc' = Fields /\ proc'.pc = "approving" /\ proc'.mem = proc.mem
      /\ proc'.wait = "none" /\ DOMAIN proc'.job = DOMAIN proc.job
      /\ proc'.job.dir = proc.job.dir /\ proc'.job.proof = proc.job.proof
  BY <1>1, <1>3 DEF Goto, Fields, ProcInv, JobInv, JobFields
<1>5. JournalInv(journal)' /\ JournalInv(proc.mem)'
  BY <1>1, <1>2, <1>4, TruthStays DEF CInv, ProcInv, JournalInv
<1>6. Where(proc.pc)' /\ WaitInv(proc)'
  BY <1>4 DEF Where, WaitInv
<1>7. JobInv(proc)'
  BY <1>1, <1>2, <1>4 DEF JobInv, ProcInv, Forward, CantonForward
<1>8. ProcInv(proc, journal.lockProof)'
  BY <1>1, <1>4, <1>5, <1>6, <1>7 DEF ProcInv
<1> QED BY <1>1, <1>2, <1>5, <1>8, StepInv

(* A mint quorum on chain is a mint-authorized receipt.                    *)
LEMMA ApprovedInv ==
  ASSUME CInv, Approved PROVE CInv'
<1>1. /\ Running /\ ProcInv(proc, journal.lockProof) /\ proc.pc = "approving"
      /\ proc.mem.completed # 13 /\ LedgerInv
  BY DEF CInv, Approved, At, ProcInv
<1>2. LedgerStep /\ Forward /\ UNCHANGED <<ledgers, environment>> /\ Claims'
  BY QuietStep, ClaimsHoldNext DEF Approved, LedgerStep
<1>3. CASE Exit
  BY <1>2, <1>3, ExitInv
<1>4. CASE /\ E!Quorum(approval[Op][proc.job.dir].signers) /\ proc.job.dir = "MINT"
           /\ Halt("MintApproved", "cantonMint", proc.mem)
  <2>1. Minting
    BY <1>1, <1>4 DEF LedgerInv, EscrowInv
  <2>2. Where("cantonMint")' /\ Plain("cantonMint") /\ Truthful(4)'
    BY <1>2, <2>1 DEF Where, Plain, Claims, Forward
  <2> QED BY <1>1, <1>2, <1>4, <2>2, HaltInv, RankValues
<1>5. CASE proc.job.dir = "RELEASE" /\ Halt("ReleaseApproved", "releaseMove", journal)
  <2>1. canton.redeemed
    BY <1>1, <1>5 DEF ProcInv, JobInv
  <2>2. Where("releaseMove")' /\ Truthful(10)'
    BY <1>2, <2>1 DEF Where, Claims, Forward, CantonForward
  <2>3. proc'.pc = "releaseMove" /\ proc'.job = proc.job
    BY <1>1, <1>5, GotoFields DEF Halt, ProcInv
  <2>4. JobInv(proc)'
    BY <1>5, <2>3 DEF JobInv
  <2> QED BY <1>1, <1>2, <1>5, <2>2, <2>4, HaltInv, RankValues
<1>6. CASE proc.job.dir = "CANCEL" /\ Jump("cancelMove")
  <2>1. Where("cancelMove")'
    BY DEF Where
  <2>2. proc'.pc = "cancelMove" /\ proc'.job = proc.job
    BY <1>1, <1>6, GotoFields DEF Jump, ProcInv
  <2>3. JobInv(proc)'
    BY <1>6, <2>2 DEF JobInv
  <2> QED BY <1>1, <1>2, <1>6, <2>1, <2>3, JumpInv
<1> QED BY <1>3, <1>4, <1>5, <1>6 DEF Approved

-----------------------------------------------------------------------------
(* Release, completion and cancellation *)

(* release_once: fresh materials are on disk before anything is signed.    *)
LEMMA PrepareReleaseInv ==
  ASSUME CInv, PrepareRelease PROVE CInv'
<1>1. /\ Running /\ ProcInv(proc, journal.lockProof) /\ proc.pc = "release"
      /\ proc.mem.completed # 13 /\ canton.redeemed
  BY DEF CInv, PrepareRelease, At, ProcInv, Where
<1>2. LedgerStep /\ Forward
  BY QuietStep DEF PrepareRelease, LedgerStep
<1>3. \A pc \in {"apply", "releaseApprove"} : Where(pc)' /\ Plain(pc)
  BY <1>1, <1>2 DEF Where, Plain, Forward, CantonForward
<1>4. CASE Exit
  BY <1>2, <1>4, ExitInv
<1>5. CASE Jump("apply")
  BY <1>1, <1>2, <1>3, <1>5, JumpInv
<1> DEFINE kept  == IF ShouldRefresh THEN [proc.mem EXCEPT !.release = NoMaterials] ELSE proc.mem
           fresh == [kept EXCEPT !.release = ReleaseMaterials]
<1>6. \A mem \in {kept, fresh} : /\ DOMAIN mem = JournalFields
                                 /\ mem.completed = proc.mem.completed
                                 /\ mem.lockProof = proc.mem.lockProof
  BY <1>1 DEF ProcInv, JournalInv, JournalFields
<1> HIDE DEF kept, fresh
<1>7. \A mem \in {kept, fresh} : JournalInv(mem)'
  BY <1>1, <1>2, <1>6, TruthStays DEF ProcInv, JournalInv
<1>8. ASSUME NEW mem \in {kept, fresh}, proc' = Goto("releaseApprove", mem),
             journal' \in {journal, mem}
      PROVE  CInv'
  BY <1>1, <1>2, <1>3, <1>6, <1>7, <1>8, GotoInv
<1> QED BY <1>4, <1>5, <1>8 DEF PrepareRelease, kept, fresh

(* The release approval and the payout, once the payment is burned.        *)
LEMMA ReleaseInv ==
  ASSUME CInv, ReleaseApproval \/ Release PROVE CInv'
<1>1. /\ Running /\ ProcInv(proc, journal.lockProof)
      /\ proc.pc \in {"releaseApprove", "releaseMove"}
      /\ proc.mem.completed # 13 /\ canton.redeemed
  BY DEF CInv, ReleaseApproval, Release, At, Confirmed, ProcInv, Where
<1>2. LedgerStep /\ Forward /\ UNCHANGED <<ledgers, environment>>
  BY QuietStep DEF ReleaseApproval, Release, LedgerStep
<1>3. CASE ReleaseApproval
  <2> DEFINE job == [dir |-> "RELEASE", dest |-> "payee", expiry |-> proc.mem.release.expiry,
                     proof |-> proc.mem.release.proof]
  <2>1. job.dir = "RELEASE" /\ BeginApproval(job, "idle")
    BY <1>3 DEF ReleaseApproval
  <2> HIDE DEF job
  <2> QED BY <1>1, <1>2, <2>1, BeginInv
<1>4. CASE At("releaseMove") /\ Send(MoveTx(proc.job), proc.mem)
  <2>1. MoveTx(proc.job).kind = "move" /\ MoveTx(proc.job).dir = "RELEASE"
    BY <1>1, <1>4 DEF MoveTx, ProcInv, JobInv, At
  <2>2. TxOK(MoveTx(proc.job), journal.lockProof)
    BY <1>1, <2>1 DEF TxOK
  <2> QED BY <1>1, <1>2, <1>4, <2>2, SendInv
<1>5. CASE Jump("apply")
  <2>1. Where("apply")' /\ Plain("apply")
    BY <1>1, <1>2 DEF Where, Plain, Forward, CantonForward
  <2> QED BY <1>1, <1>2, <1>5, <2>1, JumpInv
<1>6. CASE Exit
  BY <1>2, <1>6, ExitInv
<1> QED BY <1>3, <1>4, <1>5, <1>6 DEF Release

(* The paid account's pending credit is applied.                           *)
LEMMA AppliedStep ==
  ASSUME CInv, applied' = applied \/ applied' = TRUE, UNCHANGED <<escrow, zama, canton, environment>>
  PROVE  LedgerStep
<1> USE DEF escrow, environment
<1>1. EscrowInv' /\ ZamaInv'
  BY DEF CInv, LedgerInv, EscrowInv, ZamaInv, Minting, Status
<1>2. CantonInv'
  BY DEF CInv, LedgerInv, CantonInv, Minting, Final, Status
<1>3. CirculationBacked' /\ ReleaseAfterBurn' /\ ExposureCoversValue'
  BY DEF CInv, LedgerInv, CirculationBacked, ReleaseAfterBurn, ExposureCoversValue, Status
<1>4. applied => applied'
  OBVIOUS
<1>5. Forward
  BY <1>4 DEF Forward, CantonForward, Minting, Final, Status
<1> QED BY <1>1, <1>2, <1>3, <1>5 DEF LedgerStep, LedgerInv

(* apply_pending: the release is journalled when it can be spent.          *)
LEMMA ApplyPendingInv ==
  ASSUME CInv, ApplyPending PROVE CInv'
<1>1. /\ Running /\ ProcInv(proc, journal.lockProof) /\ proc.pc \in {"apply", "applied"}
      /\ proc.mem.completed # 13
  BY DEF CInv, ApplyPending, At, ProcInv
<1>2. LedgerStep /\ Forward /\ Claims'
  BY AppliedStep, ClaimsHoldNext DEF ApplyPending, LedgerStep
<1>3. CASE At("apply") /\ Status = "RELEASED" /\ applied' /\ Jump("applied")
  <2>1. Status' = "RELEASED"
    BY <1>2, <1>3 DEF Forward
  <2>2. Where("applied")' /\ Plain("applied")
    BY <1>3, <2>1 DEF Where, Plain
  <2> QED BY <1>1, <1>2, <1>3, <2>2, JumpInv
<1>4. CASE At("applied") /\ Halt("Released", "zamaRedeem", journal)
  <2>1. Status' = "RELEASED" /\ applied'
    BY <1>1, <1>2, <1>4 DEF Forward, ProcInv, Where, At
  <2>2. Where("zamaRedeem")' /\ Plain("zamaRedeem") /\ Truthful(11)'
    BY <1>2, <2>1 DEF Where, Plain, Claims
  <2> QED BY <1>1, <1>2, <1>4, <2>2, HaltInv, RankValues
<1>5. CASE Exit
  BY <1>2, <1>5, ExitInv
<1> QED BY <1>3, <1>4, <1>5 DEF ApplyPending

(* The exposure is freed, and the operation recorded, after the payout.    *)
LEMMA ZamaRedeemInv ==
  ASSUME CInv, ZamaRedeem PROVE CInv'
<1>1. /\ Running /\ ProcInv(proc, journal.lockProof) /\ proc.pc = "zamaRedeem"
      /\ Status = "RELEASED" /\ applied
  BY DEF CInv, ZamaRedeem, At, Confirmed, ProcInv, Where
<1>2. LedgerStep /\ Forward /\ UNCHANGED <<ledgers, environment>> /\ Claims'
  BY QuietStep, ClaimsHoldNext DEF ZamaRedeem, LedgerStep
<1>3. CASE Send(ZamaTx("redeem"), proc.mem)
  BY <1>1, <1>2, <1>3, SendInv DEF TxOK, ZamaTx
<1>4. CASE zama.status = "Redeemed"
           /\ \E base \in {journal, proc.mem} : Finish("ZamaRedeemed", base)
  <2>1. Truthful(12)'
    BY <1>2, <1>4 DEF Claims, Forward
  <2> QED BY <1>1, <1>2, <1>4, <2>1, FinishInv, RankValues
<1>5. Reached("ZamaRedeemed") => zama.status = "Redeemed"
  BY <1>1, RankValues DEF Reached, ProcInv, JournalInv, Truthful
<1>6. Confirmed("zamaRedeem") => zama.status = "Redeemed"
  BY <1>1 DEF Confirmed, ProcInv, WaitInv
<1>7. CASE Exit
  BY <1>2, <1>7, ExitInv
<1> QED BY <1>3, <1>4, <1>5, <1>6, <1>7 DEF ZamaRedeem

(* record_completed_operation.                                             *)
LEMMA RecordCompletedInv ==
  ASSUME CInv, RecordCompleted PROVE CInv'
<1>1. /\ Running /\ ProcInv(proc, journal.lockProof) /\ zama.status = "Redeemed"
  BY DEF CInv, RecordCompleted, At, ProcInv, Where
<1>2. LedgerStep /\ Forward /\ Claims'
  BY QuietStep, ClaimsHoldNext DEF RecordCompleted, LedgerStep
<1>3. Truthful(12)'
  BY <1>1, <1>2 DEF Claims, Forward
<1>4. CASE Finish("ZamaRedeemed", journal)
  BY <1>1, <1>2, <1>3, <1>4, FinishInv, RankValues
<1>5. CASE Exit
  BY <1>2, <1>5, ExitInv
<1> QED BY <1>4, <1>5 DEF RecordCompleted

(* cancel_locked_operation.                                                *)
LEMMA CancelInv ==
  ASSUME CInv, Cancel PROVE CInv'
<1>1. Running /\ ProcInv(proc, journal.lockProof) /\ proc.pc = "cancel"
  BY DEF CInv, Cancel, At
<1>2. LedgerStep /\ Forward /\ UNCHANGED <<ledgers, environment>>
  BY QuietStep DEF Cancel, LedgerStep
<1>3. CASE Status = "CANCELLED" /\ Jump("zamaCancel")
  <2>1. Where("zamaCancel")' /\ Plain("zamaCancel")
    BY <1>2, <1>3 DEF Where, Plain, Forward
  <2> QED BY <1>1, <1>2, <1>3, <2>1, JumpInv
<1> DEFINE job == [dir |-> "CANCEL", dest |-> "source", expiry |-> now + Window,
                   proof |-> FreshProof]
<1>4. CASE Status = "LOCKED" /\ BeginApproval(job, "idle")
  <2>1. proc.mem.completed # 13
    BY <1>1, <1>4 DEF ProcInv, JournalInv, Truthful
  <2>2. job.dir = "CANCEL"
    OBVIOUS
  <2> HIDE DEF job
  <2> QED BY <1>1, <1>2, <1>4, <2>1, <2>2, BeginInv
<1>5. CASE Exit
  BY <1>2, <1>5, ExitInv
<1> QED BY <1>3, <1>4, <1>5 DEF Cancel

(* The refund, and the credit of the refunded account.                     *)
LEMMA CancelMoveInv ==
  ASSUME CInv, CancelMove PROVE CInv'
<1>1. Running /\ ProcInv(proc, journal.lockProof) /\ proc.pc = "cancelMove"
  BY DEF CInv, CancelMove, At, Confirmed
<1>2. LedgerStep /\ Forward
  BY AppliedStep DEF CancelMove, LedgerStep
<1>3. CASE Send(MoveTx(proc.job), proc.mem) /\ applied' = applied
  <2>1. MoveTx(proc.job).kind = "move" /\ MoveTx(proc.job).dir = "CANCEL"
    BY <1>1 DEF MoveTx, ProcInv, JobInv
  <2>2. TxOK(MoveTx(proc.job), journal.lockProof)
    BY <2>1 DEF TxOK
  <2>3. UNCHANGED <<ledgers, environment>>
    BY <1>3 DEF CancelMove, ledgers
  <2> QED BY <1>1, <1>3, <2>1, <2>2, <2>3, SendInv
<1>4. CASE Confirmed("cancelMove") /\ Jump("zamaCancel")
  <2>1. Status = "CANCELLED"
    BY <1>1, <1>4 DEF Confirmed, ProcInv, WaitInv
  <2>2. Where("zamaCancel")' /\ Plain("zamaCancel")
    BY <1>2, <2>1 DEF Where, Plain, Forward
  <2> QED BY <1>1, <1>2, <1>4, <2>2, JumpInv
<1> QED BY <1>3, <1>4 DEF CancelMove

(* cancel_zama_if_reserved: the exposure is given up after the refund.     *)
LEMMA ZamaCancelInv ==
  ASSUME CInv, ZamaCancel PROVE CInv'
<1>1. /\ Running /\ ProcInv(proc, journal.lockProof) /\ proc.pc = "zamaCancel"
      /\ Status = "CANCELLED"
  BY DEF CInv, ZamaCancel, At, Confirmed, ProcInv, Where
<1>2. LedgerStep /\ Forward /\ UNCHANGED <<ledgers, environment>> /\ Claims'
  BY QuietStep, ClaimsHoldNext DEF ZamaCancel, LedgerStep
<1>3. CASE Send(ZamaTx("cancel"), proc.mem)
  BY <1>1, <1>2, <1>3, SendInv DEF TxOK, ZamaTx
<1>4. CASE zama.status = "Cancelled"
           /\ \E base \in {journal, proc.mem} : Finish("Cancelled", base)
  <2>1. Truthful(13)'
    BY <1>1, <1>2, <1>4 DEF Claims, Forward
  <2> QED BY <1>1, <1>2, <1>4, <2>1, FinishInv, RankValues
<1>5. Confirmed("zamaCancel") => zama.status = "Cancelled"
  BY <1>1 DEF Confirmed, ProcInv, WaitInv
<1>6. CASE proc' = Idle /\ journal' = proc.mem
  <2>1. JournalInv(journal)' /\ journal'.lockProof = journal.lockProof
    BY <1>1, <1>2, <1>6, TruthStays DEF ProcInv, JournalInv
  <2> QED BY <1>2, <1>6, <2>1, StepInv DEF Running
<1>7. CASE Exit
  BY <1>2, <1>7, ExitInv
<1> QED BY <1>3, <1>4, <1>5, <1>6, <1>7 DEF ZamaCancel

(* finalize: after the mint, with the reservation it was made for.         *)
LEMMA FinalizeInv ==
  ASSUME CInv, Finalize PROVE CInv'
<1>1. /\ Running /\ ProcInv(proc, journal.lockProof) /\ proc.pc = "finalize"
      /\ proc.mem.completed # 13 /\ canton.mint # "none"
  BY DEF CInv, Finalize, At, Confirmed, ProcInv, Where
<1>2. LedgerStep /\ Forward /\ UNCHANGED <<ledgers, environment>> /\ Claims'
  BY QuietStep, ClaimsHoldNext DEF Finalize, LedgerStep
<1>3. CASE Send(ZamaTx("finalize"), proc.mem)
  BY <1>1, <1>2, <1>3, SendInv DEF TxOK, ZamaTx
<1>4. CASE Final /\ \E base \in {journal, proc.mem} : Halt("CantonMinted", "trade", base)
  <2>1. Where("trade")' /\ Plain("trade") /\ Truthful(5)'
    BY <1>2, <1>4 DEF Where, Plain, Claims, Forward
  <2> QED BY <1>1, <1>2, <1>4, <2>1, HaltInv, RankValues
<1>5. Confirmed("finalize") => Final
  BY <1>1 DEF Confirmed, ProcInv, WaitInv
<1>6. CASE Exit
  BY <1>2, <1>6, ExitInv
<1> QED BY <1>3, <1>4, <1>5, <1>6 DEF Finalize, FinalizeDone, Final

-----------------------------------------------------------------------------
(* Canton *)

(* The parts of the ledger invariant that speak of the Canton ledger.      *)
CantonOK == CantonInv /\ CirculationBacked /\ ReleaseAfterBurn /\ ExposureCoversValue

(* A submission to Canton leaves Solana and Zama alone.                    *)
LEMMA CantonStep ==
  ASSUME CInv, UNCHANGED <<escrow, zama, applied, stray>>, CantonOK', CantonForward
  PROVE  LedgerStep
<1>1. EscrowInv' /\ ZamaInv'
  BY DEF CInv, LedgerInv, EscrowInv, ZamaInv, Minting, Status, escrow
<1>2. Forward
  BY DEF Forward, Minting, Final, Status, escrow
<1> QED BY <1>1, <1>2 DEF LedgerStep, LedgerInv, CantonOK, escrow

(* Facts about one Canton step, for whatever the process does with it.     *)
LEMMA ReadStep ==
  ASSUME CInv, Ledger(canton) PROVE LedgerStep
BY QuietStep DEF Ledger, ledgers

(* Runtime.mint: attested and minted under a mint-authorized receipt.      *)
LEMMA CantonMintInv ==
  ASSUME CInv, CantonMint PROVE CInv'
<1>1. /\ Running /\ ProcInv(proc, journal.lockProof) /\ proc.pc = "cantonMint"
      /\ proc.mem.completed # 13 /\ Minting /\ LedgerInv
  BY DEF CInv, CantonMint, At, ProcInv, Where
<1>2. CASE Reached("CantonMinted") /\ Jump("trade") /\ Ledger(canton)
  <2>1. LedgerStep /\ Forward
    BY <1>2, ReadStep DEF LedgerStep
  <2>2. Final
    BY <1>1, <1>2, RankValues DEF Reached, ProcInv, JournalInv, Truthful
  <2>3. Where("trade")' /\ Plain("trade")
    BY <2>1, <2>2 DEF Where, Plain, Forward
  <2> QED BY <1>1, <1>2, <2>1, <2>3, JumpInv
<1>3. ASSUME canton.mint = "none", Jump("cantonMint"), NEW f, Ledger(f),
             \/ f = [canton EXCEPT !.mintAtts = @ + 1]
             \/ f = [canton EXCEPT !.mint = "held"]
      PROVE  CInv'
  <2>1. CantonOK' /\ CantonForward
    BY <1>1, <1>3 DEF CantonOK, CantonForward, Ledger, LedgerInv, CantonInv, CantonFields, CirculationBacked,
           ReleaseAfterBurn, ExposureCoversValue, Minting, Final, Status, escrow
  <2>2. LedgerStep /\ Forward
    BY <1>3, <2>1, CantonStep DEF Ledger, environment, LedgerStep
  <2>3. Where("cantonMint")' /\ Plain("cantonMint")
    BY <1>1, <2>2 DEF Where, Plain, Forward
  <2> QED BY <1>1, <1>3, <2>2, <2>3, JumpInv
<1>4. CASE canton.mint # "none" /\ proc' = Goto("finalize", proc.mem)
           /\ journal' = proc.mem /\ Ledger(canton)
  <2>1. LedgerStep /\ Forward
    BY <1>4, ReadStep DEF LedgerStep
  <2>2. Where("finalize")' /\ Plain("finalize")
    BY <1>4, <2>1 DEF Where, Plain, Forward, CantonForward
  <2>3. \A mem : mem = proc.mem => JournalInv(mem)'
    BY <1>1, <2>1, TruthStays DEF JournalInv, ProcInv
  <2> QED BY <1>1, <1>4, <2>1, <2>2, <2>3, GotoInv
<1> QED BY <1>2, <1>3, <1>4 DEF CantonMint

(* The process moves on with one submission to Canton.                     *)
LEMMA SubmitInv ==
  ASSUME CInv, Running, NEW f, NEW pc, Ledger(f), CantonOK', CantonForward,
         Jump(pc), Where(pc)', Plain(pc), proc.mem.completed # 13
  PROVE  CInv'
BY CantonStep, JumpInv DEF Ledger, environment

(* The process ends, or moves on to pc, without a submission.              *)
LEMMA ReadInv ==
  ASSUME CInv, Running, Ledger(canton), proc.mem.completed # 13,
         \/ Exit
         \/ \E pc : Jump(pc) /\ Where(pc) /\ Plain(pc)
  PROVE  CInv'
<1>1. LedgerStep /\ Forward
  BY ReadStep DEF LedgerStep
<1>2. CASE Exit
  BY <1>1, <1>2, ExitInv
<1>3. ASSUME NEW pc, Jump(pc), Where(pc), Plain(pc) PROVE CInv'
  BY <1>1, <1>3, WhereStays, JumpInv
<1> QED BY <1>2, <1>3

(* prepareTrade and createPreparedTrade up to the proposal.                *)
LEMMA PrepareTradeInv ==
  ASSUME CInv, PrepareTrade PROVE CInv'
<1>1. /\ Running /\ ProcInv(proc, journal.lockProof) /\ proc.pc = "trade"
      /\ proc.mem.completed # 13 /\ Final /\ LedgerInv
  BY DEF CInv, PrepareTrade, At, ProcInv, Where
<1>2. Ledger(canton)
  BY DEF PrepareTrade
<1>3. CASE Reached("TradePrepared") /\ Jump("reassign")
  <2>1. canton.trade # "none"
    BY <1>1, <1>3, RankValues DEF Reached, ProcInv, JournalInv, Truthful
  <2>2. Where("reassign") /\ Plain("reassign")
    BY <2>1 DEF Where, Plain
  <2> QED BY <1>1, <1>2, <1>3, <2>2, ReadInv
<1>4. CASE (canton.trade = "bound" \/ canton.mint = "spent")
           /\ Halt("TradePrepared", "reassign", journal)
  <2>1. canton.trade # "none"
    BY <1>1, <1>4, StageOrder
  <2>2. LedgerStep /\ Forward /\ Claims'
    BY <1>2, ReadStep, ClaimsHoldNext DEF LedgerStep
  <2>3. Where("reassign")' /\ Plain("reassign") /\ Truthful(6)'
    BY <2>1, <2>2 DEF Where, Plain, Claims, Forward, CantonForward
  <2> QED BY <1>1, <1>4, <2>2, <2>3, HaltInv, RankValues
<1>5. CASE Exit \/ Jump("attestTreasury")
  BY <1>1, <1>2, <1>5, ReadInv DEF Where, Plain
<1> QED BY <1>3, <1>4, <1>5 DEF PrepareTrade

(* The attestations, one submission each, never touch a reassigned or      *)
(* spent holding's eligibility.                                            *)
LEMMA AttestInv ==
  ASSUME CInv, AttestEligibility PROVE CInv'
<1>1. /\ Running /\ ProcInv(proc, journal.lockProof)
      /\ proc.mem.completed # 13 /\ Final /\ LedgerInv
  BY DEF CInv, AttestEligibility, At, ProcInv, Where
<1> DEFINE Next4 == {"attestTreasuryBuyer", "attestCash", "attestCashBuyer", "propose"}
<1>2. \A pc \in Next4 : Where(pc) /\ Plain(pc)
  BY <1>1 DEF Where, Plain
<1>3. ASSUME NEW pc \in Next4, Jump(pc), NEW f, Ledger(f),
             \/ canton.treasuryElig = 0 /\ f = [canton EXCEPT !.treasuryElig = 1]
             \/ f = [canton EXCEPT !.treasuryElig = 2]
             \/ canton.cashElig = 0 /\ f = [canton EXCEPT !.cashElig = 1]
             \/ f = [canton EXCEPT !.cashElig = 2]
      PROVE  CInv'
  <2>1. CantonOK' /\ CantonForward
    BY <1>1, <1>3 DEF CantonOK, CantonForward, Ledger, LedgerInv, CantonInv, CantonFields,
       CirculationBacked, ReleaseAfterBurn, ExposureCoversValue, Minting, Final, Status, escrow
  <2>2. Where(pc)'
    BY <1>1, <1>3 DEF Where, Final, Ledger
  <2> QED BY <1>1, <1>2, <1>3, <2>1, <2>2, SubmitInv
<1>4. ASSUME NEW pc \in Next4, Jump(pc), Ledger(canton) PROVE CInv'
  BY <1>1, <1>2, <1>4, ReadInv
<1> QED BY <1>3, <1>4 DEF AttestEligibility

(* Proposal and binding.                                                   *)
LEMMA TradeInv ==
  ASSUME CInv, ProposeTrade \/ BindTrade PROVE CInv'
<1>1. /\ Running /\ ProcInv(proc, journal.lockProof)
      /\ proc.mem.completed # 13 /\ Final /\ LedgerInv
  BY DEF CInv, ProposeTrade, BindTrade, At, ProcInv, Where
<1>2. CASE ProposeTrade
  <2>1. PICK n : Ledger([canton EXCEPT !.unbound = n])
    BY <1>2 DEF ProposeTrade
  <2>2. CantonOK' /\ CantonForward
    BY <1>1, <2>1 DEF CantonOK, CantonForward, Ledger, LedgerInv, CantonInv, CantonFields,
       CirculationBacked, ReleaseAfterBurn, ExposureCoversValue, Minting, Final, Status, escrow
  <2>3. Where("bind")' /\ Plain("bind")
    BY <1>1, <2>1 DEF Where, Plain, Final, Ledger
  <2> QED BY <1>1, <1>2, <2>1, <2>2, <2>3, SubmitInv DEF ProposeTrade
<1>3. CASE BindTrade /\ canton.trade = "none"
  <2>1. PICK n : Ledger([canton EXCEPT !.trade = "bound", !.unbound = n, !.phase = "open"])
    BY <1>3 DEF BindTrade
  <2>2. CantonOK' /\ CantonForward /\ canton'.trade # "none"
    BY <1>1, <1>3, <2>1 DEF CantonOK, CantonForward, Ledger, LedgerInv, CantonInv, CantonFields,
       CirculationBacked, ReleaseAfterBurn, ExposureCoversValue, Minting, Final, Status, escrow
  <2>3. LedgerStep /\ Claims'
    BY <2>1, <2>2, CantonStep, ClaimsHoldNext DEF Ledger, environment, LedgerStep
  <2>4. Where("reassign")' /\ Plain("reassign") /\ Truthful(6)'
    BY <2>2, <2>3 DEF Where, Plain, Claims
  <2> QED BY <1>1, <1>3, <2>3, <2>4, HaltInv, RankValues DEF BindTrade
<1>4. CASE BindTrade /\ canton.trade # "none"
  BY <1>1, <1>4, ReadInv DEF BindTrade
<1> QED BY <1>2, <1>3, <1>4

(* reassign.canton: unassigned only with a bound trade and attestations.   *)
LEMMA ReassignInv ==
  ASSUME CInv, Reassign PROVE CInv'
<1>1. /\ Running /\ ProcInv(proc, journal.lockProof)
      /\ proc.mem.completed # 13 /\ LedgerInv /\ proc.pc \in {"reassign", "assign", "assigned"}
      /\ proc.pc = "reassign" => canton.trade # "none"
      /\ proc.pc = "assign" => canton.place # "source"
      /\ proc.pc = "assigned" => canton.place = "target"
  BY DEF CInv, Reassign, At, ProcInv, Where
<1>2. CASE Reached("Reassigned") /\ Jump("settle") /\ Ledger(canton)
  <2>1. canton.place = "target"
    BY <1>1, <1>2, RankValues DEF Reached, ProcInv, JournalInv, Truthful
  <2>2. Where("settle") /\ Plain("settle")
    BY <2>1 DEF Where, Plain
  <2> QED BY <1>1, <1>2, <2>2, ReadInv
<1>3. CASE /\ proc.pc = "reassign" /\ canton.treasuryElig = 2 /\ canton.place = "source"
           /\ Jump("assign") /\ Ledger([canton EXCEPT !.place = "pending"])
  <2>1. CantonOK' /\ CantonForward /\ canton'.place # "source"
    BY <1>1, <1>3 DEF CantonOK, CantonForward, Ledger, LedgerInv, CantonInv, CantonFields,
       CirculationBacked, ReleaseAfterBurn, ExposureCoversValue, Minting, Final, Status, escrow
  <2>2. Where("assign")' /\ Plain("assign")
    BY <2>1 DEF Where, Plain
  <2> QED BY <1>1, <1>3, <2>1, <2>2, SubmitInv
<1>4. CASE /\ proc.pc = "assign" /\ Jump("assigned")
           /\ Ledger([canton EXCEPT !.place = "target"])
  <2>1. CantonOK' /\ CantonForward /\ canton'.place = "target"
    BY <1>1, <1>4 DEF CantonOK, CantonForward, Ledger, LedgerInv, CantonInv, CantonFields,
       CirculationBacked, ReleaseAfterBurn, ExposureCoversValue, Minting, Final, Status, escrow
  <2>2. Where("assigned")' /\ Plain("assigned")
    BY <2>1 DEF Where, Plain
  <2> QED BY <1>1, <1>4, <2>1, <2>2, SubmitInv
<1>5. CASE proc.pc = "assigned" /\ Halt("Reassigned", "settle", journal) /\ Ledger(canton)
  <2>1. LedgerStep /\ Forward /\ Claims'
    BY <1>5, ReadStep, ClaimsHoldNext DEF LedgerStep
  <2>2. Where("settle")' /\ Plain("settle") /\ Truthful(7)'
    BY <1>1, <1>5, <2>1 DEF Where, Plain, Claims, Forward, CantonForward
  <2> QED BY <1>1, <1>5, <2>1, <2>2, HaltInv, RankValues
<1>6. CASE Exit /\ Ledger(canton)
  BY <1>1, <1>6, ReadInv
<1> QED BY <1>2, <1>3, <1>4, <1>5, <1>6 DEF Reassign, At

(* decideSettle and the allocations: the minted holding is spent on the    *)
(* target synchronizer, with both cash attestations.                       *)
LEMMA AllocateInv ==
  ASSUME CInv, DecideSettle \/ AllocateTreasury \/ AllocatePayment PROVE CInv'
<1>1. /\ Running /\ ProcInv(proc, journal.lockProof)
      /\ proc.mem.completed # 13 /\ LedgerInv /\ canton.place = "target"
  BY DEF CInv, DecideSettle, AllocateTreasury, AllocatePayment, At, ProcInv, Where
<1> DEFINE Next3 == {"allocTreasury", "allocPayment", "dvp"}
<1>2. \A pc \in Next3 : Where(pc) /\ Plain(pc)
  BY <1>1 DEF Where, Plain
<1>3. CASE Ledger(canton) /\ (Exit \/ \E pc \in Next3 : Jump(pc))
  BY <1>1, <1>2, <1>3, ReadInv
<1>4. CASE /\ Ledger(canton) /\ canton.trade \in {"settled", "ended"} /\ canton.mint = "spent"
           /\ \E base \in {journal, proc.mem} : Halt("Settled", "redeem", base)
  <2>1. LedgerStep /\ Forward /\ Claims'
    BY <1>4, ReadStep, ClaimsHoldNext DEF LedgerStep
  <2>2. canton' = canton
    BY <1>4 DEF Ledger
  <2>3. Where("redeem")' /\ Plain("redeem") /\ Truthful(8)'
    BY <1>4, <2>1, <2>2 DEF Where, Plain, Claims
  <2> QED BY <1>1, <1>4, <2>1, <2>3, HaltInv, RankValues
<1>5. ASSUME NEW pc \in Next3, Jump(pc), NEW f, Ledger(f),
             \/ f = [canton EXCEPT !.treasuryAlloc = TRUE]
             \/ /\ canton.mint = "held" /\ canton.cashElig = 2
                /\ f = [canton EXCEPT !.paymentAlloc = TRUE, !.mint = "spent"]
      PROVE  CInv'
  <2>1. CantonOK' /\ CantonForward /\ canton'.place = "target"
    BY <1>1, <1>5 DEF CantonOK, CantonForward, Ledger, LedgerInv, CantonInv, CantonFields,
       CirculationBacked, ReleaseAfterBurn, ExposureCoversValue, Minting, Final, Status, escrow
  <2>2. Where(pc)' /\ Plain(pc)
    BY <2>1 DEF Where, Plain
  <2> QED BY <1>1, <1>5, <2>1, <2>2, SubmitInv
<1>6. CASE DecideSettle
  BY <1>3, <1>4, <1>6 DEF DecideSettle
<1>7. CASE AllocateTreasury
  BY <1>3, <1>5, <1>7 DEF AllocateTreasury
<1>8. CASE AllocatePayment
  BY <1>3, <1>5, <1>8 DEF AllocatePayment
<1> QED BY <1>6, <1>7, <1>8

(* DvpTrade_Settle: the payment leg it consumes was funded by the mint.    *)
LEMMA SettleInv ==
  ASSUME CInv, SettleTrade PROVE CInv'
<1>1. /\ Running /\ ProcInv(proc, journal.lockProof) /\ proc.mem.completed # 13 /\ LedgerInv
  BY DEF CInv, SettleTrade, At, ProcInv
<1>2. CASE Exit /\ Ledger(canton)
  BY <1>1, <1>2, ReadInv
<1>3. CASE /\ canton.trade = "bound" /\ canton.paymentAlloc /\ Jump("recordTreasury")
           /\ Ledger([canton EXCEPT !.trade = "settled", !.treasuryAlloc = FALSE,
                                    !.paymentAlloc = FALSE])
  <2>1. CantonOK' /\ CantonForward /\ canton'.trade = "settled"
    BY <1>1, <1>3 DEF CantonOK, CantonForward, Ledger, LedgerInv, CantonInv, CantonFields,
       CirculationBacked, ReleaseAfterBurn, ExposureCoversValue, Minting, Final, Status, escrow
  <2>2. Where("recordTreasury")' /\ Plain("recordTreasury")
    BY <2>1 DEF Where, Plain
  <2> QED BY <1>1, <1>3, <2>1, <2>2, SubmitInv
<1> QED BY <1>2, <1>3 DEF SettleTrade

(* recordBindingOutputs: outputs are recorded for a settled trade only.    *)
LEMMA RecordOutputsInv ==
  ASSUME CInv, RecordOutputs PROVE CInv'
<1>1. /\ Running /\ ProcInv(proc, journal.lockProof) /\ proc.mem.completed # 13 /\ LedgerInv
      /\ canton.trade = "settled"
  BY DEF CInv, RecordOutputs, At, ProcInv, Where
<1>2. PICK f : /\ Ledger(f)
               /\ \/ f = [canton EXCEPT !.treasuryRec = TRUE] /\ Jump("recordPayment")
                  \/ /\ f = [canton EXCEPT !.paymentRec = TRUE]
                     /\ \E base \in {journal, proc.mem} : Halt("Settled", "redeem", base)
  BY DEF RecordOutputs
<1>3. CantonOK' /\ CantonForward /\ canton'.trade = "settled" /\ canton'.mint = "spent"
  BY <1>1, <1>2 DEF CantonOK, CantonForward, Ledger, LedgerInv, CantonInv, CantonFields,
     CirculationBacked, ReleaseAfterBurn, ExposureCoversValue, Minting, Final, Status, escrow
<1>4. CASE Jump("recordPayment")
  <2>1. Where("recordPayment")' /\ Plain("recordPayment")
    BY <1>3 DEF Where, Plain
  <2> QED BY <1>1, <1>2, <1>3, <1>4, <2>1, SubmitInv
<1>5. CASE \E base \in {journal, proc.mem} : Halt("Settled", "redeem", base)
  <2>1. LedgerStep /\ Claims'
    BY <1>2, <1>3, CantonStep, ClaimsHoldNext DEF Ledger, environment, LedgerStep
  <2>2. Where("redeem")' /\ Plain("redeem") /\ Truthful(8)'
    BY <1>3, <2>1 DEF Where, Plain, Claims
  <2> QED BY <1>1, <1>5, <2>1, <2>2, HaltInv, RankValues
<1> QED BY <1>2, <1>4, <1>5

(* redeemFromLedger: burned only with the payment output on record.        *)
LEMMA RedeemInv ==
  ASSUME CInv, Redeem PROVE CInv'
<1>1. /\ Running /\ ProcInv(proc, journal.lockProof) /\ proc.mem.completed # 13 /\ LedgerInv
      /\ canton.trade \in {"settled", "ended"} /\ canton.mint = "spent"
  BY DEF CInv, Redeem, At, ProcInv, Where
<1>2. CASE canton.redeemed /\ Halt("Redeemed", "release", journal) /\ Ledger(canton)
  <2>1. LedgerStep /\ Forward /\ Claims'
    BY <1>2, ReadStep, ClaimsHoldNext DEF LedgerStep
  <2>2. Where("release")' /\ Plain("release") /\ Truthful(9)'
    BY <1>2, <2>1 DEF Where, Plain, Claims, Forward, CantonForward
  <2> QED BY <1>1, <1>2, <2>1, <2>2, HaltInv, RankValues
<1>3. CASE Exit /\ Ledger(canton)
  BY <1>1, <1>3, ReadInv
<1>4. ASSUME canton.paymentRec, Jump("redeem"), NEW f, Ledger(f),
             \/ f = [canton EXCEPT !.request = TRUE]
             \/ f = [canton EXCEPT !.redeemAtts = @ + 1]
             \/ f = [canton EXCEPT !.redeemed = TRUE]
      PROVE  CInv'
  <2>1. /\ CantonOK' /\ CantonForward
        /\ canton'.trade \in {"settled", "ended"} /\ canton'.mint = "spent"
    BY <1>1, <1>4 DEF CantonOK, CantonForward, Ledger, LedgerInv, CantonInv, CantonFields,
       CirculationBacked, ReleaseAfterBurn, ExposureCoversValue, Minting, Final, Status, escrow
  <2>2. Where("redeem")' /\ Plain("redeem")
    BY <2>1 DEF Where, Plain
  <2> QED BY <1>1, <1>4, <2>1, <2>2, SubmitInv
<1> QED BY <1>2, <1>3, <1>4 DEF Redeem, RedeemedOnLedger

-----------------------------------------------------------------------------
(* The environment *)

(* The coordinator and the journal do nothing in a ledger step.            *)
LEMMA OthersInv ==
  ASSUME CInv, LedgerStep, UNCHANGED <<journal, proc>> PROVE CInv'
<1>1. JournalInv(journal)'
  BY TruthStays DEF CInv, JournalInv, LedgerStep
<1>2. (Running => ProcInv(proc, journal.lockProof))'
  BY ProcStays DEF CInv, LedgerStep, Running
<1> QED BY <1>1, <1>2, StepInv

(* The parties end a trade or withdraw; the spent mint stays spent.        *)
LEMMA PartyMoveInv ==
  ASSUME CInv, PartyMove PROVE CInv'
<1>1. PICK f : /\ canton' = f
               /\ \/ f = [canton EXCEPT !.treasuryAlloc = FALSE]
                  \/ f = [canton EXCEPT !.paymentAlloc = FALSE]
                  \/ canton.trade = "bound" /\ f = [canton EXCEPT !.trade = "ended"]
                  \/ \E p : f = [canton EXCEPT !.phase = p]
  BY DEF PartyMove
<1>2. CantonOK' /\ CantonForward
  BY <1>1 DEF CantonOK, CantonForward, PartyMove, CInv, LedgerInv, CantonInv, CantonFields,
     CirculationBacked, ReleaseAfterBurn, ExposureCoversValue, Minting, Final, Status, escrow
<1> QED BY <1>2, CantonStep, OthersInv DEF PartyMove

(* The attesters are installed; the clock moves.                           *)
LEMMA ClockInv ==
  ASSUME CInv, SetUp \/ Tick PROVE CInv'
<1>1. /\ UNCHANGED <<receipt, approval, zama, canton, applied, journal, proc, environment>>
  BY DEF SetUp, Tick, E!Initialize, E!Tick
<1>2. LedgerInv'
  <2>1. EscrowInv' /\ ZamaInv'
    BY <1>1 DEF CInv, LedgerInv, EscrowInv, ZamaInv, Minting, Status
  <2>2. CantonOK'
    BY <1>1 DEF CInv, LedgerInv, CantonOK, CantonInv, Minting, Final, Status,
                CirculationBacked, ReleaseAfterBurn, ExposureCoversValue
  <2> QED BY <2>1, <2>2 DEF LedgerInv, CantonOK
<1>3. Forward
  BY <1>1 DEF Forward, CantonForward, Minting, Final, Status
<1> QED BY <1>1, <1>2, <1>3, OthersInv DEF LedgerStep, environment

-----------------------------------------------------------------------------
(* Transactions land, now or late *)

(* The receipt moves along its two routes; the payout follows the burn.    *)
ReceiptMove == \/ Status' = Status
               \/ Status = "NONE" /\ Status' = "LOCKED"
               \/ Status = "LOCKED" /\ Status' \in {"MINT_AUTHORIZED", "CANCELLED"}
               \/ Status = "MINT_AUTHORIZED" /\ Status' = "RELEASED" /\ canton.redeemed

(* The reservation moves on, and is given up when the receipt is closed.   *)
ZamaMove == \/ /\ zama.status = "Empty" /\ zama'.status = "Reserved" /\ ~zama.approved
            \/ /\ zama'.approved = zama.approved
               /\ \/ zama.status = "Reserved" /\ zama'.status = "Finalized"
                  \/ /\ zama.status = "Reserved" /\ zama'.status = "Cancelled"
                     /\ Status = "CANCELLED"
                  \/ /\ zama.status = "Finalized" /\ zama'.status = "Redeemed"
                     /\ Status = "RELEASED"

(* A transaction moves one of the two chains.                              *)
OneMove == \/ ReceiptMove /\ zama' = zama
           \/ ZamaMove /\ receipt' = receipt

(* What a landed transaction leaves: ledgers in order, nothing taken back, *)
(* and a mint approval that still carries the journalled proof.            *)
Landed == LedgerInv' /\ Forward /\ MintApprovalResumable' /\ OneMove

(* lock_confidential, whenever it lands, finds the approved reservation.   *)
LEMMA LockLands ==
  ASSUME CInv, NEW expiry, NEW proof, zama.approved,
         E!LockConfidential(Op, "source", "terms", expiry, proof),
         UNCHANGED <<zama, canton, applied, journal>>
  PROVE  Landed /\ receipt'[Op] # E!NoReceipt
<1>1. LedgerInv /\ EscrowInv /\ receipt[Op] = E!NoReceipt /\ Status = "NONE"
  BY DEF CInv, LedgerInv, E!LockConfidential, Status, E!NoReceipt
<1>2. /\ DOMAIN receipt' = {Op} /\ DOMAIN receipt'[Op] = ReceiptFields
      /\ receipt'[Op].status = "LOCKED" /\ receipt'[Op] # E!NoReceipt /\ approval' = approval
  BY <1>1 DEF EscrowInv, E!LockConfidential, ReceiptFields, E!NoReceipt
<1>3. EscrowInv' /\ ZamaInv'
  BY <1>1, <1>2 DEF LedgerInv, EscrowInv, ZamaInv, Minting, Status, E!Statuses
<1>4. canton.mint = "none" /\ zama.status = "Reserved"
  BY <1>1 DEF LedgerInv, CirculationBacked, ExposureCoversValue, ZamaInv
<1>5. CantonOK'
  BY <1>1, <1>2, <1>4 DEF LedgerInv, CantonOK, CantonInv, Minting, Final, Status,
     CirculationBacked, ReleaseAfterBurn, ExposureCoversValue
<1>6. Forward
  BY <1>1, <1>2 DEF Forward, CantonForward, Minting, Final, Status
<1>7. MintApprovalResumable'
  BY <1>2 DEF CInv, MintApprovalResumable
<1>8. OneMove
  BY <1>1, <1>2 DEF OneMove, ReceiptMove, Status
<1> QED BY <1>2, <1>3, <1>5, <1>6, <1>7, <1>8 DEF Landed, LedgerInv, CantonOK

(* approve_operation: a late mint signature carries the proof the journal  *)
(* holds, and a mint quorum is reached on an open receipt only.            *)
LEMMA ApproveLands ==
  ASSUME CInv, NEW dir, NEW dest, NEW expiry, NEW proof, NEW key,
         dir = "MINT" => proof = journal.lockProof,
         E!ApproveOperation(Op, dir, dest, "terms", expiry, proof, key),
         UNCHANGED <<zama, canton, applied, journal>>
  PROVE  Landed
<1>1. LedgerInv /\ EscrowInv /\ receipt[Op] # E!NoReceipt /\ Status \in E!Statuses
  BY DEF CInv, LedgerInv, EscrowInv, E!ApproveOperation, E!ApprovalAcceptable
<1>2. PICK new : /\ approval' = [approval EXCEPT ![Op][dir] = new]
                 /\ DOMAIN new = ApprovalFields /\ new.digest.proof = proof
                 /\ IF dir = "MINT" /\ E!Quorum(new.signers)
                    THEN /\ Status \in {"LOCKED", "MINT_AUTHORIZED"}
                         /\ receipt' = [receipt EXCEPT ![Op].status = "MINT_AUTHORIZED"]
                    ELSE receipt' = receipt
  <2> DEFINE digest == E!OperationDigest(Op, dir, dest, "terms", expiry, proof)
             old    == approval[Op][dir]
  <2>1. PICK i : LET n == E!Signed(old, i, digest)
                 IN  /\ approval' = [approval EXCEPT ![Op][dir] = n]
                     /\ IF dir = "MINT" /\ E!Quorum(n.signers)
                        THEN /\ receipt[Op].status \in {"LOCKED", "MINT_AUTHORIZED"}
                             /\ receipt' = [receipt EXCEPT ![Op].status = "MINT_AUTHORIZED"]
                        ELSE receipt' = receipt
    BY DEF E!ApproveOperation
  <2>2. LET n == E!Signed(old, i, digest)
        IN  DOMAIN n = ApprovalFields /\ n.digest.proof = proof
    BY DEF E!Signed, E!OperationDigest, ApprovalFields
  <2> QED BY <2>1, <2>2 DEF Status
<1>3. /\ DOMAIN approval' = {Op} /\ DOMAIN approval'[Op] = E!Directions
      /\ \A d \in E!Directions : approval'[Op][d] = IF d = dir THEN new ELSE approval[Op][d]
  BY <1>1, <1>2 DEF EscrowInv
<1>4. /\ DOMAIN receipt' = {Op} /\ DOMAIN receipt'[Op] = ReceiptFields
      /\ \/ Status' = Status
         \/ Status \in {"LOCKED", "MINT_AUTHORIZED"} /\ Status' = "MINT_AUTHORIZED"
      /\ dir = "MINT" /\ E!Quorum(new.signers) => Status' = "MINT_AUTHORIZED"
  BY <1>1, <1>2 DEF EscrowInv, ReceiptFields, Status
<1>5. receipt'[Op] # E!NoReceipt
  BY <1>4 DEF ReceiptFields, E!NoReceipt
<1>6. EscrowInv'
  <2>1. \A d \in E!Directions : DOMAIN approval'[Op][d] = ApprovalFields
                                \/ approval'[Op][d] = E!NoApproval
    BY <1>1, <1>2, <1>3 DEF EscrowInv
  <2>2. E!Quorum(approval'[Op]["MINT"].signers) => Minting'
    BY <1>1, <1>2, <1>3, <1>4 DEF EscrowInv, Minting, E!Directions
  <2>3. Status' \in E!Statuses
    BY <1>1, <1>4 DEF E!Statuses
  <2> QED BY <1>3, <1>4, <1>5, <2>1, <2>2, <2>3 DEF EscrowInv, E!Quorum
<1>7. ZamaInv'
  BY <1>1 DEF LedgerInv, ZamaInv
<1>8. CantonOK'
  BY <1>1, <1>4 DEF LedgerInv, CantonOK, CantonInv, Minting, Final,
     CirculationBacked, ReleaseAfterBurn, ExposureCoversValue
<1>9. Forward
  BY <1>1, <1>4, <1>5 DEF Forward, CantonForward, Minting, Final
<1>10. MintApprovalResumable'
  BY <1>2, <1>3 DEF CInv, MintApprovalResumable, E!Directions
<1>11. OneMove
  BY <1>4 DEF OneMove, ReceiptMove
<1> QED BY <1>6, <1>7, <1>8, <1>9, <1>10, <1>11 DEF Landed, LedgerInv, CantonOK

(* move_vault_tokens: a late refund finds the receipt locked, a late       *)
(* release finds the payment burned.                                       *)
LEMMA MoveLands ==
  ASSUME CInv, NEW dir, NEW dest, NEW expiry, NEW proof,
         dir = "CANCEL" \/ (dir = "RELEASE" /\ canton.redeemed),
         E!MoveVaultTokens(Op, dir, dest, "terms", expiry, proof),
         UNCHANGED <<zama, canton, applied, journal>>
  PROVE  Landed /\ (dir = "CANCEL" => Status' = "CANCELLED")
<1>1. LedgerInv /\ EscrowInv /\ receipt[Op] # E!NoReceipt /\ dir \in E!Directions
  BY DEF CInv, LedgerInv, E!MoveVaultTokens, E!Directions
<1>2. IF dir = "CANCEL" THEN Status = "LOCKED" ELSE Status = "MINT_AUTHORIZED"
  BY DEF E!MoveVaultTokens, E!CancelPermitted, E!ReleasePermitted, Status
<1>3. DOMAIN approval[Op][dir] = ApprovalFields
  BY <1>1 DEF EscrowInv, E!MoveVaultTokens, E!Quorum, E!NoApproval
<1>4. /\ DOMAIN approval' = {Op} /\ DOMAIN approval'[Op] = E!Directions
      /\ \A d \in E!Directions : d # dir => approval'[Op][d] = approval[Op][d]
      /\ DOMAIN approval'[Op][dir] = ApprovalFields
      /\ dir # "MINT"
  BY <1>1, <1>3 DEF EscrowInv, E!MoveVaultTokens
<1>5. /\ DOMAIN receipt' = {Op} /\ DOMAIN receipt'[Op] = ReceiptFields
      /\ Status' = IF dir = "CANCEL" THEN "CANCELLED" ELSE "RELEASED"
  BY <1>1 DEF EscrowInv, E!MoveVaultTokens, ReceiptFields, Status
<1>6. receipt'[Op] # E!NoReceipt
  BY <1>5 DEF ReceiptFields, E!NoReceipt
<1>7. EscrowInv'
  <2>1. \A d \in E!Directions : DOMAIN approval'[Op][d] = ApprovalFields
                                \/ approval'[Op][d] = E!NoApproval
    BY <1>1, <1>4 DEF EscrowInv
  <2>2. E!Quorum(approval'[Op]["MINT"].signers) => Minting'
    BY <1>1, <1>2, <1>4, <1>5 DEF EscrowInv, Minting, E!Directions
  <2>3. Status' \in E!Statuses
    BY <1>5 DEF E!Statuses
  <2> QED BY <1>4, <1>5, <1>6, <2>1, <2>2, <2>3 DEF EscrowInv, E!Quorum
<1>8. ZamaInv'
  BY <1>1 DEF LedgerInv, ZamaInv
<1>9. canton.redeemed => canton.trade = "settled"
  BY <1>1, StageOrder
<1>10. CantonOK'
  <2>1. CASE dir = "CANCEL"
    <3>1. canton.mintAtts = 0 /\ canton.mint = "none" /\ zama.status = "Reserved"
      BY <1>1, <1>2, <2>1 DEF LedgerInv, CantonInv, Minting, CirculationBacked, ExposureCoversValue
    <3> QED BY <1>1, <1>2, <1>5, <2>1, <3>1 DEF LedgerInv, CantonOK, CantonInv, Minting, Final,
           CirculationBacked, ReleaseAfterBurn, ExposureCoversValue
  <2>2. CASE dir = "RELEASE" /\ canton.redeemed
    BY <1>1, <1>2, <1>5, <1>9, <2>2 DEF LedgerInv, CantonOK, CantonInv, Minting, Final,
       CirculationBacked, ReleaseAfterBurn, ExposureCoversValue
  <2> QED BY <2>1, <2>2
<1>11. Forward
  BY <1>1, <1>2, <1>5, <1>6 DEF Forward, CantonForward, Minting, Final
<1>12. MintApprovalResumable'
  BY <1>4 DEF CInv, MintApprovalResumable, E!Directions
<1>13. OneMove
  BY <1>2, <1>5 DEF OneMove, ReceiptMove
<1> QED BY <1>5, <1>7, <1>8, <1>10, <1>11, <1>12, <1>13 DEF Landed, LedgerInv, CantonOK

(* The risk engine: a late call finds the receipt as far as it relies on.  *)
LEMMA ZamaLands ==
  ASSUME CInv, NEW call, ZamaCall(call),
         call = "finalize" => canton.mint # "none",
         call = "cancel" => Status = "CANCELLED",
         call = "redeem" => Status = "RELEASED" /\ applied,
         UNCHANGED <<escrow, canton, applied, journal>>
  PROVE  /\ Landed
         /\ call = "finalize" => Final'
         /\ call = "redeem" => zama'.status = "Redeemed"
         /\ call = "cancel" => zama'.status = "Cancelled"
<1>1. LedgerInv /\ ZamaInv
  BY DEF CInv, LedgerInv
<1>2. /\ DOMAIN zama' = {"status", "approved"} /\ zama'.approved \in BOOLEAN
      /\ \/ /\ call = "reserve" /\ zama.status = "Empty" /\ zama'.status = "Reserved"
            /\ ~zama.approved
         \/ /\ zama'.approved = zama.approved
            /\ \/ call = "finalize" /\ zama.status = "Reserved" /\ zama'.status = "Finalized"
               \/ call = "cancel" /\ zama.status = "Reserved" /\ zama'.status = "Cancelled"
               \/ call = "redeem" /\ zama.status = "Finalized" /\ zama'.status = "Redeemed"
  BY <1>1 DEF ZamaCall, ZamaInv
<1>3. ZamaInv'
  BY <1>1, <1>2 DEF ZamaInv
<1>4. EscrowInv'
  BY <1>1 DEF LedgerInv, EscrowInv, Minting, Status, escrow
<1>5. CantonOK'
  BY <1>1, <1>2 DEF LedgerInv, CantonOK, CantonInv, Minting, Final, Status, escrow,
     CirculationBacked, ReleaseAfterBurn, ExposureCoversValue
<1>6. Forward
  BY <1>1, <1>2 DEF Forward, CantonForward, Minting, Final, Status, escrow
<1>7. MintApprovalResumable'
  BY DEF CInv, MintApprovalResumable, escrow
<1>8. OneMove
  BY <1>2 DEF OneMove, ZamaMove, escrow
<1> QED BY <1>2, <1>3, <1>4, <1>5, <1>6, <1>7, <1>8 DEF Landed, LedgerInv, CantonOK, Final

(* Any transaction that may land leaves the ledgers in order.              *)
LEMMA ExecuteLands ==
  ASSUME CInv, NEW tx, TxOK(tx, journal.lockProof), Execute(tx),
         UNCHANGED <<canton, applied, journal>>
  PROVE  /\ Landed
         /\ tx.kind = "lock" => receipt'[Op] # E!NoReceipt
         /\ tx.kind = "move" /\ tx.dir = "CANCEL" => Status' = "CANCELLED"
         /\ tx.kind = "zama" /\ tx.call = "finalize" => Final'
         /\ tx.kind = "zama" /\ tx.call = "redeem" => zama'.status = "Redeemed"
         /\ tx.kind = "zama" /\ tx.call = "cancel" => zama'.status = "Cancelled"
<1>1. CASE tx.kind = "lock"
  BY <1>1, LockLands DEF Execute, TxOK
<1>2. CASE tx.kind = "approve"
  BY <1>2, ApproveLands DEF Execute, TxOK
<1>3. CASE tx.kind = "move"
  BY <1>3, MoveLands DEF Execute, TxOK
<1>4. CASE tx.kind = "zama"
  BY <1>4, ZamaLands DEF Execute, TxOK
<1> QED BY <1>1, <1>2, <1>3, <1>4 DEF Execute

(* wait_confirmed: the awaited transaction lands.                          *)
LEMMA LandInv ==
  ASSUME CInv, Land PROVE CInv'
<1>1. /\ Running /\ ProcInv(proc, journal.lockProof) /\ proc.wait = "pending"
      /\ journal' = journal /\ stray' = stray
  BY DEF CInv, Land, environment
<1>2. TxOK(proc.tx, journal.lockProof)
  BY <1>1 DEF ProcInv, WaitInv
<1>3. /\ Landed /\ Forward
      /\ proc.tx.kind = "lock" => receipt'[Op] # E!NoReceipt
      /\ proc.tx.kind = "move" /\ proc.tx.dir = "CANCEL" => Status' = "CANCELLED"
      /\ proc.tx.kind = "zama" /\ proc.tx.call = "finalize" => Final'
      /\ proc.tx.kind = "zama" /\ proc.tx.call = "redeem" => zama'.status = "Redeemed"
      /\ proc.tx.kind = "zama" /\ proc.tx.call = "cancel" => zama'.status = "Cancelled"
  BY <1>2, ExecuteLands DEF Land, Landed
<1>4. /\ DOMAIN proc' = Fields /\ proc'.pc = proc.pc /\ proc'.mem = proc.mem
      /\ proc'.job = proc.job /\ proc'.tx = proc.tx /\ proc'.wait = "ok"
  BY <1>1 DEF Land, ProcInv, Fields
<1>5. JournalInv(journal)' /\ JournalInv(proc.mem)' /\ Where(proc.pc)'
  BY <1>1, <1>3, <1>4, TruthStays, WhereStays DEF CInv, ProcInv, JournalInv
<1>6. JobInv(proc)'
  BY <1>1, <1>3, <1>4 DEF ProcInv, JobInv, Forward, CantonForward
<1>7. WaitInv(proc)'
  BY <1>1, <1>3, <1>4 DEF ProcInv, WaitInv, ZamaTx
<1>8. ProcInv(proc, journal.lockProof)'
  BY <1>1, <1>4, <1>5, <1>6, <1>7 DEF ProcInv
<1>9. (\A tx \in stray : TxOK(tx, journal.lockProof))'
  BY <1>1, <1>3, TxStays DEF CInv
<1> QED BY <1>3, <1>5, <1>8, <1>9 DEF CInv, Landed

(* A transaction of a process that is gone lands after all.                *)
LEMMA LandLateInv ==
  ASSUME CInv, LandLate PROVE CInv'
<1>1. PICK tx \in stray : Execute(tx) /\ stray' = stray \ {tx}
  BY DEF LandLate
<1>2. UNCHANGED <<canton, applied, journal, proc>> /\ TxOK(tx, journal.lockProof)
  BY <1>1 DEF LandLate, CInv
<1>3. Landed /\ Forward
  BY <1>1, <1>2, ExecuteLands DEF Landed
<1>4. JournalInv(journal)'
  BY <1>2, <1>3, TruthStays DEF CInv, JournalInv
<1>5. (Running => ProcInv(proc, journal.lockProof))'
  BY <1>2, <1>3, ProcStays DEF CInv, Running
<1>6. (\A t \in stray : TxOK(t, journal.lockProof))'
  BY <1>1, <1>2, <1>3, TxStays DEF CInv
<1> QED BY <1>3, <1>4, <1>5, <1>6 DEF CInv, Landed

(* Crashes, lost answers and retries leave only transactions behind that   *)
(* may land at any time, and a journal that may be resumed from.           *)
LEMMA FaultInv ==
  ASSUME CInv, Refuse \/ Lose \/ Crash \/ Retry PROVE CInv'
<1>1. /\ UNCHANGED <<ledgers, journal>> /\ (proc' = Idle \/ proc' = proc)
      /\ stray' \subseteq stray \/ (/\ Running /\ proc.wait = "pending"
                                    /\ stray' = stray \cup {proc.tx})
  BY DEF Refuse, Exit, Lose, Crash, Retry, environment
<1>2. LedgerInv' /\ Forward /\ MintApprovalResumable'
  <2>1. EscrowInv' /\ ZamaInv' /\ MintApprovalResumable'
    BY <1>1 DEF CInv, LedgerInv, EscrowInv, ZamaInv, Minting, Status, ledgers, escrow,
                MintApprovalResumable
  <2>2. CantonOK'
    BY <1>1 DEF CInv, LedgerInv, CantonOK, CantonInv, Minting, Final, Status, ledgers, escrow,
                CirculationBacked, ReleaseAfterBurn, ExposureCoversValue
  <2>3. Forward
    BY <1>1 DEF Forward, CantonForward, Minting, Final, Status, ledgers, escrow
  <2> QED BY <2>1, <2>2, <2>3 DEF LedgerInv, CantonOK
<1>3. JournalInv(journal)'
  BY <1>1, <1>2, TruthStays DEF CInv, JournalInv
<1>4. (Running => ProcInv(proc, journal.lockProof))'
  BY <1>1, <1>2, ProcStays DEF CInv, Running
<1>5. Running /\ proc.wait = "pending" => TxOK(proc.tx, journal.lockProof)
  BY DEF CInv, ProcInv, WaitInv
<1>6. (\A t \in stray : TxOK(t, journal.lockProof))'
  BY <1>1, <1>2, <1>5, TxStays DEF CInv
<1> QED BY <1>2, <1>3, <1>4, <1>6 DEF CInv

-----------------------------------------------------------------------------
(* The theorems *)

(* Before the first run the ledgers are empty and the journal is new.      *)
LEMMA InitInv == Init => CInv
<1> SUFFICES ASSUME Init PROVE CInv
  OBVIOUS
<1>1. /\ receipt = [op \in {Op} |-> E!NoReceipt]
      /\ approval = [op \in {Op} |-> [d \in E!Directions |-> E!NoApproval]]
      /\ Status = "NONE" /\ ~E!Quorum(approval[Op]["MINT"].signers)
  BY DEF Init, E!Init, Status, E!NoReceipt, E!NoApproval, E!Quorum, E!Directions
<1>2. EscrowInv /\ ZamaInv /\ MintApprovalResumable
  BY <1>1 DEF Init, EscrowInv, ZamaInv, MintApprovalResumable, E!Directions
<1>3. CantonOK
  BY <1>1 DEF Init, NewCanton, CantonOK, CantonInv, CantonFields, CirculationBacked,
     ReleaseAfterBurn, ExposureCoversValue, Minting, Final
<1>4. JournalInv(journal)
  BY DEF Init, NewJournal, JournalInv, JournalFields, Truthful
<1> QED BY <1>2, <1>3, <1>4 DEF Init, CInv, LedgerInv, CantonOK, Running

(* Every step of the coordinator, the network and the parties keeps it.    *)
LEMMA NextInv == CInv /\ [Next]_vars => CInv'
<1> SUFFICES ASSUME CInv, [Next]_vars PROVE CInv'
  OBVIOUS
<1>1. ASSUME NEW mode, NEW omit, Start(mode, omit) PROVE CInv'
  BY <1>1, StartInv
<1>2. CASE Reserve \/ Lock \/ MintApproval \/ ExpiryRecovery \/ SendApproval
           \/ ApprovalConfirmed \/ Approved
  BY <1>2, ReserveInv, LockInv, MintApprovalInv, SendApprovalInv, ApprovalConfirmedInv,
     ApprovedInv
<1>3. CASE CantonMint \/ Finalize \/ PrepareTrade \/ AttestEligibility \/ ProposeTrade
           \/ BindTrade \/ Reassign
  BY <1>3, CantonMintInv, FinalizeInv, PrepareTradeInv, AttestInv, TradeInv, ReassignInv
<1>4. CASE DecideSettle \/ AllocateTreasury \/ AllocatePayment \/ SettleTrade
           \/ RecordOutputs \/ Redeem
  BY <1>4, AllocateInv, SettleInv, RecordOutputsInv, RedeemInv
<1>5. CASE PrepareRelease \/ ReleaseApproval \/ Release \/ ApplyPending \/ ZamaRedeem
           \/ RecordCompleted \/ Cancel \/ CancelMove \/ ZamaCancel
  BY <1>5, PrepareReleaseInv, ReleaseInv, ApplyPendingInv, ZamaRedeemInv, RecordCompletedInv,
     CancelInv, CancelMoveInv, ZamaCancelInv
<1>6. CASE Land \/ LandLate \/ Refuse \/ Lose \/ Crash \/ Retry
  BY <1>6, LandInv, LandLateInv, FaultInv
<1>7. CASE SetUp \/ Tick \/ PartyMove
  BY <1>7, ClockInv, PartyMoveInv
<1>8. CASE UNCHANGED vars
  BY <1>8, QuietStep, OthersInv DEF vars, environment
<1> QED BY <1>1, <1>2, <1>3, <1>4, <1>5, <1>6, <1>7, <1>8 DEF Next, Coordinate

(* The invariant of the operation across the three ledgers.                *)
THEOREM Invariance == Spec => []CInv
BY InitInv, NextInv, PTL DEF Spec

(* Every Canton token is backed by a mint-authorized receipt, whichever    *)
(* transactions of dead processes land (workflow.rs run_full).             *)
THEOREM Backed == Spec => []CirculationBacked
<1>1. CInv => CirculationBacked
  BY DEF CInv, LedgerInv
<1> QED BY <1>1, Invariance, PTL

(* The vault pays out after the burn, and refund and mint exclude each     *)
(* other (release_once, cancel_locked_operation).                          *)
THEOREM PaidAfterBurn == Spec => []ReleaseAfterBurn
<1>1. CInv => ReleaseAfterBurn
  BY DEF CInv, LedgerInv
<1> QED BY <1>1, Invariance, PTL

(* The encrypted exposure brackets the value at risk (reserve_once,        *)
(* cancel_zama_if_reserved).                                               *)
THEOREM ExposureBrackets == Spec => []ExposureCoversValue
<1>1. CInv => ExposureCoversValue
  BY DEF CInv, LedgerInv
<1> QED BY <1>1, Invariance, PTL

(* Whatever crashed in between, a journal on disk claims only what has     *)
(* happened (journal.rs, halt).                                            *)
THEOREM JournalNeverLies == Spec => []JournalTruthful
<1>1. CInv => JournalTruthful
  <2> SUFFICES ASSUME CInv PROVE JournalTruthful
    OBVIOUS
  <2>1. journal.completed \in 0..13 /\ Truthful(journal.completed)
    BY DEF CInv, JournalInv
  <2>2. canton.mint = "spent" => canton.treasuryElig = 2 /\ canton.cashElig = 2
    BY DEF CInv, LedgerInv, CantonInv
  <2> QED BY <2>1, <2>2, RankValues DEF JournalTruthful, Truthful, Minting, Final
<1> QED BY <1>1, Invariance, PTL

(* Mint signatures on chain stay usable for a resumed run (lock_once,      *)
(* attesters_needed).                                                      *)
THEOREM MintResumes == Spec => []MintApprovalResumable
<1>1. CInv => MintApprovalResumable
  BY DEF CInv
<1> QED BY <1>1, Invariance, PTL

-----------------------------------------------------------------------------
(* The refinement of ValuePath *)

(* Canton mints and burns in different submissions.                        *)
CantonMove == CantonForward /\ (canton.mint # "none" \/ ~canton'.redeemed)

(* What a step other than a landing transaction does to the ledgers.       *)
OtherMove == /\ UNCHANGED <<receipt, zama>> /\ (applied => applied')
             /\ CantonMove

(* Every step moves Solana or Zama by one transaction, or Canton by one    *)
(* submission.                                                             *)
LEMMA NextMoves ==
  ASSUME CInv, [Next]_vars
  PROVE  \/ Forward /\ OneMove /\ canton' = canton
         \/ OtherMove
<1>1. LedgerInv /\ (canton.redeemed => canton.mint # "none")
  BY StageOrder DEF CInv
<1>2. ASSUME UNCHANGED <<receipt, zama, canton>>, applied' = applied \/ applied' = TRUE
      PROVE  OtherMove
  <2>1. applied => applied'
    BY <1>2
  <2> QED BY <1>1, <1>2, <2>1 DEF OtherMove, CantonMove, CantonForward
<1>3. CASE Land \/ LandLate
  <2>1. PICK tx : TxOK(tx, journal.lockProof) /\ Execute(tx)
    BY <1>3 DEF Land, LandLate, CInv, ProcInv, WaitInv
  <2> QED BY <1>3, <2>1, ExecuteLands DEF Land, LandLate, Landed
<1>4. ASSUME UNCHANGED <<escrow, zama, applied>>, CantonMove PROVE OtherMove
  BY <1>4 DEF OtherMove, escrow
<1> USE DEF Ledger
<1>5. ASSUME NEW mode, NEW omit, Start(mode, omit) PROVE OtherMove
  BY <1>2, <1>5 DEF Start, ledgers, escrow
<1>6. CASE Reserve \/ Lock \/ MintApproval \/ ExpiryRecovery \/ SendApproval
           \/ ApprovalConfirmed \/ Approved \/ Finalize \/ PrepareRelease \/ ReleaseApproval
           \/ Release \/ ZamaRedeem \/ RecordCompleted \/ Cancel \/ ZamaCancel
  BY <1>2, <1>6 DEF Reserve, Lock, MintApproval, ExpiryRecovery, SendApproval,
     ApprovalConfirmed, Approved, Finalize, PrepareRelease, ReleaseApproval,
     Release, ZamaRedeem, RecordCompleted, Cancel, ZamaCancel, ledgers, escrow
<1>7. CASE ApplyPending \/ CancelMove \/ Refuse \/ Lose \/ Crash \/ Retry \/ UNCHANGED vars
  BY <1>2, <1>7 DEF ApplyPending, CancelMove, Refuse, Lose, Crash, Retry, vars, ledgers, escrow
<1>8. CASE SetUp \/ Tick
  BY <1>2, <1>8 DEF SetUp, Tick, E!Initialize, E!Tick
<1>9. CASE CantonMint \/ PrepareTrade \/ AttestEligibility \/ ProposeTrade \/ BindTrade
  BY <1>1, <1>4, <1>9 DEF CantonMint, PrepareTrade, AttestEligibility, ProposeTrade, BindTrade,
     CantonMove, CantonForward, LedgerInv, CantonInv, CantonFields
<1>10. CASE Reassign \/ DecideSettle \/ AllocateTreasury \/ AllocatePayment \/ SettleTrade
            \/ RecordOutputs \/ Redeem \/ PartyMove
  BY <1>1, <1>4, <1>10 DEF Reassign, DecideSettle, AllocateTreasury, AllocatePayment,
     SettleTrade, RecordOutputs, Redeem, RedeemedOnLedger, PartyMove, CantonMove,
     CantonForward, LedgerInv, CantonInv, CantonFields
<1> QED BY <1>3, <1>5, <1>6, <1>7, <1>8, <1>9, <1>10 DEF Next, Coordinate

(* Nothing on the ledgers that a journal, a process or a transaction in    *)
(* flight relies on is ever taken back: reservations stay decided, closed  *)
(* receipts closed, minted and burned value minted and burned.             *)
THEOREM NothingTakenBack == Spec => [][Forward]_vars
<1>1. CInv /\ [Next]_vars => [Forward]_vars
  <2> SUFFICES ASSUME CInv, [Next]_vars PROVE Forward
    OBVIOUS
  <2> QED BY NextMoves DEF OtherMove, CantonMove, Forward, Minting, Final, Status
<1> QED BY <1>1, Invariance, PTL DEF Spec

(* A Solana or Zama transaction is a step of the route, or none.           *)
LEMMA TransactionOnRoute ==
  ASSUME CInv, CInv', OneMove, canton' = canton
  PROVE  [V!Next]_(V!vars)
<1> DEFINE Exposed == zama.approved /\ zama.status \in {"Reserved", "Finalized"}
<1>1. /\ LedgerInv /\ LedgerInv' /\ ZamaInv /\ ZamaInv'
      /\ receipt[Op] = E!NoReceipt => Status = "NONE"
      /\ receipt[Op] # E!NoReceipt => Status \in E!Statuses
  BY DEF CInv, LedgerInv, EscrowInv, Status, E!NoReceipt
<1>2. CASE Status' = Status /\ zama' = zama
  BY <1>2 DEF V!vars, ValueAt
<1>3. CASE Status = "NONE" /\ Status' = "LOCKED" /\ zama' = zama
  <2>1. receipt'[Op] # E!NoReceipt
    BY <1>3 DEF Status, E!NoReceipt
  <2>2. Exposed
    BY <1>1, <1>3, <2>1 DEF LedgerInv, ExposureCoversValue
  <2>3. canton.mint = "none" /\ ~canton.redeemed
    BY <1>1, <1>3, StageOrder DEF Minting
  <2>4. ValueAt = "source" /\ ValueAt' = "vault"
    BY <1>3, <2>3 DEF ValueAt
  <2> QED BY <1>3, <2>2, <2>4 DEF V!Next, V!Lock
<1>4. CASE Status = "LOCKED" /\ Status' \in {"MINT_AUTHORIZED", "CANCELLED"} /\ zama' = zama
  <2>1. canton.mint = "none" /\ ~canton.redeemed
    BY <1>1, <1>4, StageOrder DEF Minting
  <2>2. Exposed
    BY <1>1, <1>4 DEF LedgerInv, ExposureCoversValue, E!NoReceipt, Status
  <2>3. CASE Status' = "CANCELLED"
    <3>1. ValueAt = "vault" /\ ValueAt' = "refunded"
      BY <1>4, <2>1, <2>3 DEF ValueAt
    <3> QED BY <1>4, <2>2, <3>1 DEF V!Next, V!Move, V!Route
  <2>4. CASE Status' = "MINT_AUTHORIZED"
    BY <1>4, <2>1, <2>4 DEF ValueAt, V!vars
  <2> QED BY <1>4, <2>3, <2>4
<1>5. CASE Status = "MINT_AUTHORIZED" /\ Status' = "RELEASED" /\ canton.redeemed /\ zama' = zama
  <2>1. Exposed
    BY <1>1, <1>5 DEF LedgerInv, ExposureCoversValue, E!NoReceipt, Status
  <2>2. ValueAt = "burned" /\ ValueAt' = "paid"
    BY <1>5 DEF ValueAt
  <2> QED BY <1>5, <2>1, <2>2 DEF V!Next, V!Move, V!Route
<1>6. CASE ZamaMove /\ receipt' = receipt
  <2>1. ValueAt' = ValueAt /\ Status' = Status
    BY <1>6 DEF ValueAt, Status
  <2>2. CASE zama.status = "Empty" /\ zama'.status = "Reserved" /\ ~zama.approved
    <3>1. ValueAt = "source" /\ ~Exposed
      BY <1>1, <2>2 DEF ValueAt, LedgerInv, ExposureCoversValue
    <3>2. Exposed' = TRUE \/ Exposed' = FALSE
      BY <1>1 DEF ZamaInv
    <3> QED BY <2>1, <3>1, <3>2 DEF V!Next, V!Reserve, V!vars
  <2>3. CASE zama'.approved = zama.approved /\ zama.status = "Reserved"
             /\ zama'.status = "Finalized"
    BY <2>1, <2>3 DEF V!vars
  <2>4. CASE /\ zama'.approved = zama.approved
             /\ zama.status \in {"Reserved", "Finalized"}
             /\ zama'.status \in {"Cancelled", "Redeemed"}
             /\ Status \in {"CANCELLED", "RELEASED"}
    <3>1. zama.approved
      BY <1>1, <2>4 DEF LedgerInv, ExposureCoversValue
    <3>2. Exposed /\ Exposed' = FALSE
      BY <2>4, <3>1
    <3>3. ValueAt \in {"paid", "refunded"}
      BY <2>4 DEF ValueAt
    <3> QED BY <2>1, <3>2, <3>3 DEF V!Next, V!Free
  <2> QED BY <1>6, <2>2, <2>3, <2>4 DEF ZamaMove
<1> QED BY <1>2, <1>3, <1>4, <1>5, <1>6 DEF OneMove, ReceiptMove

(* A Canton submission is a step of the route, or none.                    *)
LEMMA SubmissionOnRoute ==
  ASSUME CInv, CInv', OtherMove
  PROVE  [V!Next]_(V!vars)
<1> DEFINE Exposed == zama.approved /\ zama.status \in {"Reserved", "Finalized"}
<1>1. /\ LedgerInv /\ LedgerInv' /\ UNCHANGED <<receipt, zama>> /\ Status' = Status
      /\ receipt[Op] = E!NoReceipt => Status = "NONE"
  BY DEF CInv, OtherMove, Status, E!NoReceipt
<1>2. /\ canton.mint # "none" => canton'.mint # "none"
      /\ canton.redeemed => canton'.redeemed
      /\ canton.mint # "none" \/ ~canton'.redeemed
  BY DEF OtherMove, CantonMove, CantonForward
<1>3. Status = "MINT_AUTHORIZED" => Exposed
  BY <1>1 DEF LedgerInv, ExposureCoversValue
<1>4. CASE canton.mint = "none" /\ canton'.mint # "none"
  <2>1. Status = "MINT_AUTHORIZED" /\ ~canton.redeemed /\ ~canton'.redeemed
    BY <1>1, <1>2, <1>4 DEF LedgerInv, CirculationBacked
  <2>2. ValueAt = "vault" /\ ValueAt' = "canton"
    BY <1>1, <1>4, <2>1 DEF ValueAt
  <2> QED BY <1>1, <1>3, <2>1, <2>2 DEF V!Next, V!Move, V!Route
<1>5. CASE ~canton.redeemed /\ canton'.redeemed
  <2>1. Status = "MINT_AUTHORIZED" /\ canton.mint # "none"
    BY <1>1, <1>2, <1>5 DEF LedgerInv, CirculationBacked
  <2>2. ValueAt = "canton" /\ ValueAt' = "burned"
    BY <1>1, <1>5, <2>1 DEF ValueAt
  <2> QED BY <1>1, <1>3, <2>1, <2>2 DEF V!Next, V!Move, V!Route
<1>6. CASE /\ canton.mint = "none" <=> canton'.mint = "none"
           /\ canton.redeemed <=> canton'.redeemed
  BY <1>1, <1>6 DEF ValueAt, V!vars
<1> QED BY <1>2, <1>4, <1>5, <1>6

(* The coordinator, the three ledgers and the network implement ValuePath: *)
(* the value is in one place at a time, takes one of the two routes and is *)
(* covered by the reservation, over every crash and late transaction.      *)
THEOREM ValuePathRefined == Spec => ValuePathImplemented
<1>1. Init => V!Init
  BY DEF Init, E!Init, V!Init, ValueAt, Status, E!NoReceipt
<1>2. CInv /\ CInv' /\ [Next]_vars => [V!Next]_(V!vars)
  BY NextMoves, TransactionOnRoute, SubmissionOnRoute
<1> QED BY <1>1, <1>2, Invariance, PTL DEF Spec, ValuePathImplemented, V!Spec

-----------------------------------------------------------------------------
(* Types, and the escrow under the coordinator *)

(* Release materials are missing, or a deadline and a proof.               *)
Materials == {NoMaterials} \cup [expiry : E!Times, proof : Proofs]

JournalType(j) == j \in Journals /\ j.release \in Materials

(* A release pays the payee; a refund, and the mint, name the source.      *)
DestOf(dir) == IF dir = "RELEASE" THEN "payee" ELSE "source"

JobType(job) ==
  /\ job.dir \in E!Directions /\ job.dest = DestOf(job.dir)
  /\ job.expiry \in E!Times /\ job.proof \in Proofs /\ job.todo \subseteq {1, 2}

(* What a transaction carries is what an instruction of the escrow takes;  *)
(* lockProof is the journal's, which is saved before a lock is sent.       *)
TxType(tx, lockProof) ==
  /\ tx.kind = "lock" => /\ tx.expiry \in E!Times /\ tx.proof \in Proofs
                         /\ lockProof # 0
  /\ tx.kind \in {"approve", "move"} =>
       /\ tx.dir \in E!Directions /\ tx.dest = DestOf(tx.dir)
       /\ tx.expiry \in E!Times /\ tx.proof \in Proofs
  /\ tx.kind = "approve" => tx.key \in {"A", "B", "C"}
  /\ tx.kind = "move" => tx.dir # "MINT"

ProcType(p, lockProof) ==
  /\ JournalType(p.mem) /\ p.wait \in {"none", "pending", "ok"}
  /\ p.pc = "releaseApprove" => p.mem.release # NoMaterials
  /\ ~Plain(p.pc) => JobType(p.job)
  /\ p.wait = "pending" => TxType(p.tx, lockProof)

(* The approvals on chain name the account their direction pays.           *)
RightDest ==
  \A d \in E!Directions :
    approval[Op][d] # E!NoApproval => approval[Op][d].digest.destination = DestOf(d)

TInv ==
  /\ now \in 0..Horizon /\ JournalType(journal) /\ RightDest
  /\ receipt[Op] # E!NoReceipt => journal.lockProof # 0
  /\ Running => ProcType(proc, journal.lockProof)
  /\ \A tx \in stray : TxType(tx, journal.lockProof)
  /\ faults \in 0..MaxFaults /\ IsFiniteSet(stray) /\ Cardinality(stray) <= faults

(* One more element adds at most one.                                      *)
LEMMA AddBound ==
  ASSUME NEW S, NEW x, NEW n \in Nat, IsFiniteSet(S), Cardinality(S) <= n
  PROVE  IsFiniteSet(S \cup {x}) /\ Cardinality(S \cup {x}) <= n + 1
<1>1. IsFiniteSet(S \cup {x}) /\ Cardinality(S) \in Nat
  BY FS_AddElement, FS_CardinalityType
<1>2. Cardinality(S \cup {x}) = IF x \in S THEN Cardinality(S) ELSE Cardinality(S) + 1
  BY FS_AddElement
<1> QED BY <1>1, <1>2

(* What a set of transactions carries is no more than the transactions.    *)
LEMMA ImageBound ==
  ASSUME NEW S, NEW T, NEW n \in Nat, IsFiniteSet(S), T \subseteq S, Cardinality(S) <= n
  PROVE  LET I == {tx.proof : tx \in T}
         IN  IsFiniteSet(I) /\ Cardinality(I) <= n
<1> DEFINE I == {tx.proof : tx \in T}
           f == [tx \in T |-> tx.proof]
<1>1. IsFiniteSet(T) /\ Cardinality(T) <= Cardinality(S)
  BY FS_Subset
<1>2. f \in [T -> I] /\ \A p \in I : \E tx \in T : f[tx] = p
  OBVIOUS
<1>3. f \in Surjection(T, I)
  BY <1>2 DEF Surjection
<1>4. IsFiniteSet(I) /\ Cardinality(I) <= Cardinality(T)
  <2> HIDE DEF f, I
  <2> QED BY <1>1, <1>3, FS_Surjection DEF ExistsSurjection
<1>5. Cardinality(I) \in Nat /\ Cardinality(T) \in Nat /\ Cardinality(S) \in Nat
  <2> HIDE DEF I
  <2> QED BY <1>1, <1>4, FS_CardinalityType
<1> QED BY <1>1, <1>4, <1>5

(* A fresh commitment exists: two are in the journal, one in each stray    *)
(* transaction, three in approvals and one in the receipt                  *)
(* (generate_transfer_proofs).                                             *)
LEMMA FreshExists == TInv => FreshProof \in Proofs
<1> SUFFICES ASSUME TInv PROVE FreshProof \in Proofs
  OBVIOUS
<1> DEFINE inFlight == {tx.proof : tx \in {t \in stray : t.kind # "zama"}}
           onChain  == {approval[Op][d].digest.proof :
                          d \in {d \in E!Directions : approval[Op][d] # E!NoApproval}}
           locked   == IF receipt[Op] = E!NoReceipt THEN {} ELSE {receipt[Op].lockProof}
           used     == {journal.lockProof, journal.release.proof} \cup inFlight
                         \cup onChain \cup locked
           cert(d)  == approval[Op][d].digest.proof
           U1 == inFlight \cup {journal.lockProof}
           U2 == U1 \cup {journal.release.proof}
           U3 == U2 \cup {cert("CANCEL")}
           U4 == U3 \cup {cert("RELEASE")}
           U5 == U4 \cup {cert("MINT")}
           U6 == U5 \cup {receipt[Op].lockProof}
<1>1. used \subseteq U6
  BY DEF E!Directions
<1>2. IsFiniteSet(inFlight) /\ Cardinality(inFlight) <= MaxFaults
  <2>1. IsFiniteSet(stray) /\ Cardinality(stray) <= MaxFaults /\ MaxFaults \in Nat
    BY CoordinatorAssumption, FS_CardinalityType DEF TInv
  <2> QED BY <2>1, ImageBound
<1> HIDE DEF inFlight
<1>3. IsFiniteSet(U6) /\ Cardinality(U6) <= MaxFaults + 6
  <2>0. MaxFaults \in Nat
    BY CoordinatorAssumption
  <2>1. PICK n1 \in Nat : n1 = MaxFaults + 1
    BY <2>0
  <2>2. PICK n2 \in Nat : n2 = MaxFaults + 2
    BY <2>0
  <2>3. PICK n3 \in Nat : n3 = MaxFaults + 3
    BY <2>0
  <2>4. PICK n4 \in Nat : n4 = MaxFaults + 4
    BY <2>0
  <2>5. PICK n5 \in Nat : n5 = MaxFaults + 5
    BY <2>0
  <2>6. PICK n6 \in Nat : n6 = MaxFaults + 6
    BY <2>0
  <2>11. IsFiniteSet(U1) /\ Cardinality(U1) <= MaxFaults + 1
    BY <2>0, <1>2, AddBound
  <2>21. Cardinality(U1) <= n1
    BY <2>0, <2>1, <2>11
  <2> HIDE DEF U1
  <2>12. IsFiniteSet(U2) /\ Cardinality(U2) <= n1 + 1
    BY <2>0, <2>11, <2>21, AddBound
  <2>22. Cardinality(U2) <= n2
    BY <2>0, <2>1, <2>2, <2>12
  <2> HIDE DEF U2
  <2>13. IsFiniteSet(U3) /\ Cardinality(U3) <= n2 + 1
    BY <2>0, <2>12, <2>22, AddBound
  <2>23. Cardinality(U3) <= n3
    BY <2>0, <2>2, <2>3, <2>13
  <2> HIDE DEF U3
  <2>14. IsFiniteSet(U4) /\ Cardinality(U4) <= n3 + 1
    BY <2>0, <2>13, <2>23, AddBound
  <2>24. Cardinality(U4) <= n4
    BY <2>0, <2>3, <2>4, <2>14
  <2> HIDE DEF U4
  <2>15. IsFiniteSet(U5) /\ Cardinality(U5) <= n4 + 1
    BY <2>0, <2>14, <2>24, AddBound
  <2>25. Cardinality(U5) <= n5
    BY <2>0, <2>4, <2>5, <2>15
  <2> HIDE DEF U5
  <2>16. IsFiniteSet(U6) /\ Cardinality(U6) <= n5 + 1
    BY <2>0, <2>15, <2>25, AddBound
  <2>26. Cardinality(U6) <= n6
    BY <2>0, <2>5, <2>6, <2>16
  <2> HIDE DEF U6
  <2> QED BY <2>6, <2>16, <2>26
<1> HIDE DEF U6
<1>4. ~(Proofs \subseteq U6)
  <2> SUFFICES ASSUME Proofs \subseteq U6 PROVE FALSE
    OBVIOUS
  <2>1. IsFiniteSet(Proofs) /\ Cardinality(Proofs) <= Cardinality(U6)
    BY <1>3, FS_Subset
  <2>2. Cardinality(Proofs) \in Nat /\ Cardinality(U6) \in Nat
    BY <1>3, <2>1, FS_CardinalityType
  <2> QED BY <1>3, <2>1, <2>2, CoordinatorAssumption
<1>5. \E p \in Proofs : p \notin used
  BY <1>1, <1>4
<1>6. FreshProof = CHOOSE p \in Proofs : p \notin used
  BY DEF FreshProof, inFlight
<1> HIDE DEF used
<1> QED BY <1>5, <1>6

(* The bounds of the clock and of the deadlines.                           *)
LEMMA TimeBounds ==
  /\ Horizon \in Nat /\ Latest \in Nat /\ MaxTime <= Horizon
  /\ \A t \in 0..Horizon : t \in E!Times /\ t + Window \in E!Times
  /\ E!Times = 0..Latest
<1>1. MaxTime \in Nat /\ Window \in Nat /\ MaxFaults + 2 \in Nat
  BY CoordinatorAssumption
<1>2. (MaxFaults + 2) * Window \in Nat
  BY <1>1
<1>3. PICK k \in Nat : k = (MaxFaults + 2) * Window
  BY <1>2
<1>4. Horizon = MaxTime + k
  BY <1>3 DEF Horizon
<1> QED BY <1>1, <1>3, <1>4 DEF Latest, E!Times

(* A journal field by field.                                               *)
LEMMA JournalTypeFields ==
  ASSUME NEW j
  PROVE  JournalType(j) <=>
           /\ j = [completed |-> j.completed, mintExpiry |-> j.mintExpiry,
                   lockProof |-> j.lockProof, release |-> j.release]
           /\ j.completed \in 0..13 /\ j.mintExpiry \in E!Times
           /\ j.lockProof \in Proofs \cup {0} /\ j.release \in Materials
<1>1. NoMaterials \in [expiry : 0..Latest, proof : Proofs \cup {0}]
  BY TimeBounds DEF NoMaterials
<1>2. Materials \subseteq [expiry : 0..Latest, proof : Proofs \cup {0}]
  BY <1>1, TimeBounds DEF Materials
<1> QED BY <1>2, TimeBounds DEF JournalType, Journals

(* A step of the coordinator leaves the clock, the receipt, the approvals, *)
(* the stray transactions and the fault count alone.                       *)
OwnStep == UNCHANGED <<now, receipt, approval, stray, faults>>

(* The lock proof in the file is kept, or replaced by a commitment.        *)
LEMMA TypeStep ==
  ASSUME TInv, OwnStep, JournalType(journal)',
         journal'.lockProof = journal.lockProof \/ journal'.lockProof # 0,
         (Running => ProcType(proc, journal.lockProof))'
  PROVE  TInv'
<1>1. receipt'[Op] # E!NoReceipt => journal'.lockProof # 0
  BY DEF TInv, OwnStep
<1>2. \A tx \in stray' : TxType(tx, journal'.lockProof)
  BY DEF TInv, OwnStep, TxType
<1>3. /\ now' \in 0..Horizon /\ faults' \in 0..MaxFaults
      /\ IsFiniteSet(stray') /\ Cardinality(stray') <= faults' /\ RightDest'
  BY DEF TInv, OwnStep, RightDest
<1> QED BY <1>1, <1>2, <1>3 DEF TInv

LEMMA ExitType ==
  ASSUME TInv, OwnStep, Exit PROVE TInv'
<1>1. JournalType(journal)' /\ journal'.lockProof = journal.lockProof
  BY DEF Exit, TInv
<1> QED BY <1>1, TypeStep DEF Exit, Running

(* What the process and the file have in common.                           *)
LEMMA Typed ==
  ASSUME CInv, TInv, Running
  PROVE  /\ DOMAIN proc = Fields /\ proc.mem.lockProof = journal.lockProof
         /\ JournalType(journal) /\ JournalType(proc.mem)
         /\ ProcType(proc, journal.lockProof)
BY DEF CInv, TInv, ProcInv, ProcType

LEMMA GotoType ==
  ASSUME CInv, TInv, OwnStep, Running, NEW pc, NEW mem, proc' = Goto(pc, mem),
         JournalType(mem), mem.lockProof = journal.lockProof,
         pc = "releaseApprove" => mem.release # NoMaterials,
         Plain(pc) \/ JobType(proc.job),
         journal' \in {journal, proc.mem, mem}
  PROVE  TInv'
<1>1. JournalType(journal') /\ journal'.lockProof = journal.lockProof
  BY Typed
<1>2. proc'.pc = pc /\ proc'.mem = mem /\ proc'.job = proc.job /\ proc'.wait = "none"
  BY Typed, GotoFields
<1>3. ProcType(proc', journal'.lockProof)
  BY <1>2 DEF ProcType
<1> QED BY <1>1, <1>3, TypeStep

LEMMA JumpType ==
  ASSUME CInv, TInv, OwnStep, Running, NEW pc, Jump(pc), pc # "releaseApprove",
         Plain(pc) \/ JobType(proc.job)
  PROVE  TInv'
<1>1. PICK mem : mem = proc.mem
  OBVIOUS
<1> QED BY <1>1, Typed, GotoType DEF Jump

(* A journal with a step noted is a journal.                               *)
LEMMA NotedType ==
  ASSUME NEW j, JournalType(j), NEW c \in 0..13
  PROVE  /\ JournalType([j EXCEPT !.completed = c])
         /\ [j EXCEPT !.completed = c].lockProof = j.lockProof
         /\ [j EXCEPT !.completed = c].release = j.release
<1>1. DOMAIN j = {"completed", "mintExpiry", "lockProof", "release"}
  BY DEF JournalType, Journals
<1>2. PICK n : n = [j EXCEPT !.completed = c]
  OBVIOUS
<1>3. /\ n = [completed |-> c, mintExpiry |-> j.mintExpiry, lockProof |-> j.lockProof,
              release |-> j.release]
  BY <1>1, <1>2, JournalTypeFields
<1>4. JournalType(n)
  BY <1>3, JournalTypeFields
<1> QED BY <1>2, <1>3, <1>4

LEMMA HaltType ==
  ASSUME CInv, TInv, OwnStep, Running, NEW step, NEW pc, NEW base,
         base \in {journal, proc.mem}, Halt(step, pc, base), Rank(step) \in 0..13,
         pc # "releaseApprove", Plain(pc) \/ JobType(proc.job)
  PROVE  TInv'
<1>1. PICK mem : mem = [proc.mem EXCEPT !.completed = Rank(step)]
  OBVIOUS
<1>2. JournalType(mem) /\ mem.lockProof = journal.lockProof
  BY <1>1, Typed, NotedType
<1>3. CASE Reached(step)
  BY <1>3, JumpType, GotoType, Typed DEF Halt
<1>4. CASE ~Reached(step)
  BY <1>1, <1>2, <1>4, GotoType, Typed DEF Halt
<1> QED BY <1>3, <1>4

LEMMA FinishType ==
  ASSUME CInv, TInv, OwnStep, Running, NEW step, NEW base,
         base \in {journal, proc.mem}, Finish(step, base), Rank(step) \in 0..13
  PROVE  TInv'
<1>1. PICK mem : mem = [proc.mem EXCEPT !.completed = Rank(step)]
  OBVIOUS
<1>2. JournalType(mem) /\ mem.lockProof = journal.lockProof
  BY <1>1, Typed, NotedType
<1>3. journal' \in {base, mem}
  BY <1>1 DEF Finish
<1>4. JournalType(journal') /\ journal'.lockProof = journal.lockProof
  BY <1>2, <1>3, Typed
<1> QED BY <1>4, TypeStep DEF Finish, Running

LEMMA SendType ==
  ASSUME CInv, TInv, OwnStep, Running, NEW tx, NEW mem, Send(tx, mem),
         JournalType(mem), mem.lockProof = journal.lockProof \/ mem.lockProof # 0,
         proc.pc = "releaseApprove" => mem.release # NoMaterials,
         TxType(tx, mem.lockProof)
  PROVE  TInv'
<1>1. /\ proc'.pc = proc.pc /\ proc'.mem = mem /\ proc'.job = proc.job
      /\ proc'.tx = tx /\ proc'.wait = "pending"
  BY Typed, SendFields
<1>2. /\ JournalType(journal') /\ journal'.lockProof = mem.lockProof
  BY Typed DEF Send
<1>3. ProcType(proc', journal'.lockProof)
  BY <1>1, <1>2, Typed DEF ProcType
<1> QED BY <1>2, <1>3, TypeStep

LEMMA BeginType ==
  ASSUME CInv, TInv, OwnStep, Running, NEW job, NEW refused,
         refused \in {"idle", "cancel"}, BeginApproval(job, refused),
         job.dir \in E!Directions, job.dest = DestOf(job.dir),
         job.expiry \in E!Times, job.proof \in Proofs
  PROVE  TInv'
<1>1. PICK needed : needed = AttestersNeeded(job, job.dir = "RELEASE")
  OBVIOUS
<1>2. needed = Refused \/ needed \subseteq {1, 2}
  BY <1>1 DEF AttestersNeeded
<1>3. CASE needed = Refused
  <2>1. Exit \/ Jump("cancel")
    BY <1>1, <1>3 DEF BeginApproval, Exit, Jump
  <2> QED BY <2>1, ExitType, JumpType DEF Plain
<1>4. CASE needed # Refused
  <2>1. PICK new : new = [dir |-> job.dir, dest |-> job.dest, expiry |-> job.expiry,
                          proof |-> job.proof, todo |-> needed]
    OBVIOUS
  <2>2. JobType(new)
    BY <1>2, <1>4, <2>1 DEF JobType
  <2>3. proc' = [Goto("approving", proc.mem) EXCEPT !.job = new] /\ journal' = journal
    BY <1>1, <1>4, <2>1 DEF BeginApproval
  <2>4. /\ proc'.pc = "approving" /\ proc'.mem = proc.mem /\ proc'.job = new
        /\ proc'.wait = "none"
    BY <2>3, Typed, JobFieldsSet
  <2>5. ProcType(proc', journal'.lockProof)
    BY <2>2, <2>3, <2>4, Typed DEF ProcType
  <2> QED BY <2>3, <2>5, Typed, TypeStep
<1> QED BY <1>3, <1>4

(* Steps that only move on: every branch ends, jumps or notes a step.      *)
PlainStep ==
  /\ Running /\ OwnStep
  /\ \/ Exit
     \/ \E pc : Jump(pc) /\ Plain(pc) /\ pc # "releaseApprove"
     \/ \E step, pc : \E base \in {journal, proc.mem} :
          /\ Halt(step, pc, base) /\ Rank(step) \in 1..13
          /\ Plain(pc) /\ pc # "releaseApprove"
     \/ \E step : \E base \in {journal, proc.mem} :
          Finish(step, base) /\ Rank(step) \in 1..13

LEMMA PlainType ==
  ASSUME CInv, TInv, PlainStep PROVE TInv'
<1>0. Running /\ OwnStep
  BY DEF PlainStep
<1>1. CASE Exit
  BY <1>0, <1>1, ExitType
<1>2. ASSUME NEW pc, Jump(pc), Plain(pc), pc # "releaseApprove" PROVE TInv'
  BY <1>0, <1>2, JumpType
<1>3. ASSUME NEW step, NEW pc, NEW base \in {journal, proc.mem}, Halt(step, pc, base),
             Rank(step) \in 1..13, Plain(pc), pc # "releaseApprove"
      PROVE  TInv'
  BY <1>0, <1>3, HaltType
<1>4. ASSUME NEW step, NEW base \in {journal, proc.mem}, Finish(step, base),
             Rank(step) \in 1..13
      PROVE  TInv'
  BY <1>0, <1>4, FinishType
<1> QED BY <1>1, <1>2, <1>3, <1>4 DEF PlainStep

(* Runtime.mint to DvpTrade_Settle and Gateway_Redeem: nothing is sent to  *)
(* Solana or Zama, and no deadline or commitment is chosen.                *)
LEMMA CantonType ==
  ASSUME CInv, TInv,
         \/ PrepareTrade \/ AttestEligibility \/ ProposeTrade \/ BindTrade \/ Reassign
         \/ DecideSettle \/ AllocateTreasury \/ AllocatePayment \/ SettleTrade
         \/ RecordOutputs \/ Redeem
  PROVE  TInv'
<1>1. CASE PrepareTrade \/ AttestEligibility \/ ProposeTrade \/ BindTrade \/ Reassign
  <2>1. PlainStep
    BY <1>1, RankValues DEF PrepareTrade, AttestEligibility, ProposeTrade, BindTrade, Reassign,
       At, Ledger, escrow, environment, PlainStep, OwnStep, Plain
  <2> QED BY <2>1, PlainType
<1>2. CASE DecideSettle \/ AllocateTreasury \/ AllocatePayment \/ SettleTrade
           \/ RecordOutputs \/ Redeem
  <2>1. PlainStep
    BY <1>2, RankValues DEF DecideSettle, AllocateTreasury, AllocatePayment, SettleTrade,
       RecordOutputs, Redeem, At, Ledger, escrow, environment, PlainStep, OwnStep, Plain
  <2> QED BY <2>1, PlainType
<1> QED BY <1>1, <1>2

(* A call to the risk engine carries nothing for Solana.                   *)
LEMMA ZamaSendType ==
  ASSUME CInv, TInv, OwnStep, Running, proc.pc # "releaseApprove", NEW call,
         Send(ZamaTx(call), proc.mem)
  PROVE  TInv'
<1>1. PICK tx : tx = ZamaTx(call)
  OBVIOUS
<1>2. tx.kind = "zama"
  BY <1>1 DEF ZamaTx
<1>3. TxType(tx, proc.mem.lockProof)
  BY <1>2 DEF TxType
<1>4. PICK mem : mem = proc.mem
  OBVIOUS
<1> QED BY <1>1, <1>3, <1>4, Typed, SendType

(* reserve_once, Runtime.mint, finalize, apply_pending, redeem, cancel on  *)
(* Zama, record_completed_operation.                                       *)
LEMMA QuietType ==
  ASSUME CInv, TInv,
         \/ Reserve \/ CantonMint \/ Finalize \/ ApplyPending \/ ZamaRedeem
         \/ RecordCompleted \/ ZamaCancel
  PROVE  TInv'
<1> USE DEF ledgers, escrow, environment, OwnStep
<1>1. CASE Reserve \/ Finalize
  <2>1. /\ PlainStep \/ \E call : Send(ZamaTx(call), proc.mem)
        /\ Running /\ OwnStep /\ proc.pc # "releaseApprove"
    BY <1>1, RankValues DEF Reserve, Finalize, At, Confirmed, PlainStep, Plain
  <2> QED BY <2>1, PlainType, ZamaSendType
<1>2. CASE ZamaRedeem
  <2>1. /\ PlainStep \/ \E call : Send(ZamaTx(call), proc.mem)
        /\ Running /\ OwnStep /\ proc.pc # "releaseApprove"
    BY <1>2, RankValues DEF ZamaRedeem, At, Confirmed, PlainStep, Plain
  <2> QED BY <2>1, PlainType, ZamaSendType
<1>3. CASE ApplyPending \/ RecordCompleted
  <2>1. PlainStep
    BY <1>3, RankValues DEF ApplyPending, RecordCompleted, At, PlainStep, Plain
  <2> QED BY <2>1, PlainType
<1>4. CASE CantonMint
  <2>1. PlainStep \/ (/\ Running /\ OwnStep /\ proc' = Goto("finalize", proc.mem)
                      /\ journal' = proc.mem)
    BY <1>4 DEF CantonMint, At, PlainStep, Plain, Ledger
  <2>2. PICK mem : mem = proc.mem
    OBVIOUS
  <2>3. Plain("finalize")
    BY DEF Plain
  <2> QED BY <2>1, <2>2, <2>3, PlainType, Typed, GotoType
<1>5. CASE ZamaCancel
  <2>1. /\ \/ PlainStep
           \/ \E call : Send(ZamaTx(call), proc.mem)
           \/ proc' = Idle /\ journal' = proc.mem
        /\ Running /\ OwnStep /\ proc.pc # "releaseApprove"
    BY <1>5, RankValues DEF ZamaCancel, At, Confirmed, PlainStep, Plain
  <2>2. CASE proc' = Idle /\ journal' = proc.mem
    BY <2>1, <2>2, Typed, TypeStep DEF Running
  <2> QED BY <2>1, <2>2, PlainType, ZamaSendType
<1> QED BY <1>1, <1>2, <1>3, <1>4, <1>5

(* lock_once: the commitment is saved before the lock is sent.             *)
LEMMA LockType ==
  ASSUME CInv, TInv, Lock PROVE TInv'
<1>0. Running /\ OwnStep /\ proc.pc = "lock"
  BY DEF Lock, At, Confirmed, ledgers, escrow, environment, OwnStep
<1> DEFINE after == IF proc.mode = "expiry" THEN "expire" ELSE "mint"
<1>1. Plain(after) /\ after # "releaseApprove"
  BY DEF Plain
<1> HIDE DEF after
<1>2. PICK seen : seen = [proc.mem EXCEPT !.completed =
                            IF Reached("Locked") THEN @ ELSE Rank("Locked")]
  OBVIOUS
<1>3. JournalType(seen) /\ seen.lockProof = journal.lockProof
  <2>1. PICK c : c = IF Reached("Locked") THEN proc.mem.completed ELSE Rank("Locked")
    OBVIOUS
  <2>2. c \in 0..13
    BY <1>0, <2>1, Typed, JournalTypeFields, RankValues
  <2>3. seen = [proc.mem EXCEPT !.completed = c]
    BY <1>2, <2>1
  <2> QED BY <1>0, <2>2, <2>3, Typed, NotedType
<1>4. PICK fresh : fresh = [proc.mem EXCEPT !.lockProof = FreshProof]
  OBVIOUS
<1>5. JournalType(fresh) /\ fresh.lockProof \in Proofs /\ fresh.mintExpiry \in E!Times
  <2>1. FreshProof \in Proofs
    BY FreshExists
  <2>2. JournalType(proc.mem)
    BY <1>0, Typed
  <2>3. fresh = [completed |-> proc.mem.completed, mintExpiry |-> proc.mem.mintExpiry,
                 lockProof |-> FreshProof, release |-> proc.mem.release]
    BY <1>4, <2>2, JournalTypeFields
  <2> QED BY <2>1, <2>2, <2>3, JournalTypeFields
<1>6. CASE proc' = Goto(after, seen) /\ journal' = journal
  BY <1>0, <1>1, <1>3, <1>6, GotoType
<1>7. CASE Send(LockTx(fresh.mintExpiry, fresh.lockProof), fresh)
  <2>1. PICK tx : tx = LockTx(fresh.mintExpiry, fresh.lockProof)
    OBVIOUS
  <2>2. fresh.lockProof # 0
    BY <1>5, CoordinatorAssumption
  <2>3. TxType(tx, fresh.lockProof)
    BY <1>5, <2>1, <2>2 DEF TxType, LockTx
  <2> QED BY <1>0, <1>5, <1>7, <2>1, <2>2, <2>3, SendType
<1>8. CASE proc' = Goto(after, proc.mem) /\ journal' = proc.mem
  <2>1. PICK mem : mem = proc.mem
    OBVIOUS
  <2> QED BY <1>0, <1>1, <1>8, <2>1, Typed, GotoType
<1>9. CASE Halt("Locked", after, proc.mem)
  BY <1>0, <1>1, <1>9, HaltType, RankValues
<1> QED BY <1>2, <1>4, <1>6, <1>7, <1>8, <1>9 DEF Lock, after

(* The mint approval signs the commitment of an existing lock.             *)
LEMMA MintApprovalType ==
  ASSUME CInv, TInv, MintApproval \/ ExpiryRecovery PROVE TInv'
<1>0. /\ Running /\ OwnStep /\ proc.pc \in {"mint", "expire"}
      /\ receipt[Op] # E!NoReceipt
  BY DEF MintApproval, ExpiryRecovery, At, ledgers, escrow, environment, OwnStep,
         CInv, ProcInv, Where
<1>1. PICK job : job = MintJob
  OBVIOUS
<1>2. /\ job.dir \in E!Directions /\ job.dest = DestOf(job.dir)
      /\ job.expiry \in E!Times /\ job.proof \in Proofs
  <2>1. JournalType(proc.mem) /\ proc.mem.lockProof # 0
    BY <1>0, Typed DEF TInv
  <2>2. proc.mem.mintExpiry \in E!Times /\ proc.mem.lockProof \in Proofs
    BY <2>1, JournalTypeFields
  <2> QED BY <1>1, <2>2 DEF MintJob, DestOf, E!Directions
<1>3. ASSUME NEW refused \in {"idle", "cancel"}, BeginApproval(MintJob, refused)
      PROVE  TInv'
  BY <1>0, <1>1, <1>2, <1>3, BeginType
<1>4. CASE Exit \/ Halt("MintApproved", "cantonMint", journal)
  <2>1. Plain("cantonMint") /\ Rank("MintApproved") \in 0..13
    BY RankValues DEF Plain
  <2> QED BY <1>0, <1>4, <2>1, ExitType, HaltType
<1> QED BY <1>3, <1>4 DEF MintApproval, ExpiryRecovery

(* The first of the attesters still missing.                               *)
LEMMA FirstMissing ==
  ASSUME NEW todo, todo \subseteq {1, 2}, todo # {}
  PROVE  (CHOOSE i \in todo : \A j \in todo : i <= j) \in {1, 2}
<1>1. \E i \in todo : \A j \in todo : i <= j
  <2>1. CASE 1 \in todo
    BY <2>1
  <2>2. CASE 1 \notin todo
    <3>1. 2 \in todo /\ \A j \in todo : j = 2
      BY <2>2
    <3> QED BY <3>1
  <2> QED BY <2>1, <2>2
<1>2. (CHOOSE i \in todo : \A j \in todo : i <= j) \in todo
  BY <1>1
<1> QED BY <1>2

LEMMA ApprovingType ==
  ASSUME CInv, TInv, SendApproval \/ ApprovalConfirmed \/ Approved PROVE TInv'
<1>0. /\ Running /\ OwnStep /\ proc.pc = "approving" /\ JobType(proc.job)
  BY DEF SendApproval, ApprovalConfirmed, Approved, At, Confirmed, ledgers, escrow,
         environment, OwnStep, TInv, ProcType, Plain
<1>1. CASE SendApproval
  <2>1. PICK i : i = CHOOSE h \in proc.job.todo : \A j \in proc.job.todo : h <= j
    OBVIOUS
  <2>2. i \in {1, 2}
    BY <1>0, <1>1, <2>1, FirstMissing DEF SendApproval, JobType
  <2>3. PICK key : key = Attesters[i]
    OBVIOUS
  <2>4. key \in {"A", "B", "C"}
    BY <2>2, <2>3 DEF Attesters
  <2>5. PICK tx : tx = ApproveTx(proc.job, key)
    OBVIOUS
  <2>6. TxType(tx, proc.mem.lockProof)
    BY <1>0, <2>4, <2>5 DEF TxType, ApproveTx, JobType
  <2>7. Send(tx, proc.mem)
    BY <1>1, <2>1, <2>3, <2>5 DEF SendApproval
  <2>8. PICK mem : mem = proc.mem
    OBVIOUS
  <2> QED BY <1>0, <2>6, <2>7, <2>8, Typed, SendType
<1>2. CASE ApprovalConfirmed
  <2>1. PICK i : /\ proc' = [Goto("approving", proc.mem) EXCEPT !.job.todo = @ \ {i}]
                 /\ journal' = journal
    BY <1>2 DEF ApprovalConfirmed
  <2>2. DOMAIN proc.job = JobFields
    BY <1>0 DEF CInv, ProcInv, JobInv
  <2>3. /\ proc'.pc = "approving" /\ proc'.mem = proc.mem /\ proc'.wait = "none"
        /\ proc'.job.dir = proc.job.dir /\ proc'.job.dest = proc.job.dest
        /\ proc'.job.expiry = proc.job.expiry /\ proc'.job.proof = proc.job.proof
        /\ proc'.job.todo = proc.job.todo \ {i}
    BY <1>0, <2>1, <2>2, Typed DEF Goto, Fields, JobFields
  <2>4. JobType(proc'.job)
    BY <1>0, <2>3 DEF JobType
  <2>5. ProcType(proc', journal'.lockProof)
    BY <1>0, <2>1, <2>3, <2>4, Typed DEF ProcType
  <2> QED BY <1>0, <2>1, <2>5, Typed, TypeStep
<1>3. CASE Approved
  <2>1. \/ Exit
        \/ Halt("MintApproved", "cantonMint", proc.mem)
        \/ Halt("ReleaseApproved", "releaseMove", journal)
        \/ Jump("cancelMove")
    BY <1>3 DEF Approved
  <2>2. Rank("MintApproved") \in 0..13 /\ Rank("ReleaseApproved") \in 0..13
    BY RankValues
  <2> QED BY <1>0, <2>1, <2>2, ExitType, HaltType, JumpType
<1> QED BY <1>1, <1>2, <1>3

(* release_once: fresh materials when there are none or stale ones.        *)
LEMMA PrepareReleaseType ==
  ASSUME CInv, TInv, PrepareRelease PROVE TInv'
<1>0. Running /\ OwnStep /\ JournalType(proc.mem)
  BY Typed DEF PrepareRelease, At, ledgers, escrow, environment, OwnStep
<1>1. PICK kept : kept = IF ShouldRefresh THEN [proc.mem EXCEPT !.release = NoMaterials]
                         ELSE proc.mem
  OBVIOUS
<1>2. PICK fresh : fresh = [kept EXCEPT !.release = ReleaseMaterials]
  OBVIOUS
<1>3. ASSUME NEW j, JournalType(j), NEW m \in Materials
      PROVE  LET n == [j EXCEPT !.release = m]
             IN  JournalType(n) /\ n.lockProof = j.lockProof /\ n.release = m
  <2>1. PICK n : n = [j EXCEPT !.release = m]
    OBVIOUS
  <2>2. n = [completed |-> j.completed, mintExpiry |-> j.mintExpiry,
             lockProof |-> j.lockProof, release |-> m]
    BY <1>3, <2>1, JournalTypeFields
  <2>3. JournalType(n)
    BY <1>3, <2>2, JournalTypeFields
  <2> QED BY <2>1, <2>2, <2>3
<1>4. JournalType(kept) /\ kept.lockProof = journal.lockProof
  <2>1. NoMaterials \in Materials
    BY DEF Materials
  <2> QED BY <1>0, <1>1, <1>3, <2>1, Typed
<1>5. JournalType(fresh) /\ fresh.lockProof = journal.lockProof /\ fresh.release # NoMaterials
  <2>1. PICK m : m = ReleaseMaterials
    OBVIOUS
  <2>2. FreshProof \in Proofs /\ now + Window \in E!Times
    BY FreshExists, TimeBounds DEF TInv
  <2>3. m = [expiry |-> now + Window, proof |-> FreshProof]
    BY <2>1 DEF ReleaseMaterials
  <2>4. m \in Materials
    BY <2>2, <2>3 DEF Materials
  <2>5. m # NoMaterials
    BY <2>2, <2>3, CoordinatorAssumption DEF NoMaterials
  <2> QED BY <1>2, <1>3, <1>4, <2>1, <2>4, <2>5
<1>6. CASE Exit \/ Jump("apply")
  BY <1>0, <1>6, ExitType, JumpType DEF Plain
<1>7. ASSUME NEW mem \in {kept, fresh}, mem.release # NoMaterials,
             proc' = Goto("releaseApprove", mem), journal' \in {journal, mem}
      PROVE  TInv'
  <2>1. Plain("releaseApprove")
    BY DEF Plain
  <2> QED BY <1>0, <1>4, <1>5, <1>7, <2>1, GotoType
<1>8. \/ Exit \/ Jump("apply")
      \/ proc' = Goto("releaseApprove", fresh) /\ journal' = fresh
      \/ /\ kept.release # NoMaterials
         /\ proc' = Goto("releaseApprove", kept) /\ journal' = journal
  BY <1>1, <1>2 DEF PrepareRelease
<1> QED BY <1>5, <1>6, <1>7, <1>8

(* A payout is sent with the job that was approved, never a mint job.      *)
LEMMA MoveType ==
  ASSUME CInv, TInv, OwnStep, Running, proc.pc \in {"releaseMove", "cancelMove"},
         Send(MoveTx(proc.job), proc.mem)
  PROVE  TInv'
<1>1. JobType(proc.job) /\ proc.job.dir # "MINT"
  BY DEF TInv, ProcType, Plain, CInv, ProcInv, JobInv
<1>2. PICK tx : tx = MoveTx(proc.job)
  OBVIOUS
<1>3. TxType(tx, proc.mem.lockProof)
  BY <1>1, <1>2 DEF TxType, MoveTx, JobType
<1>4. PICK mem : mem = proc.mem
  OBVIOUS
<1> QED BY <1>2, <1>3, <1>4, Typed, SendType

LEMMA PayoutType ==
  ASSUME CInv, TInv, ReleaseApproval \/ Release \/ Cancel \/ CancelMove PROVE TInv'
<1> USE DEF ledgers, escrow, environment, OwnStep
<1>1. CASE ReleaseApproval
  <2>0. Running /\ OwnStep /\ proc.pc = "releaseApprove"
    BY <1>1 DEF ReleaseApproval, At
  <2>1. PICK job : job = [dir |-> "RELEASE", dest |-> "payee",
                          expiry |-> proc.mem.release.expiry,
                          proof |-> proc.mem.release.proof]
    OBVIOUS
  <2>2. proc.mem.release \in Materials /\ proc.mem.release # NoMaterials
    BY <2>0 DEF TInv, ProcType, JournalType
  <2>3. proc.mem.release.expiry \in E!Times /\ proc.mem.release.proof \in Proofs
    BY <2>2 DEF Materials
  <2>4. /\ job.dir \in E!Directions /\ job.dest = DestOf(job.dir)
        /\ job.expiry \in E!Times /\ job.proof \in Proofs
    BY <2>1, <2>3 DEF DestOf, E!Directions
  <2>5. BeginApproval(job, "idle")
    BY <1>1, <2>1 DEF ReleaseApproval
  <2> QED BY <2>0, <2>4, <2>5, BeginType
<1>2. CASE Release
  BY <1>2, MoveType, ExitType, JumpType DEF Release, At, Confirmed, Plain
<1>3. CASE CancelMove
  BY <1>3, MoveType, JumpType DEF CancelMove, At, Confirmed, Plain
<1>4. CASE Cancel
  <2>0. Running /\ OwnStep
    BY <1>4 DEF Cancel, At
  <2>1. PICK job : job = [dir |-> "CANCEL", dest |-> "source",
                          expiry |-> now + Window, proof |-> FreshProof]
    OBVIOUS
  <2>2. FreshProof \in Proofs /\ now + Window \in E!Times
    BY FreshExists, TimeBounds DEF TInv
  <2>3. /\ job.dir \in E!Directions /\ job.dest = DestOf(job.dir)
        /\ job.expiry \in E!Times /\ job.proof \in Proofs
    BY <2>1, <2>2 DEF DestOf, E!Directions
  <2>4. BeginApproval(job, "idle") \/ Exit \/ Jump("zamaCancel")
    BY <1>4, <2>1 DEF Cancel
  <2>5. Plain("zamaCancel")
    BY DEF Plain
  <2> QED BY <2>0, <2>3, <2>4, <2>5, BeginType, ExitType, JumpType
<1> QED BY <1>1, <1>2, <1>3, <1>4

(* run_full up to the first external action: the deadline of the mint is   *)
(* fixed once, by the first run.                                           *)
LEMMA StartType ==
  ASSUME CInv, TInv, NEW mode, NEW omit, Start(mode, omit) PROVE TInv'
<1>0. OwnStep /\ JournalType(journal)
  BY DEF Start, ledgers, escrow, environment, OwnStep, TInv
<1>1. PICK expiry : expiry = IF journal.mintExpiry = 0 THEN now + Window
                             ELSE journal.mintExpiry
  OBVIOUS
<1>2. expiry \in E!Times
  BY <1>0, <1>1, TimeBounds, JournalTypeFields DEF TInv
<1>3. PICK opened : opened = [journal EXCEPT !.mintExpiry = IF @ = 0 THEN now + Window ELSE @]
  OBVIOUS
<1>4. opened = [completed |-> journal.completed, mintExpiry |-> expiry,
                lockProof |-> journal.lockProof, release |-> journal.release]
  BY <1>0, <1>1, <1>3, JournalTypeFields
<1>5. JournalType(opened) /\ opened.lockProof = journal.lockProof
  BY <1>0, <1>2, <1>4, JournalTypeFields
<1>6. PICK marked : marked = [opened EXCEPT !.completed = IF @ = 0 THEN 1 ELSE @]
  OBVIOUS
<1>7. JournalType(marked) /\ marked.lockProof = journal.lockProof
  <2>1. PICK c : c = IF opened.completed = 0 THEN 1 ELSE opened.completed
    OBVIOUS
  <2>2. c \in 0..13
    BY <1>5, <2>1, JournalTypeFields
  <2>3. marked = [opened EXCEPT !.completed = c]
    BY <1>6, <2>1
  <2> QED BY <1>5, <2>2, <2>3, NotedType
<1>8. /\ proc'.wait = "none" /\ proc'.mem \in {journal, marked}
      /\ proc'.pc \in {"record", "cancel", "reserve"}
      /\ journal' \in {journal, opened, marked}
  BY <1>3, <1>6 DEF Start
<1>9. ProcType(proc', journal'.lockProof)
  BY <1>0, <1>7, <1>8 DEF ProcType, Plain
<1> QED BY <1>0, <1>5, <1>7, <1>8, <1>9, TypeStep

(* The escrow step that a transaction is, with every argument in range.    *)
LEMMA ExecuteIsEscrowStep ==
  ASSUME NEW tx, NEW lockProof, TxType(tx, lockProof), Execute(tx)
  PROVE  [E!Next]_escrow
<1>1. Op \in {Op} /\ "terms" \in {"terms"} /\ "source" \in {"source", "payee"}
  OBVIOUS
<1>2. CASE tx.kind = "lock"
  <2>1. E!LockConfidential(Op, "source", "terms", tx.expiry, tx.proof)
    BY <1>2 DEF Execute
  <2> QED BY <1>1, <1>2, <2>1 DEF TxType, E!Next
<1>3. CASE tx.kind = "approve"
  <2>1. E!ApproveOperation(Op, tx.dir, tx.dest, "terms", tx.expiry, tx.proof, tx.key)
    BY <1>3 DEF Execute
  <2>2. tx.dest \in {"source", "payee"}
    BY <1>3 DEF TxType, DestOf
  <2> QED BY <1>1, <1>3, <2>1, <2>2 DEF TxType, E!Next
<1>4. CASE tx.kind = "move"
  <2>1. E!MoveVaultTokens(Op, tx.dir, tx.dest, "terms", tx.expiry, tx.proof)
    BY <1>4 DEF Execute
  <2>2. tx.dir = "CANCEL" \/ tx.dir = "RELEASE"
    BY <1>4 DEF TxType, E!Directions
  <2>3. \/ E!CancelConfidential(Op, tx.dest, "terms", tx.expiry, tx.proof)
        \/ E!ReleaseConfidential(Op, tx.dest, "terms", tx.expiry, tx.proof)
    BY <2>1, <2>2 DEF E!CancelConfidential, E!ReleaseConfidential
  <2>4. tx.dest \in {"source", "payee"}
    BY <1>4 DEF TxType, DestOf
  <2> QED BY <1>1, <1>4, <2>3, <2>4 DEF TxType, E!Next
<1>5. CASE tx.kind = "zama"
  BY <1>5 DEF Execute
<1> QED BY <1>2, <1>3, <1>4, <1>5 DEF Execute

(* What a landing transaction does to the facts of the type invariant.     *)
LEMMA ExecuteKeeps ==
  ASSUME NEW tx, NEW lockProof, TxType(tx, lockProof), Execute(tx), EscrowInv, RightDest,
         receipt[Op] # E!NoReceipt => lockProof # 0
  PROVE  now' = now /\ (receipt'[Op] # E!NoReceipt => lockProof # 0) /\ RightDest'
<1>1. CASE tx.kind = "lock"
  BY <1>1 DEF Execute, TxType, E!LockConfidential, RightDest
<1>2. CASE tx.kind = "approve"
  <2>1. now' = now /\ receipt[Op] # E!NoReceipt
    BY <1>2 DEF Execute, E!ApproveOperation, E!ApprovalAcceptable
  <2>2. PICK i : approval' = [approval EXCEPT ![Op][tx.dir] =
                   E!Signed(approval[Op][tx.dir], i,
                     E!OperationDigest(Op, tx.dir, tx.dest, "terms", tx.expiry, tx.proof))]
    BY <1>2 DEF Execute, E!ApproveOperation
  <2>3. PICK new : new = E!Signed(approval[Op][tx.dir], i,
                     E!OperationDigest(Op, tx.dir, tx.dest, "terms", tx.expiry, tx.proof))
    OBVIOUS
  <2>4. new.digest.destination = DestOf(tx.dir) /\ tx.dir \in E!Directions
    BY <1>2, <2>3 DEF E!Signed, E!OperationDigest, TxType
  <2>5. \A d \in E!Directions :
          approval'[Op][d] = IF d = tx.dir THEN new ELSE approval[Op][d]
    BY <2>2, <2>3, <2>4 DEF EscrowInv
  <2> QED BY <2>1, <2>4, <2>5 DEF RightDest
<1>3. CASE tx.kind = "move"
  <2>1. /\ now' = now /\ receipt[Op] # E!NoReceipt
        /\ approval' = [approval EXCEPT ![Op][tx.dir].consumed = TRUE]
        /\ E!Quorum(approval[Op][tx.dir].signers)
    BY <1>3 DEF Execute, E!MoveVaultTokens
  <2>2. tx.dir \in E!Directions
    BY <1>3 DEF TxType
  <2>3. approval[Op][tx.dir] # E!NoApproval
    BY <2>1 DEF E!Quorum, E!NoApproval
  <2>4. DOMAIN approval[Op][tx.dir] = ApprovalFields
    BY <2>2, <2>3 DEF EscrowInv
  <2>5. \A d \in E!Directions :
          /\ d # tx.dir => approval'[Op][d] = approval[Op][d]
          /\ d = tx.dir => approval'[Op][d].digest = approval[Op][d].digest
    BY <2>1, <2>2, <2>4 DEF EscrowInv, ApprovalFields
  <2> QED BY <2>1, <2>3, <2>5 DEF RightDest
<1>4. CASE tx.kind = "zama"
  BY <1>4 DEF Execute, escrow, RightDest
<1> QED BY <1>1, <1>2, <1>3, <1>4 DEF Execute

LEMMA LandType ==
  ASSUME CInv, TInv, Land \/ LandLate PROVE TInv'
<1>0. EscrowInv /\ IsFiniteSet(stray) /\ Cardinality(stray) <= faults
  BY DEF CInv, LedgerInv, TInv
<1>1. CASE Land
  <2>1. /\ Running /\ proc.wait = "pending" /\ Execute(proc.tx)
        /\ UNCHANGED <<journal, stray, faults>>
    BY <1>1 DEF Land, environment
  <2>2. /\ proc'.pc = proc.pc /\ proc'.mem = proc.mem /\ proc'.job = proc.job
        /\ proc'.wait = "ok"
    BY <1>1, <2>1, Typed DEF Land, Fields
  <2>3. now' = now /\ (receipt'[Op] # E!NoReceipt => journal.lockProof # 0) /\ RightDest'
    BY <1>0, <2>1, ExecuteKeeps DEF TInv, ProcType
  <2>4. ProcType(proc', journal'.lockProof)
    BY <2>1, <2>2, Typed DEF ProcType
  <2> QED BY <2>1, <2>3, <2>4 DEF TInv
<1>2. CASE LandLate
  <2>1. PICK tx \in stray : /\ Execute(tx) /\ stray' = stray \ {tx}
                            /\ UNCHANGED <<journal, proc, faults>>
    BY <1>2 DEF LandLate
  <2>2. now' = now /\ (receipt'[Op] # E!NoReceipt => journal.lockProof # 0) /\ RightDest'
    BY <1>0, <2>1, ExecuteKeeps DEF TInv
  <2>3. IsFiniteSet(stray') /\ Cardinality(stray') <= faults'
    <3>1. IsFiniteSet(stray') /\ Cardinality(stray') <= Cardinality(stray)
      BY <1>0, <2>1, FS_Subset
    <3>2. Cardinality(stray') \in Nat /\ Cardinality(stray) \in Nat /\ faults \in Nat
      BY <1>0, <3>1, FS_CardinalityType DEF TInv
    <3> QED BY <1>0, <2>1, <3>1, <3>2
  <2> QED BY <2>1, <2>2, <2>3 DEF TInv, Running
<1> QED BY <1>1, <1>2

(* A crash, a timeout or a retry leaves at most one transaction behind.    *)
LEMMA FaultType ==
  ASSUME CInv, TInv, Refuse \/ Lose \/ Crash \/ Retry PROVE TInv'
<1>0. /\ IsFiniteSet(stray) /\ Cardinality(stray) <= faults /\ faults \in Nat
      /\ MaxFaults \in Nat
  BY CoordinatorAssumption DEF TInv
<1>1. /\ UNCHANGED <<now, receipt, approval, journal>> /\ (proc' = Idle \/ proc' = proc)
  BY DEF Refuse, Exit, Lose, Crash, Retry, ledgers, escrow
<1>2. \/ /\ stray' \subseteq stray /\ faults' = faults
      \/ /\ stray' = stray /\ faults' = faults + 1 /\ faults < MaxFaults
      \/ /\ Running /\ proc.wait = "pending" /\ stray' = stray \cup {proc.tx}
         /\ faults' = faults + 1 /\ faults < MaxFaults
  BY DEF Refuse, Lose, Crash, Retry, environment
<1>3. faults' \in 0..MaxFaults
  BY <1>0, <1>2 DEF TInv
<1>4. \A tx \in stray' : TxType(tx, journal.lockProof)
  BY <1>2 DEF TInv, ProcType
<1>5. IsFiniteSet(stray') /\ Cardinality(stray') <= faults'
  <2>1. CASE stray' \subseteq stray /\ faults' \in {faults, faults + 1}
    <3>1. IsFiniteSet(stray') /\ Cardinality(stray') <= Cardinality(stray)
      BY <1>0, <2>1, FS_Subset
    <3>2. Cardinality(stray') \in Nat /\ Cardinality(stray) \in Nat
      BY <1>0, <3>1, FS_CardinalityType
    <3> QED BY <1>0, <2>1, <3>1, <3>2
  <2>2. CASE stray' = stray \cup {proc.tx} /\ faults' = faults + 1
    BY <1>0, <2>2, AddBound
  <2> QED BY <1>2, <2>1, <2>2
<1> QED BY <1>1, <1>3, <1>4, <1>5 DEF TInv, Running, RightDest

LEMMA OthersType ==
  ASSUME TInv, SetUp \/ Tick \/ PartyMove \/ UNCHANGED vars PROVE TInv'
<1>1. UNCHANGED <<receipt, approval, journal, proc, stray, faults>>
  BY DEF SetUp, Tick, PartyMove, E!Initialize, E!Tick, vars, ledgers, escrow, environment
<1>2. now' \in 0..Horizon
  <2>1. CASE Tick
    BY <2>1, TimeBounds, CoordinatorAssumption DEF Tick, E!Tick, TInv
  <2>2. CASE SetUp \/ PartyMove \/ UNCHANGED vars
    BY <2>2 DEF SetUp, PartyMove, E!Initialize, TInv, vars, ledgers, escrow
  <2> QED BY <2>1, <2>2
<1> QED BY <1>1, <1>2 DEF TInv, Running, RightDest

LEMMA NextType == CInv /\ TInv /\ [Next]_vars => TInv'
<1> SUFFICES ASSUME CInv, TInv, [Next]_vars PROVE TInv'
  OBVIOUS
<1>1. ASSUME NEW mode, NEW omit, Start(mode, omit) PROVE TInv'
  BY <1>1, StartType
<1>2. CASE Coordinate
  BY <1>2, QuietType, LockType, MintApprovalType, ApprovingType, CantonType,
     PrepareReleaseType, PayoutType DEF Coordinate
<1>3. CASE Land \/ LandLate \/ Refuse \/ Lose \/ Crash \/ Retry
  BY <1>3, LandType, FaultType
<1>4. CASE SetUp \/ Tick \/ PartyMove \/ UNCHANGED vars
  BY <1>4, OthersType
<1> QED BY <1>1, <1>2, <1>3, <1>4 DEF Next

LEMMA InitType == Init => TInv
<1> SUFFICES ASSUME Init PROVE TInv
  OBVIOUS
<1>1. receipt[Op] = E!NoReceipt /\ now = 0 /\ RightDest
  BY DEF Init, E!Init, RightDest
<1>2. JournalType(journal)
  <2>1. NoMaterials \in Materials
    BY DEF Materials
  <2> QED BY <2>1, TimeBounds, JournalTypeFields DEF Init, NewJournal
<1>3. faults \in 0..MaxFaults /\ IsFiniteSet(stray) /\ Cardinality(stray) <= faults
  BY FS_EmptySet, CoordinatorAssumption DEF Init
<1> QED BY <1>1, <1>2, <1>3, TimeBounds DEF Init, TInv, Running

LEMMA TypeInvariance == Spec => [](CInv /\ TInv)
BY InitInv, NextInv, InitType, NextType, PTL DEF Spec

(* The escrow program sees nothing but its own protocol.                   *)
LEMMA EscrowSteps == CInv /\ TInv /\ [Next]_vars => [E!Next]_E!vars
<1> SUFFICES ASSUME CInv, TInv, [Next]_vars PROVE [E!Next]_E!vars
  OBVIOUS
<1>1. CASE Land \/ LandLate
  <2>1. PICK tx : Execute(tx) /\ TxType(tx, journal.lockProof)
    BY <1>1 DEF Land, LandLate, TInv, ProcType
  <2>2. E!Next \/ UNCHANGED escrow
    BY <2>1, ExecuteIsEscrowStep
  <2> QED BY <2>2 DEF E!vars, escrow
<1>2. CASE SetUp
  <2>1. E!Initialize(Attesters)
    BY <1>2 DEF SetUp
  <2>2. Attesters \in [E!Indices -> {"A", "B", "C"}]
    BY DEF Attesters, E!Indices
  <2> QED BY <2>1, <2>2 DEF E!Next
<1>3. CASE Tick
  BY <1>3 DEF Tick, E!Next
<1>4. CASE Refuse \/ Lose \/ Crash \/ Retry \/ PartyMove \/ UNCHANGED vars
  BY <1>4 DEF Refuse, Lose, Crash, Retry, PartyMove, vars, ledgers, escrow, E!vars
<1>5. ASSUME NEW mode, NEW omit, Start(mode, omit) PROVE UNCHANGED E!vars
  BY <1>5 DEF Start, ledgers, escrow, E!vars
<1>6. CASE Coordinate
  <2> USE DEF ledgers, escrow, E!vars
  <2>1. CASE Reserve \/ Lock \/ MintApproval \/ ExpiryRecovery \/ SendApproval
             \/ ApprovalConfirmed \/ Approved \/ Finalize
    BY <2>1 DEF Reserve, Lock, MintApproval, ExpiryRecovery, SendApproval,
                ApprovalConfirmed, Approved, Finalize
  <2>2. CASE CantonMint \/ PrepareTrade \/ AttestEligibility \/ ProposeTrade
             \/ BindTrade \/ Reassign
    BY <2>2 DEF CantonMint, PrepareTrade, AttestEligibility, ProposeTrade, BindTrade,
                Reassign, Ledger
  <2>3. CASE DecideSettle \/ AllocateTreasury \/ AllocatePayment \/ SettleTrade
             \/ RecordOutputs \/ Redeem
    BY <2>3 DEF DecideSettle, AllocateTreasury, AllocatePayment, SettleTrade, RecordOutputs,
                Redeem, Ledger
  <2>4. CASE PrepareRelease \/ ReleaseApproval \/ Release \/ ApplyPending \/ ZamaRedeem
             \/ RecordCompleted \/ Cancel \/ CancelMove \/ ZamaCancel
    BY <2>4 DEF PrepareRelease, ReleaseApproval, Release, ApplyPending, ZamaRedeem,
                RecordCompleted, Cancel, CancelMove, ZamaCancel
  <2> QED BY <1>6, <2>1, <2>2, <2>3, <2>4 DEF Coordinate
<1> QED BY <1>1, <1>2, <1>3, <1>4, <1>5, <1>6 DEF Next

(* The coordinator, the operator who restarts it and the transactions that *)
(* land late drive the escrow program through its own instructions only,   *)
(* with well-formed arguments: what holds of the program whoever calls it  *)
(* holds of it here (relayer.rs, workflow.rs).                             *)
THEOREM EscrowEmbedded == Spec => E!Spec
<1>1. Init => E!Init
  BY DEF Init
<1> QED BY <1>1, EscrowSteps, TypeInvariance, PTL DEF Spec, E!Spec

-----------------------------------------------------------------------------
(* What the escrow guarantees on its own, under the coordinator *)

EP == INSTANCE EscrowProofs WITH Operations <- {Op}, Keys <- {"A", "B", "C"},
        Accounts <- {"source", "payee"}, Terms <- {"terms"}, MaxTime <- Latest

(* The escrow's assumption holds of the one operation.                     *)
LEMMA OneOperation == EP!EscrowAssumption
<1>1. <<Op>> \in Seq({Op}) /\ \A s \in {Op} : \E n \in 1..Len(<<Op>>) : <<Op>>[n] = s
  OBVIOUS
<1>2. EP!IsFiniteSet({Op})
  BY <1>1 DEF EP!IsFiniteSet
<1> QED BY <1>2, TimeBounds DEF EP!EscrowAssumption

(* The escrow that the coordinator drives is the one the escrow's theorems *)
(* are about.                                                              *)
LEMMA SameEscrow == E!Spec => EP!Spec
<1>1. E!Init => EP!Init
  BY DEF EP!Init, E!Init, EP!NoConfig, E!NoConfig, EP!NoReceipt, E!NoReceipt,
       EP!NoApproval, E!NoApproval, EP!Directions, E!Directions
<1>2. [E!Next]_E!vars => [EP!Next]_EP!vars
  BY DEF EP!Initialize, E!Initialize, EP!LockConfidential, E!LockConfidential,
       EP!ApproveOperation, E!ApproveOperation, EP!CancelConfidential,
       E!CancelConfidential, EP!ReleaseConfidential, E!ReleaseConfidential,
       EP!MoveVaultTokens, E!MoveVaultTokens, EP!Tick, E!Tick, EP!Next, E!Next,
       EP!vars, E!vars, EP!NoConfig, E!NoConfig, EP!NoReceipt, E!NoReceipt,
       EP!Directions, E!Directions, EP!Indices, E!Indices, EP!Times, E!Times,
       EP!ApprovalAcceptable, E!ApprovalAcceptable, EP!OperationDigest,
       E!OperationDigest, EP!Replaceable, E!Replaceable, EP!Signed, E!Signed,
       EP!AttesterIndex, E!AttesterIndex, EP!Quorum, E!Quorum, EP!Unexpired,
       E!Unexpired, EP!CancelPermitted, E!CancelPermitted, EP!ReleasePermitted,
       E!ReleasePermitted
<1> QED BY <1>1, <1>2, PTL DEF EP!Spec, E!Spec

(* Types of all of the coordinator's state, for any bounds: every deadline *)
(* is within one window of the clock, every commitment exists, and no more *)
(* transactions are forgotten than there were faults.                      *)
THEOREM TypeCorrect == Spec => []TypeOK
<1>1. EP!Spec => []EP!TypeOK
  BY EP!TypeCorrect, OneOperation DEF EP!EscrowAssumption
<1>2. EP!TypeOK => E!TypeOK
  BY DEF EP!TypeOK, E!TypeOK, EP!NoConfig, E!NoConfig, EP!Indices, E!Indices,
       EP!LockReceipt, E!LockReceipt, EP!Statuses, E!Statuses, EP!Times,
       E!Times, EP!NoReceipt, E!NoReceipt, EP!NoApproval, E!NoApproval,
       EP!OperationApproval, E!OperationApproval, EP!Directions, E!Directions,
       EP!Digests, E!Digests
<1>3. CInv /\ TInv /\ E!TypeOK => TypeOK
  BY DEF TypeOK, CInv, TInv, LedgerInv, ZamaInv, ProcType, JournalType
<1> QED BY <1>1, <1>2, <1>3, EscrowEmbedded, SameEscrow, TypeInvariance, PTL

(* Whatever the coordinator does, the vault holds exactly the open lock,   *)
(* a closed receipt is explained by the approval it consumed, and every    *)
(* approval is about its own receipt (lib.rs move_vault_tokens,            *)
(* approve_operation).                                                     *)
THEOREM EscrowStaysSound ==
  Spec => [](E!VaultBacked /\ E!TerminalIsApproved /\ E!RecordsCoherent)
<1>1. EP!Spec => []EP!VaultBacked
  BY EP!VaultIsBacked, OneOperation DEF EP!EscrowAssumption
<1>2. EP!Spec => []EP!TerminalIsApproved
  BY EP!TerminalIsExplained, OneOperation DEF EP!EscrowAssumption
<1>3. EP!Spec => []EP!RecordsCoherent
  BY EP!RecordsStayCoherent, OneOperation DEF EP!EscrowAssumption
<1>4. EP!VaultBacked => E!VaultBacked
  BY DEF EP!VaultBacked, E!VaultBacked, EP!Open, E!Open, EP!Cardinality,
         E!Cardinality
<1>5. EP!TerminalIsApproved => E!TerminalIsApproved
  BY DEF EP!TerminalIsApproved, E!TerminalIsApproved, EP!Directions,
         E!Directions, EP!Quorum, E!Quorum
<1>6. EP!RecordsCoherent => E!RecordsCoherent
  BY DEF EP!RecordsCoherent, E!RecordsCoherent, EP!Directions, E!Directions,
         EP!NoApproval, E!NoApproval, EP!NoReceipt, E!NoReceipt,
         EP!OperationDigest, E!OperationDigest
<1> QED BY <1>1, <1>2, <1>3, <1>4, <1>5, <1>6, EscrowEmbedded, SameEscrow, PTL

(* Nor does it make the program act on stale authority, reopen or rewrite  *)
(* a receipt, or count signatures on two digests together.                 *)
THEOREM EscrowStepsStaySound ==
  Spec => E!NoStaleAuthorization /\ E!ReceiptFinal /\ E!QuorumOnOneDigest
<1>1. EP!Spec => EP!NoStaleAuthorization
  BY EP!DeadlinesBind, OneOperation DEF EP!EscrowAssumption
<1>2. EP!Spec => EP!ReceiptFinal
  BY EP!ReceiptIsFinal, OneOperation DEF EP!EscrowAssumption
<1>3. EP!Spec => EP!QuorumOnOneDigest
  BY EP!SignaturesNeverMix, OneOperation DEF EP!EscrowAssumption
<1>4. EP!NoStaleAuthorization => E!NoStaleAuthorization
  BY DEF EP!NoStaleAuthorization, E!NoStaleAuthorization, EP!MintedInTime,
         E!MintedInTime, EP!PaidInTime, E!PaidInTime, EP!vars, E!vars
<1>5. EP!ReceiptFinal => E!ReceiptFinal
  BY DEF EP!ReceiptFinal, E!ReceiptFinal, EP!KeepsReceipt, E!KeepsReceipt,
         EP!NoReceipt, E!NoReceipt, EP!vars, E!vars
<1>6. EP!QuorumOnOneDigest => E!QuorumOnOneDigest
  BY DEF EP!QuorumOnOneDigest, E!QuorumOnOneDigest, EP!Directions,
         E!Directions, EP!Indices, E!Indices, EP!vars, E!vars
<1> QED BY <1>1, <1>2, <1>3, <1>4, <1>5, <1>6, EscrowEmbedded, SameEscrow, PTL

(* The vault of one operation, as a number.                                *)
LEMMA VaultOfOne ==
  ASSUME E!VaultBacked
  PROVE  vault = IF Status \in {"LOCKED", "MINT_AUTHORIZED"} THEN 1 ELSE 0
<1>1. CASE Status \in {"LOCKED", "MINT_AUTHORIZED"}
  <2>1. {op \in {Op} : E!Open(op)} = {Op}
    BY <1>1 DEF E!Open, Status
  <2>2. Cardinality({Op}) = 1
    BY FS_Singleton
  <2>3. E!Cardinality({Op}) = Cardinality({Op})
    BY DEF E!Cardinality, Cardinality
  <2> QED BY <1>1, <2>1, <2>2, <2>3 DEF E!VaultBacked
<1>2. CASE Status \notin {"LOCKED", "MINT_AUTHORIZED"}
  <2>1. {op \in {Op} : E!Open(op)} = {}
    BY <1>2 DEF E!Open, Status
  <2> QED BY <1>2, <2>1, FS_EmptySet DEF E!VaultBacked, E!Cardinality, Cardinality
<1> QED BY <1>1, <1>2

(* The Canton supply is in the vault until it is paid out, and an          *)
(* operation that ended leaves nothing there (prove_vault_unlocked).       *)
THEOREM SupplyIsHeld == Spec => []SupplyInVault
<1>1. CInv /\ E!VaultBacked => SupplyInVault
  <2> SUFFICES ASSUME CInv, E!VaultBacked PROVE SupplyInVault
    OBVIOUS
  <2>1. canton.mint # "none" => Status \in {"MINT_AUTHORIZED", "RELEASED"}
    BY DEF CInv, LedgerInv, CirculationBacked
  <2>2. journal.completed \in {12, 13} => Status \in {"RELEASED", "CANCELLED"}
    BY DEF CInv, JournalInv, Truthful
  <2> QED BY <2>1, <2>2, VaultOfOne DEF SupplyInVault
<1> QED BY <1>1, Invariance, EscrowStaysSound, PTL

(* Two attesters approved where the value went, for the account it went    *)
(* to: the payee of a release, the source of a refund (move_vault_tokens,  *)
(* release_once, cancel_locked_operation).                                 *)
THEOREM OutcomeIsApproved == Spec => []OutcomeApproved
<1>1. TInv /\ E!TerminalIsApproved => OutcomeApproved
  <2> SUFFICES ASSUME TInv, E!TerminalIsApproved PROVE OutcomeApproved
    OBVIOUS
  <2> DEFINE two(d) == \E i, j \in approval[Op][d].signers : i # j
  <2>1. /\ approval[Op]["CANCEL"].consumed <=> Status = "CANCELLED"
        /\ approval[Op]["RELEASE"].consumed <=> Status = "RELEASED"
        /\ \A d \in E!Directions : approval[Op][d].consumed => two(d)
        /\ Status \in {"MINT_AUTHORIZED", "RELEASED"} => two("MINT")
    BY DEF E!TerminalIsApproved, E!Quorum, Status
  <2>2. \A d \in E!Directions :
          two(d) => approval[Op][d].digest.destination = DestOf(d)
    BY DEF TInv, RightDest, E!NoApproval
  <2>3. "CANCEL" \in E!Directions /\ "RELEASE" \in E!Directions
    BY DEF E!Directions
  <2> QED BY <2>1, <2>2, <2>3 DEF OutcomeApproved, DestOf
<1> QED BY <1>1, TypeInvariance, EscrowStaysSound, PTL
====
