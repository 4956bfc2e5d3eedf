--------------------------- MODULE AccountsProofs ---------------------------
(***************************************************************************)
(* The bridge's accounts over any number of operations, amounts, attempts  *)
(* to provision them and crashes.                                          *)
(*                                                                         *)
(* The coordinator never adds to a balance: it claims that an account      *)
(* holds the amount of its own operation.  That is right because the whole *)
(* supply is always in one account (BalanceInv), every operation that ever *)
(* locked has the supply as its amount (ChainInv), and the files, the      *)
(* processes and the transactions of an operation name the same accounts   *)
(* and amount (DirInv, ProcInv, TxOK).  Until the one provisioning attempt *)
(* that configured the program has written its files, nobody else can      *)
(* start (FoundInv).                                                       *)
(*                                                                         *)
(* The second part is about the amounts themselves and their conversions.  *)
(***************************************************************************)
EXTENDS MCAccounts, WellFoundedInduction, SequenceTheorems, TLAPS

JournalFields == {"mint", "source", "refund", "payout", "amount", "completed"}
SecretsFields == {"mint", "source", "payout"}
ProcFields == {"pc", "mode", "durable", "mem", "keys", "step", "vault", "tx"}
BalanceFields == {"available", "decryptable", "pending", "counter", "version"}

Saved(d) == dir[d].journal # NoJournal
Blank == \A d \in Directories : ~Saved(d)
Value(t) == bal[t].available + bal[t].pending
Open(o) == receipt[o].status \in {"LOCKED", "MINT_AUTHORIZED"}
Spendable(o) == credit[o] = "available"

-----------------------------------------------------------------------------
(* The invariant *)

JournalOK(j) == /\ DOMAIN j = JournalFields
                /\ j.mint \in Nat \ {0} /\ j.amount \in Nat \ {0} /\ j.completed \in 0..5
                /\ j.source \in Endpoints
                /\ j.refund = j.source /\ j.payout = Other(j.source)

KeysFit(keys, j) == /\ DOMAIN keys = SecretsFields
                    /\ keys.mint = j.mint /\ keys.source = j.source /\ keys.payout = j.payout

SameAccounts(i, j) == /\ i.mint = j.mint /\ i.amount = j.amount
                      /\ i.source = j.source /\ i.payout = j.payout

DirInv ==
  /\ DOMAIN dir = Directories
  /\ \A d \in Directories :
       /\ DOMAIN dir[d] = {"journal", "secrets"}
       /\ Saved(d) => JournalOK(dir[d].journal) /\ dir[d].journal.mint = config
       /\ dir[d].secrets # NoSecrets => Saved(d) /\ KeysFit(dir[d].secrets, dir[d].journal)
  /\ Saved(Durable) => dir[Durable].journal.source = "a"

(* The whole supply is in one account, available or pending.               *)
BalanceInv ==
  /\ DOMAIN bal = Tokens
  /\ \A t \in Tokens : /\ DOMAIN bal[t] = BalanceFields
                       /\ bal[t].available \in Nat /\ bal[t].pending \in Nat
                       /\ bal[t].available = 0 \/ bal[t].pending = 0
  /\ DecryptableTruthful
  /\ bal["vault"].pending = 0
  /\ \A t, u \in Tokens : t # u => Value(t) = 0 \/ Value(u) = 0

(* What a receipt says of the files and the balances.                      *)
ReceiptInv(o) ==
  /\ DOMAIN receipt[o] = {"status", "from"}
  /\ receipt[o].status \in {"NONE", "LOCKED", "MINT_AUTHORIZED", "CANCELLED", "RELEASED"}
  /\ receipt[o].status # "NONE" =>
       /\ Saved(o) /\ receipt[o].from = dir[o].journal.source
       /\ \A t \in Tokens : Value(t) \in {0, dir[o].journal.amount}
  /\ Open(o) => bal["vault"].available # 0

(* Where the value of a closed operation is.                               *)
CreditInv(o) ==
  /\ credit[o] \in Endpoints => bal[credit[o]].pending # 0
  /\ receipt[o].status \notin {"RELEASED", "CANCELLED"} => credit[o] = "none"
  /\ receipt[o].status = "RELEASED" => credit[o] \in {dir[o].journal.payout, "available"}
  /\ receipt[o].status = "CANCELLED" =>
       /\ credit[o] \in {dir[o].journal.source, "available"}
       /\ Spendable(o) \/ o \in interrupted \/ At(o, "refund")

ChainInv ==
  /\ DOMAIN receipt = Operations /\ DOMAIN credit = Operations
  /\ \A o \in Operations : ReceiptInv(o) /\ CreditInv(o)
  /\ \A o, p \in Operations : Open(o) /\ Open(p) => o = p

(* What a completed step stands for.                                       *)
Claim(o, completed) ==
  /\ completed \in {3, 4} => receipt[o].status = "RELEASED" /\ Spendable(o)
  /\ completed = 5 => /\ receipt[o].status = "CANCELLED"
                      /\ Spendable(o) \/ o \in interrupted

(* A transaction speaks of its operation's recorded accounts and amount.   *)
TxOK(tx) ==
  /\ tx.op \in Operations /\ Saved(tx.op)
  /\ tx.amount = dir[tx.op].journal.amount
  /\ \/ /\ tx.kind = "lock" /\ tx.from = dir[tx.op].journal.source /\ tx.to = "vault"
        /\ tx.basis = tx.amount /\ tx.claim = tx.amount
     \/ tx.kind = "release" /\ tx.from = "vault" /\ tx.to = dir[tx.op].journal.payout
     \/ tx.kind = "cancel" /\ tx.from = "vault" /\ tx.to = dir[tx.op].journal.source

(* What a process must know at a program counter past provisioning.        *)
Knows(o, pc, completed) ==
  /\ pc \notin {"create", "durableJournal", "durableSecrets", "persistJournal"} => Saved(o)
  /\ pc \in {"reserve", "lock", "lockSent", "locked", "mint", "settle", "release",
             "releaseSent", "apply", "applied", "redeem", "redeemed"} => completed # 5
  /\ pc \in {"apply", "applied", "redeem", "redeemed"} => receipt[o].status = "RELEASED"
  /\ pc \in {"applied", "redeem", "redeemed"} => Spendable(o)
  /\ pc \in {"refund", "zamaCancel", "unlocked"} => receipt[o].status = "CANCELLED"
  /\ pc \in {"zamaCancel", "unlocked"} => Spendable(o) \/ o \in interrupted

(* What the process of an operation holds and knows.                       *)
ProcInv(o, p) ==
  /\ DOMAIN p = ProcFields
  /\ JournalOK(p.mem) /\ KeysFit(p.keys, p.mem) /\ Claim(o, p.mem.completed)
  /\ Saved(o) => SameAccounts(p.mem, dir[o].journal)
  /\ p.pc = "create" => /\ p.mem.source = "a" /\ p.tx = NoTx /\ p.step \in 1..9 /\ ~Saved(o)
                        /\ p.step >= 7 => p.mem.mint = config
  /\ p.pc # "create" => p.mem.mint = config
  /\ p.pc \in {"durableJournal", "durableSecrets"} => p.mem.source = "a"
  /\ p.pc = "durableSecrets" => Saved(Durable)
  /\ Knows(o, p.pc, p.mem.completed)
  /\ p.tx # NoTx =>
       /\ TxOK(p.tx) /\ p.tx.op = o
       /\ \/ p.pc = "lockSent" /\ p.tx.kind = "lock"
          \/ p.pc = "releaseSent" /\ p.tx.kind = "release"
          \/ p.pc = "cancelSent" /\ p.tx.kind = "cancel"

Early(o) == Running(o) => proc[o].pc = "create" /\ proc[o].step <= 6

Founding(o) == At(o, "create") /\ proc[o].step >= 7

(* Before the first file is written at most one attempt gets anywhere.     *)
FoundInv ==
  /\ config \in Nat /\ attempts \in Nat
  /\ config = 0 => /\ Blank /\ \A o \in Operations : Early(o)
                   /\ \A t \in Tokens : Value(t) = 0
  /\ \A o \in Operations : Founding(o) =>
       /\ Blank /\ config # 0
       /\ \A p \in Operations : p # o => Early(p)
       /\ proc[o].step <= 8 => \A t \in Tokens : Value(t) = 0
       /\ proc[o].step = 9 => bal["a"].pending = proc[o].mem.amount

AInv ==
  /\ DirInv /\ BalanceInv /\ ChainInv /\ FoundInv
  /\ \A o \in Operations : Saved(o) => Claim(o, dir[o].journal.completed)
  /\ DOMAIN proc = Operations
  /\ \A o \in Operations : Running(o) => ProcInv(o, proc[o])
  /\ \A tx \in stray : TxOK(tx) /\ (tx.kind = "cancel" => tx.op \in interrupted)

-----------------------------------------------------------------------------
(* What stays *)

(* The other endpoint.                                                     *)
LEMMA OtherValues == Other("a") = "b" /\ Other("b") = "a"
BY DEF Other, Endpoints

(* What files, processes and transactions rely on is not taken back.       *)
Keeps ==
  /\ config' = config
  /\ \A d \in Directories : Saved(d) => Saved(d)'
  /\ \A q \in Operations :
       /\ Saved(q) => SameAccounts(dir'[q].journal, dir[q].journal)
       /\ receipt[q].status \in {"RELEASED", "CANCELLED"}
            => receipt'[q].status = receipt[q].status
       /\ Spendable(q) => Spendable(q)'
  /\ interrupted \subseteq interrupted'

(* An operation has a directory, and so has the durable configuration.     *)
LEMMA DirectoryFacts ==
  /\ Operations \subseteq Directories /\ Durable \in Directories
  /\ \A o \in Operations : o # Durable
BY AccountsAssumption DEF Directories, Durable

(* A step completed stays completed (journal.rs completed).                *)
LEMMA ClaimStays ==
  ASSUME Keeps, NEW o \in Operations, NEW c, Claim(o, c) PROVE Claim(o, c)'
BY DEF Keeps, Claim

(* A transaction that fits its directory goes on fitting it.               *)
LEMMA TxStays ==
  ASSUME Keeps, NEW tx, TxOK(tx) PROVE TxOK(tx)'
BY DirectoryFacts DEF Keeps, TxOK, SameAccounts

(* A process keeps what it knows while others move, as nobody else writes  *)
(* to its directory.                                                       *)
LEMMA ProcStays ==
  ASSUME Keeps, NEW o \in Operations, dir'[o] = dir[o], NEW p, ProcInv(o, p)
  PROVE  ProcInv(o, p)'
<1>1. Claim(o, p.mem.completed)'
  BY ClaimStays DEF ProcInv
<1>2. p.tx # NoTx => TxOK(p.tx)'
  BY TxStays DEF ProcInv
<1>3. (Saved(o) <=> Saved(o)') /\ (Saved(Durable) => Saved(Durable)')
  BY DirectoryFacts DEF Saved, Keeps
<1>4. Knows(o, p.pc, p.mem.completed)'
  BY <1>3 DEF ProcInv, Knows, Keeps
<1> QED BY <1>1, <1>2, <1>3, <1>4 DEF ProcInv, Keeps

(* The step of one operation's process, seen by all the others.            *)
Frame(o) ==
  /\ \A q \in Operations : q # o => dir'[q] = dir[q]
  /\ DOMAIN proc' = Operations
  /\ \A q \in Operations : q # o => proc'[q] = proc[q]

(* The parts of the invariant that speak of files, chain and provisioning. *)
GlobalInv == DirInv /\ BalanceInv /\ ChainInv /\ FoundInv

(* A step of one process keeps the invariant when it keeps the global part *)
(* and what it writes to its own directory and process is right.           *)
LEMMA StepInv ==
  ASSUME AInv, NEW o \in Operations, Keeps, Frame(o), GlobalInv',
         proc'[o] = Idle \/ ProcInv(o, proc[o])',
         Saved(o)' => Claim(o, dir[o].journal.completed)',
         stray' = stray
  PROVE  AInv'
<1>1. \A q \in Operations : Saved(q)' => Claim(q, dir[q].journal.completed)'
  BY ClaimStays DEF AInv, Frame, Saved
<1>2. \A q \in Operations : Running(q)' => ProcInv(q, proc[q])'
  <2> SUFFICES ASSUME NEW q \in Operations, Running(q)', q # o PROVE ProcInv(q, proc[q])'
    BY DEF Running
  <2> QED BY ProcStays DEF AInv, Frame, Running
<1>3. (\A tx \in stray : TxOK(tx) /\ (tx.kind = "cancel" => tx.op \in interrupted))'
  BY TxStays DEF AInv, Keeps
<1> QED BY <1>1, <1>2, <1>3 DEF AInv, GlobalInv, Frame

(* A process past provisioning shows that the founding is over.            *)
LEMMA FoundStays ==
  ASSUME AInv, NEW o \in Operations, Running(o), proc[o].pc # "create",
         Keeps, Frame(o), attempts' = attempts,
         proc'[o] = Idle \/ proc'[o].pc # "create"
  PROVE  FoundInv'
<1>1. config # 0
  BY DEF AInv, ProcInv, JournalOK
<1>2. \A q \in Operations : ~Founding(q)
  BY DEF AInv, FoundInv, Founding, Early, At, Running
<1>3. \A q \in Operations : ~Founding(q)'
  BY <1>2 DEF Founding, Frame, At, Running
<1> QED BY <1>1, <1>3 DEF AInv, FoundInv, Keeps

(* The balances are the same, and nothing else changes that receipts and   *)
(* credits depend on.                                                      *)
LEMMA SameBalances ==
  ASSUME AInv, Keeps, UNCHANGED <<receipt, credit>>,
         DOMAIN bal' = Tokens, \A t \in Tokens : bal'[t] = bal[t],
         \A q \in Operations :
           At(q, "refund") => At(q, "refund")' \/ q \in interrupted' \/ Spendable(q)
  PROVE  BalanceInv' /\ ChainInv'
<1>1. "vault" \in Tokens /\ \A e \in Endpoints : e \in Tokens
  BY DEF Tokens
<1>2. \A t \in Tokens : Value(t)' = Value(t)
  BY DEF Value
<1>3. BalanceInv'
  BY <1>1, <1>2 DEF AInv, BalanceInv, DecryptableTruthful
<1>4. ASSUME NEW o \in Operations PROVE ReceiptInv(o)'
  <2>1. ReceiptInv(o) /\ (Saved(o) => Saved(o)' /\ SameAccounts(dir'[o].journal, dir[o].journal))
    BY DirectoryFacts DEF AInv, ChainInv, Keeps
  <2> QED BY <1>1, <1>2, <2>1 DEF ReceiptInv, Open, SameAccounts
<1>5. ASSUME NEW o \in Operations PROVE CreditInv(o)'
  <2>1. /\ CreditInv(o) /\ ReceiptInv(o)
        /\ Saved(o) => Saved(o)' /\ SameAccounts(dir'[o].journal, dir[o].journal)
        /\ interrupted \subseteq interrupted'
    BY DirectoryFacts DEF AInv, ChainInv, Keeps
  <2> QED BY <1>1, <2>1 DEF CreditInv, ReceiptInv, Spendable, SameAccounts
<1> QED BY <1>3, <1>4, <1>5 DEF AInv, ChainInv, Open

(* Nothing on chain changes that the balances or receipts depend on.       *)
LEMMA ChainStays ==
  ASSUME AInv, Keeps, UNCHANGED <<bal, receipt, credit>>,
         \A q \in Operations :
           At(q, "refund") => At(q, "refund")' \/ q \in interrupted' \/ Spendable(q)
  PROVE  BalanceInv' /\ ChainInv'
<1>1. DOMAIN bal' = Tokens
  BY DEF AInv, BalanceInv
<1> QED BY <1>1, SameBalances

(* A step that leaves the chain and the files alone.                       *)
LEMMA QuietInv ==
  ASSUME AInv, NEW o \in Operations, Running(o), proc[o].pc \notin {"create", "refund"},
         UNCHANGED <<config, bal, receipt, credit, dir>>, Unchanged, Frame(o),
         proc'[o] = Idle \/ (ProcInv(o, proc'[o]) /\ proc'[o].pc # "create")
  PROVE  AInv'
<1>1. Keeps
  BY DEF Keeps, Unchanged, Saved, SameAccounts, Spendable
<1>2. \A q \in Operations : At(q, "refund") => At(q, "refund")'
  BY DEF At, Frame, Running
<1>3. BalanceInv' /\ ChainInv'
  BY <1>1, <1>2, ChainStays
<1>4. DirInv'
  BY DEF AInv, DirInv, Saved
<1>5. FoundInv'
  BY <1>1, FoundStays DEF Unchanged
<1>6. proc'[o] = Idle \/ ProcInv(o, proc[o])'
  BY <1>1, ProcStays
<1>7. Saved(o)' => Claim(o, dir[o].journal.completed)'
  BY <1>1, ClaimStays DEF AInv, Saved
<1> QED BY <1>1, <1>3, <1>4, <1>5, <1>6, <1>7, StepInv DEF GlobalInv, Unchanged

(* Goto changes the program counter of one process and ends its waiting.   *)
LEMMA GotoFields ==
  ASSUME AInv, NEW o \in Operations, Running(o), NEW pc, Goto(o, pc)
  PROVE  /\ DOMAIN proc' = Operations
         /\ \A q \in Operations : q # o => proc'[q] = proc[q]
         /\ DOMAIN proc'[o] = ProcFields
         /\ proc'[o].pc = pc /\ proc'[o].tx = NoTx /\ proc'[o].mem = proc[o].mem
         /\ proc'[o].keys = proc[o].keys /\ proc'[o].step = proc[o].step
<1>1. DOMAIN proc = Operations /\ DOMAIN proc[o] = ProcFields
  BY DEF AInv, ProcInv
<1> QED BY <1>1 DEF ProcFields, Goto

(* Send changes the program counter and the transaction of one process.    *)
LEMMA SendFields ==
  ASSUME AInv, NEW o \in Operations, Running(o), NEW pc, NEW tx, Send(o, pc, tx)
  PROVE  /\ DOMAIN proc' = Operations
         /\ \A q \in Operations : q # o => proc'[q] = proc[q]
         /\ DOMAIN proc'[o] = ProcFields
         /\ proc'[o].pc = pc /\ proc'[o].tx = tx /\ proc'[o].mem = proc[o].mem
         /\ proc'[o].keys = proc[o].keys /\ proc'[o].step = proc[o].step
<1>1. DOMAIN proc = Operations /\ DOMAIN proc[o] = ProcFields
  BY DEF AInv, ProcInv
<1> QED BY <1>1 DEF ProcFields, Send

(* An error return drops one process.                                      *)
LEMMA ExitFields ==
  ASSUME AInv, NEW o \in Operations, Exit(o)
  PROVE  /\ DOMAIN proc' = Operations /\ proc'[o] = Idle
         /\ \A q \in Operations : q # o => proc'[q] = proc[q]
BY DEF AInv, Exit

(* Errors end a run without any other effect.                              *)
LEMMA ExitInv ==
  ASSUME AInv, NEW o \in Operations, Running(o), proc[o].pc \notin {"create", "refund"},
         UNCHANGED <<config, bal, receipt, credit, dir>>, Unchanged, Exit(o)
  PROVE  AInv'
BY QuietInv, ExitFields DEF Frame

(* A process moves on, waiting for nothing.                                *)
LEMMA GotoInv ==
  ASSUME AInv, NEW o \in Operations, Running(o), proc[o].pc \notin {"create", "refund"},
         UNCHANGED <<config, bal, receipt, credit, dir>>, Unchanged,
         NEW pc, pc \notin {"create", "durableJournal", "durableSecrets"},
         Goto(o, pc), Knows(o, pc, proc[o].mem.completed)
  PROVE  AInv'
<1>1. ProcInv(o, proc[o])
  BY DEF AInv
<1>2. /\ DOMAIN proc' = Operations
      /\ \A q \in Operations : q # o => proc'[q] = proc[q]
      /\ DOMAIN proc'[o] = ProcFields
      /\ proc'[o].pc = pc /\ proc'[o].tx = NoTx /\ proc'[o].mem = proc[o].mem
      /\ proc'[o].keys = proc[o].keys
  BY GotoFields
<1>3. ProcInv(o, proc'[o])
  BY <1>1, <1>2 DEF ProcInv
<1> QED BY <1>2, <1>3, QuietInv DEF Frame

(* A process hands a transaction over.                                     *)
LEMMA SendInv ==
  ASSUME AInv, NEW o \in Operations, Running(o), proc[o].pc \notin {"create", "refund"},
         UNCHANGED <<config, bal, receipt, credit, dir>>, Unchanged,
         NEW pc, NEW tx, Send(o, pc, tx), Knows(o, pc, proc[o].mem.completed),
         TxOK(tx), tx.op = o,
         \/ pc = "lockSent" /\ tx.kind = "lock"
         \/ pc = "releaseSent" /\ tx.kind = "release"
         \/ pc = "cancelSent" /\ tx.kind = "cancel"
  PROVE  AInv'
<1>1. ProcInv(o, proc[o])
  BY DEF AInv
<1>2. /\ DOMAIN proc' = Operations
      /\ \A q \in Operations : q # o => proc'[q] = proc[q]
      /\ DOMAIN proc'[o] = ProcFields
      /\ proc'[o].pc = pc /\ proc'[o].tx = tx /\ proc'[o].mem = proc[o].mem
      /\ proc'[o].keys = proc[o].keys
  BY SendFields
<1>3. ProcInv(o, proc'[o])
  BY <1>1, <1>2 DEF ProcInv
<1> QED BY <1>2, <1>3, QuietInv DEF Frame

(* max_completed changes nothing but the completed step, and never lowers  *)
(* it.                                                                     *)
LEMMA NotedFields ==
  ASSUME NEW j, JournalOK(j),
         NEW step \in {"Accounts", "Locked", "Released", "ZamaRedeemed", "Cancelled"}
  PROVE  /\ JournalOK(Noted(j, step)) /\ SameAccounts(Noted(j, step), j)
         /\ Noted(j, step).completed = IF j.completed < Rank[step] THEN Rank[step]
                                       ELSE j.completed
<1>1. Rank[step] \in 0..5
  BY DEF Rank
<1> QED BY <1>1 DEF Noted, JournalOK, JournalFields, SameAccounts

(* A step whose receipts stand and whose credits only become spendable.    *)
ChainKept == /\ config' = config /\ receipt' = receipt
             /\ \A q \in Operations : Spendable(q) => Spendable(q)'

(* halt writes the journal of its own directory and moves its own process. *)
LEMMA HaltFields ==
  ASSUME AInv, NEW o \in Operations, Running(o), Saved(o), ChainKept, Unchanged, NEW pc,
         NEW step \in {"Accounts", "Locked", "Released", "ZamaRedeemed", "Cancelled"},
         Halt(o, step, pc)
  PROVE  /\ Keeps /\ Frame(o) /\ DirInv'
         /\ dir'[o].journal = Noted(proc[o].mem, step)
         /\ \/ proc'[o] = Idle
            \/ /\ pc # "idle" /\ proc'[o].pc = pc /\ proc'[o].tx = NoTx
               /\ DOMAIN proc'[o] = ProcFields
               /\ proc'[o].mem = Noted(proc[o].mem, step) /\ proc'[o].keys = proc[o].keys
<1> DEFINE mem == Noted(proc[o].mem, step)
<1>1. /\ ProcInv(o, proc[o]) /\ DOMAIN proc = Operations /\ DirInv
      /\ o \in Directories /\ o # Durable
  BY DirectoryFacts DEF AInv
<1>2. JournalOK(mem) /\ SameAccounts(mem, proc[o].mem)
  BY <1>1, NotedFields DEF ProcInv
<1>3. /\ DOMAIN dir' = Directories /\ \A d \in Directories : d # o => dir'[d] = dir[d]
      /\ DOMAIN dir'[o] = {"journal", "secrets"}
      /\ dir'[o].journal = mem /\ dir'[o].secrets = dir[o].secrets
  BY <1>1 DEF DirInv, Halt, SaveJournal
<1>4. DOMAIN proc' = Operations /\ \A q \in Operations : q # o => proc'[q] = proc[q]
  BY <1>1 DEF Halt
<1>5. \/ proc'[o] = Idle
      \/ /\ pc # "idle" /\ proc'[o].pc = pc /\ proc'[o].tx = NoTx
         /\ DOMAIN proc'[o] = ProcFields
         /\ proc'[o].mem = mem /\ proc'[o].keys = proc[o].keys
  <2> DEFINE on == [proc[o] EXCEPT !.pc = pc, !.mem = mem, !.tx = NoTx]
  <2>1. PICK next \in IF pc = "idle" THEN {Idle} ELSE {on, Idle} :
          proc' = [proc EXCEPT ![o] = next]
    BY DEF Halt
  <2>2. proc'[o] = next
    BY <1>1, <2>1
  <2>3. DOMAIN proc[o] = ProcFields
    BY <1>1 DEF ProcInv
  <2>4. /\ DOMAIN on = ProcFields /\ on.pc = pc /\ on.tx = NoTx
        /\ on.mem = mem /\ on.keys = proc[o].keys
    BY <2>3 DEF ProcFields
  <2> HIDE DEF on, mem
  <2> QED BY <2>1, <2>2, <2>4
<1>6. Frame(o)
  BY <1>3, <1>4, DirectoryFacts DEF Frame
<1>7. mem # NoJournal
  BY <1>2 DEF JournalOK, NoJournal, JournalFields
<1> HIDE DEF mem
<1>8. SameAccounts(mem, dir[o].journal) /\ proc[o].mem.mint = dir[o].journal.mint
  BY <1>1, <1>2 DEF ProcInv, SameAccounts
<1>9. Keeps
  <2>1. \A d \in Directories :
          Saved(d) => Saved(d)' /\ SameAccounts(dir'[d].journal, dir[d].journal)
    BY <1>3, <1>7, <1>8 DEF Saved, SameAccounts
  <2> QED BY <2>1, DirectoryFacts DEF Keeps, ChainKept, Unchanged
<1>10. mem.mint = config /\ KeysFit(proc[o].keys, mem)
       /\ (dir[o].secrets # NoSecrets => KeysFit(dir[o].secrets, mem))
  BY <1>1, <1>2, <1>8 DEF ProcInv, DirInv, KeysFit, SameAccounts
<1>11. DirInv'
  BY <1>1, <1>2, <1>3, <1>7, <1>10, DirectoryFacts DEF DirInv, Saved, ChainKept
<1> QED BY <1>3, <1>5, <1>6, <1>9, <1>11 DEF mem

(* A step completed by a run past provisioning keeps the invariant when    *)
(* the chain shows what the step claims.                                   *)
LEMMA HaltInv ==
  ASSUME AInv, NEW o \in Operations, Running(o), Saved(o), proc[o].pc # "create",
         ChainKept, Unchanged, NEW pc,
         NEW step \in {"Accounts", "Locked", "Released", "ZamaRedeemed", "Cancelled"},
         Halt(o, step, pc), BalanceInv', ChainInv',
         NEW c, c = Noted(proc[o].mem, step).completed, Claim(o, c)',
         \/ pc = "idle"
         \/ /\ pc \notin {"create", "durableJournal", "durableSecrets"}
            /\ Knows(o, pc, c)'
  PROVE  AInv'
<1> DEFINE mem == Noted(proc[o].mem, step)
<1>1. /\ Keeps /\ Frame(o) /\ DirInv'
      /\ dir'[o].journal = mem
      /\ \/ proc'[o] = Idle
         \/ /\ pc # "idle" /\ proc'[o].pc = pc /\ proc'[o].tx = NoTx
            /\ DOMAIN proc'[o] = ProcFields
            /\ proc'[o].mem = mem /\ proc'[o].keys = proc[o].keys
  BY HaltFields
<1>2. ProcInv(o, proc[o]) /\ o \in Directories
  BY DirectoryFacts DEF AInv
<1>3. JournalOK(mem) /\ SameAccounts(mem, proc[o].mem) /\ mem.completed = c
  BY <1>2, NotedFields DEF ProcInv
<1>4. FoundInv'
  BY <1>1, FoundStays DEF Unchanged
<1>5. Saved(o)'
  BY <1>1, <1>2 DEF Keeps
<1>6. dir'[o].journal.completed = c
  BY <1>1
<1>7. Claim(o, dir[o].journal.completed)'
  BY <1>6
<1>8. proc'[o] = Idle \/ ProcInv(o, proc[o])'
  <2> SUFFICES ASSUME proc'[o] # Idle PROVE ProcInv(o, proc[o])'
    OBVIOUS
  <2>1. /\ pc # "idle" /\ proc'[o].pc = pc /\ proc'[o].tx = NoTx
        /\ DOMAIN proc'[o] = ProcFields
        /\ proc'[o].mem = mem /\ proc'[o].keys = proc[o].keys
    BY <1>1
  <2>2. KeysFit(proc[o].keys, mem) /\ mem.mint = config'
    BY <1>2, <1>3 DEF ProcInv, KeysFit, SameAccounts, ChainKept
  <2>3. SameAccounts(mem, dir'[o].journal)
    BY <1>1 DEF SameAccounts
  <2>4. proc'[o].mem.completed = c
    BY <1>3, <2>1
  <2>5. Claim(o, proc[o].mem.completed)'
    BY <2>4
  <2>6. Knows(o, proc[o].pc, proc[o].mem.completed)'
    BY <2>1, <2>4
  <2>7. JournalOK(proc'[o].mem) /\ KeysFit(proc'[o].keys, proc'[o].mem)
        /\ SameAccounts(proc'[o].mem, dir'[o].journal) /\ proc'[o].mem.mint = config'
    BY <1>3, <2>1, <2>2, <2>3
  <2> HIDE DEF mem
  <2> QED BY <2>1, <2>5, <2>6, <2>7 DEF ProcInv
<1> QED BY <1>1, <1>4, <1>5, <1>7, <1>8, StepInv DEF GlobalInv, Unchanged

(* The same when nothing else happens.                                     *)
LEMMA HaltQuietInv ==
  ASSUME AInv, NEW o \in Operations, Running(o), Saved(o),
         proc[o].pc \notin {"create", "refund"},
         UNCHANGED <<config, bal, receipt, credit>>, Unchanged, NEW pc,
         NEW step \in {"Accounts", "Locked", "Released", "ZamaRedeemed", "Cancelled"},
         Halt(o, step, pc),
         NEW c, c = Noted(proc[o].mem, step).completed, Claim(o, c),
         \/ pc = "idle"
         \/ /\ pc \notin {"create", "durableJournal", "durableSecrets"}
            /\ Knows(o, pc, c)
  PROVE  AInv'
<1>1. ChainKept
  BY DEF ChainKept, Spendable
<1>2. Keeps /\ Frame(o)
  BY <1>1, HaltFields
<1>3. BalanceInv' /\ ChainInv'
  <2>1. \A q \in Operations : At(q, "refund") => At(q, "refund")'
    BY <1>2 DEF At, Frame, Running
  <2> QED BY <1>2, <2>1, ChainStays
<1>4. Claim(o, c)'
  BY <1>2, ClaimStays
<1>5. pc # "idle" => Knows(o, pc, c)'
  BY <1>2, DirectoryFacts DEF Knows, Keeps
<1> QED BY <1>1, <1>3, <1>4, <1>5, HaltInv

-----------------------------------------------------------------------------
(* The steps of a run that leave the balances alone *)

(* Facts every running process gives.                                      *)
LEMMA RunFacts ==
  ASSUME AInv, NEW o \in Operations, Running(o)
  PROVE  /\ ProcInv(o, proc[o]) /\ ReceiptInv(o) /\ CreditInv(o) /\ BalanceInv
         /\ Claim(o, proc[o].mem.completed) /\ Knows(o, proc[o].pc, proc[o].mem.completed)
         /\ proc[o].mem.completed \in 0..5
         /\ Saved(o) => SameAccounts(proc[o].mem, dir[o].journal)
BY DEF AInv, ChainInv, ProcInv, JournalOK

(* The amount and accounts of a process are those of its transactions.     *)
LEMMA TransferFits ==
  ASSUME AInv, NEW o \in Operations, Running(o), Saved(o), NEW kind, NEW from, NEW to,
         \/ kind = "lock" /\ from = proc[o].mem.source /\ to = "vault" /\ ReadyToLock(o)
         \/ kind = "release" /\ from = "vault" /\ to = proc[o].mem.payout
         \/ kind = "cancel" /\ from = "vault" /\ to = proc[o].mem.source
  PROVE  LET tx == Transfer(kind, o, from, to, proc[o].mem.amount)
         IN  TxOK(tx) /\ tx.op = o /\ tx.kind = kind
<1> DEFINE tx == Transfer(kind, o, from, to, proc[o].mem.amount)
<1>1. /\ tx.kind = kind /\ tx.op = o /\ tx.from = from /\ tx.to = to
      /\ tx.amount = proc[o].mem.amount /\ tx.basis = bal[from].decryptable
      /\ tx.claim = bal[to].decryptable + proc[o].mem.amount
  BY DEF Transfer
<1>2. SameAccounts(proc[o].mem, dir[o].journal) /\ proc[o].mem.amount \in Nat
  BY RunFacts DEF ProcInv, JournalOK
<1>3. kind = "lock" => tx.basis = tx.amount /\ tx.claim = tx.amount
  BY <1>1, <1>2 DEF ReadyToLock
<1> HIDE DEF tx
<1> QED BY <1>1, <1>2, <1>3 DEF TxOK, SameAccounts, tx

(* Once it has its accounts a run goes one way or the other (workflow.rs). *)
LEMMA BeginInv == ASSUME AInv, NEW o \in Operations, Begin(o) PROVE AInv'
<1>1. Running(o) /\ proc[o].pc = "accounts" /\ Unchanged /\ UNCHANGED chain
  BY DEF Begin, At
<1>2. Saved(o) /\ Claim(o, proc[o].mem.completed) /\ proc[o].mem.completed \in 0..5
  BY <1>1, RunFacts DEF Knows
<1>3. PICK pc \in {"cancel", "reserve"} :
        /\ Halt(o, "Accounts", pc)
        /\ pc = "reserve" => proc[o].mem.completed # 5
  BY DEF Begin, Rank
<1>4. ASSUME NEW c, c = Noted(proc[o].mem, "Accounts").completed
      PROVE  Claim(o, c) /\ Knows(o, pc, c)
  <2>1. c = IF proc[o].mem.completed < 1 THEN 1 ELSE proc[o].mem.completed
    BY <1>1, <1>4, RunFacts, NotedFields DEF ProcInv, Rank
  <2>2. Claim(o, c)
    BY <1>2, <2>1 DEF Claim
  <2> QED BY <1>2, <1>3, <2>1, <2>2 DEF Knows
<1> QED BY <1>1, <1>2, <1>3, <1>4, HaltQuietInv DEF chain

(* reserve_once.                                                           *)
LEMMA ReserveInv == ASSUME AInv, NEW o \in Operations, Reserve(o) PROVE AInv'
<1>1. /\ Running(o) /\ proc[o].pc = "reserve" /\ Unchanged
      /\ UNCHANGED <<config, bal, receipt, credit, dir>>
  BY DEF Reserve, At
<1>2. Saved(o) /\ proc[o].mem.completed # 5
  BY <1>1, RunFacts DEF Knows
<1>3. CASE Exit(o)
  BY <1>1, <1>3, ExitInv
<1>4. ASSUME NEW pc \in {"record", "lock"}, Goto(o, pc) PROVE AInv'
  <2>1. Knows(o, pc, proc[o].mem.completed)
    BY <1>2 DEF Knows
  <2> QED BY <1>1, <1>4, <2>1, GotoInv
<1> QED BY <1>3, <1>4 DEF Reserve

(* lock_once: found locked, handed over or refused, or confirmed.          *)
LEMMA LockInv == ASSUME AInv, NEW o \in Operations, Lock(o) PROVE AInv'
<1> DEFINE mem == proc[o].mem
<1>1. /\ Running(o) /\ proc[o].pc \in {"lock", "locked"} /\ Unchanged /\ UNCHANGED chain
  BY DEF Lock, At
<1>2. Saved(o) /\ mem.completed # 5 /\ Claim(o, mem.completed) /\ mem.completed \in 0..5
  BY <1>1, RunFacts DEF Knows
<1>3. ASSUME NEW c, c = Noted(mem, "Locked").completed
      PROVE  Claim(o, c) /\ Knows(o, "mint", c)
  <2>1. c = IF mem.completed < 2 THEN 2 ELSE mem.completed
    BY <1>1, <1>3, RunFacts, NotedFields DEF ProcInv, Rank
  <2>2. Claim(o, c)
    BY <1>2, <2>1 DEF Claim
  <2> QED BY <1>2, <2>1, <2>2 DEF Knows
<1>4. CASE /\ proc[o].pc = "lock" /\ dir' = dir
           /\ proc' = [proc EXCEPT ![o].pc = "mint", ![o].mem = Noted(mem, "Locked")]
  <2>1. DOMAIN proc = Operations /\ ProcInv(o, proc[o])
    BY <1>1 DEF AInv
  <2>2. JournalOK(Noted(mem, "Locked")) /\ SameAccounts(Noted(mem, "Locked"), mem)
    BY <2>1, NotedFields DEF ProcInv
  <2>3. /\ DOMAIN proc' = Operations /\ \A q \in Operations : q # o => proc'[q] = proc[q]
        /\ DOMAIN proc'[o] = ProcFields /\ proc'[o].pc = "mint"
        /\ proc'[o].mem = Noted(mem, "Locked") /\ proc'[o].keys = proc[o].keys
        /\ proc'[o].tx = proc[o].tx
    BY <1>4, <2>1 DEF ProcInv, ProcFields
  <2>4. proc[o].tx = NoTx
    BY <1>4, <2>1 DEF ProcInv
  <2>5. PICK c : c = Noted(mem, "Locked").completed
    OBVIOUS
  <2>6. /\ Claim(o, proc'[o].mem.completed)
        /\ Knows(o, "mint", proc'[o].mem.completed)
    BY <1>3, <2>3, <2>5
  <2>7. /\ KeysFit(proc'[o].keys, proc'[o].mem) /\ proc'[o].mem.mint = config
        /\ SameAccounts(proc'[o].mem, dir[o].journal)
    BY <1>2, <1>4, <2>1, <2>2, <2>3 DEF ProcInv, KeysFit, SameAccounts
  <2>8. ProcInv(o, proc'[o])
    BY <2>2, <2>3, <2>4, <2>6, <2>7 DEF ProcInv
  <2> QED BY <1>1, <1>4, <2>3, <2>8, QuietInv DEF Frame, chain
<1>5. CASE /\ proc[o].pc = "lock" /\ dir' = dir /\ ReadyToLock(o)
           /\ Send(o, "lockSent", Transfer("lock", o, mem.source, "vault", mem.amount))
  <2>1. Knows(o, "lockSent", mem.completed)
    BY <1>2 DEF Knows
  <2>2. LET tx == Transfer("lock", o, mem.source, "vault", mem.amount)
        IN  TxOK(tx) /\ tx.op = o /\ tx.kind = "lock"
    BY <1>1, <1>2, <1>5, TransferFits
  <2> QED BY <1>1, <1>5, <2>1, <2>2, SendInv DEF chain
<1>6. CASE proc[o].pc = "lock" /\ dir' = dir /\ Exit(o)
  BY <1>1, <1>6, ExitInv DEF chain
<1>7. CASE proc[o].pc = "locked" /\ Halt(o, "Locked", "mint")
  BY <1>1, <1>2, <1>3, <1>7, HaltQuietInv DEF chain
<1> QED BY <1>4, <1>5, <1>6, <1>7 DEF Lock, At

(* release_once: a release found done is not submitted again.              *)
LEMMA ReleaseInv == ASSUME AInv, NEW o \in Operations, Release(o) PROVE AInv'
<1>1. Running(o) /\ proc[o].pc = "release" /\ Unchanged /\ UNCHANGED <<chain, dir>>
  BY DEF Release, At
<1>2. /\ Saved(o) /\ proc[o].mem.completed # 5 /\ Claim(o, proc[o].mem.completed)
      /\ proc[o].mem.completed \in 0..5
  BY <1>1, RunFacts DEF Knows
<1>3. CASE Send(o, "releaseSent",
                Transfer("release", o, "vault", proc[o].mem.payout, proc[o].mem.amount))
  <2>1. Knows(o, "releaseSent", proc[o].mem.completed)
    BY <1>2 DEF Knows
  <2>2. LET tx == Transfer("release", o, "vault", proc[o].mem.payout, proc[o].mem.amount)
        IN  TxOK(tx) /\ tx.op = o /\ tx.kind = "release"
    BY <1>1, <1>2, TransferFits
  <2> QED BY <1>1, <1>3, <2>1, <2>2, SendInv DEF chain
<1>4. CASE Goto(o, "apply") /\ (Reached(o, "Released") \/ receipt[o].status = "RELEASED")
  <2>1. receipt[o].status = "RELEASED"
    BY <1>2, <1>4 DEF Claim, Reached, Rank
  <2>2. Knows(o, "apply", proc[o].mem.completed)
    BY <1>2, <2>1 DEF Knows
  <2> QED BY <1>1, <1>4, <2>2, GotoInv DEF chain
<1> QED BY <1>3, <1>4 DEF Release

(* redeem_once, after a payout that was applied.                           *)
LEMMA RedeemInv == ASSUME AInv, NEW o \in Operations, Redeem(o) PROVE AInv'
<1>1. /\ Running(o) /\ proc[o].pc \in {"redeem", "redeemed"} /\ Unchanged
      /\ UNCHANGED <<config, bal, receipt, credit>>
  BY DEF Redeem, At
<1>2. /\ Saved(o) /\ proc[o].mem.completed # 5 /\ proc[o].mem.completed \in 0..5
      /\ receipt[o].status = "RELEASED" /\ Spendable(o)
  BY <1>1, RunFacts DEF Knows
<1>3. ASSUME NEW c, c = Noted(proc[o].mem, "ZamaRedeemed").completed PROVE Claim(o, c)
  <2>1. c = IF proc[o].mem.completed < 4 THEN 4 ELSE proc[o].mem.completed
    BY <1>1, <1>3, RunFacts, NotedFields DEF ProcInv, Rank
  <2> QED BY <1>2, <2>1 DEF Claim
<1>4. CASE Goto(o, "redeemed") /\ dir' = dir
  <2>1. Knows(o, "redeemed", proc[o].mem.completed)
    BY <1>2 DEF Knows
  <2> QED BY <1>1, <1>4, <2>1, GotoInv
<1>5. CASE Halt(o, "ZamaRedeemed", "idle")
  BY <1>1, <1>2, <1>3, <1>5, HaltQuietInv
<1> QED BY <1>4, <1>5 DEF Redeem

(* A credit that is pending shows in its endpoint's counter.               *)
LEMMA NothingPending ==
  ASSUME AInv, NEW o \in Operations, Running(o), Saved(o), receipt[o].status = "RELEASED",
         bal[proc[o].mem.payout].counter = 0
  PROVE  Spendable(o)
<1>1. /\ credit[o] \in {dir[o].journal.payout, "available"}
      /\ credit[o] \in Endpoints => bal[credit[o]].pending # 0
      /\ dir[o].journal.payout = proc[o].mem.payout
  BY RunFacts DEF CreditInv, SameAccounts
<1>2. proc[o].mem.payout \in Endpoints
  BY RunFacts, OtherValues DEF ProcInv, JournalOK, Endpoints
<1>3. bal[proc[o].mem.payout].pending = 0
  BY <1>2, RunFacts DEF BalanceInv, DecryptableTruthful, Tokens
<1> QED BY <1>1, <1>2, <1>3 DEF Spendable

(* completed_operation_decision.                                           *)
LEMMA RecordInv == ASSUME AInv, NEW o \in Operations, Record(o) PROVE AInv'
<1>1. Running(o) /\ proc[o].pc = "record" /\ Unchanged /\ UNCHANGED chain
  BY DEF Record, At
<1>2. Saved(o) /\ Claim(o, proc[o].mem.completed) /\ proc[o].mem.completed \in 0..5
  BY <1>1, RunFacts DEF Knows
<1>3. CASE /\ receipt[o].status = "RELEASED" /\ AppliedBefore(o)
           /\ Halt(o, "ZamaRedeemed", "idle")
  <2>1. Spendable(o)
    BY <1>1, <1>2, <1>3, NothingPending DEF AppliedBefore
  <2>2. ASSUME NEW c, c = Noted(proc[o].mem, "ZamaRedeemed").completed PROVE Claim(o, c)
    <3>1. c = IF proc[o].mem.completed < 4 THEN 4 ELSE proc[o].mem.completed
      BY <1>1, <2>2, RunFacts, NotedFields DEF ProcInv, Rank
    <3> QED BY <1>2, <1>3, <2>1, <3>1 DEF Claim
  <2> QED BY <1>1, <1>2, <1>3, <2>2, HaltQuietInv DEF chain
<1>4. CASE Exit(o) /\ dir' = dir
  BY <1>1, <1>4, ExitInv DEF chain
<1> QED BY <1>3, <1>4 DEF Record

(* cancel_locked_operation.                                                *)
LEMMA CancelInv == ASSUME AInv, NEW o \in Operations, Cancel(o) PROVE AInv'
<1>1. Running(o) /\ proc[o].pc = "cancel" /\ Unchanged /\ UNCHANGED <<chain, dir>>
  BY DEF Cancel, At
<1>2. Saved(o)
  BY <1>1, RunFacts DEF Knows
<1>3. CASE receipt[o].status = "CANCELLED" /\ Goto(o, "zamaCancel")
  <2>1. Spendable(o) \/ o \in interrupted
    BY <1>1, <1>3, RunFacts DEF CreditInv, At
  <2>2. Knows(o, "zamaCancel", proc[o].mem.completed)
    BY <1>2, <1>3, <2>1 DEF Knows
  <2> QED BY <1>1, <1>3, <2>2, GotoInv DEF chain
<1>4. CASE Send(o, "cancelSent",
                Transfer("cancel", o, "vault", proc[o].mem.source, proc[o].mem.amount))
  <2>1. Knows(o, "cancelSent", proc[o].mem.completed)
    BY <1>2 DEF Knows
  <2>2. LET tx == Transfer("cancel", o, "vault", proc[o].mem.source, proc[o].mem.amount)
        IN  TxOK(tx) /\ tx.op = o /\ tx.kind = "cancel"
    BY <1>1, <1>2, TransferFits
  <2> QED BY <1>1, <1>4, <2>1, <2>2, SendInv DEF chain
<1>5. CASE Exit(o)
  BY <1>1, <1>5, ExitInv DEF chain
<1> QED BY <1>3, <1>4, <1>5 DEF Cancel

(* The mint approvals and the trade: a lock becomes a mint authorisation.  *)
LEMMA MintAndSettleInv == ASSUME AInv, NEW o \in Operations, MintAndSettle(o) PROVE AInv'
<1>1. /\ Running(o) /\ proc[o].pc \in {"mint", "settle"} /\ Unchanged
      /\ UNCHANGED <<config, bal, credit, dir>>
  BY DEF MintAndSettle, At
<1>2. Saved(o) /\ proc[o].mem.completed # 5
  BY <1>1, RunFacts DEF Knows
<1>3. \A pc \in {"settle", "release"} : Knows(o, pc, proc[o].mem.completed)
  BY <1>2 DEF Knows
<1>4. CASE receipt' = receipt /\ \/ Exit(o)
                                 \/ \E pc \in {"settle", "release"} : Goto(o, pc)
  BY <1>1, <1>3, <1>4, ExitInv, GotoInv
<1>5. CASE /\ receipt[o].status = "LOCKED" /\ Goto(o, "settle")
           /\ receipt' = [receipt EXCEPT ![o].status = "MINT_AUTHORIZED"]
  <2>1. /\ DOMAIN receipt = Operations /\ DOMAIN receipt[o] = {"status", "from"}
        /\ DOMAIN credit = Operations
        /\ \A q \in Operations : ReceiptInv(q) /\ CreditInv(q)
        /\ \A p, q \in Operations : Open(p) /\ Open(q) => p = q
    BY DEF AInv, ChainInv, ReceiptInv
  <2>2. /\ DOMAIN receipt' = Operations /\ DOMAIN receipt'[o] = {"status", "from"}
        /\ receipt'[o].status = "MINT_AUTHORIZED" /\ receipt'[o].from = receipt[o].from
        /\ \A q \in Operations : q # o => receipt'[q] = receipt[q]
    BY <1>5, <2>1
  <2>3. Keeps
    BY <1>1, <1>5, <2>2 DEF Keeps, Unchanged, Saved, SameAccounts, Spendable
  <2>4. /\ DOMAIN proc' = Operations
        /\ \A q \in Operations : q # o => proc'[q] = proc[q]
        /\ DOMAIN proc'[o] = ProcFields
        /\ proc'[o].pc = "settle" /\ proc'[o].tx = NoTx /\ proc'[o].mem = proc[o].mem
        /\ proc'[o].keys = proc[o].keys
    BY <1>1, <1>5, GotoFields
  <2>5. Frame(o)
    BY <1>1, <2>4 DEF Frame
  <2>6. BalanceInv' /\ DirInv'
    BY <1>1 DEF AInv, BalanceInv, DecryptableTruthful, Value, DirInv, Saved
  <2>7. ASSUME NEW q \in Operations PROVE ReceiptInv(q)' /\ CreditInv(q)'
    <3>1. CASE q # o
      <4>1. ReceiptInv(q)'
        BY <1>1, <2>1, <2>2, <3>1 DEF ReceiptInv, Saved, Value, Open
      <4>2. At(q, "refund") => At(q, "refund")'
        BY <2>4, <3>1 DEF At, Running
      <4> QED BY <1>1, <2>1, <2>2, <3>1, <4>1, <4>2 DEF CreditInv, Spendable, Unchanged
    <3>2. CASE q = o
      <4>1. ReceiptInv(q)'
        BY <1>1, <1>5, <2>1, <2>2, <3>2 DEF ReceiptInv, Saved, Value, Open
      <4> QED BY <1>1, <1>5, <2>1, <2>2, <3>2, <4>1 DEF CreditInv
    <3> QED BY <3>1, <3>2
  <2>8. \A p, q \in Operations : Open(p)' /\ Open(q)' => p = q
    BY <1>5, <2>1, <2>2 DEF Open
  <2>9. ChainInv'
    BY <1>1, <2>1, <2>2, <2>7, <2>8 DEF ChainInv
  <2>10. FoundInv'
    BY <1>1, <2>3, <2>4, <2>5, FoundStays DEF Unchanged
  <2>11. ProcInv(o, proc[o])'
    <3>1. ProcInv(o, proc'[o])
      BY <1>1, <1>3, <2>4, RunFacts DEF ProcInv
    <3> QED BY <1>1, <2>3, <3>1, ProcStays
  <2>12. Saved(o)' => Claim(o, dir[o].journal.completed)'
    BY <1>1, <2>3, ClaimStays DEF AInv, Saved
  <2> QED BY <1>1, <2>3, <2>5, <2>6, <2>9, <2>10, <2>11, <2>12, StepInv DEF GlobalInv, Unchanged
<1> QED BY <1>4, <1>5 DEF MintAndSettle, At

-----------------------------------------------------------------------------
(* Files *)

(* What a write to a file of the operation or the durable directory needs. *)
LEMMA PersistStep ==
  ASSUME AInv, NEW o \in Operations, Running(o), UNCHANGED chain, Unchanged,
         proc[o].pc \in {"durableJournal", "durableSecrets", "persistJournal", "persistSecrets"},
         NEW pc \in {"durableSecrets", "persistJournal", "persistSecrets", "accounts"},
         Goto(o, pc), DirInv',
         \A q \in Operations : q # o => dir'[q] = dir[q],
         \A d \in Directories : Saved(d) => Saved(d)',
         dir'[o].journal \in {dir[o].journal, proc[o].mem},
         pc \in {"persistSecrets", "accounts"} => Saved(o)',
         pc = "durableSecrets" => proc[o].mem.source = "a" /\ Saved(Durable)'
  PROVE  AInv'
<1>1. ProcInv(o, proc[o]) /\ o \in Directories
  BY DirectoryFacts DEF AInv
<1>2. Saved(o) => SameAccounts(dir'[o].journal, dir[o].journal)
  BY <1>1 DEF ProcInv, SameAccounts
<1>3. Keeps
  <2>1. \A q \in Operations : Saved(q) => SameAccounts(dir'[q].journal, dir[q].journal)
    BY <1>2 DEF SameAccounts
  <2> QED BY <2>1 DEF Keeps, Unchanged, chain, Spendable
<1>4. /\ DOMAIN proc' = Operations
      /\ \A q \in Operations : q # o => proc'[q] = proc[q]
      /\ DOMAIN proc'[o] = ProcFields
      /\ proc'[o].pc = pc /\ proc'[o].tx = NoTx /\ proc'[o].mem = proc[o].mem
      /\ proc'[o].keys = proc[o].keys
  BY GotoFields
<1>5. Frame(o)
  BY <1>4 DEF Frame
<1>6. BalanceInv' /\ ChainInv'
  <2>1. \A q \in Operations : At(q, "refund") => At(q, "refund")'
    BY <1>4 DEF At, Running
  <2> QED BY <1>3, <2>1, ChainStays DEF chain
<1>7. FoundInv'
  BY <1>3, <1>4, <1>5, FoundStays DEF Unchanged
<1>8. ASSUME NEW c, c = proc[o].mem.completed
      PROVE  Claim(o, c)' /\ Knows(o, pc, c)'
  <2>1. Claim(o, c)'
    BY <1>1, <1>3, <1>8, ClaimStays DEF ProcInv
  <2> QED BY <2>1 DEF Knows
<1>9. Claim(o, proc[o].mem.completed)' /\ Knows(o, proc[o].pc, proc[o].mem.completed)'
  BY <1>4, <1>8
<1>10. Saved(o)' => SameAccounts(proc'[o].mem, dir'[o].journal)
  BY <1>1, <1>4 DEF ProcInv, SameAccounts, Saved
<1>11. ProcInv(o, proc[o])'
  BY <1>1, <1>4, <1>9, <1>10 DEF ProcInv, chain
<1>12. Saved(o)' => Claim(o, dir[o].journal.completed)'
  <2>1. CASE dir'[o].journal = proc[o].mem
    BY <1>4, <1>9, <2>1
  <2>2. CASE dir'[o].journal = dir[o].journal
    <3>1. Saved(o)' => Claim(o, dir[o].journal.completed)
      BY <2>2 DEF AInv, Saved
    <3> QED BY <1>3, <2>2, <3>1, ClaimStays
  <2> QED BY <2>1, <2>2
<1> QED BY <1>3, <1>5, <1>6, <1>7, <1>11, <1>12, StepInv DEF GlobalInv, Unchanged

(* save_durable_accounts and persist, one file at a time.                  *)
LEMMA PersistInv == ASSUME AInv, NEW o \in Operations, Persist(o) PROVE AInv'
<1>1. /\ Running(o) /\ UNCHANGED chain /\ Unchanged
      /\ proc[o].pc \in {"durableJournal", "durableSecrets", "persistJournal", "persistSecrets"}
  BY DEF Persist, At
<1>2. ProcInv(o, proc[o]) /\ DirInv /\ o \in Directories /\ Durable \in Directories /\ o # Durable
  BY <1>1, DirectoryFacts DEF AInv
<1>3. /\ proc[o].mem # NoJournal /\ proc[o].keys # NoSecrets /\ JournalOK(proc[o].mem)
      /\ proc[o].mem.mint = config' /\ KeysFit(proc[o].keys, proc[o].mem)
  BY <1>1, <1>2 DEF ProcInv, JournalOK, KeysFit, JournalFields, SecretsFields, NoJournal, NoSecrets,
                    chain
<1>4. ASSUME NEW d \in Directories, NEW journal, SaveJournal(d, journal)
      PROVE  /\ DOMAIN dir' = Directories /\ DOMAIN dir'[d] = {"journal", "secrets"}
             /\ dir'[d].journal = journal /\ dir'[d].secrets = dir[d].secrets
             /\ \A e \in Directories : e # d => dir'[e] = dir[e]
  BY <1>2, <1>4 DEF DirInv, SaveJournal
<1>5. ASSUME NEW d \in Directories, NEW secrets, SaveSecrets(d, secrets)
      PROVE  /\ DOMAIN dir' = Directories /\ DOMAIN dir'[d] = {"journal", "secrets"}
             /\ dir'[d].secrets = secrets /\ dir'[d].journal = dir[d].journal
             /\ \A e \in Directories : e # d => dir'[e] = dir[e]
  BY <1>2, <1>5 DEF DirInv, SaveSecrets
<1>6. \A q \in Operations : q \in Directories /\ q # Durable
  BY DirectoryFacts
<1>7. CASE /\ proc[o].pc = "durableJournal" /\ SaveJournal(Durable, proc[o].mem)
           /\ Goto(o, "durableSecrets")
  <2>1. /\ DOMAIN dir' = Directories /\ DOMAIN dir'[Durable] = {"journal", "secrets"}
        /\ dir'[Durable].journal = proc[o].mem /\ dir'[Durable].secrets = dir[Durable].secrets
        /\ \A e \in Directories : e # Durable => dir'[e] = dir[e]
    BY <1>2, <1>4, <1>7
  <2>2. proc[o].mem.source = "a"
    BY <1>2, <1>7 DEF ProcInv
  <2>3. dir[Durable].secrets # NoSecrets => KeysFit(dir[Durable].secrets, proc[o].mem)
    BY <1>1, <1>2, <1>3, <2>2 DEF DirInv, KeysFit, JournalOK, chain
  <2>4. DirInv'
    BY <1>1, <1>2, <1>3, <2>1, <2>2, <2>3 DEF DirInv, Saved, chain
  <2>5. Saved(Durable)' /\ \A d \in Directories : Saved(d) => Saved(d)'
    BY <1>2, <1>3, <2>1 DEF Saved
  <2> QED BY <1>1, <1>2, <1>6, <1>7, <2>1, <2>2, <2>4, <2>5, PersistStep
<1>8. CASE /\ proc[o].pc = "durableSecrets" /\ SaveSecrets(Durable, proc[o].keys)
           /\ Goto(o, "persistJournal")
  <2>1. /\ DOMAIN dir' = Directories /\ DOMAIN dir'[Durable] = {"journal", "secrets"}
        /\ dir'[Durable].secrets = proc[o].keys /\ dir'[Durable].journal = dir[Durable].journal
        /\ \A e \in Directories : e # Durable => dir'[e] = dir[e]
    BY <1>2, <1>5, <1>8
  <2>2. proc[o].mem.source = "a" /\ Saved(Durable)
    BY <1>2, <1>8 DEF ProcInv
  <2>3. KeysFit(proc[o].keys, dir[Durable].journal)
    BY <1>1, <1>2, <1>3, <2>2 DEF DirInv, KeysFit, JournalOK, chain
  <2>4. DirInv'
    BY <1>1, <1>2, <1>3, <2>1, <2>2, <2>3 DEF DirInv, Saved, chain
  <2>5. \A d \in Directories : Saved(d) => Saved(d)'
    BY <1>2, <2>1 DEF Saved
  <2> QED BY <1>1, <1>2, <1>6, <1>8, <2>1, <2>4, <2>5, PersistStep
<1>9. CASE /\ proc[o].pc = "persistJournal" /\ SaveJournal(o, proc[o].mem)
           /\ Goto(o, "persistSecrets")
  <2>1. /\ DOMAIN dir' = Directories /\ DOMAIN dir'[o] = {"journal", "secrets"}
        /\ dir'[o].journal = proc[o].mem /\ dir'[o].secrets = dir[o].secrets
        /\ \A e \in Directories : e # o => dir'[e] = dir[e]
    BY <1>2, <1>4, <1>9
  <2>2. dir[o].secrets # NoSecrets => KeysFit(dir[o].secrets, proc[o].mem)
    BY <1>2 DEF DirInv, KeysFit, ProcInv, SameAccounts
  <2>3. DirInv'
    BY <1>1, <1>2, <1>3, <2>1, <2>2 DEF DirInv, Saved, chain
  <2>4. Saved(o)' /\ \A d \in Directories : Saved(d) => Saved(d)'
    BY <1>2, <1>3, <2>1 DEF Saved
  <2> QED BY <1>1, <1>2, <1>6, <1>9, <2>1, <2>3, <2>4, PersistStep
<1>10. CASE /\ proc[o].pc = "persistSecrets" /\ SaveSecrets(o, proc[o].keys)
            /\ Goto(o, "accounts")
  <2>1. /\ DOMAIN dir' = Directories /\ DOMAIN dir'[o] = {"journal", "secrets"}
        /\ dir'[o].secrets = proc[o].keys /\ dir'[o].journal = dir[o].journal
        /\ \A e \in Directories : e # o => dir'[e] = dir[e]
    BY <1>2, <1>5, <1>10
  <2>2. Saved(o)
    BY <1>2, <1>10 DEF ProcInv, Knows
  <2>3. KeysFit(proc[o].keys, dir[o].journal)
    BY <1>2, <1>3, <2>2 DEF ProcInv, KeysFit, SameAccounts
  <2>4. DirInv'
    BY <1>1, <1>2, <1>3, <2>1, <2>2, <2>3 DEF DirInv, Saved, chain
  <2>5. \A d \in Directories : Saved(d) => Saved(d)'
    BY <1>2, <2>1 DEF Saved
  <2> QED BY <1>1, <1>2, <1>6, <1>10, <2>1, <2>2, <2>4, <2>5, PersistStep
<1> QED BY <1>7, <1>8, <1>9, <1>10 DEF Persist, At

-----------------------------------------------------------------------------
(* Balances *)

(* The counter and the available balance of an account, in numbers.        *)
LEMMA TokenFacts ==
  ASSUME BalanceInv, NEW t \in Tokens
  PROVE  /\ DOMAIN bal[t] = BalanceFields
         /\ bal[t].available \in Nat /\ bal[t].pending \in Nat
         /\ bal[t].available = 0 \/ bal[t].pending = 0
         /\ bal[t].decryptable = bal[t].available
         /\ bal[t].counter = IF bal[t].pending = 0 THEN 0 ELSE 1
         /\ Value(t) \in Nat /\ Value(t) = bal[t].available + bal[t].pending
BY DEF BalanceInv, DecryptableTruthful, Value

(* ApplyPendingBalance on an account that holds nothing but the credit.    *)
LEMMA ApplyFields ==
  ASSUME BalanceInv, NEW e \in Tokens, NEW claim, bal[e].pending = claim, claim # 0
  PROVE  /\ DOMAIN Apply(bal[e], claim) = BalanceFields
         /\ Apply(bal[e], claim).available = claim
         /\ Apply(bal[e], claim).decryptable = claim
         /\ Apply(bal[e], claim).pending = 0 /\ Apply(bal[e], claim).counter = 0
<1>1. /\ DOMAIN bal[e] = BalanceFields /\ bal[e].available = 0 /\ bal[e].pending \in Nat
  BY TokenFacts
<1> QED BY <1>1 DEF Apply, BalanceFields

(* The account of one token changes and keeps its value.                   *)
LEMMA BalanceStep ==
  ASSUME BalanceInv, NEW e \in Endpoints, DOMAIN bal' = Tokens,
         \A t \in Tokens : t # e => bal'[t] = bal[t],
         DOMAIN bal'[e] = BalanceFields, bal'[e].available \in Nat, bal'[e].pending \in Nat,
         bal'[e].available = 0 \/ bal'[e].pending = 0,
         bal'[e].decryptable = bal'[e].available,
         bal'[e].counter = IF bal'[e].pending = 0 THEN 0 ELSE 1,
         \/ Value(e)' = Value(e)
         \/ \A t \in Tokens : Value(t) = 0
  PROVE  BalanceInv'
<1>1. \A t \in Tokens : t # e => Value(t)' = Value(t)
  BY DEF Value
<1>2. e # "vault" /\ "vault" \in Tokens
  BY DEF Endpoints, Tokens
<1>3. DecryptableTruthful'
  BY DEF BalanceInv, DecryptableTruthful
<1>4. \A t, u \in Tokens : t # u => Value(t)' = 0 \/ Value(u)' = 0
  BY <1>1 DEF BalanceInv
<1>5. \A t \in Tokens : /\ DOMAIN bal'[t] = BalanceFields
                        /\ bal'[t].available \in Nat /\ bal'[t].pending \in Nat
                        /\ bal'[t].available = 0 \/ bal'[t].pending = 0
  BY DEF BalanceInv
<1>6. bal'["vault"].pending = 0
  BY <1>2 DEF BalanceInv
<1> QED BY <1>3, <1>4, <1>5, <1>6 DEF BalanceInv

(* An operation that ever locked has the supply as its amount.             *)
LEMMA PendingIsAmount ==
  ASSUME AInv, NEW o \in Operations, receipt[o].status # "NONE", NEW t \in Tokens,
         Value(t) # 0
  PROVE  /\ Value(t) = dir[o].journal.amount /\ Saved(o)
         /\ bal[t].pending # 0 => bal[t].pending = dir[o].journal.amount
<1>1. ReceiptInv(o) /\ BalanceInv
  BY DEF AInv, ChainInv
<1>2. Value(t) = dir[o].journal.amount /\ Saved(o)
  BY <1>1 DEF ReceiptInv
<1> QED BY <1>1, <1>2, TokenFacts

(* apply_pending with the whole pending balance: the claim is right, every *)
(* operation credited there can be spent, and no value moves.              *)
LEMMA ApplyPendingInv ==
  ASSUME AInv, NEW e \in Endpoints, NEW amount, ApplyPending(e, amount),
         bal[e].pending = amount, amount # 0,
         receipt' = receipt, Keeps,
         \A q \in Operations :
           At(q, "refund") => At(q, "refund")' \/ q \in interrupted' \/ Spendable(q)'
  PROVE  BalanceInv' /\ ChainInv'
<1>1. /\ BalanceInv /\ e \in Tokens /\ DOMAIN bal = Tokens
      /\ DOMAIN receipt = Operations
      /\ \A q \in Operations : ReceiptInv(q) /\ CreditInv(q)
      /\ \A p, q \in Operations : Open(p) /\ Open(q) => p = q
  BY DEF AInv, BalanceInv, ChainInv, Tokens
<1>2. /\ DOMAIN bal' = Tokens /\ \A t \in Tokens : t # e => bal'[t] = bal[t]
      /\ bal'[e] = Apply(bal[e], amount)
  BY <1>1 DEF ApplyPending
<1>3. /\ DOMAIN bal'[e] = BalanceFields /\ bal'[e].available = amount
      /\ bal'[e].decryptable = amount /\ bal'[e].pending = 0 /\ bal'[e].counter = 0
  BY <1>1, <1>2, ApplyFields
<1>4. bal[e].available = 0 /\ amount \in Nat /\ Value(e) = amount
  BY <1>1, TokenFacts
<1>5. \A t \in Tokens : Value(t)' = Value(t)
  BY <1>2, <1>3, <1>4 DEF Value
<1>6. BalanceInv'
  BY <1>1, <1>2, <1>3, <1>4, <1>5, BalanceStep
<1>7. /\ DOMAIN credit' = Operations
      /\ \A q \in Operations : credit'[q] = IF credit[q] = e THEN "available" ELSE credit[q]
  BY DEF ApplyPending
<1>8. bal'["vault"] = bal["vault"]
  BY <1>2 DEF Endpoints, Tokens
<1>9. ASSUME NEW q \in Operations PROVE ReceiptInv(q)' /\ CreditInv(q)'
  <2>1. /\ ReceiptInv(q) /\ CreditInv(q) /\ q \in Directories
        /\ Saved(q) => Saved(q)' /\ SameAccounts(dir'[q].journal, dir[q].journal)
        /\ interrupted \subseteq interrupted'
        /\ credit'[q] = IF credit[q] = e THEN "available" ELSE credit[q]
    BY <1>1, <1>7, DirectoryFacts DEF Keeps
  <2>2. ReceiptInv(q)'
    BY <1>5, <1>8, <2>1 DEF ReceiptInv, Open, SameAccounts
  <2>3. credit'[q] \in Endpoints => bal'[credit'[q]].pending # 0
    BY <1>2, <2>1 DEF CreditInv, Endpoints, Tokens
  <2>4. Spendable(q) => Spendable(q)'
    BY DEF Keeps
  <2>5. receipt[q].status \notin {"RELEASED", "CANCELLED"} => credit'[q] = "none"
    BY <2>1 DEF CreditInv, Endpoints
  <2>6. receipt[q].status = "RELEASED" => credit'[q] \in {dir'[q].journal.payout, "available"}
    BY <2>1 DEF CreditInv, ReceiptInv, SameAccounts
  <2>7. receipt[q].status = "CANCELLED" => credit'[q] \in {dir'[q].journal.source, "available"}
    BY <2>1 DEF CreditInv, ReceiptInv, SameAccounts
  <2>8. receipt[q].status = "CANCELLED" =>
           Spendable(q)' \/ q \in interrupted' \/ At(q, "refund")'
    BY <2>1, <2>4 DEF CreditInv
  <2> QED BY <2>2, <2>3, <2>5, <2>6, <2>7, <2>8 DEF CreditInv
<1>10. \A p, q \in Operations : Open(p)' /\ Open(q)' => p = q
  BY <1>1 DEF Open
<1> QED BY <1>1, <1>6, <1>7, <1>9, <1>10 DEF ChainInv

(* apply_pending once more: what could be spent can be spent.              *)
LEMMA ApplyKeepsSpendable ==
  ASSUME AInv, NEW e \in Endpoints, NEW amount, ApplyPending(e, amount)
  PROVE  \A q \in Operations : /\ Spendable(q) => Spendable(q)'
                               /\ credit[q] = e => Spendable(q)'
BY DEF ApplyPending, Spendable

(* The payout: pending is applied, or was applied before; then it is       *)
(* noted.                                                                  *)
LEMMA PayInv == ASSUME AInv, NEW o \in Operations, Pay(o) PROVE AInv'
<1> DEFINE mem == proc[o].mem
<1>1. /\ Running(o) /\ proc[o].pc \in {"apply", "applied"} /\ Unchanged
      /\ UNCHANGED <<config, receipt>>
  BY DEF Pay, At
<1>2. /\ Saved(o) /\ mem.completed # 5 /\ receipt[o].status = "RELEASED"
      /\ proc[o].pc = "applied" => Spendable(o)
      /\ mem.completed \in 0..5 /\ ProcInv(o, proc[o]) /\ CreditInv(o) /\ BalanceInv
      /\ SameAccounts(mem, dir[o].journal)
  BY <1>1, RunFacts DEF Knows
<1>3. mem.payout \in Endpoints /\ mem.payout \in Tokens /\ credit[o] \in {mem.payout, "available"}
  BY <1>2, OtherValues DEF ProcInv, JournalOK, Endpoints, Tokens, CreditInv, SameAccounts
<1>4. CASE /\ bal[mem.payout].counter > 0 /\ dir' = dir
           /\ ApplyPending(mem.payout, mem.amount) /\ Goto(o, "applied")
  <2>1. bal[mem.payout].pending = mem.amount /\ mem.amount # 0
    <3>1. bal[mem.payout].pending # 0 /\ Value(mem.payout) # 0
      BY <1>2, <1>3, <1>4, TokenFacts
    <3> QED BY <1>2, <1>3, <3>1, PendingIsAmount DEF SameAccounts
  <2>2. Spendable(o)' /\ \A q \in Operations : Spendable(q) => Spendable(q)'
    BY <1>3, <1>4, ApplyKeepsSpendable DEF Spendable
  <2>3. /\ DOMAIN proc' = Operations
        /\ \A q \in Operations : q # o => proc'[q] = proc[q]
        /\ DOMAIN proc'[o] = ProcFields
        /\ proc'[o].pc = "applied" /\ proc'[o].tx = NoTx /\ proc'[o].mem = proc[o].mem
        /\ proc'[o].keys = proc[o].keys
    BY <1>1, <1>4, GotoFields
  <2>4. Frame(o) /\ Keeps
    BY <1>1, <1>4, <2>2, <2>3 DEF Frame, Keeps, Unchanged, Saved, SameAccounts
  <2>5. BalanceInv' /\ ChainInv'
    <3>1. \A q \in Operations : At(q, "refund") => At(q, "refund")'
      BY <1>1, <2>4 DEF At, Frame, Running
    <3> QED BY <1>1, <1>3, <1>4, <2>1, <2>4, <3>1, ApplyPendingInv
  <2>6. DirInv'
    BY <1>1, <1>4 DEF AInv, DirInv, Saved
  <2>7. FoundInv'
    BY <1>1, <2>3, <2>4, FoundStays DEF Unchanged
  <2>8. ASSUME NEW c, c = mem.completed PROVE Claim(o, c)' /\ Knows(o, "applied", c)'
    <3>1. Claim(o, c)'
      BY <1>2, <2>4, <2>8, ClaimStays DEF ProcInv
    <3>2. Saved(o)'
      BY <1>2, <1>4 DEF Saved
    <3> QED BY <1>1, <1>2, <2>2, <2>8, <3>1, <3>2 DEF Knows
  <2>9. Claim(o, proc[o].mem.completed)' /\ Knows(o, proc[o].pc, proc[o].mem.completed)'
    BY <2>3, <2>8
  <2>10. ProcInv(o, proc[o])'
    BY <1>1, <1>2, <1>4, <2>3, <2>9 DEF ProcInv
  <2>11. Saved(o)' => Claim(o, dir[o].journal.completed)'
    BY <1>4, <2>4, ClaimStays DEF AInv, Saved
  <2> QED BY <1>1, <2>4, <2>5, <2>6, <2>7, <2>10, <2>11, StepInv DEF GlobalInv, Unchanged
<1>5. CASE /\ bal[mem.payout].counter = 0 \/ proc[o].pc = "applied"
           /\ UNCHANGED <<bal, credit>> /\ Halt(o, "Released", "redeem")
  <2>1. Spendable(o)
    BY <1>1, <1>2, <1>5, NothingPending
  <2>2. PICK c : c = Noted(mem, "Released").completed
    OBVIOUS
  <2>3. c = IF mem.completed < 3 THEN 3 ELSE mem.completed
    BY <1>2, <2>2, NotedFields DEF ProcInv, Rank
  <2>4. Claim(o, c) /\ Knows(o, "redeem", c)
    BY <1>2, <2>1, <2>3 DEF Claim, Knows
  <2> QED BY <1>1, <1>2, <1>5, <2>2, <2>4, HaltQuietInv
<1>6. CASE UNCHANGED <<bal, credit, dir>> /\ Exit(o)
  BY <1>1, <1>6, ExitInv
<1> QED BY <1>4, <1>5, <1>6 DEF Pay, At

(* The refund of a cancel: applied, the reservation cancelled, the vault   *)
(* found empty.                                                            *)
LEMMA RefundInv == ASSUME AInv, NEW o \in Operations, Refund(o) PROVE AInv'
<1> DEFINE mem == proc[o].mem
<1>1. /\ Running(o) /\ proc[o].pc \in {"refund", "zamaCancel", "unlocked"} /\ Unchanged
      /\ UNCHANGED <<config, receipt>>
  BY DEF Refund, At
<1>2. /\ Saved(o) /\ receipt[o].status = "CANCELLED"
      /\ proc[o].pc # "refund" => Spendable(o) \/ o \in interrupted
      /\ mem.completed \in 0..5 /\ ProcInv(o, proc[o]) /\ CreditInv(o) /\ BalanceInv
      /\ SameAccounts(mem, dir[o].journal)
  BY <1>1, RunFacts DEF Knows
<1>3. mem.source \in Endpoints /\ mem.source \in Tokens /\ credit[o] \in {mem.source, "available"}
  BY <1>2 DEF ProcInv, JournalOK, Tokens, CreditInv, SameAccounts
<1>4. CASE proc[o].pc = "refund" /\ ApplyRefund(o) /\ dir' = dir
  <2>1. /\ DOMAIN proc' = Operations
        /\ \A q \in Operations : q # o => proc'[q] = proc[q]
        /\ DOMAIN proc'[o] = ProcFields
        /\ proc'[o].pc = "zamaCancel" /\ proc'[o].tx = NoTx /\ proc'[o].mem = proc[o].mem
        /\ proc'[o].keys = proc[o].keys
    BY <1>1, <1>4, GotoFields DEF ApplyRefund
  <2>2. Frame(o)
    BY <1>4, <2>1 DEF Frame
  <2>3. \A q \in Operations : q # o => (At(q, "refund") => At(q, "refund")')
    BY <2>1 DEF At, Running
  <2>4. /\ \A q \in Operations : Spendable(q) => Spendable(q)'
        /\ Spendable(o)' /\ BalanceInv' /\ ChainInv' /\ Keeps
    <3>1. CASE bal[mem.source].counter > 0 /\ ApplyPending(mem.source, mem.amount)
      <4>1. bal[mem.source].pending = mem.amount /\ mem.amount # 0
        <5>1. bal[mem.source].pending # 0 /\ Value(mem.source) # 0
          BY <1>2, <1>3, <3>1, TokenFacts
        <5> QED BY <1>2, <1>3, <5>1, PendingIsAmount DEF SameAccounts
      <4>2. Spendable(o)' /\ \A q \in Operations : Spendable(q) => Spendable(q)'
        BY <1>3, <3>1, ApplyKeepsSpendable DEF Spendable
      <4>3. Keeps
        BY <1>1, <1>4, <4>2 DEF Keeps, Unchanged, Saved, SameAccounts
      <4> QED BY <1>1, <1>3, <2>3, <3>1, <4>1, <4>2, <4>3, ApplyPendingInv
    <3>2. CASE ~(bal[mem.source].counter > 0) /\ UNCHANGED <<bal, credit>>
      <4>1. Spendable(o) /\ Spendable(o)'
        BY <1>2, <1>3, <3>2, TokenFacts DEF CreditInv, Spendable
      <4>2. Keeps
        BY <1>1, <1>4, <3>2 DEF Keeps, Unchanged, Saved, SameAccounts, Spendable
      <4> QED BY <1>1, <2>3, <3>2, <4>1, <4>2, ChainStays DEF Spendable
    <3> QED BY <1>4, <3>1, <3>2 DEF ApplyRefund
  <2>5. DirInv'
    BY <1>1, <1>4 DEF AInv, DirInv, Saved
  <2>6. FoundInv'
    BY <1>1, <1>4, <2>1, <2>2, <2>4, FoundStays DEF Unchanged
  <2>7. ASSUME NEW c, c = mem.completed PROVE Claim(o, c)' /\ Knows(o, "zamaCancel", c)'
    <3>1. Claim(o, c)'
      BY <1>2, <2>4, <2>7, ClaimStays DEF ProcInv
    <3>2. Saved(o)'
      BY <1>2, <1>4 DEF Saved
    <3> QED BY <1>1, <1>2, <2>4, <3>1, <3>2 DEF Knows
  <2>8. Claim(o, proc[o].mem.completed)' /\ Knows(o, proc[o].pc, proc[o].mem.completed)'
    BY <2>1, <2>7
  <2>9. ProcInv(o, proc[o])'
    BY <1>1, <1>2, <1>4, <2>1, <2>8 DEF ProcInv
  <2>10. Saved(o)' => Claim(o, dir[o].journal.completed)'
    BY <1>4, <2>4, ClaimStays DEF AInv, Saved
  <2> QED BY <1>1, <2>2, <2>4, <2>5, <2>6, <2>9, <2>10, StepInv DEF GlobalInv, Unchanged
<1>5. CASE /\ proc[o].pc \in {"zamaCancel", "unlocked"} /\ UNCHANGED <<bal, credit, dir>>
           /\ Exit(o)
  BY <1>1, <1>5, ExitInv
<1>6. CASE /\ proc[o].pc = "zamaCancel" /\ UNCHANGED <<bal, credit, dir>>
           /\ Goto(o, "unlocked")
  <2>1. Knows(o, "unlocked", mem.completed)
    BY <1>2, <1>6 DEF Knows
  <2> QED BY <1>1, <1>6, <2>1, GotoInv
<1>7. CASE /\ proc[o].pc = "unlocked" /\ UNCHANGED <<bal, credit>>
           /\ Halt(o, "Cancelled", "idle")
  <2>1. PICK c : c = Noted(mem, "Cancelled").completed
    OBVIOUS
  <2>2. c = 5
    BY <1>2, <2>1, NotedFields DEF ProcInv, Rank
  <2>3. Claim(o, c)
    BY <1>2, <1>7, <2>2 DEF Claim
  <2> QED BY <1>1, <1>2, <1>7, <2>1, <2>3, HaltQuietInv
<1> QED BY <1>4, <1>5, <1>6, <1>7 DEF Refund, At

-----------------------------------------------------------------------------
(* Relayed transactions *)

(* What a relayed transaction does to the balances: the whole supply moves *)
(* from one account to another, and both copies say so.                    *)
LEMMA ExecuteMoves ==
  ASSUME AInv, NEW tx, TxOK(tx), Execute(tx)
  PROVE  /\ tx.from \in Tokens /\ tx.to \in Tokens /\ tx.from # tx.to
         /\ tx.amount \in Nat \ {0}
         /\ DOMAIN bal' = Tokens
         /\ \A t \in Tokens : Value(t) = IF t = tx.from THEN tx.amount ELSE 0
         /\ \A t \in Tokens : Value(t)' = IF t = tx.to THEN tx.amount ELSE 0
         /\ \A t \in Tokens : t \notin {tx.from, tx.to} => bal'[t] = bal[t]
         /\ bal[tx.from].pending = 0 /\ bal[tx.to].pending = 0
         /\ tx.kind = "lock" => bal'[tx.to].available = tx.amount
         /\ tx.kind # "lock" => bal'[tx.to].pending = tx.amount
         /\ BalanceInv'
<1> DEFINE j == dir[tx.op].journal
           from == tx.from
           to == tx.to
<1>1. /\ BalanceInv /\ tx.op \in Operations /\ tx.op \in Directories /\ Saved(tx.op)
      /\ JournalOK(j) /\ tx.amount = j.amount /\ DOMAIN bal = Tokens
      /\ ReceiptInv(tx.op)
  BY DirectoryFacts DEF AInv, DirInv, TxOK, ChainInv, BalanceInv
<1>2. j.source \in Endpoints /\ j.payout \in Endpoints /\ tx.amount \in Nat /\ tx.amount # 0
  BY <1>1, OtherValues DEF JournalOK, Endpoints
<1>3. /\ from \in Tokens /\ to \in Tokens /\ from # to
      /\ tx.kind = "lock" => from # "vault" /\ to = "vault"
      /\ tx.kind # "lock" => from = "vault" /\ to # "vault"
      /\ tx.kind \in {"lock", "release", "cancel"}
  BY <1>2 DEF TxOK, Tokens, Endpoints
<1>4. /\ tx.basis = bal[from].available /\ tx.basis >= tx.amount
      /\ bal' = [bal EXCEPT ![from] = Debit(bal[from], tx), ![to] = Credited(tx)]
  BY <1>1, <1>3 DEF Execute, ProofsHold
<1>5. bal[from].available = tx.amount
  <2>1. CASE tx.kind = "lock"
    BY <1>4, <2>1 DEF TxOK
  <2>2. CASE tx.kind # "lock"
    <3>1. Open(tx.op)
      BY <1>3, <2>2 DEF Execute, Allowed, Open
    <3>2. bal["vault"].available # 0 /\ Value("vault") \in {0, j.amount}
      BY <1>1, <3>1 DEF ReceiptInv, Open, Tokens
    <3> QED BY <1>1, <1>3, <2>2, <3>2, TokenFacts
  <2> QED BY <2>1, <2>2
<1>6. bal[from].pending = 0 /\ Value(from) = tx.amount
  BY <1>1, <1>2, <1>3, <1>5, TokenFacts
<1>7. \A t \in Tokens : t # from => Value(t) = 0
  BY <1>1, <1>2, <1>3, <1>6 DEF BalanceInv
<1>8. /\ bal[to].available = 0 /\ bal[to].pending = 0 /\ bal[to].decryptable = 0
      /\ bal[to].counter = 0
  BY <1>1, <1>3, <1>7, TokenFacts
<1>9. /\ DOMAIN bal' = Tokens /\ bal'[from] = Debit(bal[from], tx) /\ bal'[to] = Credited(tx)
      /\ \A t \in Tokens : t \notin {from, to} => bal'[t] = bal[t]
  BY <1>1, <1>3, <1>4
<1>10. DOMAIN bal[from] = BalanceFields /\ DOMAIN bal[to] = BalanceFields
  BY <1>1, <1>3, TokenFacts
<1>11. /\ DOMAIN bal'[from] = BalanceFields
       /\ bal'[from].available = 0 /\ bal'[from].decryptable = 0
       /\ bal'[from].pending = 0 /\ bal'[from].counter = 0
  <2>1. tx.basis = tx.amount /\ bal[from].counter = 0
    BY <1>1, <1>3, <1>4, <1>5, <1>6, TokenFacts
  <2> QED BY <1>2, <1>5, <1>6, <1>9, <1>10, <2>1 DEF Debit, BalanceFields
<1>12. /\ DOMAIN bal'[to] = BalanceFields
       /\ tx.kind = "lock" => /\ bal'[to].available = tx.amount /\ bal'[to].pending = 0
                              /\ bal'[to].decryptable = tx.amount /\ bal'[to].counter = 0
       /\ tx.kind # "lock" => /\ bal'[to].available = 0 /\ bal'[to].pending = tx.amount
                              /\ bal'[to].decryptable = 0 /\ bal'[to].counter = 1
  <2>1. /\ DOMAIN Credit(bal[to], tx.amount) = BalanceFields
        /\ Credit(bal[to], tx.amount).available = 0
        /\ Credit(bal[to], tx.amount).decryptable = 0
        /\ Credit(bal[to], tx.amount).pending = tx.amount
        /\ Credit(bal[to], tx.amount).counter = 1
    BY <1>2, <1>8, <1>10 DEF Credit, BalanceFields
  <2>2. CASE tx.kind = "lock"
    <3>1. tx.claim = tx.amount
      BY <2>2 DEF TxOK
    <3>2. bal'[to] = Apply(Credit(bal[to], tx.amount), tx.claim)
      BY <1>9, <2>2 DEF Credited
    <3> QED BY <1>2, <2>1, <2>2, <3>1, <3>2 DEF Apply, BalanceFields
  <2>3. CASE tx.kind # "lock"
    BY <1>9, <2>1, <2>3 DEF Credited
  <2> QED BY <2>2, <2>3
<1>13. \A t \in Tokens : Value(t)' = IF t = to THEN tx.amount ELSE 0
  BY <1>2, <1>3, <1>7, <1>9, <1>11, <1>12 DEF Value
<1>14. BalanceInv'
  <2>1. ASSUME NEW t \in Tokens
        PROVE  /\ DOMAIN bal'[t] = BalanceFields
               /\ bal'[t].available \in Nat /\ bal'[t].pending \in Nat
               /\ bal'[t].available = 0 \/ bal'[t].pending = 0
               /\ bal'[t].decryptable = bal'[t].available
               /\ bal'[t].counter = IF bal'[t].pending = 0 THEN 0 ELSE 1
    <3>1. CASE t = from
      BY <1>11, <3>1
    <3>2. CASE t = to
      BY <1>2, <1>12, <3>2
    <3>3. CASE t \notin {from, to}
      BY <1>1, <1>9, <3>3, TokenFacts
    <3> QED BY <3>1, <3>2, <3>3
  <2>2. bal'["vault"].pending = 0
    BY <1>3, <1>11, <1>12
  <2>3. \A t, u \in Tokens : t # u => Value(t)' = 0 \/ Value(u)' = 0
    BY <1>13
  <2> QED BY <1>9, <2>1, <2>2, <2>3 DEF BalanceInv, DecryptableTruthful
<1> QED BY <1>2, <1>3, <1>6, <1>7, <1>8, <1>9, <1>12, <1>13, <1>14

(* A relayed transaction keeps the files, the receipts and the credits in  *)
(* step with the balances.  The refund of a cancel is awaited by its run,  *)
(* or that run was interrupted.                                            *)
LEMMA ExecuteInv ==
  ASSUME AInv, NEW tx, TxOK(tx), Execute(tx), dir' = dir, interrupted' = interrupted,
         tx.kind = "cancel" => tx.op \in interrupted \/ At(tx.op, "refund")',
         \A q \in Operations : q # tx.op => (At(q, "refund") => At(q, "refund")')
  PROVE  /\ Keeps /\ BalanceInv' /\ ChainInv' /\ DirInv'
         /\ receipt'[tx.op].status = NewStatus[tx.kind]
<1> DEFINE o == tx.op
           j == dir[o].journal
<1>1. /\ o \in Operations /\ o \in Directories /\ Saved(o) /\ JournalOK(j) /\ tx.amount = j.amount
      /\ DOMAIN receipt = Operations /\ DOMAIN credit = Operations
      /\ \A q \in Operations : ReceiptInv(q) /\ CreditInv(q)
      /\ \A p, q \in Operations : Open(p) /\ Open(q) => p = q
  BY DirectoryFacts DEF AInv, DirInv, TxOK, ChainInv
<1>2. /\ tx.from \in Tokens /\ tx.to \in Tokens /\ tx.from # tx.to
      /\ tx.amount \in Nat \ {0}
      /\ \A t \in Tokens : Value(t) = IF t = tx.from THEN tx.amount ELSE 0
      /\ \A t \in Tokens : Value(t)' = IF t = tx.to THEN tx.amount ELSE 0
      /\ bal[tx.from].pending = 0 /\ bal[tx.to].pending = 0
      /\ tx.kind = "lock" => bal'[tx.to].available = tx.amount
      /\ tx.kind # "lock" => bal'[tx.to].pending = tx.amount
      /\ BalanceInv'
  BY ExecuteMoves
<1>3. /\ tx.kind \in {"lock", "release", "cancel"}
      /\ tx.kind = "lock" => tx.from = j.source /\ tx.to = "vault"
      /\ tx.kind = "release" => tx.from = "vault" /\ tx.to = j.payout
      /\ tx.kind = "cancel" => tx.from = "vault" /\ tx.to = j.source
      /\ j.source \in Endpoints /\ j.payout \in Endpoints
  BY <1>1, OtherValues DEF TxOK, JournalOK, Endpoints
<1>4. /\ tx.kind = "lock" => receipt[o].status = "NONE"
      /\ tx.kind = "release" => receipt[o].status = "MINT_AUTHORIZED"
      /\ tx.kind = "cancel" => receipt[o].status = "LOCKED"
  BY DEF Execute, Allowed
<1>5. /\ NewStatus["lock"] = "LOCKED" /\ NewStatus["release"] = "RELEASED"
      /\ NewStatus["cancel"] = "CANCELLED"
  BY DEF NewStatus
<1>6. /\ DOMAIN receipt' = Operations /\ DOMAIN receipt'[o] = {"status", "from"}
      /\ receipt'[o].status = NewStatus[tx.kind]
      /\ receipt'[o].from = IF tx.kind = "lock" THEN tx.from ELSE receipt[o].from
      /\ \A q \in Operations : q # o => receipt'[q] = receipt[q]
  <2>1. DOMAIN receipt[o] = {"status", "from"}
    BY <1>1 DEF ReceiptInv
  <2> QED BY <1>1, <2>1 DEF Execute
<1>7. /\ DOMAIN credit' = Operations
      /\ credit'[o] = IF tx.kind = "lock" THEN credit[o] ELSE tx.to
      /\ \A q \in Operations : q # o => credit'[q] = credit[q]
  BY <1>1 DEF Execute
<1>8. credit[o] = "none" /\ ~Spendable(o)
  BY <1>1, <1>3, <1>4 DEF CreditInv, Spendable
<1>9. Keeps
  BY <1>3, <1>4, <1>6, <1>7, <1>8 DEF Keeps, Saved, SameAccounts, Spendable, Execute
<1>10. \A q \in Operations : credit[q] \notin Endpoints
  <2>1. \A e \in Endpoints : bal[e].pending = 0
    <3>1. BalanceInv /\ \A e \in Endpoints : e \in Tokens
      BY DEF AInv, Tokens
    <3> QED BY <1>2, <3>1, TokenFacts
  <2> QED BY <1>1, <2>1 DEF CreditInv
<1>11. \A q \in Operations : Open(q) => q = o /\ tx.kind # "lock"
  <2>1. tx.kind = "lock" => \A q \in Operations : ~Open(q)
    <3>1. tx.kind = "lock" => Value("vault") = 0 /\ "vault" \in Tokens /\ BalanceInv
      BY <1>2, <1>3 DEF AInv, Tokens, Endpoints
    <3>2. tx.kind = "lock" => bal["vault"].available = 0
      BY <3>1, TokenFacts
    <3> QED BY <1>1, <3>2 DEF ReceiptInv
  <2>2. tx.kind # "lock" => Open(o)
    BY <1>3, <1>4 DEF Open
  <2> QED BY <1>1, <2>1, <2>2
<1>12. \A q \in Operations : Open(q)' => q = o /\ tx.kind = "lock"
  BY <1>3, <1>5, <1>6, <1>11 DEF Open
<1>13. ASSUME NEW q \in Operations, receipt'[q].status # "NONE"
       PROVE  dir'[q].journal.amount = tx.amount /\ Saved(q)'
  <2>1. CASE q = o
    BY <1>1, <2>1 DEF Saved
  <2>2. CASE q # o
    BY <1>1, <1>2, <1>6, <1>13, <2>2 DEF ReceiptInv, Saved
  <2> QED BY <2>1, <2>2
<1>14. receipt[o].status # "NONE" => receipt[o].from = j.source
  BY <1>1 DEF ReceiptInv
<1>15. ASSUME NEW q \in Operations PROVE ReceiptInv(q)'
  <2>1. DOMAIN receipt'[q] = {"status", "from"}
    BY <1>1, <1>6 DEF ReceiptInv
  <2>2. receipt'[q].status \in {"NONE", "LOCKED", "MINT_AUTHORIZED", "CANCELLED", "RELEASED"}
    BY <1>1, <1>3, <1>5, <1>6 DEF ReceiptInv
  <2>3. receipt'[q].status # "NONE" => receipt'[q].from = dir'[q].journal.source
    BY <1>1, <1>3, <1>4, <1>6, <1>14 DEF ReceiptInv
  <2>4. Open(q)' => bal'["vault"].available # 0
    BY <1>2, <1>3, <1>12
  <2> QED BY <1>2, <1>13, <2>1, <2>2, <2>3, <2>4 DEF ReceiptInv
<1>16. ASSUME NEW q \in Operations PROVE CreditInv(q)'
  <2>1. CASE q # o
    BY <1>1, <1>6, <1>7, <1>10, <2>1 DEF CreditInv, Spendable
  <2>2. CASE q = o
    <3>1. credit'[q] \in Endpoints => bal'[credit'[q]].pending # 0
      BY <1>2, <1>7, <1>10, <2>2
    <3>2. /\ receipt'[q].status \notin {"RELEASED", "CANCELLED"} => credit'[q] = "none"
          /\ receipt'[q].status = "RELEASED" => credit'[q] = j.payout
          /\ receipt'[q].status = "CANCELLED" => credit'[q] = j.source /\ tx.kind = "cancel"
      BY <1>3, <1>5, <1>6, <1>7, <1>8, <2>2
    <3> QED BY <2>2, <3>1, <3>2 DEF CreditInv
  <2> QED BY <2>1, <2>2
<1>17. ChainInv'
  BY <1>6, <1>7, <1>12, <1>15, <1>16 DEF ChainInv
<1>18. DirInv'
  BY DEF AInv, DirInv, Saved, Execute
<1> QED BY <1>2, <1>6, <1>9, <1>17, <1>18

(* wait_confirmed: the transaction lands and its run goes on, or it is     *)
(* refused and the run ends.                                               *)
LEMMA LandInv == ASSUME AInv, NEW o \in Operations, Land(o) PROVE AInv'
<1>1. Running(o) /\ proc[o].tx # NoTx /\ dir' = dir /\ Unchanged
  BY DEF Land
<1>2. /\ ProcInv(o, proc[o]) /\ TxOK(proc[o].tx) /\ proc[o].tx.op = o
      /\ \/ proc[o].pc = "lockSent" /\ proc[o].tx.kind = "lock"
         \/ proc[o].pc = "releaseSent" /\ proc[o].tx.kind = "release"
         \/ proc[o].pc = "cancelSent" /\ proc[o].tx.kind = "cancel"
  BY <1>1, RunFacts DEF ProcInv
<1>3. CASE Exit(o) /\ UNCHANGED chain
  BY <1>1, <1>2, <1>3, ExitInv DEF chain
<1>4. CASE Execute(proc[o].tx) /\ Goto(o, AfterSent[proc[o].pc])
  <2> DEFINE pc == AfterSent[proc[o].pc]
             tx == proc[o].tx
  <2>1. /\ tx.kind = "lock" => pc = "locked" /\ NewStatus[tx.kind] = "LOCKED"
        /\ tx.kind = "release" => pc = "apply" /\ NewStatus[tx.kind] = "RELEASED"
        /\ tx.kind = "cancel" => pc = "refund" /\ NewStatus[tx.kind] = "CANCELLED"
    BY <1>2 DEF AfterSent, NewStatus
  <2>2. /\ DOMAIN proc' = Operations
        /\ \A q \in Operations : q # o => proc'[q] = proc[q]
        /\ DOMAIN proc'[o] = ProcFields
        /\ proc'[o].pc = pc /\ proc'[o].tx = NoTx /\ proc'[o].mem = proc[o].mem
        /\ proc'[o].keys = proc[o].keys
    BY <1>1, <1>4, GotoFields
  <2>3. tx.kind = "cancel" => At(o, "refund")'
    <3>1. proc'[o] # Idle
      BY <2>2 DEF ProcFields, Idle
    <3> QED BY <2>1, <2>2, <3>1 DEF At, Running
  <2>4. \A q \in Operations : q # o => (At(q, "refund") => At(q, "refund")')
    BY <2>2 DEF At, Running
  <2>5. Frame(o)
    BY <1>1, <2>2 DEF Frame
  <2>6. /\ Keeps /\ BalanceInv' /\ ChainInv' /\ DirInv'
        /\ receipt'[o].status = NewStatus[tx.kind]
    <3>1. PICK sent : sent = tx
      OBVIOUS
    <3>2. TxOK(sent) /\ Execute(sent) /\ sent.op = o /\ (sent.kind = "cancel" => At(o, "refund")')
      BY <1>2, <1>4, <2>3, <3>1
    <3>3. sent.kind = "cancel" => sent.op \in interrupted \/ At(sent.op, "refund")'
      BY <3>2
    <3> HIDE DEF tx
    <3>4. /\ Keeps /\ BalanceInv' /\ ChainInv' /\ DirInv'
          /\ receipt'[sent.op].status = NewStatus[sent.kind]
      BY <1>1, <2>4, <3>2, <3>3, ExecuteInv DEF Unchanged
    <3> QED BY <3>1, <3>2, <3>4
  <2>7. pc \in {"locked", "apply", "refund"} /\ proc[o].pc # "create"
    BY <1>2, <2>1
  <2>8. FoundInv'
    BY <1>1, <2>2, <2>5, <2>6, <2>7, FoundStays DEF Unchanged
  <2>9. Claim(o, proc[o].mem.completed)'
    <3>1. PICK c : c = proc[o].mem.completed
      OBVIOUS
    <3>2. Claim(o, c)'
      BY <1>2, <2>6, <3>1, ClaimStays DEF ProcInv
    <3> QED BY <2>2, <3>1, <3>2
  <2>10. Saved(o) /\ Saved(o)' /\ (pc # "refund" => proc'[o].mem.completed # 5)
    BY <1>1, <1>2, <2>1, <2>2 DEF ProcInv, Knows, Saved
  <2>11. /\ pc = "apply" => receipt'[o].status = "RELEASED"
         /\ pc = "refund" => receipt'[o].status = "CANCELLED"
    BY <1>2, <2>1, <2>6
  <2>12. Knows(o, proc[o].pc, proc[o].mem.completed)'
    BY <2>2, <2>7, <2>10, <2>11 DEF Knows
  <2>13. ProcInv(o, proc[o])'
    BY <1>1, <1>2, <2>2, <2>6, <2>7, <2>9, <2>12 DEF ProcInv, Keeps, Saved
  <2>14. Saved(o)' => Claim(o, dir[o].journal.completed)'
    BY <1>1, <2>6, ClaimStays DEF AInv, Saved
  <2> QED BY <1>1, <2>5, <2>6, <2>8, <2>13, <2>14, StepInv DEF GlobalInv, Unchanged
<1> QED BY <1>3, <1>4 DEF Land

(* A step after which no process holds anything new.                       *)
LEMMA FewerInv ==
  ASSUME AInv, Keeps, dir' = dir, GlobalInv', DOMAIN proc' = Operations,
         \A q \in Operations : proc'[q] = proc[q] \/ proc'[q] = Idle,
         (\A tx \in stray : TxOK(tx) /\ (tx.kind = "cancel" => tx.op \in interrupted))'
  PROVE  AInv'
<1>1. \A q \in Operations : Saved(q)' => Claim(q, dir[q].journal.completed)'
  BY ClaimStays DEF AInv, Saved
<1>2. ASSUME NEW q \in Operations, Running(q)' PROVE ProcInv(q, proc[q])'
  <2>1. proc'[q] = proc[q] /\ Running(q)
    BY <1>2 DEF Running
  <2> QED BY <2>1, ProcStays DEF AInv
<1> QED BY <1>1, <1>2 DEF AInv, GlobalInv

(* A transaction that its run no longer waits for lands all the same.      *)
LEMMA LandLateInv == ASSUME AInv, LandLate PROVE AInv'
<1>1. PICK tx \in stray :
        /\ Execute(tx) /\ stray' = stray \ {tx}
        /\ UNCHANGED <<dir, proc, attempts, faults, interrupted>>
  BY DEF LandLate
<1>2. TxOK(tx) /\ (tx.kind = "cancel" => tx.op \in interrupted)
  BY DEF AInv
<1>3. \A q \in Operations : At(q, "refund") => At(q, "refund")'
  BY <1>1 DEF At, Running
<1>4. Keeps /\ BalanceInv' /\ ChainInv' /\ DirInv'
  BY <1>1, <1>2, <1>3, ExecuteInv
<1>5. Saved(tx.op) /\ tx.op \in Directories /\ config # 0
  BY <1>2, DirectoryFacts DEF TxOK, AInv, DirInv, JournalOK
<1>6. FoundInv'
  <2>1. \A q \in Operations : ~Founding(q)'
    BY <1>1, <1>5 DEF AInv, FoundInv, Blank, Founding, At, Running
  <2> QED BY <1>1, <1>4, <1>5, <2>1 DEF AInv, FoundInv, Keeps
<1>7. (\A x \in stray : TxOK(x) /\ (x.kind = "cancel" => x.op \in interrupted))'
  BY <1>1, <1>4, TxStays DEF AInv
<1> QED BY <1>1, <1>4, <1>6, <1>7, FewerInv DEF GlobalInv, AInv

(* A run that ends does not undo the founding of the accounts.             *)
LEMMA FoundFewer ==
  ASSUME AInv, UNCHANGED <<config, bal, dir, attempts>>,
         \A q \in Operations : proc'[q] = proc[q] \/ proc'[q] = Idle
  PROVE  FoundInv'
<1>1. /\ FoundInv /\ (Blank <=> Blank') /\ \A t \in Tokens : Value(t)' = Value(t)
  BY DEF AInv, Blank, Saved, Value
<1>2. \A q \in Operations : Early(q) => Early(q)'
  BY DEF Early, Running
<1>3. \A q \in Operations : Founding(q)' => Founding(q) /\ proc'[q] = proc[q]
  BY DEF Founding, At, Running
<1> QED BY <1>1, <1>2, <1>3 DEF FoundInv

(* A crash loses the process and nothing else; what it had sent stays      *)
(* under way.                                                              *)
LEMMA CrashInv == ASSUME AInv, NEW o \in Operations, Crash(o) PROVE AInv'
<1>1. /\ Running(o) /\ UNCHANGED <<chain, dir, attempts>> /\ interrupted \subseteq interrupted'
  BY DEF Crash
<1>2. /\ DOMAIN proc' = Operations /\ proc'[o] = Idle
      /\ \A q \in Operations : q # o => proc'[q] = proc[q]
  BY ExitFields DEF Crash
<1>3. Keeps
  BY <1>1 DEF Keeps, chain, Saved, SameAccounts, Spendable
<1>4. \A q \in Operations : At(q, "refund") => At(q, "refund")' \/ q \in interrupted'
  BY <1>2 DEF At, Running, Crash
<1>5. BalanceInv' /\ ChainInv'
  BY <1>1, <1>3, <1>4, ChainStays DEF chain
<1>6. DirInv'
  BY <1>1 DEF AInv, DirInv, Saved, chain
<1>7. FoundInv'
  BY <1>1, <1>2, FoundFewer DEF chain
<1>8. ASSUME NEW tx \in stray' PROVE TxOK(tx)' /\ (tx.kind = "cancel" => tx.op \in interrupted')
  <2>1. CASE tx \in stray
    BY <1>1, <1>3, <2>1, TxStays DEF AInv
  <2>2. CASE tx = proc[o].tx /\ proc[o].tx # NoTx
    <3>1. /\ TxOK(tx) /\ tx.op = o /\ (tx.kind = "cancel" => proc[o].pc = "cancelSent")
      BY <1>1, <2>2, RunFacts DEF ProcInv
    <3>2. tx.kind = "cancel" => o \in interrupted'
      BY <3>1 DEF Crash
    <3> QED BY <1>3, <3>1, <3>2, TxStays
  <2> QED BY <2>1, <2>2 DEF Crash
<1> QED BY <1>1, <1>2, <1>3, <1>5, <1>6, <1>7, <1>8, FewerInv DEF GlobalInv

-----------------------------------------------------------------------------
(* Starting a run *)

(* A run that starts on recorded accounts.                                 *)
LEMMA StartInv ==
  ASSUME AInv, NEW o \in Operations, ~Running(o), NEW d \in Directories, Saved(d),
         UNCHANGED <<chain, dir>>, Unchanged,
         NEW pc \in {"record", "persistJournal"}, NEW mode, NEW journal, NEW secrets,
         proc' = [proc EXCEPT ![o] = NewProc(pc, mode, FALSE, journal, secrets)],
         JournalOK(journal), KeysFit(secrets, journal), journal.mint = config,
         Claim(o, journal.completed), Saved(o) => SameAccounts(journal, dir[o].journal),
         pc = "record" => Saved(o)
  PROVE  AInv'
<1>1. /\ DOMAIN proc' = Operations
      /\ \A q \in Operations : q # o => proc'[q] = proc[q]
      /\ proc'[o] = NewProc(pc, mode, FALSE, journal, secrets)
  BY DEF AInv
<1>2. /\ DOMAIN proc'[o] = ProcFields /\ proc'[o].pc = pc /\ proc'[o].mem = journal
      /\ proc'[o].keys = secrets /\ proc'[o].tx = NoTx
  BY <1>1 DEF NewProc, ProcFields
<1>3. Keeps /\ Frame(o)
  BY <1>1 DEF Keeps, Frame, chain, Saved, SameAccounts, Spendable, Unchanged
<1>4. BalanceInv' /\ ChainInv' /\ DirInv'
  <2>1. \A q \in Operations : At(q, "refund") => At(q, "refund")'
    BY <1>1 DEF At, Running
  <2>2. DirInv'
    BY DEF AInv, DirInv, Saved, chain
  <2> QED BY <1>3, <2>1, <2>2, ChainStays DEF chain
<1>5. FoundInv'
  <2>1. config # 0 /\ \A q \in Operations : ~Founding(q)
    BY DEF AInv, FoundInv, Blank
  <2>2. \A q \in Operations : ~Founding(q)'
    BY <1>1, <1>2, <2>1 DEF Founding, At, Running
  <2> QED BY <2>1, <2>2 DEF AInv, FoundInv, chain, Unchanged
<1>6. ProcInv(o, proc'[o])
  <2>1. Knows(o, pc, journal.completed)
    BY DEF Knows
  <2> QED BY <1>2, <2>1 DEF ProcInv
<1>7. ProcInv(o, proc[o])'
  BY <1>3, <1>6, ProcStays
<1>8. Saved(o)' => Claim(o, dir[o].journal.completed)'
  BY <1>3, ClaimStays DEF AInv, Saved
<1> QED BY <1>3, <1>4, <1>5, <1>7, <1>8, StepInv DEF GlobalInv, Unchanged

(* load_or_create_accounts: the operation's own files.                     *)
LEMMA ResumeInv ==
  ASSUME AInv, NEW o \in Operations, NEW mode, NEW amount, Resume(o, mode, amount)
  PROVE  AInv'
<1>1. /\ ~Running(o) /\ Saved(o) /\ dir[o].secrets # NoSecrets /\ o \in Directories
      /\ UNCHANGED <<chain, dir>> /\ Unchanged
  BY DirectoryFacts DEF Resume, Recorded, MatchesOnChain, Saved
<1>2. /\ JournalOK(dir[o].journal) /\ KeysFit(dir[o].secrets, dir[o].journal)
      /\ dir[o].journal.mint = config /\ Claim(o, dir[o].journal.completed)
      /\ SameAccounts(dir[o].journal, dir[o].journal)
  BY <1>1 DEF AInv, DirInv, SameAccounts
<1>3. \E pc \in {"record", "persistJournal"} :
        proc' = [proc EXCEPT ![o] = NewProc(pc, mode, FALSE, dir[o].journal, dir[o].secrets)]
  BY DEF Resume
<1> QED BY <1>1, <1>2, <1>3, StartInv

(* Reversing the endpoints swaps the accounts and the keys alike.          *)
LEMMA ReverseFits ==
  ASSUME NEW journal, NEW secrets, JournalOK(journal), KeysFit(secrets, journal)
  PROVE  LET new == ReverseEndpoints(journal, secrets)
         IN  /\ JournalOK(new.journal) /\ KeysFit(new.secrets, new.journal)
             /\ new.journal.mint = journal.mint /\ new.journal.amount = journal.amount
             /\ new.journal.completed = journal.completed
<1> DEFINE j == [journal EXCEPT !.source = journal.payout, !.payout = journal.source,
                                !.refund = journal.payout]
           k == [secrets EXCEPT !.source = secrets.payout, !.payout = secrets.source]
<1>1. ReverseEndpoints(journal, secrets).journal = j
      /\ ReverseEndpoints(journal, secrets).secrets = k
  BY DEF ReverseEndpoints
<1>2. /\ DOMAIN j = JournalFields /\ j.mint = journal.mint /\ j.amount = journal.amount
      /\ j.completed = journal.completed /\ j.source = journal.payout
      /\ j.refund = journal.payout /\ j.payout = journal.source
  BY DEF JournalOK, JournalFields
<1>3. DOMAIN k = SecretsFields /\ k.mint = secrets.mint /\ k.source = secrets.payout
      /\ k.payout = secrets.source
  BY DEF KeysFit, SecretsFields
<1> HIDE DEF j, k
<1>4. journal.payout \in Endpoints /\ journal.source = Other(journal.payout)
  BY OtherValues DEF JournalOK, Endpoints
<1>5. JournalOK(j) /\ KeysFit(k, j)
  BY <1>2, <1>3, <1>4 DEF JournalOK, KeysFit
<1> QED BY <1>1, <1>2, <1>5

(* reuse_existing_accounts: another directory's accounts, whatever its     *)
(* operation is doing.                                                     *)
LEMMA ReuseInv ==
  ASSUME AInv, NEW o \in Operations, NEW mode, NEW prior \in Directories,
         NEW amount \in Amounts, NEW reverse \in BOOLEAN,
         Reuse(o, mode, prior, amount, reverse)
  PROVE  AInv'
<1> DEFINE old == dir[prior].journal
           journal == [old EXCEPT !.amount = amount, !.completed = 0]
           new == ReuseExisting(prior, amount, reverse)
<1>1. /\ ~Running(o) /\ Saved(prior) /\ dir[prior].secrets # NoSecrets /\ ~Saved(o)
      /\ UNCHANGED <<chain, dir>> /\ Unchanged
      /\ proc' = [proc EXCEPT ![o] =
                    NewProc("persistJournal", mode, FALSE, new.journal, new.secrets)]
  BY DEF Reuse, Recorded, MatchesOnChain, Saved
<1>2. /\ JournalOK(old) /\ KeysFit(dir[prior].secrets, old) /\ old.mint = config
  BY <1>1 DEF AInv, DirInv
<1>3. /\ DOMAIN journal = JournalFields /\ journal.mint = old.mint /\ journal.source = old.source
      /\ journal.refund = old.refund /\ journal.payout = old.payout
      /\ journal.amount = amount /\ journal.completed = 0
  BY <1>2 DEF JournalOK, JournalFields
<1> HIDE DEF journal
<1>4. /\ JournalOK(journal) /\ KeysFit(dir[prior].secrets, journal)
  BY <1>2, <1>3, AccountsAssumption DEF JournalOK, KeysFit
<1>5. /\ JournalOK(new.journal) /\ KeysFit(new.secrets, new.journal)
      /\ new.journal.mint = config /\ new.journal.completed = 0
  <2>1. CASE reverse
    <3>1. new = ReverseEndpoints(journal, dir[prior].secrets)
      BY <2>1 DEF ReuseExisting, journal
    <3> QED BY <1>2, <1>3, <1>4, <3>1, ReverseFits
  <2>2. CASE ~reverse
    <3>1. new = [journal |-> journal, secrets |-> dir[prior].secrets]
      BY <2>2 DEF ReuseExisting, journal
    <3> QED BY <1>2, <1>3, <1>4, <3>1
  <2> QED BY <2>1, <2>2
<1>6. Claim(o, new.journal.completed)
  BY <1>5 DEF Claim
<1> HIDE DEF new
<1> QED BY <1>1, <1>5, <1>6, StartInv

(* New accounts, while the program is not configured.                      *)
LEMMA CreateInv ==
  ASSUME AInv, NEW o \in Operations, NEW mode, NEW durable \in BOOLEAN, NEW amount \in Amounts,
         Create(o, mode, durable, amount)
  PROVE  AInv'
<1> DEFINE journal == [mint |-> attempts', source |-> "a", refund |-> "a", payout |-> "b",
                       amount |-> amount, completed |-> 0]
           secrets == [mint |-> attempts', source |-> "a", payout |-> "b"]
<1>1. /\ ~Running(o) /\ config = 0 /\ ~Saved(o) /\ attempts' = attempts + 1
      /\ UNCHANGED <<chain, dir, stray, faults, interrupted>>
      /\ proc' = [proc EXCEPT ![o] = NewProc("create", mode, durable, journal, secrets)]
  BY DEF Create, Saved
<1>2. /\ FoundInv /\ attempts' \in Nat \ {0} /\ DOMAIN proc = Operations
  BY <1>1 DEF AInv, FoundInv
<1>3. JournalOK(journal) /\ KeysFit(secrets, journal) /\ journal.source = "a" /\ journal.completed = 0
  BY <1>2, OtherValues, AccountsAssumption
     DEF JournalOK, KeysFit, JournalFields, SecretsFields, Endpoints
<1> HIDE DEF journal, secrets
<1>4. /\ DOMAIN proc' = Operations
      /\ \A q \in Operations : q # o => proc'[q] = proc[q]
      /\ DOMAIN proc'[o] = ProcFields /\ proc'[o].pc = "create" /\ proc'[o].mem = journal
      /\ proc'[o].keys = secrets /\ proc'[o].tx = NoTx /\ proc'[o].step = 1
  BY <1>1, <1>2 DEF NewProc, ProcFields
<1>5. Keeps /\ Frame(o)
  BY <1>1, <1>4 DEF Keeps, Frame, chain, Saved, SameAccounts, Spendable
<1>6. BalanceInv' /\ ChainInv' /\ DirInv'
  <2>1. \A q \in Operations : At(q, "refund") => At(q, "refund")'
    BY <1>1, <1>4 DEF At, Running
  <2>2. DirInv'
    BY <1>1 DEF AInv, DirInv, Saved, chain
  <2> QED BY <1>1, <1>5, <2>1, <2>2, ChainStays DEF chain
<1>7. FoundInv'
  <2>1. \A q \in Operations : Early(q)' /\ ~Founding(q)'
    BY <1>1, <1>2, <1>4 DEF FoundInv, Early, Founding, At, Running
  <2>2. Blank' /\ \A t \in Tokens : Value(t)' = 0
    BY <1>1, <1>2 DEF FoundInv, Blank, Saved, Value, chain
  <2> QED BY <1>1, <1>2, <2>1, <2>2 DEF FoundInv, chain
<1>8. ProcInv(o, proc'[o])
  <2>1. Claim(o, journal.completed) /\ Knows(o, "create", journal.completed)
    BY <1>3 DEF Claim, Knows
  <2> QED BY <1>1, <1>3, <1>4, <2>1 DEF ProcInv
<1>9. ProcInv(o, proc[o])'
  BY <1>1, <1>5, <1>8, ProcStays
<1>10. Saved(o)' => Claim(o, dir[o].journal.completed)'
  BY <1>1, <1>5, ClaimStays DEF AInv, Saved
<1> QED BY <1>1, <1>5, <1>6, <1>7, <1>9, <1>10, StepInv DEF GlobalInv

-----------------------------------------------------------------------------
(* Provisioning *)

(* The next transaction of create_bridge_accounts is due.                  *)
Onward(o) ==
  /\ DOMAIN proc' = Operations
  /\ \A q \in Operations : q # o => proc'[q] = proc[q]
  /\ DOMAIN proc'[o] = ProcFields
  /\ proc'[o].pc = "create" /\ proc'[o].tx = proc[o].tx /\ proc'[o].mem = proc[o].mem
  /\ proc'[o].keys = proc[o].keys /\ proc'[o].step = proc[o].step + 1

(* The last one was sent and the files are due.                            *)
Provided(o) ==
  /\ DOMAIN proc' = Operations
  /\ \A q \in Operations : q # o => proc'[q] = proc[q]
  /\ DOMAIN proc'[o] = ProcFields
  /\ proc'[o].pc \in {"durableJournal", "persistJournal"}
  /\ proc'[o].tx = NoTx /\ proc'[o].mem = proc[o].mem /\ proc'[o].keys = proc[o].keys

(* The transactions of create_bridge_accounts one by one.                  *)
LEMMA ProvisionFields ==
  ASSUME AInv, NEW o \in Operations, Provision(o)
  PROVE  LET n == proc[o].step
             mem == proc[o].mem
         IN  /\ Running(o) /\ proc[o].pc = "create" /\ n \in 1..9
             /\ UNCHANGED <<receipt, credit, dir>> /\ Unchanged
             /\ n \in {1, 2, 3, 4, 5, 7} =>
                  /\ Onward(o) /\ config' = config
                  /\ DOMAIN bal' = Tokens /\ \A t \in Tokens : bal'[t] = bal[t]
             /\ n = 6 => /\ bal' = bal
                         /\ \/ Onward(o) /\ config = 0 /\ config' = mem.mint
                            \/ Exit(o) /\ config' = config
             /\ n = 8 => /\ Onward(o) /\ config' = config
                         /\ bal' = [bal EXCEPT !["a"] = Credit(bal["a"], mem.amount)]
             /\ n = 9 => /\ Provided(o) /\ config' = config
                         /\ bal' = [bal EXCEPT !["a"] = Apply(bal["a"], mem.amount)]
<1> DEFINE n == proc[o].step
           mem == proc[o].mem
           next == Transactions[n]
           made == CASE next = "vault"     -> ConfidentialAccount("payer", TRUE)
                     [] next = "authority" -> [proc[o].vault EXCEPT !.owner = "program"]
                     [] OTHER -> proc[o].vault
           one == [proc[o] EXCEPT !.step = n + 1, !.vault = made]
           two == NewProc(IF proc[o].durable THEN "durableJournal" ELSE "persistJournal",
                          proc[o].mode, FALSE, mem, proc[o].keys)
           onward == proc' = [proc EXCEPT ![o] = IF next # "apply" THEN one ELSE two]
<1>1. /\ Running(o) /\ proc[o].pc = "create" /\ UNCHANGED <<receipt, credit, dir>> /\ Unchanged
  BY DEF Provision, At
<1>2. ProcInv(o, proc[o]) /\ DOMAIN proc = Operations /\ BalanceInv
  BY <1>1 DEF AInv
<1>3. n \in 1..9 /\ mem.source = "a" /\ DOMAIN proc[o] = ProcFields
  BY <1>1, <1>2 DEF ProcInv
<1>4. /\ n \in {1, 2, 3, 4, 5, 7} => next \notin {"initialize", "deposit", "apply"}
      /\ n = 6 => next = "initialize"
      /\ n = 8 => next = "deposit"
      /\ n = 9 => next = "apply"
  BY <1>3 DEF Transactions
<1>5. IF next # "initialize"
      THEN /\ onward /\ config' = config
           /\ bal' = [bal EXCEPT !["a"] = DepositAndApply(bal["a"], next, mem.amount)]
      ELSE /\ bal' = bal
           /\ IF config = 0 /\ VaultAcceptable(proc[o].vault)
              THEN onward /\ config' = mem.mint
              ELSE Exit(o) /\ config' = config
  BY <1>3 DEF Provision
<1>6. /\ DOMAIN one = ProcFields /\ one.pc = "create" /\ one.tx = proc[o].tx
      /\ one.mem = mem /\ one.keys = proc[o].keys /\ one.step = n + 1
  <2> HIDE DEF made
  <2> QED BY <1>1, <1>3 DEF ProcFields
<1>7. /\ DOMAIN two = ProcFields /\ two.pc \in {"durableJournal", "persistJournal"}
      /\ two.tx = NoTx /\ two.mem = mem /\ two.keys = proc[o].keys
  BY DEF NewProc, ProcFields
<1> HIDE DEF one, two, next
<1>8. onward => /\ next # "apply" => Onward(o)
                /\ next = "apply" => Provided(o)
  BY <1>2, <1>6, <1>7 DEF Onward, Provided
<1> HIDE DEF onward
<1>9. n \in {1, 2, 3, 4, 5, 7} =>
        /\ Onward(o) /\ config' = config
        /\ DOMAIN bal' = Tokens /\ \A t \in Tokens : bal'[t] = bal[t]
  <2>1. n \in {1, 2, 3, 4, 5, 7} =>
          /\ onward /\ config' = config
          /\ bal' = [bal EXCEPT !["a"] = bal["a"]]
    BY <1>4, <1>5 DEF DepositAndApply
  <2>2. DOMAIN bal = Tokens
    BY <1>2 DEF BalanceInv
  <2> QED BY <1>4, <1>8, <2>1, <2>2
<1>10. n = 6 => /\ bal' = bal
                /\ \/ Onward(o) /\ config = 0 /\ config' = mem.mint
                   \/ Exit(o) /\ config' = config
  BY <1>4, <1>5, <1>8
<1>11. n = 8 => /\ Onward(o) /\ config' = config
                /\ bal' = [bal EXCEPT !["a"] = Credit(bal["a"], mem.amount)]
  BY <1>4, <1>5, <1>8 DEF DepositAndApply
<1>12. n = 9 => /\ Provided(o) /\ config' = config
                /\ bal' = [bal EXCEPT !["a"] = Apply(bal["a"], mem.amount)]
  BY <1>4, <1>5, <1>8 DEF DepositAndApply
<1> QED BY <1>1, <1>3, <1>9, <1>10, <1>11, <1>12

(* What a process in provisioning holds after its next transaction.        *)
LEMMA OnwardProc ==
  ASSUME AInv, NEW o \in Operations, Running(o), proc[o].pc = "create", Onward(o),
         proc[o].step \in 1..8, UNCHANGED <<dir, receipt, credit>>, Unchanged,
         proc[o].step >= 6 => proc[o].mem.mint = config'
  PROVE  ProcInv(o, proc[o])'
<1>1. ProcInv(o, proc[o]) /\ ~Saved(o) /\ ~Saved(o)'
  BY DEF AInv, ProcInv, Saved
<1>2. Claim(o, proc[o].mem.completed)'
  BY <1>1 DEF ProcInv, Onward, Claim, Spendable, Unchanged
<1>3. Knows(o, proc[o].pc, proc[o].mem.completed)'
  BY DEF Onward, Knows
<1>4. proc'[o].step \in 1..9 /\ (proc'[o].step >= 7 => proc[o].mem.mint = config')
  BY DEF Onward
<1> QED BY <1>1, <1>2, <1>3, <1>4 DEF ProcInv, Onward

(* While an attempt founds the accounts nobody else is past provisioning,  *)
(* and no operation has a receipt or a credit.                             *)
LEMMA NobodyElse ==
  ASSUME AInv, NEW o \in Operations, Running(o), proc[o].pc = "create",
         proc[o].step >= 7 \/ config = 0
  PROVE  /\ Blank /\ stray = {}
         /\ \A q \in Operations : /\ receipt[q].status = "NONE" /\ credit[q] = "none"
                                  /\ q # o => Early(q) /\ ~Founding(q)
         /\ proc[o].step >= 7 => Founding(o) /\ config # 0
<1>1. Blank
  BY DEF AInv, FoundInv, Founding, At
<1>2. \A q \in Operations : ~Saved(q)
  BY <1>1, DirectoryFacts DEF Blank
<1>3. \A q \in Operations : receipt[q].status = "NONE" /\ credit[q] = "none"
  BY <1>2 DEF AInv, ChainInv, ReceiptInv, CreditInv
<1>4. stray = {}
  BY <1>2 DEF AInv, TxOK
<1>5. proc[o].step >= 7 => Founding(o) /\ config # 0
  BY DEF AInv, FoundInv, Founding, At
<1>6. \A q \in Operations : q # o => Early(q)
  BY <1>5 DEF AInv, FoundInv
<1>7. ProcInv(o, proc[o]) /\ \A q \in Operations : Running(q) => ProcInv(q, proc[q])
  BY DEF AInv
<1>8. \A q \in Operations : q # o => ~Founding(q)
  BY <1>6, <1>7 DEF Early, Founding, At, ProcInv
<1> QED BY <1>1, <1>3, <1>4, <1>5, <1>6, <1>8

(* create_bridge_accounts, transaction by transaction.                     *)
LEMMA ProvisionInv == ASSUME AInv, NEW o \in Operations, Provision(o) PROVE AInv'
<1> DEFINE n == proc[o].step
           mem == proc[o].mem
<1>1. /\ Running(o) /\ proc[o].pc = "create" /\ n \in 1..9
      /\ UNCHANGED <<receipt, credit, dir>> /\ Unchanged
      /\ n \in {1, 2, 3, 4, 5, 7} =>
           /\ Onward(o) /\ config' = config
           /\ DOMAIN bal' = Tokens /\ \A t \in Tokens : bal'[t] = bal[t]
      /\ n = 6 => /\ bal' = bal
                  /\ \/ Onward(o) /\ config = 0 /\ config' = mem.mint
                     \/ Exit(o) /\ config' = config
      /\ n = 8 => /\ Onward(o) /\ config' = config
                  /\ bal' = [bal EXCEPT !["a"] = Credit(bal["a"], mem.amount)]
      /\ n = 9 => /\ Provided(o) /\ config' = config
                  /\ bal' = [bal EXCEPT !["a"] = Apply(bal["a"], mem.amount)]
  BY ProvisionFields
<1>2. /\ ProcInv(o, proc[o]) /\ ~Saved(o) /\ mem.source = "a" /\ JournalOK(mem)
      /\ mem.amount \in Nat \ {0} /\ mem.mint \in Nat \ {0} /\ BalanceInv
      /\ n >= 7 => mem.mint = config
      /\ "a" \in Tokens /\ "a" \in Endpoints /\ DOMAIN bal = Tokens
  BY <1>1 DEF AInv, ProcInv, JournalOK, BalanceInv, Tokens, Endpoints
<1>3. config' = config => Keeps
  BY <1>1 DEF Keeps, Unchanged, Saved, SameAccounts, Spendable
<1>4. /\ config' = config => DirInv'
      /\ Blank <=> Blank'
  BY <1>1 DEF AInv, DirInv, Saved, Blank
<1>5. ~Saved(o)'
  BY <1>1, <1>2 DEF Saved
<1>6. Onward(o) \/ Provided(o) =>
        /\ Frame(o) /\ \A q \in Operations : At(q, "refund") => At(q, "refund")'
  BY <1>1 DEF Onward, Provided, Frame, At, Running
<1>7. \A q \in Operations : q # o /\ (Onward(o) \/ Provided(o)) =>
         /\ Early(q) <=> Early(q)'
         /\ Founding(q) <=> Founding(q)'
         /\ Founding(q) => proc'[q] = proc[q]
  BY DEF Onward, Provided, Early, Founding, At, Running
<1>8. Onward(o) => /\ proc'[o] # Idle
                   /\ n + 1 <= 6 => Early(o)' /\ ~Founding(o)'
                   /\ n + 1 >= 7 => Founding(o)'
  BY <1>1 DEF Onward, Early, Founding, At, Running, ProcFields, Idle
<1>9. CASE n \in {1, 2, 3, 4, 5}
  <2>1. Onward(o) /\ config' = config /\ Keeps
    BY <1>1, <1>3, <1>9
  <2>2. BalanceInv' /\ ChainInv'
    BY <1>1, <1>6, <1>9, <2>1, SameBalances
  <2>3. FoundInv'
    <3>1. \A t \in Tokens : Value(t)' = Value(t)
      BY <1>1, <1>9 DEF Value
    <3>2. bal'["a"] = bal["a"] /\ Early(o)' /\ ~Founding(o)'
      BY <1>1, <1>2, <1>8, <1>9, <2>1
    <3> QED BY <1>1, <1>4, <1>7, <2>1, <3>1, <3>2 DEF AInv, FoundInv, Unchanged
  <2>4. ProcInv(o, proc[o])'
    BY <1>1, <1>9, <2>1, OnwardProc
  <2> QED BY <1>1, <1>4, <1>5, <1>6, <2>1, <2>2, <2>3, <2>4, StepInv DEF GlobalInv, Unchanged
<1>10. CASE n = 7
  <2>1. Onward(o) /\ config' = config /\ Keeps
    BY <1>1, <1>3, <1>10
  <2>2. BalanceInv' /\ ChainInv'
    BY <1>1, <1>6, <1>10, <2>1, SameBalances
  <2>3. FoundInv'
    <3>1. \A t \in Tokens : Value(t)' = Value(t)
      BY <1>1, <1>10 DEF Value
    <3>2. /\ Blank /\ Founding(o) /\ config # 0
          /\ \A q \in Operations : q # o => Early(q) /\ ~Founding(q)
      BY <1>1, <1>10, NobodyElse
    <3>3. \A t \in Tokens : Value(t) = 0
      BY <1>10, <3>2 DEF AInv, FoundInv
    <3>4. proc'[o].step = 8
      BY <1>10, <2>1 DEF Onward
    <3> QED BY <1>1, <1>4, <1>7, <2>1, <3>1, <3>2, <3>3, <3>4 DEF AInv, FoundInv, Unchanged
  <2>4. ProcInv(o, proc[o])'
    BY <1>1, <1>2, <1>10, <2>1, OnwardProc
  <2> QED BY <1>1, <1>4, <1>5, <1>6, <2>1, <2>2, <2>3, <2>4, StepInv DEF GlobalInv, Unchanged
<1>11. CASE n = 6 /\ Exit(o) /\ config' = config
  <2>1. /\ DOMAIN proc' = Operations /\ proc'[o] = Idle
        /\ \A q \in Operations : q # o => proc'[q] = proc[q]
    BY <1>11, ExitFields
  <2>2. Keeps /\ bal' = bal /\ DirInv'
    BY <1>1, <1>3, <1>4, <1>11
  <2>3. BalanceInv' /\ ChainInv'
    <3>1. \A q \in Operations : At(q, "refund") => At(q, "refund")'
      BY <1>1, <2>1 DEF At, Running
    <3> QED BY <1>1, <2>2, <3>1, ChainStays
  <2>4. FoundInv'
    BY <1>1, <1>11, <2>1, <2>2, FoundFewer DEF Unchanged
  <2>5. (\A tx \in stray : TxOK(tx) /\ (tx.kind = "cancel" => tx.op \in interrupted))'
    BY <1>1, <2>2, TxStays DEF AInv, Unchanged
  <2> QED BY <1>1, <2>1, <2>2, <2>3, <2>4, <2>5, FewerInv DEF GlobalInv
<1>12. CASE n = 6 /\ Onward(o) /\ config = 0 /\ config' = mem.mint
  <2>1. /\ Blank /\ stray = {} /\ Blank' /\ \A q \in Operations : ~Saved(q) /\ ~Saved(q)'
        /\ \A q \in Operations : /\ receipt[q].status = "NONE" /\ credit[q] = "none"
                                 /\ q # o => Early(q) /\ ~Founding(q)
    BY <1>1, <1>4, <1>12, NobodyElse, DirectoryFacts DEF Blank
  <2>2. bal' = bal /\ BalanceInv'
    BY <1>1, <1>12 DEF AInv, BalanceInv, DecryptableTruthful, Value
  <2>3. ChainInv'
    <3>1. \A q \in Operations : ReceiptInv(q)' /\ CreditInv(q)'
      BY <1>1, <2>1 DEF AInv, ChainInv, ReceiptInv, CreditInv, Open, Endpoints
    <3> QED BY <1>1, <2>1, <3>1 DEF AInv, ChainInv, Open
  <2>4. DirInv'
    BY <1>1, <2>1, DirectoryFacts DEF AInv, DirInv, Blank, Saved
  <2>5. FoundInv'
    <3>1. \A t \in Tokens : Value(t)' = 0
      BY <1>12, <2>2 DEF AInv, FoundInv, Value
    <3>2. proc'[o].step = 7 /\ config' \in Nat /\ config' # 0
      BY <1>2, <1>12 DEF Onward
    <3> QED BY <1>1, <1>7, <1>12, <2>1, <3>1, <3>2 DEF AInv, FoundInv, Unchanged
  <2>6. ProcInv(o, proc[o])'
    BY <1>1, <1>12, OnwardProc
  <2>7. ASSUME NEW q \in Operations, q # o, Running(q)' PROVE ProcInv(q, proc[q])'
    <3>1. /\ proc'[q] = proc[q] /\ Running(q) /\ proc[q].pc = "create" /\ proc[q].step <= 6
          /\ ProcInv(q, proc[q])
      BY <1>12, <2>1, <2>7 DEF Onward, Running, Early, AInv
    <3>2. Claim(q, proc[q].mem.completed)' /\ Knows(q, proc[q].pc, proc[q].mem.completed)'
      BY <1>1, <3>1 DEF ProcInv, Claim, Knows, Spendable, Unchanged
    <3> QED BY <2>1, <3>1, <3>2 DEF ProcInv
  <2>8. DOMAIN proc' = Operations
    BY <1>12 DEF Onward
  <2> QED BY <1>1, <2>1, <2>2, <2>3, <2>4, <2>5, <2>6, <2>7, <2>8 DEF AInv, Unchanged
<1>13. CASE n = 8
  <2>1. Onward(o) /\ config' = config /\ Keeps
    BY <1>1, <1>3, <1>13
  <2>2. /\ Blank /\ Founding(o) /\ config # 0
        /\ \A q \in Operations : /\ receipt[q].status = "NONE" /\ credit[q] = "none"
                                 /\ q # o => Early(q) /\ ~Founding(q)
    BY <1>1, <1>13, NobodyElse
  <2>3. \A t \in Tokens : Value(t) = 0
    BY <1>13, <2>2 DEF AInv, FoundInv
  <2>4. /\ bal["a"].available = 0 /\ bal["a"].pending = 0 /\ bal["a"].counter = 0
        /\ bal["a"].decryptable = 0 /\ DOMAIN bal["a"] = BalanceFields
    BY <1>2, <2>3, TokenFacts
  <2>5. /\ DOMAIN bal' = Tokens /\ bal'["a"] = Credit(bal["a"], mem.amount)
        /\ \A t \in Tokens : t # "a" => bal'[t] = bal[t]
    BY <1>1, <1>2, <1>13
  <2>6. /\ DOMAIN bal'["a"] = BalanceFields /\ bal'["a"].available = 0
        /\ bal'["a"].pending = mem.amount /\ bal'["a"].counter = 1 /\ bal'["a"].decryptable = 0
    BY <1>2, <2>4, <2>5 DEF Credit, BalanceFields
  <2>7. BalanceInv'
    BY <1>2, <2>3, <2>5, <2>6, BalanceStep
  <2>8. ChainInv'
    <3>1. \A q \in Operations : ReceiptInv(q)' /\ CreditInv(q)'
      BY <1>1, <2>2 DEF AInv, ChainInv, ReceiptInv, CreditInv, Open, Endpoints
    <3> QED BY <1>1, <2>2, <3>1 DEF AInv, ChainInv, Open
  <2>9. FoundInv'
    <3>1. proc'[o].step = 9 /\ proc'[o].mem.amount = mem.amount
      BY <1>13, <2>1 DEF Onward
    <3> QED BY <1>1, <1>4, <1>7, <2>1, <2>2, <2>6, <3>1 DEF AInv, FoundInv, Unchanged
  <2>10. ProcInv(o, proc[o])'
    BY <1>1, <1>2, <1>13, <2>1, OnwardProc
  <2> QED BY <1>1, <1>4, <1>5, <1>6, <2>1, <2>7, <2>8, <2>9, <2>10, StepInv
          DEF GlobalInv, Unchanged
<1>14. CASE n = 9
  <2>1. Provided(o) /\ config' = config /\ Keeps
    BY <1>1, <1>3, <1>14
  <2>2. /\ Blank /\ Founding(o) /\ config # 0
        /\ \A q \in Operations : /\ receipt[q].status = "NONE" /\ credit[q] = "none"
                                 /\ q # o => Early(q) /\ ~Founding(q)
    BY <1>1, <1>14, NobodyElse
  <2>3. bal["a"].pending = mem.amount /\ mem.amount # 0
    BY <1>2, <1>14, <2>2 DEF AInv, FoundInv
  <2>4. /\ DOMAIN bal' = Tokens /\ bal'["a"] = Apply(bal["a"], mem.amount)
        /\ \A t \in Tokens : t # "a" => bal'[t] = bal[t]
    BY <1>1, <1>2, <1>14
  <2>5. /\ DOMAIN bal'["a"] = BalanceFields /\ bal'["a"].available = mem.amount
        /\ bal'["a"].decryptable = mem.amount /\ bal'["a"].pending = 0 /\ bal'["a"].counter = 0
    BY <1>2, <2>3, <2>4, ApplyFields
  <2>6. Value("a")' = Value("a")
    BY <1>2, <2>3, <2>5, TokenFacts DEF Value
  <2>7. BalanceInv'
    BY <1>2, <2>4, <2>5, <2>6, BalanceStep
  <2>8. ChainInv'
    <3>1. \A q \in Operations : ReceiptInv(q)' /\ CreditInv(q)'
      BY <1>1, <2>2 DEF AInv, ChainInv, ReceiptInv, CreditInv, Open, Endpoints
    <3> QED BY <1>1, <2>2, <3>1 DEF AInv, ChainInv, Open
  <2>9. FoundInv'
    <3>1. \A q \in Operations : ~Founding(q)'
      BY <1>7, <2>1, <2>2 DEF Provided, Founding, At
    <3> QED BY <1>1, <2>1, <2>2, <3>1 DEF AInv, FoundInv, Unchanged
  <2>10. ProcInv(o, proc[o])'
    <3>1. Claim(o, proc[o].mem.completed)'
      BY <1>1, <1>2, <2>1 DEF ProcInv, Provided, Claim, Spendable, Unchanged
    <3>2. Knows(o, proc[o].pc, proc[o].mem.completed)'
      BY <2>1 DEF Provided, Knows
    <3> QED BY <1>2, <1>5, <1>14, <2>1, <3>1, <3>2 DEF ProcInv, Provided
  <2> QED BY <1>1, <1>4, <1>5, <1>6, <2>1, <2>7, <2>8, <2>9, <2>10, StepInv
          DEF GlobalInv, Unchanged
<1> QED BY <1>1, <1>9, <1>10, <1>11, <1>12, <1>13, <1>14

-----------------------------------------------------------------------------
(* The invariant and what it gives *)

(* Nothing is configured, recorded or running.                             *)
LEMMA InitInv == Init => AInv
<1> SUFFICES ASSUME Init PROVE AInv
  OBVIOUS
<1>1. /\ DOMAIN dir = Directories /\ DOMAIN bal = Tokens /\ DOMAIN proc = Operations
      /\ DOMAIN receipt = Operations /\ DOMAIN credit = Operations
      /\ \A d \in Directories : /\ dir[d].journal = NoJournal /\ dir[d].secrets = NoSecrets
                                /\ DOMAIN dir[d] = {"journal", "secrets"}
      /\ \A q \in Operations : /\ ~Running(q) /\ credit[q] = "none"
                               /\ receipt[q].status = "NONE"
                               /\ DOMAIN receipt[q] = {"status", "from"}
      /\ stray = {} /\ config = 0 /\ attempts = 0
  BY DEF Init, Running
<1>2. \A d \in Directories : ~Saved(d)
  BY <1>1 DEF Saved
<1>3. DirInv
  BY <1>1, <1>2, DirectoryFacts DEF DirInv
<1>4. \A t \in Tokens : /\ DOMAIN bal[t] = BalanceFields /\ bal[t].available = 0
                        /\ bal[t].decryptable = 0 /\ bal[t].pending = 0 /\ bal[t].counter = 0
  BY DEF Init, Empty, BalanceFields
<1>5. BalanceInv /\ \A t \in Tokens : Value(t) = 0
  BY <1>1, <1>4 DEF BalanceInv, DecryptableTruthful, Value, Tokens
<1>6. ChainInv
  BY <1>1 DEF ChainInv, ReceiptInv, CreditInv, Open, Endpoints
<1>7. FoundInv
  BY <1>1, <1>2, <1>5 DEF FoundInv, Blank, Early, Founding, At
<1> QED BY <1>1, <1>2, <1>3, <1>5, <1>6, <1>7, DirectoryFacts DEF AInv

(* A step that leaves every variable alone.                                *)
LEMMA StutterInv == AInv /\ UNCHANGED vars => AInv'
<1> SUFFICES ASSUME AInv, UNCHANGED vars PROVE AInv'
  OBVIOUS
<1>1. /\ UNCHANGED <<config, bal, receipt, credit, dir, proc, stray, attempts, interrupted>>
  BY DEF vars, chain
<1>2. Keeps
  BY <1>1 DEF Keeps, Saved, SameAccounts, Spendable
<1>3. BalanceInv' /\ ChainInv'
  BY <1>1, <1>2, ChainStays DEF At, Running
<1>4. DirInv'
  BY <1>1 DEF AInv, DirInv, Saved
<1>5. FoundInv'
  BY <1>1, FoundFewer
<1>6. (\A tx \in stray : TxOK(tx) /\ (tx.kind = "cancel" => tx.op \in interrupted))'
  BY <1>1, <1>2, TxStays DEF AInv
<1>7. DOMAIN proc' = Operations
  BY <1>1 DEF AInv
<1> QED BY <1>1, <1>2, <1>3, <1>4, <1>5, <1>6, <1>7, FewerInv DEF GlobalInv

(* Every step of every coordinator, at any interleaving, keeps it.         *)
LEMMA NextInv == AInv /\ [Next]_vars => AInv'
<1> SUFFICES ASSUME AInv, [Next]_vars PROVE AInv'
  OBVIOUS
<1>1. ASSUME NEW o \in Operations, Start(o) PROVE AInv'
  BY <1>1, ResumeInv, ReuseInv, CreateInv DEF Start
<1>2. ASSUME NEW o \in Operations, Coordinate(o) PROVE AInv'
  BY <1>2, ProvisionInv, PersistInv, BeginInv, ReserveInv, LockInv, MintAndSettleInv,
     ReleaseInv, PayInv, RedeemInv, RecordInv, CancelInv, RefundInv, LandInv DEF Coordinate
<1>3. ASSUME NEW o \in Operations, Crash(o) PROVE AInv'
  BY <1>3, CrashInv
<1>4. CASE LandLate
  BY <1>4, LandLateInv
<1>5. CASE UNCHANGED vars
  BY <1>5, StutterInv
<1> QED BY <1>1, <1>2, <1>3, <1>4, <1>5 DEF Next

(* The inductive invariant holds over any number of operations, amounts,   *)
(* provisioning attempts and crashes of the coordinators.                  *)
THEOREM AccountsInvariance == Spec => []AInv
<1>1. Init => AInv
  BY InitInv
<1>2. AInv /\ [Next]_vars => AInv'
  BY NextInv
<1> QED BY <1>1, <1>2, PTL DEF Spec

(* Every claim a coordinator writes when it applies a pending balance is   *)
(* right, and no credit is ever applied together with another one          *)
(* (apply_pending, generate_transfer_proofs).                              *)
THEOREM ClaimsRight == Spec => []DecryptableTruthful
<1>1. AInv => DecryptableTruthful
  BY DEF AInv, BalanceInv
<1> QED BY <1>1, AccountsInvariance, PTL

(* Whatever files crashes and races leave behind name the configured       *)
(* accounts, and every key is in its account's place (journal.rs,          *)
(* reverse_endpoints, reuse_existing_accounts).                            *)
THEOREM FilesUsable == Spec => []RecordsUsable
<1>1. AInv => RecordsUsable
  <2> SUFFICES ASSUME AInv, NEW d \in Directories
               PROVE  /\ dir[d].journal # NoJournal =>
                           /\ dir[d].journal.mint = config
                           /\ dir[d].journal.refund = dir[d].journal.source
                           /\ dir[d].journal.payout = Other(dir[d].journal.source)
                      /\ dir[d].secrets # NoSecrets =>
                           /\ dir[d].journal # NoJournal
                           /\ \A place \in {"mint", "source", "payout"} :
                                dir[d].secrets[place] = dir[d].journal[place]
    BY DEF RecordsUsable
  <2> QED BY DEF AInv, DirInv, Saved, JournalOK, KeysFit
<1> QED BY <1>1, AccountsInvariance, PTL

(* A journal that says Released or Cancelled is about value that somebody  *)
(* can spend, but for the refund of an interrupted cancel run              *)
(* (run_operation, cancel_locked_operation).                               *)
THEOREM ClosedSpendable == Spec => []ClosedIsSpendable
<1>1. AInv => ClosedIsSpendable
  BY DEF AInv, Saved, Claim, Spendable, ClosedIsSpendable
<1> QED BY <1>1, AccountsInvariance, PTL

-----------------------------------------------------------------------------
(* The accounts implement custody of the supply *)

(* The accounts and operations look the same from outside.                 *)
Still == Holders' = Holders /\ \A q \in Operations : Stage(q)' = Stage(q)

(* Values and receipts decide what is seen.                                *)
LEMMA StillWhen ==
  ASSUME \A t \in Tokens : Value(t)' = Value(t),
         \A q \in Operations : \/ receipt'[q] = receipt[q]
                               \/ /\ receipt[q].status = "LOCKED"
                                  /\ receipt'[q].status = "MINT_AUTHORIZED"
                                  /\ receipt'[q].from = receipt[q].from
  PROVE  Still
<1>1. Holders' = Holders
  BY DEF Holders, Value
<1>2. ASSUME NEW q \in Operations PROVE Stage(q)' = Stage(q)
  <2>1. CASE receipt'[q] = receipt[q]
    BY <2>1 DEF Stage
  <2>2. CASE /\ receipt[q].status = "LOCKED" /\ receipt'[q].status = "MINT_AUTHORIZED"
             /\ receipt'[q].from = receipt[q].from
    BY <2>2 DEF Stage
  <2> QED BY <1>2, <2>1, <2>2
<1> QED BY <1>1, <1>2 DEF Still

(* apply_pending moves no value.                                           *)
LEMMA ApplyStill ==
  ASSUME AInv, NEW e \in Endpoints, NEW amount, ApplyPending(e, amount), receipt' = receipt
  PROVE  Still
<1>1. BalanceInv /\ DOMAIN bal = Tokens /\ e \in Tokens
  BY DEF AInv, BalanceInv, Tokens
<1>2. /\ \A t \in Tokens : t # e => bal'[t] = bal[t]
      /\ bal'[e] = Apply(bal[e], amount)
  BY <1>1 DEF ApplyPending
<1>3. DOMAIN bal[e] = BalanceFields /\ bal[e].available \in Nat /\ bal[e].pending \in Nat
  BY <1>1, TokenFacts
<1>4. bal'[e].available = bal[e].available + bal[e].pending /\ bal'[e].pending = 0
  BY <1>2, <1>3 DEF Apply, BalanceFields
<1>5. \A t \in Tokens : Value(t)' = Value(t)
  BY <1>2, <1>3, <1>4 DEF Value
<1> QED BY <1>5, StillWhen

(* The process of a running operation names endpoints.                     *)
LEMMA MemEndpoints ==
  ASSUME AInv, NEW o \in Operations, Running(o)
  PROVE  proc[o].mem.source \in Endpoints /\ proc[o].mem.payout \in Endpoints
BY OtherValues DEF AInv, ProcInv, JournalOK, Endpoints

(* Every step but the deposit and the relayed transfers.                   *)
LEMMA RunStill ==
  ASSUME AInv, NEW o \in Operations,
         Start(o) \/ Crash(o) \/ Persist(o) \/ Begin(o) \/ Reserve(o) \/ Lock(o)
           \/ MintAndSettle(o) \/ Release(o) \/ Pay(o) \/ Redeem(o) \/ Record(o) \/ Cancel(o)
           \/ Refund(o)
  PROVE  Still
<1>1. CASE UNCHANGED <<bal, receipt>>
  BY <1>1, StillWhen DEF Value
<1>2. CASE MintAndSettle(o)
  <2>1. DOMAIN receipt = Operations /\ DOMAIN receipt[o] = {"status", "from"}
    BY DEF AInv, ChainInv, ReceiptInv
  <2>2. CASE /\ receipt[o].status = "LOCKED" /\ bal' = bal
             /\ receipt' = [receipt EXCEPT ![o].status = "MINT_AUTHORIZED"]
    <3>1. /\ receipt'[o].status = "MINT_AUTHORIZED" /\ receipt'[o].from = receipt[o].from
          /\ \A q \in Operations : q # o => receipt'[q] = receipt[q]
      BY <2>1, <2>2
    <3> QED BY <2>2, <3>1, StillWhen DEF Value
  <2> QED BY <1>1, <1>2, <2>2 DEF MintAndSettle
<1>3. CASE Pay(o)
  BY <1>1, <1>3, ApplyStill, MemEndpoints DEF Pay, At
<1>4. CASE Refund(o)
  BY <1>1, <1>4, ApplyStill, MemEndpoints DEF Refund, ApplyRefund, At
<1>5. CASE Start(o)
  BY <1>1, <1>5 DEF Start, Resume, Reuse, Create, chain
<1>6. CASE Persist(o) \/ Begin(o) \/ Lock(o) \/ Release(o) \/ Record(o) \/ Cancel(o) \/ Crash(o)
  BY <1>1, <1>6 DEF Persist, Begin, Lock, Release, Record, Cancel, Crash, chain
<1>7. CASE Reserve(o) \/ Redeem(o)
  BY <1>1, <1>7 DEF Reserve, Redeem
<1> QED BY <1>2, <1>3, <1>4, <1>5, <1>6, <1>7

(* Provisioning: the deposit funds an endpoint, the rest is not seen.      *)
LEMMA ProvisionRefines ==
  ASSUME AInv, NEW o \in Operations, Provision(o) PROVE Still \/ C!Fund
<1> DEFINE n == proc[o].step
           mem == proc[o].mem
<1>1. /\ Running(o) /\ proc[o].pc = "create" /\ n \in 1..9 /\ receipt' = receipt
      /\ n \in {1, 2, 3, 4, 5, 7} => \A t \in Tokens : bal'[t] = bal[t]
      /\ n = 6 => bal' = bal
      /\ n = 8 => bal' = [bal EXCEPT !["a"] = Credit(bal["a"], mem.amount)]
      /\ n = 9 => bal' = [bal EXCEPT !["a"] = Apply(bal["a"], mem.amount)]
  BY ProvisionFields
<1>2. BalanceInv /\ DOMAIN bal = Tokens /\ "a" \in Tokens /\ "a" \in Endpoints
      /\ DOMAIN bal["a"] = BalanceFields /\ bal["a"].available \in Nat /\ bal["a"].pending \in Nat
  BY TokenFacts DEF AInv, BalanceInv, Tokens, Endpoints
<1>3. CASE n \in 1..7
  BY <1>1, <1>3, StillWhen DEF Value
<1>4. CASE n = 8
  <2>1. Founding(o) /\ mem.amount \in Nat \ {0}
    BY <1>1, <1>4 DEF Founding, At, AInv, ProcInv, JournalOK
  <2>2. \A t \in Tokens : Value(t) = 0
    BY <1>4, <2>1 DEF AInv, FoundInv
  <2>3. /\ \A t \in Tokens : t # "a" => bal'[t] = bal[t]
        /\ bal'["a"].available = bal["a"].available
        /\ bal'["a"].pending = bal["a"].pending + mem.amount
    BY <1>1, <1>2, <1>4 DEF Credit, BalanceFields
  <2>4. /\ Value("a")' = mem.amount /\ \A t \in Tokens : t # "a" => Value(t)' = 0
    BY <1>2, <2>1, <2>2, <2>3 DEF Value
  <2>5. Holders = {} /\ Holders' = {"a"}
    BY <1>2, <2>1, <2>2, <2>4 DEF Holders, Value
  <2>6. \A q \in Operations : Stage(q)' = Stage(q)
    BY <1>1 DEF Stage
  <2> QED BY <1>2, <2>5, <2>6 DEF C!Fund
<1>5. CASE n = 9
  <2>1. /\ \A t \in Tokens : t # "a" => bal'[t] = bal[t]
        /\ bal'["a"].available = bal["a"].available + bal["a"].pending
        /\ bal'["a"].pending = 0
    BY <1>1, <1>2, <1>5 DEF Apply, BalanceFields
  <2>2. \A t \in Tokens : Value(t)' = Value(t)
    BY <1>2, <2>1 DEF Value
  <2> QED BY <1>1, <2>2, StillWhen
<1> QED BY <1>1, <1>3, <1>4, <1>5

(* A relayed lock takes the supply into the vault; a release or a cancel   *)
(* takes it out again, to the other endpoint or back.                      *)
LEMMA ExecuteRefines ==
  ASSUME AInv, NEW tx, TxOK(tx), Execute(tx)
  PROVE  \E o \in Operations : C!Lock(o) \/ C!Close(o)
<1> DEFINE o == tx.op
           j == dir[o].journal
           stage == [q \in Operations |-> Stage(q)]
<1>1. /\ o \in Operations /\ JournalOK(j) /\ ReceiptInv(o) /\ DOMAIN receipt = Operations
  BY DirectoryFacts DEF AInv, DirInv, TxOK, ChainInv
<1>2. /\ tx.from \in Tokens /\ tx.to \in Tokens /\ tx.amount \in Nat \ {0}
      /\ \A t \in Tokens : Value(t) = IF t = tx.from THEN tx.amount ELSE 0
      /\ \A t \in Tokens : Value(t)' = IF t = tx.to THEN tx.amount ELSE 0
  BY ExecuteMoves
<1>3. Holders = {tx.from} /\ Holders' = {tx.to}
  <2>1. \A t \in Tokens : (Value(t) > 0 <=> t = tx.from) /\ (Value(t)' > 0 <=> t = tx.to)
    BY <1>2
  <2>2. Holders = {t \in Tokens : Value(t) > 0} /\ Holders' = {t \in Tokens : Value(t)' > 0}
    BY DEF Holders, Value
  <2> QED BY <1>2, <2>1, <2>2
<1>4. /\ tx.kind \in {"lock", "release", "cancel"}
      /\ tx.kind = "lock" => tx.from = j.source /\ tx.to = "vault"
      /\ tx.kind = "release" => tx.from = "vault" /\ tx.to = j.payout
      /\ tx.kind = "cancel" => tx.from = "vault" /\ tx.to = j.source
      /\ j.source \in Endpoints /\ j.payout \in Endpoints /\ j.source # j.payout
  BY <1>1, OtherValues DEF TxOK, JournalOK, Endpoints
<1>5. /\ receipt'[o].status = NewStatus[tx.kind]
      /\ receipt'[o].from = IF tx.kind = "lock" THEN tx.from ELSE receipt[o].from
      /\ \A q \in Operations : q # o => receipt'[q] = receipt[q]
  <2>1. DOMAIN receipt[o] = {"status", "from"}
    BY <1>1 DEF ReceiptInv
  <2> QED BY <1>1, <2>1 DEF Execute
<1>6. \A q \in Operations : q # o => Stage(q)' = Stage(q)
  BY <1>5 DEF Stage
<1>7. ASSUME NEW s, Stage(o)' = s PROVE stage' = [stage EXCEPT ![o] = s]
  BY <1>1, <1>6, <1>7
<1>8. CASE tx.kind = "lock"
  <2>1. receipt[o].status = "NONE" /\ receipt'[o].status = "LOCKED"
    BY <1>5, <1>8 DEF Execute, Allowed, NewStatus
  <2>2. stage[o] = C!NotYet /\ Stage(o)' = C!Locked(tx.from)
    BY <1>1, <1>5, <1>8, <2>1 DEF Stage, C!NotYet, C!Locked
  <2>3. C!Lock(o)
    BY <1>3, <1>4, <1>7, <1>8, <2>2 DEF C!Lock
  <2> QED BY <1>1, <2>3
<1>9. CASE tx.kind # "lock"
  <2>1. /\ tx.kind = "cancel" => receipt[o].status = "LOCKED" /\ receipt'[o].status = "CANCELLED"
        /\ tx.kind = "release" =>
             receipt[o].status = "MINT_AUTHORIZED" /\ receipt'[o].status = "RELEASED"
    <3>1. /\ tx.kind = "cancel" => receipt[o].status = "LOCKED"
          /\ tx.kind = "release" => receipt[o].status = "MINT_AUTHORIZED"
      BY DEF Execute, Allowed
    <3>2. NewStatus["cancel"] = "CANCELLED" /\ NewStatus["release"] = "RELEASED"
      BY DEF NewStatus
    <3> QED BY <1>5, <3>1, <3>2
  <2>2. receipt[o].from = j.source
    BY <1>1, <1>4, <1>9, <2>1 DEF ReceiptInv
  <2>3. stage[o] = C!Locked(j.source)
    BY <1>1, <1>4, <1>9, <2>1, <2>2 DEF Stage, C!Locked
  <2>4. Stage(o)' = [at |-> IF tx.to = j.source THEN "refunded" ELSE "paid"]
    BY <1>4, <1>9, <2>1 DEF Stage
  <2>5. C!Close(o)
    BY <1>3, <1>4, <1>7, <1>9, <2>3, <2>4 DEF C!Close
  <2> QED BY <1>1, <2>5
<1> QED BY <1>8, <1>9

(* Over any number of operations on the same accounts the whole supply is  *)
(* in one place and comes out of the vault once per operation, to where it *)
(* came from or to the other endpoint (escrow lock, release and cancel as  *)
(* the coordinators use them).                                             *)
THEOREM CustodyRefined == Spec => CustodyImplemented
<1>1. Init => C!Init
  <2> SUFFICES ASSUME Init PROVE C!Init
    OBVIOUS
  <2>1. Holders = {}
    BY DEF Init, Holders, Empty
  <2>2. \A q \in Operations : Stage(q) = C!NotYet
    BY DEF Init, Stage, C!NotYet
  <2> QED BY <2>1, <2>2 DEF C!Init
<1>2. AInv /\ [Next]_vars => [C!Next]_(C!vars)
  <2> SUFFICES ASSUME AInv, [Next]_vars
               PROVE  C!Next \/ Still
    BY DEF Still, C!vars
  <2>1. ASSUME NEW o \in Operations, Land(o) PROVE C!Next \/ Still
    <3>1. CASE Execute(proc[o].tx)
      <4>1. TxOK(proc[o].tx)
        BY <2>1 DEF Land, AInv, ProcInv
      <4> QED BY <3>1, <4>1, ExecuteRefines DEF C!Next
    <3>2. CASE UNCHANGED chain
      BY <3>2, StillWhen DEF chain, Value
    <3> QED BY <2>1, <3>1, <3>2 DEF Land
  <2>2. CASE LandLate
    BY <2>2, ExecuteRefines DEF LandLate, AInv, C!Next
  <2>3. CASE UNCHANGED vars
    BY <2>3, StillWhen DEF vars, chain, Value
  <2>4. ASSUME NEW o \in Operations, Start(o) \/ Coordinate(o) \/ Crash(o) PROVE C!Next \/ Still
    BY <2>1, <2>4, RunStill, ProvisionRefines DEF Coordinate, C!Next
  <2> QED BY <2>2, <2>3, <2>4 DEF Next
<1> QED BY <1>1, <1>2, AccountsInvariance, PTL DEF Spec, CustodyImplemented, C!Spec

-----------------------------------------------------------------------------
(***************************************************************************)
(* Amounts (Units).  The number of a text is computed digit by digit and   *)
(* the powers of the radix one by one.  Both are Horner's scheme, so one   *)
(* kind of table describes them: it exists (HornerExists), it is unique    *)
(* (HornerAgree), and what padding, trimming and printing do to a number   *)
(* is read off a table for the changed text.  Induction is used on sets of *)
(* naturals (NatSet).                                                      *)
(***************************************************************************)

(* Induction, for a set instead of a predicate.                            *)
LEMMA NatSet ==
  ASSUME NEW B, B \subseteq Nat, 0 \in B, \A n \in B : n + 1 \in B
  PROVE  B = Nat
<1> SUFFICES ASSUME Nat \ B # {} PROVE FALSE
  OBVIOUS
<1> DEFINE Rest == Nat \ B
<1>1. PICK x \in Rest : \A y \in Rest : ~ (<<y, x>> \in OpToRel(<, Nat))
  <2>1. Rest \subseteq Nat /\ Rest # {}
    OBVIOUS
  <2> HIDE DEF Rest
  <2> QED BY <2>1, NatLessThanWellFounded, WFMin
<1>2. x \in Nat /\ x # 0
  OBVIOUS
<1>3. x - 1 \in Nat /\ x - 1 < x /\ (x - 1) + 1 = x
  BY <1>2
<1>4. x - 1 \in Rest
  BY <1>3
<1>5. <<x - 1, x>> \in OpToRel(<, Nat)
  BY <1>2, <1>3 DEF OpToRel
<1> QED BY <1>1, <1>4, <1>5

(* Multiplication keeps the order and can be undone.                       *)
LEMMA TimesGrows ==
  ASSUME NEW a \in Nat, NEW b \in Nat, NEW c \in Nat, a <= b
  PROVE  a * c \in Nat /\ b * c \in Nat /\ a * c <= b * c
<1>1. PICK e \in Nat : b = a + e
  <2>1. b - a \in Nat /\ b = a + (b - a)
    OBVIOUS
  <2> QED BY <2>1
<1>2. b * c = a * c + e * c
  BY <1>1
<1>3. PICK x \in Nat, y \in Nat : x = a * c /\ y = e * c
  OBVIOUS
<1> QED BY <1>2, <1>3

LEMMA TimesCancels ==
  ASSUME NEW a \in Nat, NEW b \in Nat, NEW c \in Nat, c >= 1, a * c = b * c
  PROVE  a = b
<1>1. ASSUME NEW x \in Nat, NEW y \in Nat, x + 1 <= y, x * c = y * c PROVE FALSE
  <2>1. (x + 1) * c <= y * c
    BY <1>1, TimesGrows
  <2>2. (x + 1) * c = x * c + c
    OBVIOUS
  <2>3. PICK z \in Nat : z = x * c
    OBVIOUS
  <2>4. z + c <= z
    BY <1>1, <2>1, <2>2, <2>3
  <2> QED BY <2>4
<1>2. a + 1 <= b \/ b + 1 <= a \/ a = b
  OBVIOUS
<1> QED BY <1>1, <1>2

(* The radix, alone.                                                       *)
LEMMA RadixType == Radix \in Nat /\ Radix > 1
BY UnitsAssumption

(* Horner's scheme has a table of its partial values.                      *)
Follows(t, c, N) == \A k \in 1..N : t[k] = t[k - 1] * Radix + c[k]

HornerTable(b, c, N, t) ==
  /\ t \in [0..N -> Nat] /\ t[0] = b
  /\ Follows(t, c, N)

(* A table can be continued by one value.                                  *)
LEMMA HornerStep ==
  ASSUME NEW b \in Nat, NEW c \in [Nat -> Nat], NEW N \in Nat, NEW t, HornerTable(b, c, N, t)
  PROVE  \E u : HornerTable(b, c, N + 1, u)
<1> DEFINE u == [k \in 0..(N + 1) |-> IF k <= N THEN t[k] ELSE t[N] * Radix + c[N + 1]]
<1>0. t \in [0..N -> Nat] /\ t[0] = b
  BY DEF HornerTable
<1>1. \A k \in 1..N : t[k] = t[k - 1] * Radix + c[k]
  BY DEF HornerTable, Follows
<1>2. t[N] * Radix + c[N + 1] \in Nat
  <2>1. t[N] \in Nat /\ c[N + 1] \in Nat
    BY <1>0
  <2> QED BY <2>1, RadixType
<1>3. u \in [0..(N + 1) -> Nat] /\ u[0] = b
  <2>1. PICK x \in Nat : x = t[N] * Radix + c[N + 1]
    BY <1>2
  <2>2. u = [k \in 0..(N + 1) |-> IF k <= N THEN t[k] ELSE x]
    BY <2>1
  <2>3. ASSUME NEW k \in 0..(N + 1) PROVE (IF k <= N THEN t[k] ELSE x) \in Nat
    BY <1>0
  <2>4. 0 \in 0..(N + 1) /\ 0 <= N
    OBVIOUS
  <2> HIDE DEF u
  <2>5. u \in [0..(N + 1) -> Nat]
    BY <2>2, <2>3
  <2>6. u[0] = t[0]
    BY <2>2, <2>4
  <2> QED BY <2>5, <2>6, <1>0
<1>4. ASSUME NEW k \in 1..(N + 1) PROVE u[k] = u[k - 1] * Radix + c[k]
  <2>1. CASE k <= N
    <3>1. k \in 1..N /\ k - 1 \in 0..(N + 1) /\ k - 1 <= N
      BY <2>1
    <3>2. u[k] = t[k] /\ u[k - 1] = t[k - 1]
      BY <2>1, <3>1
    <3> HIDE DEF u
    <3> QED BY <3>1, <3>2, <1>1
  <2>2. CASE k = N + 1
    BY <2>2
  <2> QED BY <2>1, <2>2
<1> HIDE DEF u
<1> QED BY <1>3, <1>4 DEF HornerTable, Follows

(* So there is one of every length.                                        *)
LEMMA HornerTables ==
  ASSUME NEW b \in Nat, NEW c \in [Nat -> Nat]
  PROVE  \A N \in Nat : \E t : HornerTable(b, c, N, t)
<1> DEFINE B == {N \in Nat : \E t : HornerTable(b, c, N, t)}
<1>1. 0 \in B
  <2> DEFINE t == [k \in 0..0 |-> b]
  <2>1. HornerTable(b, c, 0, t)
    BY DEF HornerTable, Follows
  <2> HIDE DEF t
  <2> QED BY <2>1
<1>2. ASSUME NEW N \in B PROVE N + 1 \in B
  BY HornerStep
<1>3. B \subseteq Nat
  OBVIOUS
<1> HIDE DEF B
<1>4. B = Nat
  BY <1>1, <1>2, <1>3, NatSet
<1> QED BY <1>4 DEF B

(* Tables agree: only the start and the step determine a value.            *)
LEMMA HornerAgree ==
  ASSUME NEW c, NEW N \in Nat, NEW t, NEW u, t[0] = u[0],
         Follows(t, c, N), Follows(u, c, N)
  PROVE  \A k \in 0..N : t[k] = u[k]
<1> DEFINE B == {n \in Nat : n <= N => t[n] = u[n]}
<1>1. 0 \in B
  OBVIOUS
<1>2. ASSUME NEW n \in B PROVE n + 1 \in B
  <2>1. CASE n + 1 <= N
    <3>1. n \in Nat /\ t[n] = u[n] /\ n + 1 \in 1..N /\ (n + 1) - 1 = n
      BY <2>1
    <3> QED BY <3>1 DEF Follows
  <2> QED BY <2>1
<1>3. B \subseteq Nat
  OBVIOUS
<1> HIDE DEF B
<1>4. B = Nat
  BY <1>1, <1>2, <1>3, NatSet
<1> QED BY <1>4 DEF B

(* ... so there is one for all lengths.                                    *)
LEMMA HornerExists ==
  ASSUME NEW b \in Nat, NEW c \in [Nat -> Nat]
  PROVE  \E f \in [Nat -> Nat] : f[0] = b /\ \A n \in Nat \ {0} : f[n] = f[n - 1] * Radix + c[n]
<1> DEFINE T(N) == CHOOSE t : HornerTable(b, c, N, t)
           f == [n \in Nat |-> T(n)[n]]
<1>1. ASSUME NEW N \in Nat PROVE HornerTable(b, c, N, T(N))
  BY HornerTables
<1> HIDE DEF T
<1>2. f \in [Nat -> Nat] /\ f[0] = b
  <2>1. ASSUME NEW n \in Nat PROVE T(n)[n] \in Nat
    BY <1>1 DEF HornerTable
  <2> QED BY <2>1, <1>1 DEF HornerTable
<1>3. ASSUME NEW n \in Nat \ {0} PROVE f[n] = f[n - 1] * Radix + c[n]
  <2> DEFINE m == n - 1
             t == T(n)
             u == T(m)
  <2>1. m \in Nat /\ n \in Nat /\ n \in 1..n /\ m \in 0..m
    OBVIOUS
  <2>2. HornerTable(b, c, n, t) /\ HornerTable(b, c, m, u)
    BY <2>1, <1>1
  <2> HIDE DEF t, u
  <2>3. t[0] = u[0] /\ Follows(t, c, m) /\ Follows(u, c, m)
    BY <2>2 DEF HornerTable, Follows
  <2>4. t[m] = u[m]
    <3> HIDE DEF m
    <3>1. \A k \in 0..m : t[k] = u[k]
      BY <2>1, <2>3, HornerAgree
    <3> QED BY <3>1, <2>1
  <2>5. t[n] = t[n - 1] * Radix + c[n]
    BY <2>1, <2>2 DEF HornerTable, Follows
  <2> QED BY <2>1, <2>4, <2>5 DEF t, u
<1> QED BY <1>2, <1>3

-----------------------------------------------------------------------------
(* Powers of the radix *)

(* The recursion that defines the powers has a solution.                   *)
LEMMA PowDef == Pow = [n \in Nat |-> IF n = 0 THEN 1 ELSE Pow[n - 1] * Radix]
<1> DEFINE c == [n \in Nat |-> 0]
<1>1. PICK f \in [Nat -> Nat] : f[0] = 1 /\ \A n \in Nat \ {0} : f[n] = f[n - 1] * Radix + c[n]
  <2>1. 1 \in Nat /\ c \in [Nat -> Nat]
    OBVIOUS
  <2> HIDE DEF c
  <2> QED BY <2>1, HornerExists
<1>2. ASSUME NEW n \in Nat \ {0} PROVE f[n] = f[n - 1] * Radix
  <2>1. n - 1 \in Nat
    OBVIOUS
  <2>2. f[n - 1] \in Nat /\ c[n] = 0
    BY <2>1
  <2>3. PICK x \in Nat : x = f[n - 1] * Radix
    BY <2>2, RadixType
  <2> QED BY <1>1, <2>2, <2>3
<1>3. f = [n \in Nat |-> IF n = 0 THEN 1 ELSE f[n - 1] * Radix]
  BY <1>1, <1>2
<1> QED BY <1>3 DEF Pow

LEMMA PowZero == Pow[0] = 1
BY PowDef

(* One more place is one more factor.                                      *)
LEMMA PowNext == ASSUME NEW n \in Nat PROVE Pow[n + 1] = Pow[n] * Radix
<1>1. n + 1 \in Nat /\ n + 1 # 0 /\ (n + 1) - 1 = n
  OBVIOUS
<1> QED BY <1>1, PowDef

(* Powers are positive, and grow beyond any number.                        *)
LEMMA PowType == ASSUME NEW n \in Nat PROVE Pow[n] \in Nat /\ Pow[n] > n /\ Pow[n] >= 1
<1> DEFINE B == {k \in Nat : Pow[k] \in Nat /\ Pow[k] > k}
<1>1. 0 \in B
  BY PowZero
<1>2. ASSUME NEW k \in B PROVE k + 1 \in B
  <2>1. PICK p \in Nat : p = Pow[k] /\ p > k
    OBVIOUS
  <2>2. Pow[k + 1] = p * Radix
    BY <2>1, PowNext
  <2>3. p * Radix \in Nat /\ p * Radix >= p + p
    BY RadixType
  <2> QED BY <2>1, <2>2, <2>3
<1>3. B \subseteq Nat
  OBVIOUS
<1> HIDE DEF B
<1>4. B = Nat
  BY <1>1, <1>2, <1>3, NatSet
<1> QED BY <1>4 DEF B

(* Powers of a sum are products.                                           *)
LEMMA PowAdd ==
  ASSUME NEW m \in Nat, NEW n \in Nat
  PROVE  Pow[m + n] = Pow[m] * Pow[n]
<1> DEFINE B == {k \in Nat : Pow[m + k] = Pow[m] * Pow[k]}
<1>0. PICK p \in Nat : p = Pow[m]
  BY PowType
<1>1. 0 \in B
  BY <1>0, PowZero
<1>2. ASSUME NEW k \in B PROVE k + 1 \in B
  <2>1. PICK q \in Nat : q = Pow[k]
    BY PowType
  <2>2. PICK j \in Nat : j = m + k
    OBVIOUS
  <2>3. Pow[j + 1] = Pow[j] * Radix /\ Pow[k + 1] = q * Radix
    BY <2>1, <2>2, PowNext
  <2>4. Pow[j] = p * q
    BY <2>1, <2>2, <1>0
  <2>5. (p * q) * Radix = p * (q * Radix)
    BY RadixType
  <2>6. m + (k + 1) = j + 1
    BY <2>2
  <2>7. Pow[m + (k + 1)] = Pow[m] * Pow[k + 1]
    BY <2>3, <2>4, <2>5, <2>6, <1>0
  <2>8. k + 1 \in Nat
    OBVIOUS
  <2> QED BY <2>7, <2>8
<1>3. B \subseteq Nat
  OBVIOUS
<1> HIDE DEF B
<1>4. B = Nat
  BY <1>1, <1>2, <1>3, NatSet
<1> QED BY <1>4 DEF B

(* More places, no smaller power.                                          *)
LEMMA PowGrows ==
  ASSUME NEW m \in Nat, NEW n \in Nat, m <= n
  PROVE  Pow[m] <= Pow[n]
<1>1. n - m \in Nat /\ m + (n - m) = n
  OBVIOUS
<1>2. PICK p \in Nat : p = Pow[m]
  BY PowType
<1>3. PICK q \in Nat : q = Pow[n - m] /\ q >= 1
  BY <1>1, PowType
<1>4. Pow[n] = p * q
  BY <1>1, <1>2, <1>3, PowAdd
<1>5. p <= p * q
  BY <1>3
<1> QED BY <1>2, <1>4, <1>5

-----------------------------------------------------------------------------
(* Digits and the number they stand for *)

(* Some table that follows the digits exists, of numbers ...               *)
LEMMA FollowsExists ==
  ASSUME NEW s \in Seq(Nat)
  PROVE  \E t \in [0..Len(s) -> Nat] : t[0] = 0 /\ Follows(t, s, Len(s))
<1> DEFINE c == [n \in Nat |-> IF n \in 1..Len(s) THEN s[n] ELSE 0]
<1>1. Len(s) \in Nat /\ \A n \in 1..Len(s) : s[n] \in Nat
  OBVIOUS
<1>2. 0 \in Nat /\ c \in [Nat -> Nat] /\ \A n \in 1..Len(s) : c[n] = s[n]
  BY <1>1
<1> HIDE DEF c
<1>3. PICK f \in [Nat -> Nat] : f[0] = 0 /\ \A n \in Nat \ {0} : f[n] = f[n - 1] * Radix + c[n]
  BY <1>2, HornerExists
<1> DEFINE g == [k \in 0..Len(s) |-> f[k]]
<1>4. ASSUME NEW k \in 1..Len(s) PROVE g[k] = g[k - 1] * Radix + s[k]
  <2>1. k \in Nat \ {0} /\ k - 1 \in 0..Len(s) /\ k \in 0..Len(s)
    <3>1. PICK N \in Nat : N = Len(s)
      BY <1>1
    <3>2. k \in 1..N
      BY <3>1
    <3>3. k \in Nat \ {0} /\ k - 1 \in 0..N /\ k \in 0..N
      BY <3>2
    <3> QED BY <3>1, <3>3
  <2>2. g[k] = f[k] /\ g[k - 1] = f[k - 1] /\ c[k] = s[k]
    BY <2>1, <1>2
  <2> QED BY <2>1, <2>2, <1>3
<1>5. g \in [0..Len(s) -> Nat] /\ g[0] = 0
  BY <1>1, <1>3
<1> HIDE DEF g
<1> QED BY <1>4, <1>5 DEF Follows

(* ... and the one that the number is read from is such a table.           *)
LEMMA NumberFollows ==
  ASSUME NEW s \in Seq(Nat)
  PROVE  \E v : v[0] = 0 /\ Follows(v, s, Len(s)) /\ NumberOf(s) = v[Len(s)]
<1> DEFINE IsValue(v) ==
             v = [k \in 0..Len(s) |-> IF k = 0 THEN 0 ELSE v[k - 1] * Radix + s[k]]
           x == CHOOSE v : IsValue(v)
<1>1. Len(s) \in Nat
  OBVIOUS
<1>2. PICK t \in [0..Len(s) -> Nat] : t[0] = 0 /\ Follows(t, s, Len(s))
  BY FollowsExists
<1>3. IsValue(t)
  <2>1. ASSUME NEW k \in 0..Len(s), k # 0 PROVE t[k] = t[k - 1] * Radix + s[k]
    <3>1. k \in 1..Len(s)
      BY <1>1, <2>1
    <3> QED BY <3>1, <1>2 DEF Follows
  <2> QED BY <2>1, <1>2
<1>4. NumberOf(s) = x[Len(s)]
  BY DEF NumberOf
<1>5. IsValue(x)
  <2> HIDE DEF IsValue
  <2> QED BY <1>3
<1> HIDE DEF x
<1>6. x[0] = 0 /\ Follows(x, s, Len(s))
  <2>1. \A k \in 0..Len(s) : x[k] = IF k = 0 THEN 0 ELSE x[k - 1] * Radix + s[k]
    BY <1>5
  <2>2. 0 \in 0..Len(s) /\ \A k \in 1..Len(s) : k \in 0..Len(s) /\ k # 0
    BY <1>1
  <2> HIDE DEF IsValue
  <2> QED BY <2>1, <2>2 DEF Follows
<1> QED BY <1>4, <1>6

(* So any table that follows the digits ends in their number.              *)
LEMMA NumberIs ==
  ASSUME NEW s \in Seq(Nat), NEW t, t[0] = 0, Follows(t, s, Len(s))
  PROVE  NumberOf(s) = t[Len(s)]
<1>1. PICK u : u[0] = 0 /\ Follows(u, s, Len(s)) /\ NumberOf(s) = u[Len(s)]
  BY NumberFollows
<1>2. Len(s) \in Nat
  OBVIOUS
<1>3. \A k \in 0..Len(s) : t[k] = u[k]
  <2>1. t[0] = u[0]
    BY <1>1
  <2> QED BY <1>1, <1>2, <2>1, HornerAgree
<1> QED BY <1>1, <1>2, <1>3

(* ... and one of them is a table of numbers.                              *)
LEMMA NumberTable ==
  ASSUME NEW s \in Seq(Nat)
  PROVE  \E t \in [0..Len(s) -> Nat] :
           t[0] = 0 /\ Follows(t, s, Len(s)) /\ NumberOf(s) = t[Len(s)]
<1>1. PICK t \in [0..Len(s) -> Nat] : t[0] = 0 /\ Follows(t, s, Len(s))
  BY FollowsExists
<1> QED BY <1>1, NumberIs

(* As many digits, as many values.                                         *)
LEMMA NumberBound ==
  ASSUME NEW s \in Seq(Digit)
  PROVE  NumberOf(s) \in Nat /\ NumberOf(s) < Pow[Len(s)]
<1>1. s \in Seq(Nat) /\ Len(s) \in Nat /\ \A k \in 1..Len(s) : s[k] \in Nat /\ s[k] < Radix
  BY RadixType DEF Digit
<1>2. PICK t \in [0..Len(s) -> Nat] :
        t[0] = 0 /\ Follows(t, s, Len(s)) /\ NumberOf(s) = t[Len(s)]
  BY <1>1, NumberTable
<1> DEFINE B == {k \in Nat : k <= Len(s) => t[k] < Pow[k]}
<1>3. 0 \in B
  BY <1>2, PowZero
<1>4. ASSUME NEW k \in B PROVE k + 1 \in B
  <2> SUFFICES ASSUME k + 1 <= Len(s) PROVE t[k + 1] < Pow[k + 1]
    OBVIOUS
  <2>1. k \in Nat /\ k + 1 \in 1..Len(s) /\ (k + 1) - 1 = k /\ k \in 0..Len(s) /\ t[k] < Pow[k]
    BY <1>1
  <2>2. PICK p \in Nat : p = Pow[k]
    BY <2>1, PowType
  <2>3. PICK x \in Nat : x = t[k] /\ x < p
    BY <2>1, <2>2
  <2>4. PICK d \in Nat : d = s[k + 1] /\ d < Radix
    BY <2>1, <1>1
  <2>5. t[k + 1] = x * Radix + d /\ Pow[k + 1] = p * Radix
    BY <2>1, <2>2, <2>3, <2>4, <1>2, PowNext DEF Follows
  <2>6. x * Radix + d < p * Radix
    <3>1. (x + 1) * Radix <= p * Radix
      <4>1. x + 1 \in Nat /\ x + 1 <= p
        BY <2>3
      <4> QED BY <4>1, RadixType, TimesGrows
    <3>2. (x + 1) * Radix = x * Radix + Radix
      BY RadixType
    <3>3. x * Radix \in Nat /\ p * Radix \in Nat
      BY RadixType
    <3>4. PICK y \in Nat, z \in Nat : y = x * Radix /\ z = p * Radix
      BY <3>3
    <3>5. y + Radix <= z
      BY <3>1, <3>2, <3>4
    <3>6. y + d < z
      BY <3>5, <2>4, RadixType
    <3> QED BY <3>4, <3>6
  <2> QED BY <2>5, <2>6
<1>5. B \subseteq Nat
  OBVIOUS
<1> HIDE DEF B
<1>6. B = Nat
  BY <1>3, <1>4, <1>5, NatSet
<1>7. t[Len(s)] < Pow[Len(s)]
  BY <1>1, <1>6 DEF B
<1> QED BY <1>1, <1>2, <1>7

(* Zeros, as padding writes them.                                         *)
Zeros(k) == [i \in 1..k |-> 0]

(* A run of zeros is a text.                                               *)
LEMMA ZerosType ==
  ASSUME NEW k \in Nat
  PROVE  Zeros(k) \in Seq(Digit) /\ Len(Zeros(k)) = k
<1>1. 0 \in Digit
  BY RadixType DEF Digit
<1> QED BY <1>1 DEF Zeros

(* Zeros behind the digits multiply, zeros in front change nothing.        *)
LEMMA ZerosBehind ==
  ASSUME NEW s \in Seq(Nat), NEW k \in Nat
  PROVE  NumberOf(s \o Zeros(k)) = NumberOf(s) * Pow[k]
<1> DEFINE n == Len(s)
           r == s \o Zeros(k)
<1>1. PICK t \in [0..Len(s) -> Nat] :
        t[0] = 0 /\ Follows(t, s, Len(s)) /\ NumberOf(s) = t[Len(s)]
  BY NumberTable
<1>2. n \in Nat /\ t[n] \in Nat
  BY <1>1
<1>3. /\ r \in Seq(Nat) /\ Len(r) = n + k
      /\ \A j \in 1..n : r[j] = s[j]
      /\ \A j \in (n + 1)..(n + k) : r[j] = 0
  <2>1. PICK z \in Seq(Nat) : z = Zeros(k) /\ Len(z) = k /\ \A j \in 1..k : z[j] = 0
    BY ZerosType, RadixType DEF Zeros, Digit
  <2>2. /\ s \o z \in Seq(Nat) /\ Len(s \o z) = Len(s) + Len(z)
        /\ \A j \in 1..(Len(s) + Len(z)) : (s \o z)[j] = IF j <= Len(s) THEN s[j] ELSE z[j - Len(s)]
    BY ConcatProperties
  <2>3. r \in Seq(Nat) /\ Len(r) = n + k
    BY <2>1, <2>2
  <2>4. ASSUME NEW j \in 1..n PROVE r[j] = s[j]
    <3>1. j \in 1..(n + k) /\ j <= n
      BY <1>2
    <3> QED BY <3>1, <2>1, <2>2
  <2>5. ASSUME NEW j \in (n + 1)..(n + k) PROVE r[j] = 0
    <3>1. j \in 1..(n + k) /\ ~ (j <= n) /\ j - n \in 1..k
      BY <1>2
    <3> QED BY <3>1, <2>1, <2>2
  <2> QED BY <2>3, <2>4, <2>5
<1> HIDE DEF n, r
<1> DEFINE u == [j \in 0..(n + k) |-> IF j <= n THEN t[j] ELSE t[n] * Pow[j - n]]
<1>4. u[0] = 0 /\ u[n + k] = t[n] * Pow[k]
  <2>1. u[0] = 0
    BY <1>1, <1>2
  <2>2. CASE k = 0
    BY <2>1, <2>2, <1>2, PowZero
  <2>3. CASE k # 0
    <3>1. n + k \in 0..(n + k) /\ ~ (n + k <= n) /\ (n + k) - n = k
      BY <2>3, <1>2
    <3> QED BY <2>1, <3>1
  <2> QED BY <2>2, <2>3
<1>5. ASSUME NEW j \in 1..(n + k) PROVE u[j] = u[j - 1] * Radix + r[j]
  <2>0. j \in Nat /\ j \in 0..(n + k) /\ j - 1 \in 0..(n + k) /\ j - 1 \in Nat
    BY <1>2
  <2>1. CASE j <= n
    <3>1. j \in 1..n /\ u[j] = t[j] /\ u[j - 1] = t[j - 1]
      BY <2>0, <2>1, <1>2
    <3> QED BY <3>1, <1>1, <1>3 DEF n, Follows
  <2>2. CASE j > n
    <3>1. j \in (n + 1)..(n + k) /\ j - n \in Nat /\ (j - n) - 1 \in Nat
      BY <2>0, <2>2, <1>2
    <3>2. PICK i \in Nat : i = (j - n) - 1
      BY <3>1
    <3>3. PICK p \in Nat : p = Pow[i]
      BY PowType
    <3>4. Pow[i + 1] = p * Radix
      BY <3>3, PowNext
    <3>5. PICK x \in Nat : x = t[n]
      BY <1>2
    <3>6. u[j] = x * (p * Radix)
      <4>1. j - n = i + 1 /\ ~ (j <= n)
        BY <3>2, <2>0, <1>2, <2>2
      <4> QED BY <4>1, <2>0, <3>4, <3>5
    <3>7. u[j - 1] = x * p
      <4>1. CASE i = 0
        <5>1. j - 1 = n
          BY <3>2, <4>1, <2>0, <1>2
        <5>2. p = 1 /\ u[j - 1] = x
          BY <5>1, <3>3, <3>5, <4>1, PowZero, <2>0
        <5> QED BY <5>2
      <4>2. CASE i # 0
        <5>1. ~ (j - 1 <= n) /\ (j - 1) - n = i
          BY <3>2, <4>2, <2>0, <1>2
        <5> QED BY <5>1, <2>0, <3>3, <3>5
      <4> QED BY <4>1, <4>2
    <3>8. r[j] = 0
      BY <3>1, <1>3
    <3>9. x * (p * Radix) = (x * p) * Radix + 0
      BY RadixType
    <3> QED BY <3>6, <3>7, <3>8, <3>9
  <2> QED BY <2>0, <2>1, <2>2, <1>2
<1> HIDE DEF u
<1>6. NumberOf(r) = u[n + k]
  <2>1. Follows(u, r, Len(r))
    BY <1>3, <1>5 DEF Follows
  <2> QED BY <2>1, <1>3, <1>4, NumberIs
<1> QED BY <1>1, <1>4, <1>6 DEF n, r

LEMMA ZerosInFront ==
  ASSUME NEW s \in Seq(Nat), NEW k \in Nat
  PROVE  NumberOf(Zeros(k) \o s) = NumberOf(s)
<1> DEFINE n == Len(s)
           r == Zeros(k) \o s
<1>1. PICK t \in [0..Len(s) -> Nat] :
        t[0] = 0 /\ Follows(t, s, Len(s)) /\ NumberOf(s) = t[Len(s)]
  BY NumberTable
<1>2. n \in Nat
  OBVIOUS
<1>3. /\ r \in Seq(Nat) /\ Len(r) = k + n
      /\ \A j \in 1..k : r[j] = 0
      /\ \A j \in (k + 1)..(k + n) : r[j] = s[j - k]
  <2>1. PICK z \in Seq(Nat) : z = Zeros(k) /\ Len(z) = k /\ \A j \in 1..k : z[j] = 0
    BY ZerosType, RadixType DEF Zeros, Digit
  <2>2. /\ z \o s \in Seq(Nat) /\ Len(z \o s) = Len(z) + Len(s)
        /\ \A j \in 1..(Len(z) + Len(s)) : (z \o s)[j] = IF j <= Len(z) THEN z[j] ELSE s[j - Len(z)]
    BY ConcatProperties
  <2>3. r \in Seq(Nat) /\ Len(r) = k + n
    BY <2>1, <2>2
  <2>4. ASSUME NEW j \in 1..k PROVE r[j] = 0
    <3>1. j \in 1..(k + n) /\ j <= k
      BY <1>2
    <3> QED BY <3>1, <2>1, <2>2
  <2>5. ASSUME NEW j \in (k + 1)..(k + n) PROVE r[j] = s[j - k]
    <3>1. j \in 1..(k + n) /\ ~ (j <= k)
      BY <1>2
    <3> QED BY <3>1, <2>1, <2>2
  <2> QED BY <2>3, <2>4, <2>5
<1> HIDE DEF n, r
<1> DEFINE u == [j \in 0..(k + n) |-> IF j <= k THEN 0 ELSE t[j - k]]
<1>4. u[0] = 0 /\ u[k + n] = t[n]
  <2>1. u[0] = 0
    BY <1>2
  <2>2. CASE n = 0
    BY <2>1, <2>2, <1>1
  <2>3. CASE n # 0
    <3>1. k + n \in 0..(k + n) /\ ~ (k + n <= k) /\ (k + n) - k = n
      BY <2>3, <1>2
    <3> QED BY <2>1, <3>1
  <2> QED BY <2>2, <2>3
<1>5. ASSUME NEW j \in 1..(k + n) PROVE u[j] = u[j - 1] * Radix + r[j]
  <2>0. j \in Nat /\ j \in 0..(k + n) /\ j - 1 \in 0..(k + n) /\ j - 1 \in Nat
    BY <1>2
  <2>1. CASE j <= k
    <3>1. u[j] = 0 /\ u[j - 1] = 0 /\ r[j] = 0
      BY <2>0, <2>1, <1>3
    <3> QED BY <3>1, RadixType
  <2>2. CASE j > k
    <3>1. j \in (k + 1)..(k + n) /\ j - k \in 1..n
      BY <2>0, <2>2, <1>2
    <3>2. PICK i \in 1..n : i = j - k
      BY <3>1
    <3>3. u[j] = t[i] /\ r[j] = s[i]
      BY <3>1, <3>2, <2>0, <2>2, <1>3
    <3>4. u[j - 1] = t[i - 1]
      <4>1. CASE i = 1
        BY <4>1, <3>2, <2>0, <1>1
      <4>2. CASE i # 1
        BY <4>2, <3>2, <2>0, <1>2
      <4> QED BY <4>1, <4>2
    <3> QED BY <3>3, <3>4, <1>1 DEF n, Follows
  <2> QED BY <2>0, <2>1, <2>2, <1>2
<1> HIDE DEF u
<1>6. NumberOf(r) = u[k + n]
  <2>1. Follows(u, r, Len(r))
    BY <1>3, <1>5 DEF Follows
  <2> QED BY <2>1, <1>3, <1>4, NumberIs
<1> QED BY <1>1, <1>4, <1>6 DEF n, r

-----------------------------------------------------------------------------
(* Padding, trimming and printing *)

(* Padding on the right appends the missing zeros.                         *)
LEMMA PadRightIs ==
  ASSUME NEW s \in Seq(Digit), NEW w \in Nat
  PROVE  \E k \in Nat :
           /\ PadRight(s, w) = s \o Zeros(k)
           /\ k = IF Len(s) < w THEN w - Len(s) ELSE 0
<1>1. (IF Len(s) < w THEN w - Len(s) ELSE 0) \in Nat
  OBVIOUS
<1> QED BY <1>1 DEF PadRight, Zeros

(* Places filled with zeros on the right.                                  *)
LEMMA PadRightNumber ==
  ASSUME NEW s \in Seq(Digit), NEW w \in Nat, Len(s) <= w
  PROVE  /\ Len(s) \in Nat /\ w - Len(s) \in Nat
         /\ NumberOf(PadRight(s, w)) = NumberOf(s) * Pow[w - Len(s)]
         /\ NumberOf(PadRight(s, w)) \in Nat
         /\ NumberOf(PadRight(s, w)) < Pow[w]
<1>1. PICK n \in Nat : n = Len(s)
  OBVIOUS
<1>2. PICK k \in Nat : k = w - n
  BY <1>1
<1>3. PadRight(s, w) = s \o Zeros(k)
  <2>1. PICK j \in Nat : PadRight(s, w) = s \o Zeros(j) /\ j = IF Len(s) < w THEN w - Len(s) ELSE 0
    BY PadRightIs
  <2>2. j = k
    BY <2>1, <1>1, <1>2
  <2> QED BY <2>1, <2>2
<1>4. s \in Seq(Nat)
  BY RadixType DEF Digit
<1>5. NumberOf(s \o Zeros(k)) = NumberOf(s) * Pow[k]
  BY <1>4, ZerosBehind
<1>6. s \o Zeros(k) \in Seq(Digit) /\ Len(s \o Zeros(k)) = w
  <2>1. Zeros(k) \in Seq(Digit) /\ Len(Zeros(k)) = k
    BY ZerosType
  <2>2. s \o Zeros(k) \in Seq(Digit) /\ Len(s \o Zeros(k)) = n + k
    BY <1>1, <2>1
  <2> QED BY <1>2, <2>2
<1> QED BY <1>1, <1>2, <1>3, <1>5, <1>6, NumberBound

(* The printed digits of a number stand for it, and are no more than the   *)
(* places that can show it.                                                *)
LEMMA DigitsWidth ==
  ASSUME NEW n \in Nat
  PROVE  \E w \in Nat \ {0} : /\ DigitsOf(n) = [i \in 1..w |-> (n \div Pow[w - i]) % Radix]
                             /\ n < Pow[w] /\ (w = 1 \/ n >= Pow[w - 1])
<1> DEFINE W(w) == n < Pow[w] /\ (w = 1 \/ n >= Pow[w - 1])
           x == CHOOSE w \in 1..(n + 1) : W(w)
<1>1. \E w \in 1..(n + 1) : W(w)
  <2> SUFFICES ASSUME \A w \in 1..(n + 1) : ~ W(w) PROVE FALSE
    OBVIOUS
  <2> DEFINE B == {k \in Nat : k + 1 <= n + 1 => n >= Pow[k + 1]}
  <2>1. ASSUME NEW k \in Nat PROVE Pow[k] \in Nat
    BY PowType
  <2>2. 0 \in B
    <3>1. 1 \in 1..(n + 1) /\ Pow[1] \in Nat
      BY <2>1
    <3> QED BY <3>1
  <2>3. ASSUME NEW k \in B PROVE k + 1 \in B
    <3> SUFFICES ASSUME (k + 1) + 1 <= n + 1 PROVE n >= Pow[(k + 1) + 1]
      OBVIOUS
    <3>1. k \in Nat /\ n >= Pow[k + 1]
      OBVIOUS
    <3>2. PICK j \in Nat : j = (k + 1) + 1
      BY <3>1
    <3>3. j \in 1..(n + 1) /\ j - 1 = k + 1
      BY <3>1, <3>2
    <3>4. ~ (n < Pow[j])
      BY <3>1, <3>3
    <3>5. Pow[j] \in Nat
      BY <2>1
    <3>6. n >= Pow[j]
      BY <3>4, <3>5
    <3> QED BY <3>2, <3>6
  <2>4. B \subseteq Nat
    OBVIOUS
  <2> HIDE DEF B
  <2>5. B = Nat
    BY <2>2, <2>3, <2>4, NatSet
  <2>6. n >= Pow[n + 1]
    <3>1. n \in B
      BY <2>5
    <3> QED BY <3>1 DEF B
  <2>7. PICK m \in Nat : m = n + 1
    OBVIOUS
  <2>8. Pow[m] \in Nat /\ Pow[m] > m
    BY PowType
  <2> QED BY <2>6, <2>7, <2>8
<1>2. x \in 1..(n + 1) /\ W(x)
  <2> HIDE DEF W
  <2> QED BY <1>1
<1>3. DigitsOf(n) = [i \in 1..x |-> (n \div Pow[x - i]) % Radix]
  BY DEF DigitsOf
<1> HIDE DEF x
<1>4. x \in Nat \ {0}
  BY <1>2
<1> QED BY <1>2, <1>3, <1>4

(* They are digits, and the shortest that show the number.                 *)
LEMMA DigitsNumber ==
  ASSUME NEW n \in Nat
  PROVE  /\ DigitsOf(n) \in Seq(Digit) /\ NumberOf(DigitsOf(n)) = n
         /\ Len(DigitsOf(n)) \in Nat \ {0}
         /\ \A d \in Nat \ {0} : n < Pow[d] => Len(DigitsOf(n)) <= d
<1>1. PICK w \in Nat \ {0} : /\ DigitsOf(n) = [i \in 1..w |-> (n \div Pow[w - i]) % Radix]
                            /\ n < Pow[w] /\ (w = 1 \/ n >= Pow[w - 1])
  BY DigitsWidth
<1> DEFINE r == [i \in 1..w |-> (n \div Pow[w - i]) % Radix]
<1>2. ASSUME NEW k \in 0..w PROVE w - k \in Nat /\ Pow[w - k] \in Nat /\ Pow[w - k] > 0
  <2>1. w - k \in Nat
    OBVIOUS
  <2>2. PICK j \in Nat : j = w - k
    BY <2>1
  <2>3. Pow[j] \in Nat /\ Pow[j] >= 1
    BY PowType
  <2> QED BY <2>2, <2>3
<1>3. ASSUME NEW i \in 1..w PROVE (n \div Pow[w - i]) % Radix \in Digit
  <2>1. PICK p \in Nat : p = Pow[w - i] /\ p > 0
    BY <1>2
  <2>2. n \div p \in Nat
    BY <2>1
  <2>3. PICK q \in Nat : q = n \div p
    BY <2>2
  <2>4. q % Radix \in 0..(Radix - 1)
    BY RadixType
  <2> QED BY <2>1, <2>3, <2>4 DEF Digit
<1>4. r \in Seq(Digit) /\ Len(r) = w /\ \A i \in 1..w : r[i] = (n \div Pow[w - i]) % Radix
  BY <1>3
<1>5. r \in Seq(Nat)
  BY <1>4, RadixType DEF Digit
<1> DEFINE t == [k \in 0..w |-> n \div Pow[w - k]]
<1>6. t[0] = 0
  <2>1. PICK p \in Nat : p = Pow[w] /\ n < p
    BY <1>1, PowType
  <2>2. n \div p = 0
    BY <2>1
  <2> QED BY <2>1, <2>2
<1>7. ASSUME NEW k \in 1..w PROVE t[k] = t[k - 1] * Radix + r[k]
  <2>1. PICK j \in Nat : j = w - k
    OBVIOUS
  <2>2. w - (k - 1) = j + 1
    BY <2>1
  <2>3. PICK p \in Nat : p = Pow[j] /\ p > 0
    BY <2>1, <1>2
  <2>4. Pow[j + 1] = p * Radix
    BY <2>3, PowNext
  <2>5. t[k] = n \div p /\ t[k - 1] = n \div (p * Radix) /\ r[k] = (n \div p) % Radix
    BY <2>1, <2>2, <2>3, <2>4
  <2>6. n \div (p * Radix) = (n \div p) \div Radix
    BY <2>3, RadixType
  <2>7. PICK q \in Nat : q = n \div p
    BY <2>3
  <2>8. q = (q \div Radix) * Radix + (q % Radix)
    BY RadixType
  <2> HIDE DEF t, r
  <2> QED BY <2>5, <2>6, <2>7, <2>8
<1>8. t[w] = n
  <2>1. w - w = 0 /\ w \in 0..w
    OBVIOUS
  <2>2. n \div 1 = n
    OBVIOUS
  <2> QED BY <2>1, <2>2, PowZero
<1> HIDE DEF t, r
<1>9. NumberOf(r) = n
  <2>1. Follows(t, r, Len(r))
    BY <1>4, <1>7 DEF Follows
  <2> QED BY <2>1, <1>4, <1>5, <1>6, <1>8, NumberIs
<1>10. ASSUME NEW d \in Nat \ {0}, n < Pow[d] PROVE w <= d
  <2> SUFFICES ASSUME w > d PROVE FALSE
    OBVIOUS
  <2>1. PICK j \in Nat : j = w - 1 /\ d <= j
    OBVIOUS
  <2>2. n >= Pow[j]
    BY <2>1, <1>1
  <2>3. Pow[d] \in Nat /\ Pow[j] \in Nat /\ Pow[d] <= Pow[j]
    BY <2>1, PowType, PowGrows
  <2> QED BY <2>2, <2>3, <1>10
<1> QED BY <1>1, <1>4, <1>9, <1>10 DEF r

(* Places filled with zeros on the left.                                   *)
LEMMA PadLeftNumber ==
  ASSUME NEW s \in Seq(Digit), NEW w \in Nat, Len(s) <= w
  PROVE  /\ PadLeft(s, w) \in Seq(Digit) /\ Len(PadLeft(s, w)) = w
         /\ NumberOf(PadLeft(s, w)) = NumberOf(s)
<1>1. PICK n \in Nat : n = Len(s)
  OBVIOUS
<1>2. PICK k \in Nat : k = w - n
  BY <1>1
<1>3. PadLeft(s, w) = Zeros(k) \o s
  <2>1. (IF Len(s) < w THEN w - Len(s) ELSE 0) = k
    BY <1>1, <1>2
  <2> QED BY <2>1 DEF PadLeft, Zeros
<1>4. s \in Seq(Nat)
  BY RadixType DEF Digit
<1>5. NumberOf(Zeros(k) \o s) = NumberOf(s)
  BY <1>4, ZerosInFront
<1>6. Zeros(k) \o s \in Seq(Digit) /\ Len(Zeros(k) \o s) = w
  <2>1. Zeros(k) \in Seq(Digit) /\ Len(Zeros(k)) = k
    BY ZerosType
  <2>2. Zeros(k) \o s \in Seq(Digit) /\ Len(Zeros(k) \o s) = k + n
    BY <1>1, <2>1
  <2> QED BY <1>2, <2>2
<1> QED BY <1>3, <1>5, <1>6

(* The last digit decides divisibility by the radix.                       *)
LEMMA LastDigit ==
  ASSUME NEW s \in Seq(Digit), Len(s) # 0
  PROVE  \E x \in Nat : NumberOf(s) = x * Radix + s[Len(s)]
<1>1. s \in Seq(Nat) /\ Len(s) \in 1..Len(s) /\ Len(s) - 1 \in 0..Len(s)
  BY RadixType DEF Digit
<1>2. PICK t \in [0..Len(s) -> Nat] :
        t[0] = 0 /\ Follows(t, s, Len(s)) /\ NumberOf(s) = t[Len(s)]
  BY <1>1, NumberTable
<1>3. t[Len(s) - 1] \in Nat
  BY <1>1
<1> QED BY <1>1, <1>2, <1>3 DEF Follows

(* What trimming leaves: a text without a zero at its end, which is the    *)
(* original but for zeros behind it.                                       *)
LEMMA TrimIs ==
  ASSUME NEW s \in Seq(Digit)
  PROVE  \E k \in 0..Len(s) :
           /\ TrimZeros(s) = SubSeq(s, 1, k)
           /\ \A i \in (k + 1)..Len(s) : s[i] = 0
           /\ k = 0 \/ s[k] # 0
<1> DEFINE K(k) == (\A i \in (k + 1)..Len(s) : s[i] = 0) /\ (k = 0 \/ s[k] # 0)
           x == CHOOSE k \in 0..Len(s) : K(k)
<1>0. PICK N \in Nat : N = Len(s)
  OBVIOUS
<1>1. \E k \in 0..Len(s) : K(k)
  <2> SUFFICES ASSUME \A k \in 0..N : ~ K(k) PROVE FALSE
    BY <1>0
  <2> DEFINE Z(k) == \A i \in (k + 1)..N : s[i] = 0
             B == {j \in Nat : j <= N => Z(N - j)}
  <2>1. 0 \in B
    <3>1. N - 0 = N /\ (N + 1)..N = {}
      OBVIOUS
    <3> QED BY <3>1
  <2>2. ASSUME NEW j \in B PROVE j + 1 \in B
    <3> SUFFICES ASSUME j + 1 <= N PROVE Z(N - (j + 1))
      OBVIOUS
    <3>1. PICK k \in Nat : k = N - j
      OBVIOUS
    <3>2. k \in 1..N /\ Z(k) /\ N - (j + 1) = k - 1
      BY <3>1
    <3>3. s[k] = 0
      <4>1. K(k) <=> Z(k) /\ (k = 0 \/ s[k] # 0)
        BY <1>0
      <4> HIDE DEF Z, K
      <4> QED BY <3>2, <4>1
    <3>4. ASSUME NEW i \in ((k - 1) + 1)..N PROVE s[i] = 0
      <4>1. i = k \/ i \in (k + 1)..N
        BY <3>2
      <4> QED BY <4>1, <3>2, <3>3
    <3> QED BY <3>2, <3>4
  <2>3. B \subseteq Nat
    OBVIOUS
  <2> HIDE DEF B
  <2>4. B = Nat
    BY <2>1, <2>2, <2>3, NatSet
  <2>5. Z(0)
    <3>1. N \in B /\ N - N = 0
      BY <2>4
    <3> HIDE DEF Z
    <3> QED BY <3>1 DEF B
  <2>6. K(0)
    BY <2>5, <1>0
  <2> QED BY <2>6
<1>2. x \in 0..Len(s) /\ K(x)
  <2> HIDE DEF K
  <2> QED BY <1>1
<1>3. TrimZeros(s) = SubSeq(s, 1, x)
  BY DEF TrimZeros
<1> HIDE DEF x
<1> QED BY <1>2, <1>3

(* What was cut off was a power of the radix.                              *)
LEMMA TrimNumber ==
  ASSUME NEW s \in Seq(Digit)
  PROVE  /\ TrimZeros(s) \in Seq(Digit)
         /\ Len(TrimZeros(s)) \in Nat /\ Len(TrimZeros(s)) <= Len(s)
         /\ NumberOf(s) = NumberOf(TrimZeros(s)) * Pow[Len(s) - Len(TrimZeros(s))]
         /\ Len(TrimZeros(s)) # 0 => TrimZeros(s)[Len(TrimZeros(s))] # 0
<1>1. PICK k \in 0..Len(s) : /\ TrimZeros(s) = SubSeq(s, 1, k)
                             /\ \A i \in (k + 1)..Len(s) : s[i] = 0
                             /\ k = 0 \/ s[k] # 0
  BY TrimIs
<1>2. PICK N \in Nat : N = Len(s)
  OBVIOUS
<1>3. k \in Nat /\ k <= N
  BY <1>2
<1>4. PICK j \in Nat : j = N - k /\ k + j = N
  BY <1>3
<1>5. PICK r : r = SubSeq(s, 1, k)
  OBVIOUS
<1>6. r \in Seq(Digit) /\ Len(r) = k /\ \A i \in 1..k : r[i] = s[i]
  <2>1. /\ r \in Seq(Digit)
        /\ Len(r) = IF 1 <= k THEN k - 1 + 1 ELSE 0
        /\ \A i \in 1..(k - 1 + 1) : r[i] = s[1 + i - 1]
    <3>1. 1 \in Int /\ k \in Int /\ \A i \in 1..k : s[i] \in Digit
      BY <1>2, <1>3
    <3> QED BY <3>1, <1>5, SubSeqProperties
  <2>2. k - 1 + 1 = k /\ \A i \in 1..k : 1 + i - 1 = i
    BY <1>3
  <2> QED BY <2>1, <2>2, <1>3
<1>7. s = r \o Zeros(j)
  <2>1. PICK z \in Seq(Digit) : z = Zeros(j) /\ Len(z) = j /\ \A i \in 1..j : z[i] = 0
    BY ZerosType DEF Zeros
  <2>2. PICK q : q = r \o z
    OBVIOUS
  <2>3. /\ q \in Seq(Digit) /\ Len(q) = k + j
        /\ \A i \in 1..(k + j) : q[i] = IF i <= k THEN r[i] ELSE z[i - k]
    <3>1. /\ r \o z \in Seq(Digit) /\ Len(r \o z) = Len(r) + Len(z)
          /\ \A i \in 1..(Len(r) + Len(z)) : (r \o z)[i] = IF i <= Len(r) THEN r[i] ELSE z[i - Len(r)]
      BY <1>6, ConcatProperties
    <3> QED BY <3>1, <1>6, <2>1, <2>2
  <2>4. Len(q) = Len(s)
    BY <2>3, <1>2, <1>4
  <2>5. ASSUME NEW i \in 1..Len(s) PROVE q[i] = s[i]
    <3>1. i \in 1..(k + j)
      <4>1. k + j = N /\ i \in 1..N
        BY <1>2, <1>3, <1>4
      <4> QED BY <4>1
    <3>2. CASE i <= k
      BY <3>1, <3>2, <2>3, <1>6, <1>3
    <3>3. CASE i > k
      <4>1. i - k \in 1..j /\ ~ (i <= k) /\ i \in (k + 1)..Len(s)
        BY <3>1, <3>3, <1>2, <1>3
      <4> QED BY <4>1, <3>1, <2>1, <2>3, <1>1
    <3> QED BY <3>1, <3>2, <3>3, <1>3
  <2>6. q = s
    BY <2>3, <2>4, <2>5, SeqEqual
  <2> QED BY <2>1, <2>2, <2>6
<1>8. r \in Seq(Nat)
  BY <1>6, RadixType DEF Digit
<1>9. NumberOf(s) = NumberOf(r) * Pow[j]
  BY <1>7, <1>8, ZerosBehind
<1>10. k # 0 => r[k] # 0
  BY <1>1, <1>3, <1>6
<1> QED BY <1>1, <1>2, <1>3, <1>4, <1>5, <1>6, <1>9, <1>10

(* Trimming and more places change the unit and not the value.             *)
LEMMA TrimPad ==
  ASSUME NEW s \in Seq(Digit), NEW w \in Nat, Len(s) <= w
  PROVE  NumberOf(PadRight(TrimZeros(s), w)) = NumberOf(PadRight(s, w))
<1>1. PICK r \in Seq(Digit) : r = TrimZeros(s)
  BY TrimNumber
<1>2. PICK k \in Nat, L \in Nat : k = Len(r) /\ L = Len(s) /\ k <= L
  BY <1>1, TrimNumber
<1>3. PICK i \in Nat, j \in Nat : i = L - k /\ j = w - L /\ i + j = w - k
  BY <1>2
<1>4. PICK a \in Nat : a = NumberOf(r)
  BY <1>1, NumberBound
<1>5. NumberOf(s) = a * Pow[i]
  BY <1>1, <1>2, <1>3, <1>4, TrimNumber
<1>6. NumberOf(PadRight(s, w)) = NumberOf(s) * Pow[j]
  BY <1>2, <1>3, PadRightNumber
<1>7. NumberOf(PadRight(r, w)) = a * Pow[i + j]
  <2>1. Len(r) <= w
    BY <1>2
  <2> QED BY <2>1, <1>2, <1>3, <1>4, PadRightNumber
<1>8. PICK p \in Nat, q \in Nat : p = Pow[i] /\ q = Pow[j]
  BY PowType
<1>9. Pow[i + j] = p * q
  BY <1>8, PowAdd
<1>10. (a * p) * q = a * (p * q)
  OBVIOUS
<1> QED BY <1>1, <1>5, <1>6, <1>7, <1>8, <1>9, <1>10

LEMMA MorePlaces ==
  ASSUME NEW s \in Seq(Digit), NEW w \in Nat, NEW e \in Nat, Len(s) <= w
  PROVE  NumberOf(PadRight(s, w + e)) = NumberOf(PadRight(s, w)) * Pow[e]
<1>1. PICK L \in Nat : L = Len(s)
  OBVIOUS
<1>2. PICK i \in Nat, v \in Nat : i = w - L /\ v = w + e /\ v - L = i + e
  BY <1>1
<1>3. PICK a \in Nat : a = NumberOf(s)
  BY NumberBound
<1>4. NumberOf(PadRight(s, w)) = a * Pow[i]
  BY <1>1, <1>2, <1>3, PadRightNumber
<1>5. NumberOf(PadRight(s, v)) = a * Pow[i + e]
  <2>1. Len(s) <= v
    BY <1>1, <1>2
  <2> QED BY <2>1, <1>1, <1>2, <1>3, PadRightNumber
<1>6. PICK p \in Nat, q \in Nat : p = Pow[i] /\ q = Pow[e]
  BY PowType
<1>7. Pow[i + e] = p * q
  BY <1>6, PowAdd
<1>8. (a * p) * q = a * (p * q)
  OBVIOUS
<1> QED BY <1>2, <1>4, <1>5, <1>6, <1>7, <1>8

-----------------------------------------------------------------------------
(* The conversions *)

(* Quotient and remainder.                                                 *)
LEMMA Divide ==
  ASSUME NEW n \in Nat, NEW p \in Nat, p >= 1
  PROVE  \E h \in Nat, f \in Nat : h = n \div p /\ f = n % p /\ f < p /\ n = h * p + f
<1>1. n \div p \in Nat /\ n % p \in Nat /\ n % p < p /\ n = (n \div p) * p + (n % p)
  OBVIOUS
<1> QED BY <1>1

LEMMA DivideExact ==
  ASSUME NEW n \in Nat, NEW p \in Nat, p >= 1
  PROVE  (n * p) % p = 0 /\ (n * p) \div p = n
OBVIOUS

(* Every admitted scale fits, since the largest does (scale_for).          *)
LEMMA ScaleIs ==
  ASSUME NEW d \in 0..MaxDecimals
  PROVE  /\ ScaleFor(d) = Pow[d] /\ Pow[d] \in Nat /\ Pow[d] >= 1 /\ Pow[d] <= MaxU64
         /\ d \in Nat /\ MaxDecimals \in Nat /\ MaxU64 \in Nat
<1>1. MaxDecimals \in Nat /\ MaxU64 \in Nat /\ Pow[MaxDecimals] <= MaxU64
  BY UnitsAssumption
<1>2. d \in Nat /\ d <= MaxDecimals
  BY <1>1
<1>3. PICK p \in Nat, q \in Nat : p = Pow[d] /\ q = Pow[MaxDecimals] /\ p <= q /\ p >= 1
  BY <1>1, <1>2, PowType, PowGrows
<1>4. p \in 0..MaxU64 /\ ~ (d > MaxDecimals)
  BY <1>1, <1>2, <1>3
<1> QED BY <1>1, <1>2, <1>3, <1>4 DEF ScaleFor, Checked

(* The parts of a text.                                                    *)
LEMMA TextParts ==
  ASSUME NEW text \in Texts
  PROVE  /\ text.frac \in Seq(Digit) /\ Len(text.frac) \in Nat
         /\ Len(text.frac) <= MaxDecimals + 1
         /\ text.whole \in Nat /\ text.whole <= MaxU64 + 1
         /\ MaxDecimals + 1 \in Nat
<1>1. MaxDecimals \in Nat /\ MaxU64 \in Nat
  BY UnitsAssumption
<1>2. text.whole \in 0..(MaxU64 + 1) /\ text.frac \in UNION {[1..n -> Digit] : n \in 0..(MaxDecimals + 1)}
  BY DEF Texts
<1>3. PICK n \in 0..(MaxDecimals + 1) : text.frac \in [1..n -> Digit]
  BY <1>2
<1>4. n \in Nat /\ n <= MaxDecimals + 1
  BY <1>1, <1>3
<1>5. PICK f \in [1..n -> Digit] : f = text.frac
  BY <1>3
<1>6. f \in Seq(Digit) /\ Len(f) = n
  BY <1>4, <1>5
<1> QED BY <1>1, <1>2, <1>4, <1>5, <1>6

(* Any text with at most d places is worth a number of units of d places.  *)
LEMMA WorthIn ==
  ASSUME NEW text \in Texts, NEW s \in Seq(Digit), NEW d \in 0..MaxDecimals, Len(s) <= d,
         NumberOf(PadRight(s, MaxDecimals + 1)) = NumberOf(PadRight(text.frac, MaxDecimals + 1))
  PROVE  /\ UnitWorth(d) \in Nat /\ UnitWorth(d) >= 1
         /\ Worth(text) = (text.whole * Pow[d] + NumberOf(PadRight(s, d))) * UnitWorth(d)
<1>1. d \in Nat /\ MaxDecimals \in Nat /\ d <= MaxDecimals
  BY ScaleIs
<1>2. PICK e \in Nat, m \in Nat : e = MaxDecimals + 1 - d /\ m = MaxDecimals + 1 /\ d + e = m
  BY <1>1
<1>3. PICK p \in Nat, u \in Nat : p = Pow[d] /\ u = Pow[e] /\ u >= 1
  BY <1>1, PowType
<1>4. Pow[m] = p * u
  BY <1>1, <1>2, <1>3, PowAdd
<1>5. PICK f \in Nat : f = NumberOf(PadRight(s, d))
  BY <1>1, PadRightNumber
<1>6. NumberOf(PadRight(s, m)) = f * u
  <2>1. NumberOf(PadRight(s, d + e)) = NumberOf(PadRight(s, d)) * Pow[e]
    BY <1>1, MorePlaces
  <2> QED BY <2>1, <1>2, <1>3, <1>5
<1>7. PICK h \in Nat : h = text.whole
  BY TextParts
<1>8. Worth(text) = h * (p * u) + f * u
  BY <1>2, <1>4, <1>6, <1>7 DEF Worth
<1>9. h * (p * u) + f * u = (h * p + f) * u
  OBVIOUS
<1> QED BY <1>2, <1>3, <1>5, <1>7, <1>8, <1>9 DEF UnitWorth

(* Whole tokens come back or do not fit.                                   *)
LEMMA TokensReturn ==
  ASSUME NEW tokens \in 0..MaxU64, NEW d \in 0..MaxDecimals
  PROVE  LET base == FromWholeTokens(tokens, d)
         IN  IF base # Error THEN WholeTokens(base, d) = tokens
             ELSE tokens = 0 \/ tokens * Pow[d] > MaxU64
<1>1. MaxU64 \in Nat /\ d \in Nat
  BY ScaleIs
<1>2. PICK p \in Nat : p = Pow[d] /\ p >= 1 /\ ScaleFor(d) = p
  BY ScaleIs
<1>3. PICK n \in Nat : n = tokens
  BY <1>1
<1>4. PICK x \in Nat : x = n * p
  OBVIOUS
<1>5. p # Error
  BY <1>2 DEF Error
<1>6. CASE n = 0
  <2>1. FromWholeTokens(tokens, d) = Error
    BY <1>2, <1>3, <1>6 DEF FromWholeTokens
  <2> QED BY <2>1, <1>3, <1>6
<1>7. CASE n # 0 /\ x > MaxU64
  <2>1. FromWholeTokens(tokens, d) = Error
    BY <1>1, <1>2, <1>3, <1>4, <1>5, <1>7 DEF FromWholeTokens, Checked
  <2> QED BY <2>1, <1>2, <1>3, <1>4, <1>7
<1>8. CASE n # 0 /\ x <= MaxU64
  <2>1. FromWholeTokens(tokens, d) = x
    BY <1>1, <1>2, <1>3, <1>4, <1>5, <1>8 DEF FromWholeTokens, Checked
  <2>2. x % p = 0 /\ x \div p = n
    BY <1>2, <1>4, DivideExact
  <2>3. WholeTokens(x, d) = n
    BY <1>2, <1>5, <2>2 DEF WholeTokens
  <2>4. x # Error
    BY DEF Error
  <2> QED BY <2>1, <2>3, <2>4, <1>3
<1> QED BY <1>1, <1>6, <1>7, <1>8

(* What is printed with at least one place: all its parts.                 *)
LEMMA Printed ==
  ASSUME NEW base \in 1..MaxU64, NEW d \in 1..MaxDecimals
  PROVE  \E h \in Nat, f \in Nat, s \in Seq(Digit) :
           /\ BaseUnitsToCantonDecimal(base, d) = [whole |-> h, frac |-> s]
           /\ Len(s) = d /\ NumberOf(s) = f /\ PadRight(s, d) = s
           /\ h * Pow[d] + f = base /\ h <= base /\ f < Pow[d] /\ h * Pow[d] <= base
<1>0. d \in 0..MaxDecimals
  BY UnitsAssumption
<1>1. PICK p \in Nat : p = Pow[d] /\ p >= 1 /\ ScaleFor(d) = p
  BY <1>0, ScaleIs
<1>2. base \in Nat /\ d \in Nat \ {0}
  BY UnitsAssumption
<1>3. PICK h \in Nat, f \in Nat : h = base \div p /\ f = base % p /\ f < p /\ base = h * p + f
  BY <1>1, <1>2, Divide
<1>4. h * p <= base /\ h <= base
  <2>1. PICK x \in Nat : x = h * p /\ h <= x
    <3>1. h * p \in Nat /\ h <= h * p
      BY <1>1
    <3> QED BY <3>1
  <2> QED BY <2>1, <1>3
<1>5. PICK r \in Seq(Digit) : r = DigitsOf(f) /\ NumberOf(r) = f /\ Len(r) <= d
  <2>1. /\ DigitsOf(f) \in Seq(Digit) /\ NumberOf(DigitsOf(f)) = f
        /\ \A c \in Nat \ {0} : f < Pow[c] => Len(DigitsOf(f)) <= c
    BY DigitsNumber
  <2>2. f < Pow[d]
    BY <1>1, <1>3
  <2> QED BY <2>1, <2>2, <1>2
<1>6. PICK s \in Seq(Digit) : s = PadLeft(r, d) /\ Len(s) = d /\ NumberOf(s) = f
  BY <1>2, <1>5, PadLeftNumber
<1>7. PadRight(s, d) = s
  <2>1. PICK k \in Nat : PadRight(s, d) = s \o Zeros(k) /\ k = IF Len(s) < d THEN d - Len(s) ELSE 0
    BY <1>2, PadRightIs
  <2>2. k = 0
    BY <2>1, <1>2, <1>6
  <2>3. Zeros(0) = << >>
    BY DEF Zeros
  <2> QED BY <2>1, <2>2, <2>3
<1>8. BaseUnitsToCantonDecimal(base, d) = [whole |-> h, frac |-> s]
  BY <1>1, <1>3, <1>5, <1>6 DEF BaseUnitsToCantonDecimal
<1> QED BY <1>1, <1>3, <1>4, <1>6, <1>7, <1>8

(* The reader of units.rs, as one exact number and two refusals.           *)
LEMMA ReaderIs ==
  ASSUME NEW text, text.whole \in Nat, text.frac \in Seq(Digit),
         NEW d \in 0..MaxDecimals, Len(text.frac) <= d
  PROVE  \E x \in Nat :
           /\ x = text.whole * Pow[d] + NumberOf(PadRight(text.frac, d))
           /\ CantonDecimalToBaseUnits(text, d) = IF x = 0 \/ x > MaxU64 THEN Error ELSE x
<1>1. d \in Nat /\ MaxU64 \in Nat /\ ~ (d > MaxDecimals) /\ ~ (Len(text.frac) > d)
  <2>1. d \in Nat /\ MaxU64 \in Nat /\ MaxDecimals \in Nat
    BY ScaleIs
  <2>2. PICK L \in Nat : L = Len(text.frac)
    OBVIOUS
  <2> QED BY <2>1, <2>2
<1>2. PICK p \in Nat : p = Pow[d] /\ p >= 1 /\ p <= MaxU64 /\ ScaleFor(d) = p
  BY ScaleIs
<1>3. PICK f \in Nat : f = NumberOf(PadRight(text.frac, d)) /\ f < p
  BY <1>1, <1>2, PadRightNumber
<1>4. PICK h \in Nat : h = text.whole
  OBVIOUS
<1>5. PICK y \in Nat : y = h * p /\ h <= y
  <2>1. h * p \in Nat /\ h <= h * p
    BY <1>2
  <2> QED BY <2>1
<1>6. PICK x \in Nat : x = y + f
  OBVIOUS
<1>7. Checked(f, MaxU64) = f
  BY <1>1, <1>2, <1>3 DEF Checked
<1>8. f # Error /\ h # Error /\ y # Error
  BY DEF Error
<1>9. CASE h > MaxU64
  <2>1. Checked(h, MaxU64) = Error
    BY <1>1, <1>9 DEF Checked
  <2>2. CantonDecimalToBaseUnits(text, d) = Error
    BY <2>1, <1>4 DEF CantonDecimalToBaseUnits
  <2>3. x > MaxU64
    BY <1>1, <1>5, <1>6, <1>9
  <2> QED BY <2>2, <2>3, <1>2, <1>3, <1>4, <1>5, <1>6
<1>10. CASE h <= MaxU64 /\ y > MaxU64
  <2>1. Checked(h, MaxU64) = h /\ Checked(y, MaxU64) = Error
    BY <1>1, <1>10 DEF Checked
  <2>2. CantonDecimalToBaseUnits(text, d) = Error
    BY <2>1, <1>2, <1>4, <1>5 DEF CantonDecimalToBaseUnits
  <2>3. x > MaxU64
    BY <1>1, <1>5, <1>6, <1>10
  <2> QED BY <2>2, <2>3, <1>2, <1>3, <1>4, <1>5, <1>6
<1>11. CASE h <= MaxU64 /\ y <= MaxU64
  <2>1. Checked(h, MaxU64) = h /\ Checked(y, MaxU64) = y
    BY <1>1, <1>11 DEF Checked
  <2>2. CantonDecimalToBaseUnits(text, d) = IF x = 0 THEN Error ELSE Checked(x, MaxU64)
    BY <2>1, <1>1, <1>2, <1>3, <1>4, <1>5, <1>6, <1>7, <1>8 DEF CantonDecimalToBaseUnits
  <2>3. Checked(x, MaxU64) = IF x > MaxU64 THEN Error ELSE x
    BY <1>1 DEF Checked
  <2> QED BY <2>2, <2>3, <1>2, <1>3, <1>4, <1>5, <1>6
<1> QED BY <1>1, <1>9, <1>10, <1>11

(* The reader of the completion checks.                                    *)
LEMMA Base6Is ==
  ASSUME NEW text, text.whole \in Nat, text.frac \in Seq(Digit),
         Len(TrimZeros(text.frac)) <= Places
  PROVE  \E x \in Nat :
           /\ x = text.whole * Pow[Places] + NumberOf(PadRight(TrimZeros(text.frac), Places))
           /\ DecimalToBase6(text) = IF x > MaxU128 THEN Error ELSE x
<1>0. Places \in Nat /\ MaxU128 \in Nat
  BY UnitsAssumption
<1>1. PICK s \in Seq(Digit) : s = TrimZeros(text.frac) /\ ~ (Len(s) > Places)
  <2>1. TrimZeros(text.frac) \in Seq(Digit) /\ Len(TrimZeros(text.frac)) \in Nat
    BY TrimNumber
  <2> QED BY <2>1, <1>0
<1>2. PICK p \in Nat : p = Pow[Places] /\ p >= 1
  BY <1>0, PowType
<1>3. PICK f \in Nat : f = NumberOf(PadRight(s, Places))
  BY <1>0, <1>1, PadRightNumber
<1>4. PICK h \in Nat : h = text.whole
  OBVIOUS
<1>5. PICK y \in Nat : y = h * p /\ h <= y
  <2>1. h * p \in Nat /\ h <= h * p
    BY <1>2
  <2> QED BY <2>1
<1>6. PICK x \in Nat : x = y + f
  OBVIOUS
<1>8. h # Error /\ y # Error
  BY DEF Error
<1>9. CASE h > MaxU128
  <2>1. Checked(h, MaxU128) = Error
    BY <1>0, <1>9 DEF Checked
  <2>2. DecimalToBase6(text) = Error
    BY <2>1, <1>4 DEF DecimalToBase6
  <2>3. x > MaxU128
    BY <1>0, <1>5, <1>6, <1>9
  <2> QED BY <2>2, <2>3, <1>1, <1>2, <1>3, <1>4, <1>5, <1>6
<1>10. CASE h <= MaxU128 /\ y > MaxU128
  <2>1. Checked(h, MaxU128) = h /\ Checked(y, MaxU128) = Error
    BY <1>0, <1>10 DEF Checked
  <2>2. DecimalToBase6(text) = Error
    BY <2>1, <1>2, <1>4, <1>5 DEF DecimalToBase6
  <2>3. x > MaxU128
    BY <1>0, <1>5, <1>6, <1>10
  <2> QED BY <2>2, <2>3, <1>1, <1>2, <1>3, <1>4, <1>5, <1>6
<1>11. CASE h <= MaxU128 /\ y <= MaxU128
  <2>1. Checked(h, MaxU128) = h /\ Checked(y, MaxU128) = y
    BY <1>0, <1>11 DEF Checked
  <2>2. DecimalToBase6(text) = Checked(x, MaxU128)
    BY <2>1, <1>1, <1>2, <1>3, <1>4, <1>5, <1>6, <1>8 DEF DecimalToBase6
  <2>3. Checked(x, MaxU128) = IF x > MaxU128 THEN Error ELSE x
    BY <1>0 DEF Checked
  <2> QED BY <2>2, <2>3, <1>1, <1>2, <1>3, <1>4, <1>5, <1>6
<1> QED BY <1>0, <1>9, <1>10, <1>11

(* What is printed for Canton reads back as the same base units.           *)
LEMMA PrintedReadsBack ==
  ASSUME NEW base \in 1..MaxU64, NEW d \in 0..MaxDecimals
  PROVE  CantonDecimalToBaseUnits(BaseUnitsToCantonDecimal(base, d), d)
           = IF d = 0 THEN Error ELSE base
<1>1. MaxU64 \in Nat /\ d \in Nat /\ base \in Nat /\ base # 0 /\ base <= MaxU64
  BY UnitsAssumption
<1>2. PICK text : text = BaseUnitsToCantonDecimal(base, d)
  OBVIOUS
<1>3. CASE d = 0
  <2>1. PICK f \in Nat : f = base % ScaleFor(d)
    BY <1>1, ScaleIs, Divide
  <2>2. PICK r \in Seq(Digit) : r = DigitsOf(f) /\ Len(r) \in Nat \ {0}
    BY DigitsNumber
  <2>3. text.frac = PadLeft(r, d)
    BY <2>1, <2>2, <1>2 DEF BaseUnitsToCantonDecimal
  <2>4. PadLeft(r, d) = Zeros(0) \o r
    <3>1. (IF Len(r) < d THEN d - Len(r) ELSE 0) = 0
      BY <1>3, <2>2
    <3> QED BY <3>1 DEF PadLeft, Zeros
  <2>5. Zeros(0) = << >>
    BY DEF Zeros
  <2>6. << >> \o r = r
    OBVIOUS
  <2>7. Len(text.frac) > d
    BY <2>2, <2>3, <2>4, <2>5, <2>6, <1>3
  <2>8. CantonDecimalToBaseUnits(text, d) = Error
    BY <2>7 DEF CantonDecimalToBaseUnits
  <2> QED BY <2>8, <1>2, <1>3
<1>4. CASE d # 0
  <2>1. d \in 1..MaxDecimals
    BY <1>1, <1>4
  <2>2. PICK h \in Nat, f \in Nat, s \in Seq(Digit) :
           /\ BaseUnitsToCantonDecimal(base, d) = [whole |-> h, frac |-> s]
           /\ Len(s) = d /\ NumberOf(s) = f /\ PadRight(s, d) = s
           /\ h * Pow[d] + f = base /\ h <= base /\ f < Pow[d] /\ h * Pow[d] <= base
    BY <2>1, Printed
  <2>3. text.whole = h /\ text.frac = s
    BY <1>2, <2>2
  <2>4. PICK x \in Nat :
           /\ x = text.whole * Pow[d] + NumberOf(PadRight(text.frac, d))
           /\ CantonDecimalToBaseUnits(text, d) = IF x = 0 \/ x > MaxU64 THEN Error ELSE x
    <3>1. text.whole \in Nat /\ text.frac \in Seq(Digit) /\ Len(text.frac) <= d
      BY <2>2, <2>3, <1>1
    <3> QED BY <3>1, ReaderIs
  <2>5. x = base
    BY <2>2, <2>3, <2>4
  <2> QED BY <2>4, <2>5, <1>1, <1>2, <1>4
<1> QED BY <1>3, <1>4

(* A text is read as exactly its worth, or refused.                        *)
LEMMA ReadIsWorth ==
  ASSUME NEW text \in Texts, NEW d \in 0..(MaxDecimals + 1)
  PROVE  LET base == CantonDecimalToBaseUnits(text, d)
         IN  IF base # Error THEN base > 0 /\ base * UnitWorth(d) = Worth(text)
             ELSE \/ d > MaxDecimals \/ Len(text.frac) > d
                  \/ Worth(text) \notin UnitWorth(d)..(MaxU64 * UnitWorth(d))
<1>1. MaxDecimals \in Nat /\ MaxU64 \in Nat /\ d \in Nat
  BY UnitsAssumption
<1>2. CASE d > MaxDecimals \/ Len(text.frac) > d
  <2>1. CantonDecimalToBaseUnits(text, d) = Error
    BY <1>2 DEF CantonDecimalToBaseUnits
  <2> QED BY <2>1, <1>2
<1>3. CASE ~ (d > MaxDecimals \/ Len(text.frac) > d)
  <2>1. d \in 0..MaxDecimals
    BY <1>1, <1>3
  <2>2. /\ text.whole \in Nat /\ text.frac \in Seq(Digit) /\ Len(text.frac) \in Nat
        /\ Len(text.frac) <= d
    BY <1>1, <1>3, TextParts
  <2>3. PICK x \in Nat :
           /\ x = text.whole * Pow[d] + NumberOf(PadRight(text.frac, d))
           /\ CantonDecimalToBaseUnits(text, d) = IF x = 0 \/ x > MaxU64 THEN Error ELSE x
    BY <2>1, <2>2, ReaderIs
  <2>4. PICK u \in Nat : u = UnitWorth(d) /\ u >= 1 /\ Worth(text) = x * u
    <3>1. /\ UnitWorth(d) \in Nat /\ UnitWorth(d) >= 1
          /\ Worth(text) = (text.whole * Pow[d] + NumberOf(PadRight(text.frac, d))) * UnitWorth(d)
      BY <2>1, <2>2, WorthIn
    <3> QED BY <3>1, <2>3
  <2>5. CASE x = 0
    <3>1. x * u = 0
      BY <2>5
    <3>2. x * u \notin u..(MaxU64 * u)
      <4>1. PICK z \in Nat : z = MaxU64 * u
        BY <1>1
      <4> QED BY <3>1, <4>1, <2>4
    <3> QED BY <3>2, <2>3, <2>4, <2>5
  <2>6. CASE x > MaxU64
    <3>1. MaxU64 * u \in Nat /\ x * u \in Nat /\ MaxU64 * u < x * u
      BY <1>1, <2>4, <2>6
    <3>2. PICK z \in Nat, y \in Nat : z = MaxU64 * u /\ y = x * u /\ z < y
      BY <3>1
    <3>3. y \notin u..z
      BY <3>2
    <3> QED BY <3>2, <3>3, <2>3, <2>4, <2>6
  <2>7. CASE x # 0 /\ x <= MaxU64
    <3>1. CantonDecimalToBaseUnits(text, d) = x /\ x # Error /\ x > 0
      BY <2>3, <2>7, <1>1 DEF Error
    <3> QED BY <3>1, <2>4
  <2> QED BY <1>1, <2>5, <2>6, <2>7
<1> QED BY <1>2, <1>3

(* The completion checks call a text equal to a printed amount exactly if  *)
(* it is worth the amount.                                                 *)
LEMMA MatchIsWorth ==
  ASSUME NEW base \in 1..MaxU64, NEW text \in Texts
  PROVE  LET printed == BaseUnitsToCantonDecimal(base, Places)
         IN  AmountsMatch(printed, text) <=> Worth(text) = base * UnitWorth(Places)
<1>1. /\ MaxDecimals \in Nat /\ MaxU64 \in Nat /\ MaxU128 \in Nat /\ MaxU64 <= MaxU128
      /\ Places \in 1..MaxDecimals /\ Places \in 0..MaxDecimals /\ Places \in Nat
      /\ base \in Nat /\ base # 0 /\ base <= MaxU64
  BY UnitsAssumption
<1>2. PICK printed : printed = BaseUnitsToCantonDecimal(base, Places)
  OBVIOUS
<1>3. DecimalToBase6(printed) = base
  <2>1. PICK h \in Nat, f \in Nat, s \in Seq(Digit) :
           /\ BaseUnitsToCantonDecimal(base, Places) = [whole |-> h, frac |-> s]
           /\ Len(s) = Places /\ NumberOf(s) = f /\ PadRight(s, Places) = s
           /\ h * Pow[Places] + f = base /\ h <= base /\ f < Pow[Places] /\ h * Pow[Places] <= base
    BY <1>1, Printed
  <2>2. printed.whole = h /\ printed.frac = s
    BY <1>2, <2>1
  <2>3. Len(s) <= Places
    BY <2>1, <1>1
  <2>4. Len(TrimZeros(s)) <= Places
    BY <2>1, <1>1, TrimNumber
  <2>5. NumberOf(PadRight(TrimZeros(s), Places)) = f
    BY <2>1, <2>3, <1>1, TrimPad
  <2>6. PICK x \in Nat :
           /\ x = printed.whole * Pow[Places] + NumberOf(PadRight(TrimZeros(printed.frac), Places))
           /\ DecimalToBase6(printed) = IF x > MaxU128 THEN Error ELSE x
    <3>1. printed.whole \in Nat /\ printed.frac \in Seq(Digit) /\ Len(TrimZeros(printed.frac)) <= Places
      BY <2>2, <2>4
    <3> QED BY <3>1, Base6Is
  <2>7. x = base
    BY <2>1, <2>2, <2>5, <2>6
  <2> QED BY <2>6, <2>7, <1>1
<1>4. AmountsMatch(printed, text) <=> DecimalToBase6(text) = base
  <2>1. base # Error
    BY <1>1 DEF Error
  <2> QED BY <2>1, <1>3 DEF AmountsMatch
<1>5. PICK m \in Nat : m = MaxDecimals + 1 /\ Places <= m
  BY <1>1
<1>6. PICK g \in Seq(Digit), h \in Nat, L \in Nat :
        g = text.frac /\ h = text.whole /\ L = Len(g) /\ L <= m
  BY <1>5, TextParts
<1>7. PICK s \in Seq(Digit), k \in Nat : s = TrimZeros(g) /\ k = Len(s) /\ k <= L
  BY <1>6, TrimNumber
<1>8. NumberOf(PadRight(s, m)) = NumberOf(PadRight(g, m))
  BY <1>6, <1>7, TrimPad
<1>9. CASE k <= Places
  <2>1. PICK x \in Nat :
           /\ x = h * Pow[Places] + NumberOf(PadRight(s, Places))
           /\ DecimalToBase6(text) = IF x > MaxU128 THEN Error ELSE x
    <3>1. text.whole \in Nat /\ text.frac \in Seq(Digit) /\ Len(TrimZeros(text.frac)) <= Places
      BY <1>6, <1>7, <1>9
    <3>2. PICK x \in Nat :
           /\ x = text.whole * Pow[Places] + NumberOf(PadRight(TrimZeros(text.frac), Places))
           /\ DecimalToBase6(text) = IF x > MaxU128 THEN Error ELSE x
      BY <3>1, Base6Is
    <3> QED BY <3>2, <1>6, <1>7
  <2>2. PICK u \in Nat : u = UnitWorth(Places) /\ u >= 1 /\ Worth(text) = x * u
    <3>1. Len(s) <= Places /\ NumberOf(PadRight(s, MaxDecimals + 1)) = NumberOf(PadRight(text.frac, MaxDecimals + 1))
      BY <1>5, <1>6, <1>7, <1>8, <1>9
    <3>2. /\ UnitWorth(Places) \in Nat /\ UnitWorth(Places) >= 1
          /\ Worth(text) = (text.whole * Pow[Places] + NumberOf(PadRight(s, Places))) * UnitWorth(Places)
      BY <3>1, <1>1, WorthIn
    <3> QED BY <3>2, <2>1, <1>6
  <2>3. DecimalToBase6(text) = base <=> x = base
    <3>1. base # Error
      BY <1>1 DEF Error
    <3> QED BY <3>1, <2>1, <1>1
  <2>4. x * u = base * u <=> x = base
    BY <2>2, <1>1, TimesCancels
  <2> QED BY <2>2, <2>3, <2>4, <1>2, <1>4
<1>10. CASE k > Places
  <2>1. DecimalToBase6(text) = Error
    BY <1>6, <1>7, <1>10 DEF DecimalToBase6
  <2>2. base # Error
    BY <1>1 DEF Error
  <2> SUFFICES ASSUME Worth(text) = base * UnitWorth(Places) PROVE FALSE
    BY <2>1, <2>2, <1>2, <1>4
  <2>3. PICK j \in Nat, e \in Nat : j + 1 = k - Places /\ e = m - k
    <3>1. (k - Places) - 1 \in Nat /\ ((k - Places) - 1) + 1 = k - Places
      BY <1>1, <1>10
    <3>2. m - k \in Nat
      BY <1>6, <1>7
    <3> QED BY <3>1, <3>2
  <2>4. PICK q \in Nat, u \in Nat : q = Pow[j] /\ u = Pow[e] /\ u >= 1
    BY PowType
  <2>5. Pow[j + 1] = q * Radix
    BY <2>4, PowNext
  <2>6. UnitWorth(Places) = (q * Radix) * u
    <3>1. PICK i \in Nat : i = j + 1
      OBVIOUS
    <3>2. MaxDecimals + 1 - Places = i + e
      BY <3>1, <2>3, <1>1, <1>5
    <3>3. Pow[i + e] = Pow[i] * Pow[e]
      BY PowAdd
    <3> QED BY <3>1, <3>2, <3>3, <2>4, <2>5 DEF UnitWorth
  <2>7. PICK p \in Nat : p = Pow[Places]
    BY <1>1, PowType
  <2>8. Pow[m] = (p * (q * Radix)) * u
    <3>1. PICK i \in Nat, n \in Nat : i = j + 1 /\ n = Places + i
      BY <1>1
    <3>2. m = n + e
      BY <3>1, <2>3, <1>1
    <3>3. Pow[n + e] = Pow[n] * Pow[e] /\ Pow[Places + i] = Pow[Places] * Pow[i]
      BY <3>1, <1>1, PowAdd
    <3> QED BY <3>1, <3>2, <3>3, <2>4, <2>5, <2>7
  <2>9. PICK x \in Nat, d \in Nat : d # 0 /\ d < Radix /\ NumberOf(s) = x * Radix + d
    <3>1. Len(s) # 0
      BY <1>1, <1>7, <1>10
    <3>2. PICK x \in Nat : NumberOf(s) = x * Radix + s[Len(s)]
      BY <3>1, LastDigit
    <3>3. s[Len(s)] \in Digit
      BY <3>1
    <3>4. s[Len(s)] # 0
      BY <3>1, <1>6, <1>7, TrimNumber
    <3>5. PICK d \in Nat : d = s[Len(s)] /\ d # 0 /\ d < Radix
      BY <3>3, <3>4, RadixType DEF Digit
    <3> QED BY <3>2, <3>5
  <2>10. NumberOf(PadRight(s, m)) = (x * Radix + d) * u
    <3>1. Len(s) <= m
      BY <1>6, <1>7
    <3>2. NumberOf(PadRight(s, m)) = NumberOf(s) * Pow[m - Len(s)]
      BY <3>1, PadRightNumber
    <3> QED BY <3>2, <2>3, <2>4, <2>9, <1>7
  <2>11. Worth(text) = h * ((p * (q * Radix)) * u) + (x * Radix + d) * u
    BY <2>8, <2>10, <1>5, <1>6, <1>8 DEF Worth
  <2>12. PICK R \in Nat : R = Radix /\ R > 1
    BY RadixType
  <2>13. h * ((p * (q * R)) * u) + (x * R + d) * u = base * ((q * R) * u)
    BY <2>6, <2>11, <2>12
  <2>14. ((h * p * q + x) * R + d) * u = ((base * q) * R) * u
    <3>1. h * ((p * (q * R)) * u) + (x * R + d) * u = ((h * p * q + x) * R + d) * u
      OBVIOUS
    <3>2. base * ((q * R) * u) = ((base * q) * R) * u
      BY <1>1
    <3> QED BY <3>1, <3>2, <2>13
  <2>15. PICK a \in Nat, b \in Nat : a = h * p * q + x /\ b = base * q
    BY <1>1
  <2>16. a * R + d = b * R
    <3>1. (a * R + d) * u = (b * R) * u
      BY <2>14, <2>15
    <3>2. PICK y \in Nat, z \in Nat : y = a * R + d /\ z = b * R
      OBVIOUS
    <3>3. y * u = z * u
      BY <3>1, <3>2
    <3>4. y = z
      BY <3>3, <2>4, TimesCancels
    <3> QED BY <3>2, <3>4
  <2>17. d < R
    BY <2>9, <2>12
  <2>18. CASE b <= a
    <3>1. b * R <= a * R /\ b * R \in Nat /\ a * R \in Nat
      BY <2>18, TimesGrows
    <3> QED BY <3>1, <2>16, <2>9
  <2>19. CASE a + 1 <= b
    <3>1. (a + 1) * R <= b * R /\ (a + 1) * R = a * R + R
      <4>1. a + 1 \in Nat
        OBVIOUS
      <4>2. (a + 1) * R <= b * R
        BY <4>1, <2>19, TimesGrows
      <4> QED BY <4>2
    <3>2. PICK y \in Nat, z \in Nat : y = a * R /\ z = b * R
      OBVIOUS
    <3>3. y + R <= z /\ y + d = z
      BY <3>1, <3>2, <2>16
    <3> QED BY <3>3, <2>17
  <2> QED BY <2>18, <2>19
<1> QED BY <1>1, <1>7, <1>9, <1>10

(* Converting and comparing amounts is exact (units.rs, decimal_to_base6   *)
(* and amounts_match), for every radix, number of places and integer width *)
(* that satisfies the assumption, those of the code among them: what is    *)
(* printed reads back, a text is read as its worth or refused, tokens come *)
(* back, and equal means of equal worth.  So it is in every state.         *)
THEOREM AmountsAreExact == UnitsAgree /\ (Spec => []AmountsExact)
<1>1. \A base \in 1..MaxU64, d \in 0..MaxDecimals :
        CantonDecimalToBaseUnits(BaseUnitsToCantonDecimal(base, d), d)
          = IF d = 0 THEN Error ELSE base
  BY PrintedReadsBack
<1>2. UnitsAgree
  BY <1>1, ReadIsWorth, TokensReturn, MatchIsWorth DEF UnitsAgree
<1>3. AmountsExact
  BY <1>2 DEF AmountsExact
<1> QED BY <1>2, <1>3, PTL
=============================================================================
