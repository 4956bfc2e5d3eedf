--------------------------- MODULE GatewayProofs ---------------------------
(***************************************************************************)
(* Proofs about the bridge gateway, for any locks, trades, amounts, and    *)
(* attestations of which at most one configured attester's are false, and  *)
(* for any bounds.                                                         *)
(*                                                                         *)
(* The state is the update history, so the proofs are in two layers.       *)
(* StructInv says what makes a history one: updates are numbered, a        *)
(* contract is named by its update and is archived once.  CommitStruct and *)
(* ActiveAfter say what one transaction does to it.  Above it FactInv says *)
(* what the contracts of each template promise.                            *)
(***************************************************************************)
EXTENDS Gateway, Sums

-----------------------------------------------------------------------------
(* Histories *)

Named(kind, subject) == {u \in Updates : u[1] = kind /\ u[2] = subject}

Gone == {f.cid : f \in archived}

StructInv ==
  /\ IsFiniteSet(created) /\ IsFiniteSet(archived)
  /\ \A f \in created : f.cid = Cid(f.cid[1], f.update)
  /\ \A f, g \in created : f.cid = g.cid => f = g
  /\ \A f, g \in archived : f.cid = g.cid => f = g
  /\ \A f \in archived : \E g \in created : g.cid = f.cid
  /\ \A u \in Updates : u[3] \in Nat /\ u[3] <= Cardinality(Named(u[1], u[2]))

(* What a transaction writes: contracts of its own update under different  *)
(* names, and archives of active contracts.                                *)
WellFormed(u, creates, archives) ==
  /\ IsFiniteSet(creates) /\ creates # {}
  /\ \A f \in creates : f.update = u /\ f.cid = Cid(f.cid[1], u)
  /\ \A f, g \in creates : f.cid = g.cid => f = g
  /\ IsFiniteSet(archives)
  /\ \A c \in archives : c \notin Gone /\ \E g \in created : g.cid = c

(* The image of a finite set, and when it has as many elements.            *)
LEMMA Image ==
  ASSUME NEW S, IsFiniteSet(S), NEW f, DOMAIN f = S, f = [x \in S |-> f[x]]
  PROVE  /\ IsFiniteSet({f[x] : x \in S})
         /\ (\A x, y \in S : f[x] = f[y] => x = y)
              => Cardinality({f[x] : x \in S}) = Cardinality(S)
<1> DEFINE T == {f[x] : x \in S}
<1>1. f \in Surjection(S, T)
  BY DEF Surjection
<1>2. (\A x, y \in S : f[x] = f[y] => x = y) => f \in Injection(S, T)
  BY <1>1 DEF Surjection, Injection, IsInjective
<1> HIDE DEF T
<1>3. IsFiniteSet(T) /\ (f \in Injection(S, T) => Cardinality(T) = Cardinality(S))
  BY <1>1, FS_Surjection
<1> QED BY <1>2, <1>3 DEF T

LEMMA UpdatesFinite ==
  ASSUME StructInv
  PROVE  IsFiniteSet(Updates) /\ \A k, s : IsFiniteSet(Named(k, s))
<1> DEFINE name == [f \in created |-> f.update]
<1>1. IsFiniteSet({name[f] : f \in created})
  <2>1. DOMAIN name = created /\ name = [f \in created |-> name[f]] /\ IsFiniteSet(created)
    BY DEF StructInv
  <2> HIDE DEF name
  <2> QED BY <2>1, Image
<1>2. IsFiniteSet(Updates)
  BY <1>1 DEF Updates
<1> QED BY <1>2, FS_Subset DEF Named

(* The number of a fresh update is one that none of its kind has.          *)
LEMMA FreshIsNew ==
  ASSUME StructInv, NEW kind, NEW subject, NEW u \in Fresh(kind, subject)
  PROVE  /\ u = <<kind, subject, 1 + Cardinality(Named(kind, subject))>>
         /\ u \notin Updates
<1>1. u = <<kind, subject, 1 + Cardinality(Named(kind, subject))>>
  BY DEF Fresh, Named
<1>2. Cardinality(Named(kind, subject)) \in Nat
  BY UpdatesFinite, FS_CardinalityType
<1>3. ASSUME u \in Updates PROVE FALSE
  BY <1>1, <1>2, <1>3 DEF StructInv
<1> QED BY <1>1, <1>3

(* One transaction keeps the history one.                                  *)
LEMMA CommitStruct ==
  ASSUME StructInv, NEW kind, NEW subject, NEW u \in Fresh(kind, subject),
         NEW C, NEW X, NEW A, Commit(u, C, X, A), WellFormed(u, C, A)
  PROVE  StructInv'
<1>1. created' = created \cup C
      /\ archived' = archived \cup {[cid |-> c, update |-> u] : c \in A}
  BY DEF Commit
<1>2. u = <<kind, subject, 1 + Cardinality(Named(kind, subject))>> /\ u \notin Updates
  BY FreshIsNew
<1>3. IsFiniteSet(created') /\ IsFiniteSet(archived')
  <2>1. IsFiniteSet({[cid |-> c, update |-> u] : c \in A})
    <3> DEFINE note == [c \in A |-> [cid |-> c, update |-> u]]
    <3>1. DOMAIN note = A /\ note = [c \in A |-> note[c]] /\ IsFiniteSet(A)
      BY DEF WellFormed
    <3>2. IsFiniteSet({note[c] : c \in A})
      <4> HIDE DEF note
      <4> QED BY <3>1, Image
    <3> QED BY <3>2
  <2> QED BY <1>1, <2>1, FS_Union DEF StructInv, WellFormed
<1>4. Updates' = Updates \cup {u}
  BY <1>1 DEF Updates, WellFormed
<1>5. \A f \in created' : f.cid = Cid(f.cid[1], f.update)
  BY <1>1 DEF StructInv, WellFormed
<1>6. \A f, g \in created' : f.cid = g.cid => f = g
  <2>1. \A f \in created, g \in C : f.cid # g.cid
    <3> SUFFICES ASSUME NEW f \in created, NEW g \in C, f.cid = g.cid PROVE FALSE
      OBVIOUS
    <3>1. f.cid = Cid(f.cid[1], f.update) /\ g.cid = Cid(g.cid[1], u)
      BY DEF StructInv, WellFormed
    <3>2. f.update = u
      BY <3>1 DEF Cid
    <3> QED BY <3>2, <1>2 DEF Updates
  <2> QED BY <1>1, <2>1 DEF StructInv, WellFormed
<1>7. \A f, g \in archived' : f.cid = g.cid => f = g
  <2>1. \A f \in archived, g \in {[cid |-> c, update |-> u] : c \in A} : f.cid # g.cid
    BY DEF WellFormed, Gone
  <2> QED BY <1>1, <2>1 DEF StructInv
<1>8. \A f \in archived' : \E g \in created' : g.cid = f.cid
  BY <1>1 DEF StructInv, WellFormed
<1>9. ASSUME NEW v \in Updates' PROVE v[3] \in Nat /\ v[3] <= Cardinality(Named(v[1], v[2])')
  <2>1. Named(v[1], v[2])' = {w \in Updates \cup {u} : w[1] = v[1] /\ w[2] = v[2]}
    BY <1>4 DEF Named
  <2>2. IsFiniteSet(Named(v[1], v[2])) /\ Cardinality(Named(v[1], v[2])) \in Nat
    BY UpdatesFinite, FS_CardinalityType
  <2>3. CASE u[1] = v[1] /\ u[2] = v[2]
    <3>1. Named(v[1], v[2])' = Named(v[1], v[2]) \cup {u} /\ u \notin Named(v[1], v[2])
      BY <2>1, <2>3, <1>2 DEF Named
    <3>2. Cardinality(Named(v[1], v[2])') = Cardinality(Named(v[1], v[2])) + 1
      BY <3>1, <2>2, FS_AddElement
    <3>3. CASE v = u
      <4>1. v[3] = 1 + Cardinality(Named(v[1], v[2]))
        BY <3>3, <1>2
      <4> QED BY <4>1, <3>2, <2>2
    <3>4. CASE v \in Updates
      <4>1. v[3] \in Nat /\ v[3] <= Cardinality(Named(v[1], v[2]))
        BY <3>4 DEF StructInv
      <4> QED BY <4>1, <3>2, <2>2
    <3> QED BY <3>3, <3>4, <1>4
  <2>4. CASE ~(u[1] = v[1] /\ u[2] = v[2])
    <3>1. Named(v[1], v[2])' = Named(v[1], v[2]) /\ v \in Updates
      BY <2>1, <2>4, <1>4 DEF Named
    <3> QED BY <3>1 DEF StructInv
  <2> QED BY <2>3, <2>4
<1> QED BY <1>3, <1>5, <1>6, <1>7, <1>8, <1>9 DEF StructInv

(* What is active afterwards.                                              *)
LEMMA ActiveAfter ==
  ASSUME StructInv, NEW kind, NEW subject, NEW u \in Fresh(kind, subject),
         NEW C, NEW X, NEW A, Commit(u, C, X, A), WellFormed(u, C, A), NEW T
  PROVE  /\ Active(T)' = {f \in Active(T) : f.cid \notin A} \cup {f \in C : f.template = T}
         /\ \A f \in C : f \notin created
         /\ Gone' = Gone \cup A
<1>1. created' = created \cup C
      /\ archived' = archived \cup {[cid |-> c, update |-> u] : c \in A}
  BY DEF Commit
<1>2. u \notin Updates
  BY FreshIsNew
<1>3. Gone' = Gone \cup A
  <2>1. Gone' = {f.cid : f \in archived} \cup {f.cid : f \in {[cid |-> c, update |-> u] : c \in A}}
    BY <1>1 DEF Gone
  <2>2. {f.cid : f \in {[cid |-> c, update |-> u] : c \in A}} = A
    <3>1. ASSUME NEW c \in A PROVE c \in {f.cid : f \in {[cid |-> d, update |-> u] : d \in A}}
      <4>1. [cid |-> c, update |-> u] \in {[cid |-> d, update |-> u] : d \in A}
        OBVIOUS
      <4>2. [cid |-> c, update |-> u].cid = c
        OBVIOUS
      <4> QED BY <4>1, <4>2
    <3> QED BY <3>1
  <2> QED BY <2>1, <2>2 DEF Gone
<1>4. ASSUME NEW f \in C PROVE f \notin created /\ f.cid \notin Gone /\ f.cid \notin A
  <2>1. f.update = u /\ f.cid = Cid(f.cid[1], u)
    BY DEF WellFormed
  <2>2. ASSUME NEW g \in created, g.cid = f.cid PROVE FALSE
    <3>1. g.cid = Cid(g.cid[1], g.update)
      BY DEF StructInv
    <3>2. g.update = u
      BY <3>1, <2>1, <2>2 DEF Cid
    <3> QED BY <3>2, <1>2 DEF Updates
  <2>3. f.cid \notin Gone
    BY <2>2 DEF StructInv, Gone
  <2>4. f.cid \notin A
    BY <2>2 DEF WellFormed
  <2> QED BY <2>2, <2>3, <2>4
<1>5. Active(T) = {f \in created : f.template = T /\ f.cid \notin Gone}
  BY DEF Active, CreatedAs, Gone
<1>6. Active(T)' = {f \in created' : f.template = T /\ f.cid \notin Gone'}
  BY DEF Active, CreatedAs, Gone
<1> QED BY <1>1, <1>3, <1>4, <1>5, <1>6

-----------------------------------------------------------------------------
(* The invariant *)

BindingFields == {"template", "cid", "update", "lock", "mintHolding", "buyer", "seller",
                  "trade", "treasury", "payment"}

CoinOK(c) == /\ c.owner \in Parties /\ c.amount \in Nat \ {0}
             /\ c.locked = IF c.cid[1] = "locked" THEN TRUE ELSE FALSE

AllocationOK(a) == /\ a.cid = Cid("allocation", a.update)
                   /\ a.lockedHolding = Cid("locked", a.update)
                   /\ a.for \in Trades

FactInv ==
  /\ \A f \in CreatedAs("StablecoinHolding") : CoinOK(f)
  /\ \A f \in CreatedAs("StablecoinAllocation") : AllocationOK(f)
  /\ \A f \in CreatedAs("BridgeTradeBinding") : DOMAIN f = BindingFields

(* The coin that an open allocation locked is there, for the whole leg.    *)
LockOf(a) == {c \in Coins : c.cid = a.lockedHolding /\ c.amount = Legs[a.for].payment}

LockedInv == \A a \in Active("StablecoinAllocation") : LockOf(a) # {}

GateInv == /\ DOMAIN gateway = {"mintedLocks", "redeemedLocks"}
           /\ gateway.redeemedLocks \subseteq gateway.mintedLocks
           /\ gateway.mintedLocks \subseteq Locks

GInv == StructInv /\ FactInv /\ LockedInv /\ GateInv

(* One transaction, with what it must respect.                             *)
Transaction(kind, subject, u, C, X, A) ==
  /\ u \in Fresh(kind, subject)
  /\ Commit(u, C, X, A) /\ WellFormed(u, C, A)
  /\ \A f \in C : /\ f.template = "StablecoinHolding" => CoinOK(f)
                  /\ f.template = "StablecoinAllocation" => AllocationOK(f)
                  /\ f.template = "BridgeTradeBinding" => DOMAIN f = BindingFields

(* Coins and allocations are left alone.                                   *)
Quiet(C, A) ==
  /\ \A f \in C : f.template \notin {"StablecoinHolding", "StablecoinAllocation"}
  /\ \A f \in created : f.template \in {"StablecoinHolding", "StablecoinAllocation"} => f.cid \notin A

LEMMA FactsAfter ==
  ASSUME GInv, NEW kind, NEW subject, NEW u, NEW C, NEW X, NEW A,
         Transaction(kind, subject, u, C, X, A)
  PROVE  StructInv' /\ FactInv'
<1>1. StructInv'
  BY CommitStruct DEF GInv, Transaction
<1>2. created' = created \cup C
  BY DEF Transaction, Commit
<1>3. \A T : CreatedAs(T)' = CreatedAs(T) \cup {f \in C : f.template = T}
  BY <1>2 DEF CreatedAs
<1>4. FactInv'
  BY <1>3 DEF FactInv, GInv, Transaction, CoinOK, AllocationOK
<1> QED BY <1>1, <1>4

LEMMA CoinsAfter ==
  ASSUME GInv, NEW kind, NEW subject, NEW u, NEW C, NEW X, NEW A,
         Transaction(kind, subject, u, C, X, A)
  PROVE  /\ Coins' = {c \in Coins : c.cid \notin A}
                       \cup {c \in C : c.template = "StablecoinHolding"}
         /\ Active("StablecoinAllocation")' =
              {a \in Active("StablecoinAllocation") : a.cid \notin A}
                \cup {a \in C : a.template = "StablecoinAllocation"}
         /\ \A f \in C : f \notin created
BY ActiveAfter DEF GInv, Transaction, Coins

(* Facts of different templates are different contracts.                   *)
LEMMA Apart ==
  ASSUME GInv, NEW f \in created, NEW g \in created, f.cid = g.cid
  PROVE  f = g
BY DEF GInv, StructInv

LEMMA ActiveFacts ==
  ASSUME NEW T, NEW f \in Active(T)
  PROVE  f \in created /\ f.template = T /\ f.cid \notin Gone
BY DEF Active, CreatedAs, Gone

LEMMA QuietStep ==
  ASSUME GInv, NEW kind, NEW subject, NEW u, NEW C, NEW X, NEW A,
         Transaction(kind, subject, u, C, X, A), Quiet(C, A), UNCHANGED gateway
  PROVE  GInv' /\ Coins' = Coins
<1>1. StructInv' /\ FactInv'
  BY FactsAfter
<1>2. Coins' = Coins
  <2>1. \A c \in Coins : c \in created /\ c.template = "StablecoinHolding"
    BY ActiveFacts DEF Coins
  <2>2. {c \in C : c.template = "StablecoinHolding"} = {}
    BY DEF Quiet
  <2>3. Coins' = {c \in Coins : c.cid \notin A} \cup {c \in C : c.template = "StablecoinHolding"}
    BY CoinsAfter
  <2>4. \A c \in Coins : c.cid \notin A
    BY <2>1 DEF Quiet
  <2> QED BY <2>2, <2>3, <2>4
<1>3. Active("StablecoinAllocation")' = Active("StablecoinAllocation")
  BY CoinsAfter, ActiveFacts DEF Quiet
<1>4. LockedInv'
  BY <1>2, <1>3 DEF LockedInv, LockOf, GInv
<1>5. GateInv'
  BY DEF GateInv, GInv
<1> QED BY <1>1, <1>2, <1>4, <1>5 DEF GInv

-----------------------------------------------------------------------------
(* Totals *)

LEMMA TotalIs ==
  ASSUME NEW S
  PROVE  Total(S) = SumOf([c \in S |-> c.amount], S)
<1> DEFINE f == [c \in S |-> c.amount]
           P(t) == t = [s \in SUBSET S |-> IF s = {} THEN 0
                                           ELSE Pick(s).amount + t[s \ {Pick(s)}]]
<1>1. Total(S) = (CHOOSE t : P(t))[S]
  BY DEF Total, MapThenSumSet, MapThenFoldSet, Pick
<1>2. ASSUME NEW t PROVE P(t) <=> IsTable(t, f, S)
  <2>1. \A s \in SUBSET S : s # {} => f[Pick(s)] = Pick(s).amount
    BY PickIn
  <2>2. [s \in SUBSET S |-> IF s = {} THEN 0 ELSE Pick(s).amount + t[s \ {Pick(s)}]]
         = [s \in SUBSET S |-> IF s = {} THEN 0 ELSE f[Pick(s)] + t[s \ {Pick(s)}]]
    <3> HIDE DEF f
    <3> QED BY <2>1
  <2> QED BY <2>2 DEF IsTable
<1>3. (CHOOSE t : P(t)) = (CHOOSE t : IsTable(t, f, S))
  <2> HIDE DEF P, f, IsTable
  <2> QED BY <1>2
<1> QED BY <1>1, <1>3, SumIs

LEMMA TotalFrom ==
  ASSUME NEW S, IsFiniteSet(S), NEW T \in SUBSET S
  PROVE  Total(T) = SumOf([c \in S |-> c.amount], T)
<1>1. IsFiniteSet(T)
  BY FS_Subset
<1>2. SumOf([c \in T |-> c.amount], T) = SumOf([c \in S |-> c.amount], T)
  <2> DEFINE f == [c \in T |-> c.amount]
             g == [c \in S |-> c.amount]
  <2>1. \A c \in T : f[c] = g[c]
    OBVIOUS
  <2> HIDE DEF f, g
  <2>2. SumOf(f, T) = SumOf(g, T)
    BY <1>1, <2>1, SumSame
  <2> QED BY <2>2 DEF f, g
<1> QED BY <1>2, TotalIs

(* The total of a set is that of a part and of the rest.                   *)
LEMMA TotalSplit ==
  ASSUME NEW S, IsFiniteSet(S), \A c \in S : c.amount \in Nat, NEW T \in SUBSET S
  PROVE  /\ Total(S) \in Nat /\ Total(T) \in Nat /\ Total(S \ T) \in Nat
         /\ Total(S) = Total(T) + Total(S \ T)
<1> DEFINE h == [c \in S |-> c.amount]
           f == [c \in S |-> IF c \in T THEN c.amount ELSE 0]
           g == [c \in S |-> IF c \in T THEN 0 ELSE c.amount]
<1>1. \A c \in S : f[c] \in Nat /\ g[c] \in Nat /\ h[c] \in Nat /\ h[c] = f[c] + g[c]
  OBVIOUS
<1>2. /\ \A c \in S : c \notin T => f[c] = 0
      /\ \A c \in S : c \notin (S \ T) => g[c] = 0
      /\ \A c \in T : f[c] = h[c] /\ h[c] \in Nat
      /\ \A c \in S \ T : g[c] = h[c] /\ h[c] \in Nat
  OBVIOUS
<1>3. /\ Total(S) = SumOf(h, S) /\ Total(T) = SumOf(h, T)
      /\ Total(S \ T) = SumOf(h, S \ T)
  <2>1. S \in SUBSET S /\ S \ T \in SUBSET S
    OBVIOUS
  <2> QED BY <2>1, TotalFrom
<1> HIDE DEF h, f, g
<1>4. IsFiniteSet(T) /\ IsFiniteSet(S \ T)
  BY FS_Subset, FS_Difference
<1>5. SumOf(h, S) = SumOf(f, S) + SumOf(g, S)
  BY <1>1, SumPlus
<1>6. SumOf(f, S) = SumOf(f, T)
  BY <1>1, <1>2, SumDrop
<1>7. SumOf(g, S) = SumOf(g, S \ T)
  <2>1. S \ T \in SUBSET S
    OBVIOUS
  <2> QED BY <1>1, <1>2, <2>1, SumDrop
<1>8. SumOf(f, T) = SumOf(h, T)
  BY <1>2, <1>4, SumSame
<1>9. SumOf(g, S \ T) = SumOf(h, S \ T)
  BY <1>2, <1>4, SumSame
<1>10. SumOf(h, S) \in Nat /\ SumOf(h, T) \in Nat /\ SumOf(h, S \ T) \in Nat
  BY <1>1, <1>2, <1>4, SumNat
<1> QED BY <1>3, <1>5, <1>6, <1>7, <1>8, <1>9, <1>10

LEMMA TotalSmall ==
  /\ Total({}) = 0
  /\ \A c : c.amount \in Nat => Total({c}) = c.amount
  /\ \A c, d : c # d /\ c.amount \in Nat /\ d.amount \in Nat => Total({c, d}) = c.amount + d.amount
<1>1. Total({}) = 0
  BY TotalIs, SumEmpty
<1>2. ASSUME NEW c, c.amount \in Nat PROVE Total({c}) = c.amount
  <2> DEFINE f == [x \in {c} |-> x.amount]
  <2>1. f[c] = c.amount
    OBVIOUS
  <2>2. Total({c}) = SumOf(f, {c})
    BY TotalIs
  <2>3. f[c] \in Nat
    BY <1>2, <2>1
  <2> HIDE DEF f
  <2>4. IsFiniteSet({c}) /\ c \in {c} /\ {c} \ {c} = {}
    BY FS_Singleton
  <2>5. SumOf(f, {c}) = f[c] + SumOf(f, {c} \ {c})
    <3>1. \A x \in {c} : f[x] \in Nat
      BY <2>3
    <3> QED BY <3>1, <2>4, SumRemove
  <2>6. SumOf(f, {c} \ {c}) = 0
    BY <2>4, SumEmpty
  <2> QED BY <2>1, <2>2, <2>5, <2>6, <1>2
<1>3. ASSUME NEW c, NEW d, c # d, c.amount \in Nat, d.amount \in Nat
      PROVE  Total({c, d}) = c.amount + d.amount
  <2>1. IsFiniteSet({c, d})
    <3>1. IsFiniteSet({c} \cup {d}) /\ {c} \cup {d} = {c, d}
      BY FS_Singleton, FS_AddElement
    <3> QED BY <3>1
  <2>2. {c} \in SUBSET {c, d} /\ {c, d} \ {c} = {d}
    BY <1>3
  <2>3. Total({c, d}) = Total({c}) + Total({c, d} \ {c})
    BY <2>1, <2>2, <1>3, TotalSplit
  <2> QED BY <2>2, <2>3, <1>2, <1>3
<1> QED BY <1>1, <1>2, <1>3

LEMMA CoinsFinite ==
  ASSUME GInv
  PROVE  /\ IsFiniteSet(Coins) /\ \A c \in Coins : c.amount \in Nat \ {0} /\ CoinOK(c)
         /\ \A c \in Coins : c \in created /\ c.template = "StablecoinHolding" /\ c.cid \notin Gone
<1>1. \A c \in Coins : c \in created /\ c.template = "StablecoinHolding" /\ c.cid \notin Gone
  BY ActiveFacts DEF Coins
<1>2. Coins \subseteq created
  BY <1>1
<1>3. IsFiniteSet(Coins)
  BY <1>2, FS_Subset DEF GInv, StructInv
<1>4. \A c \in Coins : CoinOK(c)
  BY <1>1 DEF GInv, FactInv, CreatedAs
<1> QED BY <1>1, <1>3, <1>4 DEF CoinOK

Spent(A) == {c \in Coins : c.cid \in A}

NewCoins(C) == {c \in C : c.template = "StablecoinHolding"}

(* The supply loses what is archived and gains what is created.            *)
LEMMA TotalAfter ==
  ASSUME GInv, NEW kind, NEW subject, NEW u, NEW C, NEW X, NEW A,
         Transaction(kind, subject, u, C, X, A)
  PROVE  /\ Total(Coins)' = Total(Coins) - Total(Spent(A)) + Total(NewCoins(C))
         /\ Total(Coins) \in Nat /\ Total(Spent(A)) \in Nat /\ Total(NewCoins(C)) \in Nat
<1>0. PICK O, N : /\ O = Spent(A) /\ O = {c \in Coins : c.cid \in A}
                  /\ N = NewCoins(C) /\ N = {c \in C : c.template = "StablecoinHolding"}
  BY DEF Spent, NewCoins
<1>1. IsFiniteSet(Coins) /\ \A c \in Coins : c.amount \in Nat /\ c \in created
  BY CoinsFinite
<1>2. IsFiniteSet(N) /\ \A c \in N : c.amount \in Nat
  BY <1>0, FS_Subset DEF Transaction, WellFormed, CoinOK
<1>3. PICK R : R = Coins \ O
  OBVIOUS
<1>4. Coins' = R \cup N /\ \A f \in C : f \notin created
  BY <1>0, <1>3, CoinsAfter
<1>5. O \in SUBSET Coins
  BY <1>0
<1>6. /\ Total(Coins) \in Nat /\ Total(O) \in Nat /\ Total(R) \in Nat
      /\ Total(Coins) = Total(O) + Total(R)
  BY <1>1, <1>3, <1>5, TotalSplit
<1>7. PICK S : S = R \cup N
  OBVIOUS
<1>8. N \in SUBSET S /\ S \ N = R
  BY <1>0, <1>1, <1>3, <1>4, <1>7
<1>9. IsFiniteSet(S) /\ \A c \in S : c.amount \in Nat
  BY <1>1, <1>2, <1>3, <1>7, FS_Union, FS_Difference
<1>10. Total(N) \in Nat /\ Total(S) = Total(N) + Total(R)
  BY <1>8, <1>9, TotalSplit
<1>11. Total(Coins)' = Total(Coins')
  OBVIOUS
<1> QED BY <1>0, <1>4, <1>6, <1>7, <1>10, <1>11

-----------------------------------------------------------------------------
(* Two of three *)

(* Of two configured attesters that sign one is truthful.                  *)
LEMMA OneIsTruthful ==
  ASSUME NEW a \in Attestations, NEW b \in Attestations, NEW d, Quorum(a, b, d)
  PROVE  Truthful(a) \/ Truthful(b)
<1> SUFFICES ASSUME ~Truthful(a), ~Truthful(b) PROVE FALSE
  OBVIOUS
<1>1. PICK F : F = {x.attester : x \in {y \in Attestations : ~Truthful(y)}} \cap Attesters
  OBVIOUS
<1>2. IsFiniteSet(F) /\ Cardinality(F) <= 1
  BY <1>1, GatewayAssumption, FS_Subset
<1>3. a.attester \in F /\ b.attester \in F /\ a.attester # b.attester
  BY <1>1 DEF Quorum
<1>4. F = {} \/ \E x : F = {x}
  <2>1. Cardinality(F) \in Nat
    BY <1>2, FS_CardinalityType
  <2>2. Cardinality(F) = 0 \/ Cardinality(F) = 1
    BY <1>2, <2>1
  <2> QED BY <1>2, <2>2, FS_Singleton, FS_EmptySet
<1> QED BY <1>3, <1>4

LEMMA TruthfulTerms ==
  ASSUME NEW a, Truthful(a)
  PROVE  /\ a.lock \in Locks /\ a.amount = Terms[a.lock].amount
         /\ a.direction = "mint" => a.beneficiary = "buyer"
         /\ a.direction # "mint" => a.payout = Terms[a.lock].payout
<1>1. PICK h : h = Honest(a.attester, a.lock, a.direction)
  OBVIOUS
<1>2. /\ h.amount = Terms[a.lock].amount
      /\ h.beneficiary = IF a.direction = "mint" THEN "buyer" ELSE "seller"
      /\ h.payout = IF a.direction = "mint" THEN "none" ELSE Terms[a.lock].payout
  BY <1>1 DEF Honest
<1>3. a = h /\ a.lock \in Locks
  BY <1>1 DEF Truthful
<1> QED BY <1>2, <1>3

(* What is claimed by two is about a lock that exists and for its amount.  *)
LEMMA MintClaimsTrue ==
  ASSUME NEW a \in MintClaims
  PROVE  a.lock \in Locks /\ a.amount = Terms[a.lock].amount /\ a.beneficiary = "buyer"
<1>1. PICK b \in Attestations : /\ Quorum(a, b, "mint")
                                /\ Agree(a, b, {"lock", "amount", "beneficiary", "digest"})
  BY DEF MintClaims
<1>2. a \in Attestations /\ a.direction = "mint" /\ b.direction = "mint"
  BY <1>1 DEF MintClaims, Quorum
<1>3. a.lock = b.lock /\ a.amount = b.amount /\ a.beneficiary = b.beneficiary
  BY <1>1 DEF Agree
<1>4. Truthful(a) \/ Truthful(b)
  BY <1>1, <1>2, OneIsTruthful
<1> QED BY <1>2, <1>3, <1>4, TruthfulTerms

LEMMA RedeemClaimsTrue ==
  ASSUME NEW a \in RedeemClaims
  PROVE  /\ a.lock \in Locks /\ a.amount = Terms[a.lock].amount
         /\ a.payout = Terms[a.lock].payout
<1>1. PICK b \in Attestations :
        /\ Quorum(a, b, "redeem")
        /\ Agree(a, b, {"lock", "amount", "beneficiary", "digest", "payout"})
  BY DEF RedeemClaims
<1>2. a \in Attestations /\ a.direction = "redeem" /\ b.direction = "redeem"
  BY <1>1 DEF RedeemClaims, Quorum
<1>3. a.lock = b.lock /\ a.amount = b.amount /\ a.payout = b.payout
  BY <1>1 DEF Agree
<1>4. Truthful(a) \/ Truthful(b)
  BY <1>1, <1>2, OneIsTruthful
<1> QED BY <1>2, <1>3, <1>4, TruthfulTerms

-----------------------------------------------------------------------------
(* The transactions one by one *)

MintFacts(u, first) ==
  {StablecoinHolding("mint", u, first.beneficiary, first.amount, FALSE),
   [template |-> "MintedLock", cid |-> Cid("minted", u), update |-> u,
    lock |-> first.lock, holding |-> Cid("mint", u), amount |-> first.amount,
    beneficiary |-> first.beneficiary],
   [template |-> "BridgeMintRef", cid |-> Cid("ref", u), update |-> u,
    lock |-> first.lock, mintHolding |-> Cid("mint", u), buyer |-> first.beneficiary]}

LEMMA MintIs ==
  ASSUME GInv, NEW first \in MintClaims, Gateway_Mint(first)
  PROVE  \E u : /\ Transaction("mint", first.lock, u, MintFacts(u, first),
                               {Exercise("Gateway_Mint", Cid("gateway", u), u,
                                         [lock |-> first.lock])}, {})
                /\ {c \in MintFacts(u, first) : c.template = "StablecoinHolding"} =
                     {StablecoinHolding("mint", u, first.beneficiary, first.amount, FALSE)}
                /\ {c \in MintFacts(u, first) : c.template = "StablecoinAllocation"} = {}
<1>1. PICK u \in Fresh("mint", first.lock) :
        Commit(u, MintFacts(u, first),
               {Exercise("Gateway_Mint", Cid("gateway", u), u, [lock |-> first.lock])}, {})
  BY DEF Gateway_Mint, MintFacts, StablecoinHolding
<1>2. PICK x, y, z :
        /\ x = StablecoinHolding("mint", u, first.beneficiary, first.amount, FALSE)
        /\ y = [template |-> "MintedLock", cid |-> Cid("minted", u), update |-> u,
                lock |-> first.lock, holding |-> Cid("mint", u), amount |-> first.amount,
                beneficiary |-> first.beneficiary]
        /\ z = [template |-> "BridgeMintRef", cid |-> Cid("ref", u), update |-> u,
                lock |-> first.lock, mintHolding |-> Cid("mint", u), buyer |-> first.beneficiary]
  OBVIOUS
<1>3. MintFacts(u, first) = {x, y, z}
  BY <1>2 DEF MintFacts
<1>4. /\ x.template = "StablecoinHolding" /\ y.template = "MintedLock" /\ z.template = "BridgeMintRef"
      /\ x.update = u /\ y.update = u /\ z.update = u
      /\ x.cid = Cid("mint", u) /\ y.cid = Cid("minted", u) /\ z.cid = Cid("ref", u)
      /\ x.owner = first.beneficiary /\ x.amount = first.amount /\ x.locked = FALSE
  BY <1>2 DEF StablecoinHolding
<1>5. first.beneficiary \in Parties /\ first.amount \in Nat \ {0}
  BY MintClaimsTrue, GatewayAssumption DEF Parties
<1>6. CoinOK(x)
  <2>1. x.cid[1] = "mint"
    BY <1>4 DEF Cid
  <2>2. "mint" # "locked"
    OBVIOUS
  <2> QED BY <2>1, <2>2, <1>4, <1>5 DEF CoinOK
<1>7. WellFormed(u, {x, y, z}, {})
  <2>1. IsFiniteSet({x, y, z})
    <3>1. IsFiniteSet(({x} \cup {y}) \cup {z}) /\ ({x} \cup {y}) \cup {z} = {x, y, z}
      BY FS_Singleton, FS_AddElement
    <3> QED BY <3>1
  <2>2. \A f \in {x, y, z} : f.update = u /\ f.cid = Cid(f.cid[1], u)
    BY <1>4 DEF Cid
  <2>3. \A f, g \in {x, y, z} : f.cid = g.cid => f = g
    BY <1>4 DEF Cid
  <2> QED BY <2>1, <2>2, <2>3, FS_EmptySet DEF WellFormed
<1>8. Transaction("mint", first.lock, u, {x, y, z},
                  {Exercise("Gateway_Mint", Cid("gateway", u), u, [lock |-> first.lock])}, {})
  BY <1>1, <1>3, <1>4, <1>6, <1>7 DEF Transaction
<1>9. /\ {c \in {x, y, z} : c.template = "StablecoinHolding"} = {x}
      /\ {c \in {x, y, z} : c.template = "StablecoinAllocation"} = {}
  BY <1>4
<1> QED BY <1>2, <1>3, <1>8, <1>9

LEMMA MintInv ==
  ASSUME GInv, NEW first \in MintClaims, Gateway_Mint(first)
  PROVE  /\ GInv'
         /\ Total(Coins)' = Total(Coins) + Terms[first.lock].amount
<1>1. PICK u, C, X, A, x :
        /\ Transaction("mint", first.lock, u, C, X, A) /\ A = {}
        /\ {c \in C : c.template = "StablecoinHolding"} = {x} /\ x.amount = first.amount
        /\ {c \in C : c.template = "StablecoinAllocation"} = {}
  <2>1. PICK u : /\ Transaction("mint", first.lock, u, MintFacts(u, first),
                               {Exercise("Gateway_Mint", Cid("gateway", u), u,
                                         [lock |-> first.lock])}, {})
                 /\ {c \in MintFacts(u, first) : c.template = "StablecoinHolding"} =
                      {StablecoinHolding("mint", u, first.beneficiary, first.amount, FALSE)}
                 /\ {c \in MintFacts(u, first) : c.template = "StablecoinAllocation"} = {}
    BY MintIs
  <2>2. StablecoinHolding("mint", u, first.beneficiary, first.amount, FALSE).amount = first.amount
    BY DEF StablecoinHolding
  <2> HIDE DEF MintFacts
  <2> QED BY <2>1, <2>2
<1>2. first.lock \in Locks /\ first.amount = Terms[first.lock].amount /\ first.amount \in Nat
  BY MintClaimsTrue, GatewayAssumption
<1>3. StructInv' /\ FactInv'
  BY <1>1, FactsAfter
<1>4. /\ Coins \subseteq Coins'
      /\ Active("StablecoinAllocation")' = Active("StablecoinAllocation")
  <2>1. /\ Coins' = {c \in Coins : c.cid \notin A}
                     \cup {c \in C : c.template = "StablecoinHolding"}
        /\ Active("StablecoinAllocation")' =
             {a \in Active("StablecoinAllocation") : a.cid \notin A}
               \cup {a \in C : a.template = "StablecoinAllocation"}
    BY <1>1, CoinsAfter
  <2> QED BY <1>1, <2>1
<1>5. LockedInv'
  BY <1>4 DEF LockedInv, LockOf, GInv
<1>6. GateInv'
  <2>1. gateway' = [gateway EXCEPT !.mintedLocks = @ \cup {first.lock}]
    BY DEF Gateway_Mint
  <2> QED BY <2>1, <1>2 DEF GateInv, GInv
<1>7. Total(Coins)' = Total(Coins) - Total({}) + Total({x}) /\ Total(Coins) \in Nat
  <2>1. Spent(A) = {} /\ NewCoins(C) = {x}
    BY <1>1 DEF Spent, NewCoins
  <2>2. Total(Coins)' = Total(Coins) - Total(Spent(A)) + Total(NewCoins(C)) /\ Total(Coins) \in Nat
    BY <1>1, TotalAfter
  <2> QED BY <2>1, <2>2
<1>8. Total({}) = 0 /\ Total({x}) = first.amount
  BY <1>1, <1>2, TotalSmall
<1>9. Total(Coins)' = Total(Coins) + Terms[first.lock].amount
  BY <1>2, <1>7, <1>8
<1> QED BY <1>3, <1>5, <1>6, <1>9 DEF GInv

LEMMA SingleWellFormed ==
  ASSUME NEW u, NEW f, f.update = u, NEW role, f.cid = Cid(role, u),
         NEW A, IsFiniteSet(A), \A c \in A : c \notin Gone /\ \E g \in created : g.cid = c
  PROVE  WellFormed(u, {f}, A)
<1>1. f.cid = Cid(f.cid[1], u)
  BY DEF Cid
<1> QED BY <1>1, FS_Singleton DEF WellFormed

BindFact(u, ref, t) ==
  [template |-> "BridgeTradeBinding", cid |-> Cid("binding", u), update |-> u,
   lock |-> ref.lock, mintHolding |-> ref.mintHolding, buyer |-> ref.buyer,
   seller |-> "seller", trade |-> TradeCid(t),
   treasury |-> FALSE, payment |-> {}]

LEMMA BindIs ==
  ASSUME GInv, NEW ref \in Active("BridgeMintRef"), NEW t, BridgeMintRef_Bind(ref, t)
  PROVE  \E u : /\ Transaction("bind", ref.lock, u, {BindFact(u, ref, t)},
                               {Exercise("BridgeMintRef_Bind", ref.cid, u, [lock |-> ref.lock])},
                               {ref.cid})
                /\ Quiet({BindFact(u, ref, t)}, {ref.cid})
<1>1. PICK u \in Fresh("bind", ref.lock) :
        Commit(u, {BindFact(u, ref, t)},
               {Exercise("BridgeMintRef_Bind", ref.cid, u, [lock |-> ref.lock])}, {ref.cid})
  BY DEF BridgeMintRef_Bind, BindFact
<1>2. PICK f : f = BindFact(u, ref, t)
  OBVIOUS
<1>3. /\ f.template = "BridgeTradeBinding" /\ f.update = u /\ f.cid = Cid("binding", u)
      /\ DOMAIN f = BindingFields
  BY <1>2 DEF BindFact, BindingFields
<1>4. ref \in created /\ ref.template = "BridgeMintRef" /\ ref.cid \notin Gone
  BY ActiveFacts
<1>5. WellFormed(u, {f}, {ref.cid})
  BY <1>3, <1>4, SingleWellFormed, FS_Singleton
<1>6. Quiet({f}, {ref.cid})
  BY <1>3, <1>4, Apart DEF Quiet
<1>7. Transaction("bind", ref.lock, u, {f},
                  {Exercise("BridgeMintRef_Bind", ref.cid, u, [lock |-> ref.lock])}, {ref.cid})
  BY <1>1, <1>2, <1>3, <1>5 DEF Transaction
<1> QED BY <1>2, <1>6, <1>7

LEMMA BindInv ==
  ASSUME GInv, NEW ref \in Active("BridgeMintRef"), NEW t, BridgeMintRef_Bind(ref, t)
  PROVE  GInv' /\ Coins' = Coins
<1>1. UNCHANGED gateway
  BY DEF BridgeMintRef_Bind
<1> QED BY <1>1, BindIs, QuietStep

(* A copy of a binding under the next update.                              *)
Rebound(u, b, treasury, payment) ==
  [[b EXCEPT !.treasury = treasury, !.payment = payment]
     EXCEPT !.cid = Cid("binding", u), !.update = u]

LEMMA ReboundFields ==
  ASSUME NEW b, DOMAIN b = BindingFields, NEW u, NEW treasury, NEW payment, NEW f,
         f = Rebound(u, b, treasury, payment)
  PROVE  /\ DOMAIN f = BindingFields
         /\ f.cid = Cid("binding", u) /\ f.update = u /\ f.treasury = treasury
         /\ f.payment = payment /\ f.template = b.template /\ f.lock = b.lock
         /\ f.mintHolding = b.mintHolding /\ f.buyer = b.buyer /\ f.seller = b.seller
         /\ f.trade = b.trade
BY DEF Rebound, BindingFields

LEMMA BindingFacts ==
  ASSUME GInv, NEW b \in Active("BridgeTradeBinding")
  PROVE  /\ DOMAIN b = BindingFields /\ b \in created /\ b.template = "BridgeTradeBinding"
         /\ b.cid \notin Gone
<1>1. b \in created /\ b.template = "BridgeTradeBinding" /\ b.cid \notin Gone
  BY ActiveFacts
<1> QED BY <1>1 DEF GInv, FactInv, CreatedAs

LEMMA RebindIs ==
  ASSUME GInv, NEW b \in Active("BridgeTradeBinding"), NEW kind, NEW treasury, NEW payment, NEW u,
         u \in Fresh(kind, b.lock), Commit(u, {Rebound(u, b, treasury, payment)}, {}, {b.cid})
  PROVE  /\ Transaction(kind, b.lock, u, {Rebound(u, b, treasury, payment)}, {}, {b.cid})
         /\ Quiet({Rebound(u, b, treasury, payment)}, {b.cid})
<1>1. PICK f : f = Rebound(u, b, treasury, payment)
  OBVIOUS
<1>2. b \in created /\ b.template = "BridgeTradeBinding" /\ b.cid \notin Gone
  BY BindingFacts
<1>3. /\ f.template = "BridgeTradeBinding" /\ f.update = u /\ f.cid = Cid("binding", u)
      /\ DOMAIN f = BindingFields
  BY <1>1, <1>2, BindingFacts, ReboundFields
<1>4. WellFormed(u, {f}, {b.cid})
  BY <1>2, <1>3, SingleWellFormed, FS_Singleton
<1>5. Quiet({f}, {b.cid})
  BY <1>2, <1>3, Apart DEF Quiet
<1>6. Transaction(kind, b.lock, u, {f}, {}, {b.cid})
  BY <1>1, <1>3, <1>4 DEF Transaction
<1> QED BY <1>1, <1>5, <1>6

LEMMA RecordTreasuryIs ==
  ASSUME GInv, NEW b \in Active("BridgeTradeBinding"), BridgeTradeBinding_RecordTreasury(b)
  PROVE  \E u : /\ Transaction("record-treasury", b.lock, u, {Rebound(u, b, TRUE, b.payment)},
                               {}, {b.cid})
                /\ Quiet({Rebound(u, b, TRUE, b.payment)}, {b.cid})
<1>1. PICK u \in Fresh("record-treasury", b.lock) :
        Commit(u, {[[b EXCEPT !.treasury = TRUE] EXCEPT !.cid = Cid("binding", u), !.update = u]},
               {}, {b.cid})
  BY DEF BridgeTradeBinding_RecordTreasury, Rebind
<1>2. [[b EXCEPT !.treasury = TRUE] EXCEPT !.cid = Cid("binding", u), !.update = u]
        = Rebound(u, b, TRUE, b.payment)
  BY BindingFacts DEF Rebound, BindingFields
<1> QED BY <1>1, <1>2, RebindIs

LEMMA RecordPaymentIs ==
  ASSUME GInv, NEW b \in Active("BridgeTradeBinding"), NEW coin,
         BridgeTradeBinding_RecordPayment(b, coin)
  PROVE  \E u : /\ Transaction("record-payment", b.lock, u,
                               {Rebound(u, b, b.treasury, {coin.cid})}, {}, {b.cid})
                /\ Quiet({Rebound(u, b, b.treasury, {coin.cid})}, {b.cid})
<1>1. PICK u \in Fresh("record-payment", b.lock) :
        Commit(u, {[[b EXCEPT !.payment = {coin.cid}]
                      EXCEPT !.cid = Cid("binding", u), !.update = u]}, {}, {b.cid})
  BY DEF BridgeTradeBinding_RecordPayment, Rebind
<1>2. [[b EXCEPT !.payment = {coin.cid}] EXCEPT !.cid = Cid("binding", u), !.update = u]
        = Rebound(u, b, b.treasury, {coin.cid})
  BY BindingFacts DEF Rebound, BindingFields
<1> QED BY <1>1, <1>2, RebindIs

LEMMA RebindInv ==
  ASSUME GInv, NEW b \in Active("BridgeTradeBinding"),
         \/ BridgeTradeBinding_RecordTreasury(b)
         \/ \E coin \in Coins : BridgeTradeBinding_RecordPayment(b, coin)
  PROVE  GInv' /\ Coins' = Coins
<1>1. UNCHANGED gateway
  BY DEF BridgeTradeBinding_RecordTreasury, BridgeTradeBinding_RecordPayment, Rebind
<1> QED BY <1>1, RecordTreasuryIs, RecordPaymentIs, QuietStep

RequestFact(u, coin, l, k) ==
  [template |-> "RedemptionRequest", cid |-> Cid("request", u), update |-> u,
   holder |-> coin.owner, lock |-> l, holding |-> coin.cid, amount |-> coin.amount,
   digest |-> Terms[k].digest, payout |-> Terms[k].payout]

LEMMA RequestIs ==
  ASSUME GInv, NEW coin, NEW l, NEW k, RedemptionRequest(coin, l, k)
  PROVE  \E u : /\ Transaction("request", l, u, {RequestFact(u, coin, l, k)}, {}, {})
                /\ Quiet({RequestFact(u, coin, l, k)}, {})
<1>1. PICK u \in Fresh("request", l) : Commit(u, {RequestFact(u, coin, l, k)}, {}, {})
  BY DEF RedemptionRequest, RequestFact
<1>2. PICK f : f = RequestFact(u, coin, l, k)
  OBVIOUS
<1>3. f.template = "RedemptionRequest" /\ f.update = u /\ f.cid = Cid("request", u)
  BY <1>2 DEF RequestFact
<1>4. WellFormed(u, {f}, {})
  BY <1>3, SingleWellFormed, FS_EmptySet
<1>5. Quiet({f}, {}) /\ Transaction("request", l, u, {f}, {}, {})
  BY <1>1, <1>2, <1>3, <1>4 DEF Transaction, Quiet
<1> QED BY <1>2, <1>5

LEMMA RequestInv ==
  ASSUME GInv, NEW coin, NEW l, NEW k, RedemptionRequest(coin, l, k)
  PROVE  GInv' /\ Coins' = Coins
<1>1. UNCHANGED gateway
  BY DEF RedemptionRequest
<1> QED BY <1>1, RequestIs, QuietStep

LegOf(u, t, inputs) == [inputs |-> {c.cid : c \in inputs}, sender |-> "buyer",
                        receiver |-> "seller", amount |-> Legs[t].payment,
                        allocation |-> Cid("allocation", u)]

Allocation(u, t, inputs) ==
  [Exercise("AllocationFactory_Allocate", Cid("rules", u), u, LegOf(u, t, inputs))
     EXCEPT !.consuming = FALSE]

(* The facts of an allocation: change if any, the locked coin, the         *)
(* allocation.                                                             *)
Allocates(u, t, inputs, C, x, y, new) ==
  /\ Transaction("allocate", t, u, C, {Allocation(u, t, inputs)},
                 {c.cid : c \in inputs})
  /\ C = new \cup {x, y} /\ \A f \in new : f.template = "StablecoinHolding"
  /\ new = Change(u, Total(inputs) - Legs[t].payment)
  /\ x = StablecoinHolding("locked", u, "buyer", Legs[t].payment, TRUE)
  /\ y = [template |-> "StablecoinAllocation", cid |-> Cid("allocation", u),
          update |-> u, for |-> t, lockedHolding |-> Cid("locked", u)]
  /\ \/ new = {} /\ Total(inputs) = Legs[t].payment
     \/ \E z : /\ new = {z} /\ z # x
               /\ z.amount = Total(inputs) - Legs[t].payment /\ z.amount \in Nat

LEMMA AllocateIs ==
  ASSUME GInv, NEW t \in Trades, NEW inputs \in SUBSET Coins, Allocate(t, inputs)
  PROVE  \E u, C, x, y, new : Allocates(u, t, inputs, C, x, y, new)
<1>1. PICK u \in Fresh("allocate", t) :
        Commit(u, Change(u, Total(inputs) - Legs[t].payment) \cup
                    {StablecoinHolding("locked", u, "buyer", Legs[t].payment, TRUE),
                     [template |-> "StablecoinAllocation", cid |-> Cid("allocation", u),
                      update |-> u, for |-> t, lockedHolding |-> Cid("locked", u)]},
               {Allocation(u, t, inputs)}, {c.cid : c \in inputs})
  BY DEF Allocate, Allocation, LegOf, StablecoinHolding
<1>2. PICK x, y, new :
        /\ x = StablecoinHolding("locked", u, "buyer", Legs[t].payment, TRUE)
        /\ y = [template |-> "StablecoinAllocation", cid |-> Cid("allocation", u),
                update |-> u, for |-> t, lockedHolding |-> Cid("locked", u)]
        /\ new = Change(u, Total(inputs) - Legs[t].payment)
  OBVIOUS
<1>3. /\ x.template = "StablecoinHolding" /\ x.update = u /\ x.cid = Cid("locked", u)
      /\ x.owner = "buyer" /\ x.amount = Legs[t].payment /\ x.locked = TRUE
      /\ y.template = "StablecoinAllocation" /\ y.update = u /\ y.cid = Cid("allocation", u)
      /\ y.for = t /\ y.lockedHolding = Cid("locked", u)
  BY <1>2 DEF StablecoinHolding
<1>4. Legs[t].payment \in Nat \ {0}
  BY GatewayAssumption
<1>5. CoinOK(x) /\ AllocationOK(y)
  <2>1. x.cid[1] = "locked"
    BY <1>3 DEF Cid
  <2> QED BY <1>3, <1>4, <2>1 DEF CoinOK, AllocationOK, Parties
<1>6. Total(inputs) \in Nat /\ Total(inputs) >= Legs[t].payment
  <2>1. Total(inputs) \in Nat
    BY CoinsFinite, TotalSplit
  <2> QED BY <2>1 DEF Allocate
<1>7. \/ new = {} /\ Total(inputs) = Legs[t].payment
      \/ \E z : /\ new = {z} /\ z.template = "StablecoinHolding" /\ z.update = u
                /\ z.cid = Cid("change", u) /\ z.owner = "buyer" /\ z.locked = FALSE
                /\ z.amount = Total(inputs) - Legs[t].payment /\ z.amount \in Nat \ {0}
  <2>1. PICK z : z = StablecoinHolding("change", u, "buyer", Total(inputs) - Legs[t].payment, FALSE)
    OBVIOUS
  <2>2. /\ z.template = "StablecoinHolding" /\ z.update = u
        /\ z.cid = Cid("change", u) /\ z.owner = "buyer" /\ z.locked = FALSE
        /\ z.amount = Total(inputs) - Legs[t].payment
    BY <2>1 DEF StablecoinHolding
  <2>3. CASE Total(inputs) - Legs[t].payment > 0
    <3>1. new = {z}
      BY <2>1, <2>3, <1>2 DEF Change
    <3>2. z.amount \in Nat \ {0}
      BY <2>2, <2>3, <1>4, <1>6
    <3> QED BY <2>2, <3>1, <3>2
  <2>4. CASE ~(Total(inputs) - Legs[t].payment > 0)
    <3>1. new = {}
      BY <2>4, <1>2 DEF Change
    <3> QED BY <2>4, <3>1, <1>4, <1>6
  <2> QED BY <2>3, <2>4
<1>8. PICK C : C = new \cup {x, y}
  OBVIOUS
<1>9. /\ \A f \in new : /\ f.template = "StablecoinHolding" /\ f.update = u
                        /\ f.cid = Cid("change", u) /\ CoinOK(f)
      /\ \A f, g \in new : f = g
      /\ IsFiniteSet(new)
  <2>1. CASE new = {}
    BY <2>1, FS_EmptySet
  <2>2. CASE new # {}
    <3>1. PICK z : /\ new = {z} /\ z.template = "StablecoinHolding" /\ z.update = u
                   /\ z.cid = Cid("change", u) /\ z.owner = "buyer" /\ z.locked = FALSE
                   /\ z.amount \in Nat \ {0}
      BY <2>2, <1>7
    <3>2. z.cid[1] = "change" /\ "change" # "locked"
      BY <3>1 DEF Cid
    <3>3. CoinOK(z)
      BY <3>1, <3>2 DEF CoinOK, Parties
    <3> QED BY <3>1, <3>3, FS_Singleton
  <2> QED BY <2>1, <2>2
<1>10. WellFormed(u, C, {c.cid : c \in inputs})
  <2>1. IsFiniteSet(C)
    <3>1. IsFiniteSet((new \cup {x}) \cup {y}) /\ (new \cup {x}) \cup {y} = C
      BY <1>8, <1>9, FS_AddElement
    <3> QED BY <3>1
  <2>2. \A f \in C : f.update = u /\ f.cid = Cid(f.cid[1], u)
    BY <1>3, <1>8, <1>9 DEF Cid
  <2>3. \A f, g \in C : f.cid = g.cid => f = g
    BY <1>3, <1>8, <1>9 DEF Cid
  <2>4. IsFiniteSet({c.cid : c \in inputs})
    <3> DEFINE id == [c \in inputs |-> c.cid]
    <3>1. IsFiniteSet(inputs)
      BY CoinsFinite, FS_Subset
    <3>2. DOMAIN id = inputs /\ id = [c \in inputs |-> id[c]]
      OBVIOUS
    <3>3. IsFiniteSet({id[c] : c \in inputs})
      <4> HIDE DEF id
      <4> QED BY <3>1, <3>2, Image
    <3> QED BY <3>3
  <2>5. \A c \in {d.cid : d \in inputs} : c \notin Gone /\ \E g \in created : g.cid = c
    BY CoinsFinite
  <2> QED BY <1>8, <2>1, <2>2, <2>3, <2>4, <2>5 DEF WellFormed
<1>11. Transaction("allocate", t, u, C, {Allocation(u, t, inputs)}, {c.cid : c \in inputs})
  BY <1>1, <1>2, <1>3, <1>5, <1>8, <1>9, <1>10 DEF Transaction
<1>12. \A f \in new : f # x
  BY <1>3, <1>9 DEF Cid
<1>13. \/ new = {} /\ Total(inputs) = Legs[t].payment
       \/ \E z : /\ new = {z} /\ z # x
                 /\ z.amount = Total(inputs) - Legs[t].payment /\ z.amount \in Nat
  BY <1>7, <1>12
<1>14. Allocates(u, t, inputs, C, x, y, new)
  BY <1>2, <1>8, <1>9, <1>11, <1>13 DEF Allocates
<1> QED BY <1>14

(* Who archives unlocked coins only leaves the open allocations intact.    *)
LEMMA AllocationsSurvive ==
  ASSUME GInv, NEW coins \in SUBSET Coins, \A c \in coins : ~c.locked,
         NEW a \in Active("StablecoinAllocation")
  PROVE  /\ a.cid \notin {c.cid : c \in coins}
         /\ \A c \in LockOf(a) : c.cid \notin {d.cid : d \in coins}
<1>1. a \in created /\ a.template = "StablecoinAllocation" /\ AllocationOK(a)
  BY ActiveFacts DEF GInv, FactInv, CreatedAs
<1>2. \A c \in Coins : c \in created /\ c.template = "StablecoinHolding" /\ CoinOK(c)
  BY CoinsFinite
<1>3. a.cid \notin {c.cid : c \in coins}
  <2>1. ASSUME NEW c \in coins, c.cid = a.cid PROVE FALSE
    BY <1>1, <1>2, <2>1, Apart
  <2> QED BY <2>1
<1>4. ASSUME NEW c \in LockOf(a), NEW d \in coins, c.cid = d.cid PROVE FALSE
  <2>1. c \in Coins /\ c.cid = a.lockedHolding
    BY DEF LockOf
  <2>2. c = d
    BY <1>2, <1>4, <2>1, Apart
  <2>3. c.cid[1] = "locked"
    BY <1>1, <2>1 DEF AllocationOK, Cid
  <2>4. c.locked = TRUE
    BY <1>2, <2>1, <2>3 DEF CoinOK
  <2> QED BY <2>2, <2>4
<1> QED BY <1>3, <1>4

LEMMA AllocateInv ==
  ASSUME GInv, NEW t \in Trades, NEW inputs \in SUBSET Coins, Allocate(t, inputs)
  PROVE  GInv' /\ Total(Coins)' = Total(Coins)
<1>0. PICK u, C, x, y, new : Allocates(u, t, inputs, C, x, y, new)
  BY AllocateIs
<1>1. /\ Transaction("allocate", t, u, C, {Allocation(u, t, inputs)},
                     {c.cid : c \in inputs})
      /\ C = new \cup {x, y} /\ \A f \in new : f.template = "StablecoinHolding"
      /\ x = StablecoinHolding("locked", u, "buyer", Legs[t].payment, TRUE)
      /\ y = [template |-> "StablecoinAllocation", cid |-> Cid("allocation", u),
              update |-> u, for |-> t, lockedHolding |-> Cid("locked", u)]
      /\ \/ new = {} /\ Total(inputs) = Legs[t].payment
         \/ \E z : /\ new = {z} /\ z # x
                   /\ z.amount = Total(inputs) - Legs[t].payment /\ z.amount \in Nat
  BY <1>0 DEF Allocates
<1>2. PICK A, X : A = {c.cid : c \in inputs} /\ X = {Allocation(u, t, inputs)}
  OBVIOUS
<1>3. Transaction("allocate", t, u, C, X, A)
  BY <1>1, <1>2
<1>4. /\ x.template = "StablecoinHolding" /\ x.cid = Cid("locked", u) /\ x.amount = Legs[t].payment
      /\ y.template = "StablecoinAllocation" /\ y.for = t /\ y.lockedHolding = Cid("locked", u)
  BY <1>1 DEF StablecoinHolding
<1>5. StructInv' /\ FactInv'
  BY <1>3, FactsAfter
<1>6. /\ Coins' = {c \in Coins : c.cid \notin A} \cup {c \in C : c.template = "StablecoinHolding"}
      /\ Active("StablecoinAllocation")' =
           {a \in Active("StablecoinAllocation") : a.cid \notin A}
             \cup {a \in C : a.template = "StablecoinAllocation"}
  BY <1>3, CoinsAfter
<1>7. /\ {c \in C : c.template = "StablecoinHolding"} = new \cup {x}
      /\ {a \in C : a.template = "StablecoinAllocation"} = {y}
  BY <1>1, <1>4
<1>8. \A c \in inputs : ~c.locked
  BY DEF Allocate
<1>9. LockedInv'
  <2> SUFFICES ASSUME NEW a \in Active("StablecoinAllocation")' PROVE LockOf(a)' # {}
    BY DEF LockedInv
  <2>1. CASE a = y
    <3>1. x \in LockOf(y)'
      BY <1>4, <1>6, <1>7 DEF LockOf
    <3> QED BY <2>1, <3>1
  <2>2. CASE a \in Active("StablecoinAllocation")
    <3>1. PICK c : c \in LockOf(a)
      BY <2>2 DEF GInv, LockedInv
    <3>2. c.cid \notin A
      BY <1>2, <1>8, <2>2, <3>1, AllocationsSurvive
    <3>3. c \in LockOf(a)'
      BY <1>6, <3>1, <3>2 DEF LockOf
    <3> QED BY <3>3
  <2> QED BY <1>6, <1>7, <2>1, <2>2
<1>10. GateInv'
  BY DEF Allocate, GateInv, GInv
<1>11. Spent(A) = inputs
  <2>1. \A c, d \in Coins : c.cid = d.cid => c = d
    BY CoinsFinite, Apart
  <2> QED BY <1>2, <2>1 DEF Spent
<1>12. /\ Total(Coins)' = Total(Coins) - Total(inputs) + Total(new \cup {x})
       /\ Total(Coins) \in Nat /\ Total(inputs) \in Nat
  <2>1. /\ Total(Coins)' = Total(Coins) - Total(Spent(A)) + Total(NewCoins(C))
        /\ Total(Coins) \in Nat /\ Total(Spent(A)) \in Nat
    BY <1>3, TotalAfter
  <2>2. NewCoins(C) = new \cup {x}
    BY <1>7 DEF NewCoins
  <2> QED BY <1>11, <2>1, <2>2
<1>13. Legs[t].payment \in Nat
  BY GatewayAssumption
<1>14. Total(new \cup {x}) = Total(inputs)
  <2>1. CASE new = {} /\ Total(inputs) = Legs[t].payment
    <3>1. new \cup {x} = {x}
      BY <2>1
    <3> QED BY <2>1, <3>1, <1>4, <1>13, TotalSmall
  <2>2. CASE \E z : /\ new = {z} /\ z # x
                    /\ z.amount = Total(inputs) - Legs[t].payment /\ z.amount \in Nat
    <3>1. PICK z : /\ new = {z} /\ z # x
                   /\ z.amount = Total(inputs) - Legs[t].payment /\ z.amount \in Nat
      BY <2>2
    <3>2. new \cup {x} = {z, x}
      BY <3>1
    <3>3. Total({z, x}) = z.amount + x.amount
      BY <3>1, <1>4, <1>13, TotalSmall
    <3>4. z.amount + x.amount = Total(inputs)
      BY <3>1, <1>4, <1>12, <1>13
    <3> QED BY <3>2, <3>3, <3>4
  <2> QED BY <1>1, <2>1, <2>2
<1>15. Total(Coins)' = Total(Coins)
  BY <1>12, <1>14
<1> QED BY <1>5, <1>9, <1>10, <1>15 DEF GInv

LEMMA AllocationFacts ==
  ASSUME GInv, NEW a \in Active("StablecoinAllocation")
  PROVE  /\ a \in created /\ a.template = "StablecoinAllocation" /\ a.cid \notin Gone
         /\ AllocationOK(a)
         /\ \E c : c \in LockOf(a) /\ c \in Coins /\ c.cid = a.lockedHolding
<1>1. a \in created /\ a.template = "StablecoinAllocation" /\ a.cid \notin Gone
  BY ActiveFacts
<1> QED BY <1>1 DEF GInv, FactInv, CreatedAs, LockedInv, LockOf

(* What the two archives of a closing allocation are allowed to be.        *)
LEMMA ClosingArchives ==
  ASSUME GInv, NEW a \in Active("StablecoinAllocation")
  PROVE  /\ IsFiniteSet({a.cid, a.lockedHolding})
         /\ \A c \in {a.cid, a.lockedHolding} : c \notin Gone /\ \E g \in created : g.cid = c
<1>1. IsFiniteSet({a.cid} \cup {a.lockedHolding})
  BY FS_Singleton, FS_AddElement
<1>2. {a.cid} \cup {a.lockedHolding} = {a.cid, a.lockedHolding}
  OBVIOUS
<1> QED BY <1>1, <1>2, AllocationFacts, CoinsFinite

(* An allocation is closed and its locked coin replaced by another.        *)
LEMMA CloseInv ==
  ASSUME GInv, NEW a \in Active("StablecoinAllocation"), NEW kind, NEW subject, NEW u,
         NEW C, NEW X, Transaction(kind, subject, u, C, X, {a.cid, a.lockedHolding}), NEW x,
         NewCoins(C) = {x}, x.amount = Legs[a.for].payment,
         \A f \in C : f.template # "StablecoinAllocation", UNCHANGED gateway
  PROVE  GInv' /\ Total(Coins)' = Total(Coins)
<1>1. PICK A : A = {a.cid, a.lockedHolding}
  OBVIOUS
<1>2. Transaction(kind, subject, u, C, X, A)
  BY <1>1
<1>3. StructInv' /\ FactInv'
  BY <1>2, FactsAfter
<1>4. /\ Coins' = {c \in Coins : c.cid \notin A} \cup {c \in C : c.template = "StablecoinHolding"}
      /\ Active("StablecoinAllocation")' =
           {b \in Active("StablecoinAllocation") : b.cid \notin A}
             \cup {b \in C : b.template = "StablecoinAllocation"}
  BY <1>2, CoinsAfter
<1>5. /\ a \in created /\ a.template = "StablecoinAllocation" /\ AllocationOK(a)
      /\ a.for \in Trades
  BY AllocationFacts DEF AllocationOK
<1>6. LockedInv'
  <2> SUFFICES ASSUME NEW b \in Active("StablecoinAllocation")' PROVE LockOf(b)' # {}
    BY DEF LockedInv
  <2>1. b \in Active("StablecoinAllocation") /\ b # a
    BY <1>1, <1>4
  <2>2. PICK c : c \in LockOf(b) /\ c \in Coins /\ c.cid = b.lockedHolding
    BY <2>1, AllocationFacts
  <2>3. b \in created /\ AllocationOK(b)
    BY <2>1, AllocationFacts
  <2>4. c.cid # a.lockedHolding
    <3>1. ASSUME b.update = a.update PROVE FALSE
      <4>1. b.cid = a.cid
        BY <1>5, <2>3, <3>1 DEF AllocationOK
      <4> QED BY <4>1, <2>1, <2>3, <1>5, Apart
    <3> QED BY <3>1, <2>2, <2>3, <1>5 DEF AllocationOK, Cid
  <2>5. c.cid # a.cid
    <3>1. c \in created /\ c.template = "StablecoinHolding"
      BY <2>2, CoinsFinite
    <3> QED BY <3>1, <1>5, Apart
  <2>6. c \in Coins'
    BY <1>1, <1>4, <2>2, <2>4, <2>5
  <2>7. c \in LockOf(b)'
    BY <2>2, <2>6 DEF LockOf
  <2> QED BY <2>7
<1>7. GateInv'
  BY DEF GateInv, GInv
<1>8. PICK c : c \in LockOf(a) /\ c \in Coins /\ c.cid = a.lockedHolding
  BY AllocationFacts
<1>9. Spent(A) = {c}
  <2>1. \A d \in Coins : d.cid # a.cid
    <3> SUFFICES ASSUME NEW d \in Coins, d.cid = a.cid PROVE FALSE
      OBVIOUS
    <3>1. d \in created /\ d.template = "StablecoinHolding"
      BY CoinsFinite
    <3> QED BY <3>1, <1>5, Apart
  <2>2. \A d \in Coins : d.cid = a.lockedHolding => d = c
    BY <1>8, CoinsFinite, Apart
  <2> QED BY <1>1, <1>8, <2>1, <2>2 DEF Spent
<1>10. c.amount = Legs[a.for].payment /\ Legs[a.for].payment \in Nat
  BY <1>5, <1>8, GatewayAssumption DEF LockOf
<1>11. Total(Coins)' = Total(Coins) - Total(Spent(A)) + Total(NewCoins(C)) /\ Total(Coins) \in Nat
  BY <1>2, TotalAfter
<1>12. Total(Spent(A)) = Legs[a.for].payment /\ Total(NewCoins(C)) = Legs[a.for].payment
  <2>1. Total({c}) = Legs[a.for].payment /\ Total({x}) = Legs[a.for].payment
    BY <1>10, TotalSmall
  <2> QED BY <2>1, <1>9
<1>13. Total(Coins)' = Total(Coins)
  BY <1>10, <1>11, <1>12
<1> QED BY <1>3, <1>6, <1>7, <1>13 DEF GInv

LEMMA WithdrawIs ==
  ASSUME GInv, NEW a \in Active("StablecoinAllocation"), Withdraw(a)
  PROVE  \E u, x : /\ x = StablecoinHolding("returned", u, "buyer", Legs[a.for].payment, FALSE)
                   /\ Transaction("withdraw", a.for, u, {x}, {}, {a.cid, a.lockedHolding})
<1>1. PICK u \in Fresh("withdraw", a.for) :
        Commit(u, {StablecoinHolding("returned", u, "buyer", Legs[a.for].payment, FALSE)},
               {}, {a.cid, a.lockedHolding})
  BY DEF Withdraw
<1>2. PICK x : x = StablecoinHolding("returned", u, "buyer", Legs[a.for].payment, FALSE)
  OBVIOUS
<1>3. /\ x.template = "StablecoinHolding" /\ x.update = u /\ x.cid = Cid("returned", u)
      /\ x.owner = "buyer" /\ x.amount = Legs[a.for].payment /\ x.locked = FALSE
  BY <1>2 DEF StablecoinHolding
<1>4. Legs[a.for].payment \in Nat \ {0}
  BY AllocationFacts, GatewayAssumption DEF AllocationOK
<1>5. CoinOK(x)
  <2>1. x.cid[1] = "returned" /\ "returned" # "locked"
    BY <1>3 DEF Cid
  <2> QED BY <2>1, <1>3, <1>4 DEF CoinOK, Parties
<1>6. WellFormed(u, {x}, {a.cid, a.lockedHolding})
  BY <1>3, ClosingArchives, SingleWellFormed
<1>7. Transaction("withdraw", a.for, u, {x}, {}, {a.cid, a.lockedHolding})
  BY <1>1, <1>2, <1>3, <1>5, <1>6 DEF Transaction
<1> QED BY <1>2, <1>7

LEMMA WithdrawInv ==
  ASSUME GInv, NEW a \in Active("StablecoinAllocation"), Withdraw(a)
  PROVE  GInv' /\ Total(Coins)' = Total(Coins)
<1>1. PICK u, x : /\ x = StablecoinHolding("returned", u, "buyer", Legs[a.for].payment, FALSE)
                  /\ Transaction("withdraw", a.for, u, {x}, {}, {a.cid, a.lockedHolding})
  BY WithdrawIs
<1>2. x.template = "StablecoinHolding" /\ x.amount = Legs[a.for].payment
  BY <1>1 DEF StablecoinHolding
<1>3. NewCoins({x}) = {x} /\ \A f \in {x} : f.template # "StablecoinAllocation"
  BY <1>2 DEF NewCoins
<1>4. UNCHANGED gateway
  BY DEF Withdraw
<1> QED BY <1>1, <1>2, <1>3, <1>4, CloseInv

SettledCoin(u, t) == StablecoinHolding("payment", u, "seller", Legs[t].payment, FALSE)

SettledBill(u, t) ==
  [template |-> "TreasuryHolding", cid |-> Cid("delivery", u), update |-> u,
   owner |-> "buyer", amount |-> Legs[t].delivery]

Settlement(u, t, a) ==
  Exercise("DvpTrade_Settle", TradeCid(t), u,
           [payment |-> a.cid, treasury |-> TreasuryAllocation(t),
            paymentResult |-> {Cid("payment", u)}, treasuryResult |-> {Cid("delivery", u)}])

LEMMA SettleIs ==
  ASSUME GInv, NEW t \in Trades, NEW a \in Active("StablecoinAllocation"), DvpTrade_Settle(t, a)
  PROVE  \E u, x, y : /\ x = SettledCoin(u, t) /\ y = SettledBill(u, t)
                      /\ Transaction("settle", t, u, {x, y}, {Settlement(u, t, a)},
                                     {a.cid, a.lockedHolding})
<1>1. PICK u \in Fresh("settle", t) :
        Commit(u, {SettledCoin(u, t), SettledBill(u, t)}, {Settlement(u, t, a)},
               {a.cid, a.lockedHolding})
  BY DEF DvpTrade_Settle, SettledCoin, SettledBill, Settlement, StablecoinHolding
<1>2. PICK x, y : x = SettledCoin(u, t) /\ y = SettledBill(u, t)
  OBVIOUS
<1>3. /\ x.template = "StablecoinHolding" /\ x.update = u /\ x.cid = Cid("payment", u)
      /\ x.owner = "seller" /\ x.amount = Legs[t].payment /\ x.locked = FALSE
      /\ y.template = "TreasuryHolding" /\ y.update = u /\ y.cid = Cid("delivery", u)
  BY <1>2 DEF StablecoinHolding, SettledCoin, SettledBill
<1>4. Legs[t].payment \in Nat \ {0}
  BY GatewayAssumption
<1>5. CoinOK(x)
  <2>1. x.cid[1] = "payment" /\ "payment" # "locked"
    BY <1>3 DEF Cid
  <2> QED BY <2>1, <1>3, <1>4 DEF CoinOK, Parties
<1>6. WellFormed(u, {x, y}, {a.cid, a.lockedHolding})
  <2>1. IsFiniteSet({x} \cup {y}) /\ {x} \cup {y} = {x, y}
    BY FS_Singleton, FS_AddElement
  <2>2. IsFiniteSet({x, y})
    BY <2>1
  <2>3. \A f \in {x, y} : f.update = u /\ f.cid = Cid(f.cid[1], u)
    BY <1>3 DEF Cid
  <2>4. \A f, g \in {x, y} : f.cid = g.cid => f = g
    BY <1>3 DEF Cid
  <2> QED BY <2>2, <2>3, <2>4, ClosingArchives DEF WellFormed
<1>7. Transaction("settle", t, u, {x, y}, {Settlement(u, t, a)}, {a.cid, a.lockedHolding})
  BY <1>1, <1>2, <1>3, <1>5, <1>6 DEF Transaction
<1> QED BY <1>2, <1>7

LEMMA SettleInv ==
  ASSUME GInv, NEW t \in Trades, NEW a \in Active("StablecoinAllocation"), DvpTrade_Settle(t, a)
  PROVE  GInv' /\ Total(Coins)' = Total(Coins)
<1>1. PICK u, x, y : /\ x = SettledCoin(u, t) /\ y = SettledBill(u, t)
                     /\ Transaction("settle", t, u, {x, y}, {Settlement(u, t, a)},
                                    {a.cid, a.lockedHolding})
  BY SettleIs
<1>2. /\ x.template = "StablecoinHolding" /\ x.amount = Legs[t].payment
      /\ y.template = "TreasuryHolding" /\ a.for = t /\ UNCHANGED gateway
  BY <1>1 DEF StablecoinHolding, SettledCoin, SettledBill, DvpTrade_Settle
<1>3. NewCoins({x, y}) = {x} /\ \A f \in {x, y} : f.template # "StablecoinAllocation"
  BY <1>2 DEF NewCoins
<1> QED BY <1>1, <1>2, <1>3, CloseInv

RedeemedFact(u, request) ==
  [template |-> "RedeemedLock", cid |-> Cid("redeemed", u), update |-> u,
   lock |-> request.lock, amount |-> request.amount, holder |-> request.holder]

Redemption(u, request, minted, b, coin) ==
  {Exercise("Gateway_Redeem", Cid("gateway", u), u,
            [request |-> request.cid, mintedLock |-> minted.cid, binding |-> b.cid]),
   Exercise("Burn", coin.cid, u, [lock |-> request.lock])}

LEMMA RedeemIs ==
  ASSUME GInv, NEW request, NEW first, NEW minted, NEW b, NEW coin \in Coins,
         Gateway_Redeem(request, first, minted, b, coin)
  PROVE  \E u : Transaction("redeem", request.lock, u, {RedeemedFact(u, request)},
                            Redemption(u, request, minted, b, coin), {coin.cid})
<1>1. PICK u \in Fresh("redeem", request.lock) :
        Commit(u, {RedeemedFact(u, request)}, Redemption(u, request, minted, b, coin), {coin.cid})
  BY DEF Gateway_Redeem, RedeemedFact, Redemption
<1>2. PICK f : f = RedeemedFact(u, request)
  OBVIOUS
<1>3. f.template = "RedeemedLock" /\ f.update = u /\ f.cid = Cid("redeemed", u)
  BY <1>2 DEF RedeemedFact
<1>4. WellFormed(u, {f}, {coin.cid})
  BY <1>3, CoinsFinite, SingleWellFormed, FS_Singleton
<1>5. Transaction("redeem", request.lock, u, {f}, Redemption(u, request, minted, b, coin), {coin.cid})
  BY <1>1, <1>2, <1>3, <1>4 DEF Transaction
<1> QED BY <1>2, <1>5

LEMMA RedeemInv ==
  ASSUME GInv, NEW request, NEW first \in RedeemClaims, NEW minted, NEW b, NEW coin \in Coins,
         Gateway_Redeem(request, first, minted, b, coin)
  PROVE  /\ GInv'
         /\ request.lock \in gateway.mintedLocks /\ request.lock \notin gateway.redeemedLocks
         /\ gateway' = [gateway EXCEPT !.redeemedLocks = @ \cup {request.lock}]
         /\ Total(Coins)' = Total(Coins) - Terms[request.lock].amount
<1>1. PICK u, C, X, A :
        /\ Transaction("redeem", request.lock, u, C, X, A) /\ A = {coin.cid}
        /\ C = {RedeemedFact(u, request)}
  BY RedeemIs
<1>2. \A f \in C : f.template = "RedeemedLock"
  BY <1>1 DEF RedeemedFact
<1>3. StructInv' /\ FactInv'
  BY <1>1, FactsAfter
<1>4. /\ Coins' = {c \in Coins : c.cid \notin A} \cup {c \in C : c.template = "StablecoinHolding"}
      /\ Active("StablecoinAllocation")' =
           {a \in Active("StablecoinAllocation") : a.cid \notin A}
             \cup {a \in C : a.template = "StablecoinAllocation"}
  BY <1>1, CoinsAfter
<1>5. PICK coins \in SUBSET Coins : coins = {coin} /\ A = {c.cid : c \in coins}
  BY <1>1
<1>6. \A c \in coins : ~c.locked
  BY <1>5 DEF Gateway_Redeem
<1>7. LockedInv'
  <2> SUFFICES ASSUME NEW a \in Active("StablecoinAllocation")' PROVE LockOf(a)' # {}
    BY DEF LockedInv
  <2>1. a \in Active("StablecoinAllocation")
    BY <1>2, <1>4
  <2>2. PICK c : c \in LockOf(a)
    BY <2>1 DEF GInv, LockedInv
  <2>3. c.cid \notin A
    BY <1>5, <1>6, <2>1, <2>2, AllocationsSurvive
  <2>4. c \in LockOf(a)'
    BY <1>4, <2>2, <2>3 DEF LockOf
  <2> QED BY <2>4
<1>8. /\ request.lock \in gateway.mintedLocks /\ request.lock \notin gateway.redeemedLocks
      /\ gateway' = [gateway EXCEPT !.redeemedLocks = @ \cup {request.lock}]
      /\ coin.amount = request.amount
      /\ Agree(first, request, {"lock", "amount", "digest", "payout"})
  BY DEF Gateway_Redeem
<1>9. GateInv'
  BY <1>8 DEF GateInv, GInv
<1>10. coin.amount = Terms[request.lock].amount
  <2>1. first.lock = request.lock /\ first.amount = request.amount
    BY <1>8 DEF Agree
  <2> QED BY <1>8, <2>1, RedeemClaimsTrue
<1>11. Total(Coins)' = Total(Coins) - Total(Spent(A)) + Total(NewCoins(C)) /\ Total(Coins) \in Nat
  BY <1>1, TotalAfter
<1>12. Spent(A) = {coin} /\ NewCoins(C) = {}
  <2>1. \A c \in Coins : c.cid = coin.cid => c = coin
    BY CoinsFinite, Apart
  <2> QED BY <1>1, <1>2, <2>1 DEF Spent, NewCoins
<1>13. Total({coin}) = coin.amount /\ Total({}) = 0 /\ coin.amount \in Nat
  BY CoinsFinite, TotalSmall
<1>14. Total(Coins)' = Total(Coins) - coin.amount + 0
  BY <1>11, <1>12, <1>13
<1>15. Total(Coins)' = Total(Coins) - Terms[request.lock].amount
  BY <1>10, <1>11, <1>13, <1>14
<1> QED BY <1>3, <1>7, <1>8, <1>9, <1>15 DEF GInv

-----------------------------------------------------------------------------
(* The theorems *)

LEMMA GatewayInit == Init => GInv /\ Total(Coins) = 0
<1> SUFFICES ASSUME Init PROVE GInv /\ Total(Coins) = 0
  OBVIOUS
<1>1. created = {} /\ archived = {} /\ gateway = [mintedLocks |-> {}, redeemedLocks |-> {}]
  BY DEF Init
<1>2. \A T : Active(T) = {} /\ CreatedAs(T) = {}
  BY <1>1 DEF Active, CreatedAs
<1>3. StructInv
  BY <1>1, FS_EmptySet DEF StructInv, Updates
<1>4. FactInv /\ LockedInv /\ GateInv
  BY <1>1, <1>2 DEF FactInv, LockedInv, GateInv
<1>5. Total(Coins) = 0
  BY <1>2, TotalSmall DEF Coins
<1> QED BY <1>3, <1>4, <1>5 DEF GInv

(* What a step does to the gateway and to the supply.                      *)
Issues(l) == /\ l \in Locks /\ l \notin gateway.mintedLocks
             /\ gateway' = [gateway EXCEPT !.mintedLocks = @ \cup {l}]
             /\ Total(Coins)' = Total(Coins) + Terms[l].amount

Retires(l) == /\ l \in gateway.mintedLocks /\ l \notin gateway.redeemedLocks
              /\ gateway' = [gateway EXCEPT !.redeemedLocks = @ \cup {l}]
              /\ Total(Coins)' = Total(Coins) - Terms[l].amount

LEMMA GatewayStep ==
  ASSUME GInv, [Next]_vars
  PROVE  /\ GInv'
         /\ \/ \E l : Issues(l) \/ Retires(l)
            \/ UNCHANGED gateway /\ Total(Coins)' = Total(Coins)
<1>1. ASSUME NEW first \in MintClaims, Gateway_Mint(first) PROVE GInv' /\ Issues(first.lock)
  BY <1>1, MintInv, MintClaimsTrue DEF Gateway_Mint, Issues
<1>2. ASSUME NEW ref \in Active("BridgeMintRef"), NEW t \in Trades, BridgeMintRef_Bind(ref, t)
      PROVE  GInv' /\ UNCHANGED gateway /\ Total(Coins)' = Total(Coins)
  BY <1>2, BindInv DEF BridgeMintRef_Bind
<1>3. ASSUME NEW b \in Active("BridgeTradeBinding"),
             \/ BridgeTradeBinding_RecordTreasury(b)
             \/ \E coin \in Coins : BridgeTradeBinding_RecordPayment(b, coin)
      PROVE  GInv' /\ UNCHANGED gateway /\ Total(Coins)' = Total(Coins)
  BY <1>3, RebindInv
     DEF BridgeTradeBinding_RecordTreasury, BridgeTradeBinding_RecordPayment, Rebind
<1>4. ASSUME NEW t \in Trades, NEW inputs \in SUBSET Coins, Allocate(t, inputs)
      PROVE  GInv' /\ UNCHANGED gateway /\ Total(Coins)' = Total(Coins)
  BY <1>4, AllocateInv DEF Allocate
<1>5. ASSUME NEW a \in Active("StablecoinAllocation"), Withdraw(a)
      PROVE  GInv' /\ UNCHANGED gateway /\ Total(Coins)' = Total(Coins)
  BY <1>5, WithdrawInv DEF Withdraw
<1>6. ASSUME NEW t \in Trades, NEW a \in Active("StablecoinAllocation"), DvpTrade_Settle(t, a)
      PROVE  GInv' /\ UNCHANGED gateway /\ Total(Coins)' = Total(Coins)
  BY <1>6, SettleInv DEF DvpTrade_Settle
<1>7. ASSUME NEW coin \in Coins, NEW l \in Locks, NEW k \in Locks, RedemptionRequest(coin, l, k)
      PROVE  GInv' /\ UNCHANGED gateway /\ Total(Coins)' = Total(Coins)
  BY <1>7, RequestInv DEF RedemptionRequest
<1>8. ASSUME NEW request \in Active("RedemptionRequest"), NEW first \in RedeemClaims,
             NEW minted \in Active("MintedLock"), NEW b \in Active("BridgeTradeBinding"),
             NEW coin \in Coins, Gateway_Redeem(request, first, minted, b, coin)
      PROVE  GInv' /\ Retires(request.lock)
  BY <1>8, RedeemInv DEF Retires
<1>9. ASSUME UNCHANGED vars
      PROVE  GInv' /\ UNCHANGED gateway /\ Total(Coins)' = Total(Coins)
  <2>1. created' = created /\ archived' = archived /\ gateway' = gateway
    BY <1>9 DEF vars, history
  <2>2. /\ Updates' = Updates /\ Gone' = Gone /\ Coins' = Coins
        /\ \A T : Active(T)' = Active(T) /\ CreatedAs(T)' = CreatedAs(T)
        /\ \A k, s : Named(k, s)' = Named(k, s)
    BY <2>1 DEF Updates, Gone, Coins, Active, CreatedAs, Named
  <2>3. StructInv'
    BY <2>1, <2>2 DEF GInv, StructInv
  <2>4. FactInv' /\ LockedInv' /\ GateInv'
    BY <2>1, <2>2 DEF GInv, FactInv, LockedInv, LockOf, GateInv
  <2> QED BY <2>1, <2>2, <2>3, <2>4 DEF GInv
<1>10. CASE Next
  BY <1>10, <1>1, <1>2, <1>3, <1>4, <1>5, <1>6, <1>7, <1>8 DEF Next
<1> QED BY <1>9, <1>10

(* The invariant of the gateway: the history is one, every open allocation *)
(* has the coin it locked, and a lock is redeemed after it was minted.     *)
THEOREM GatewayInvariance == Spec => []GInv
<1>1. Init => GInv
  BY GatewayInit
<1>2. GInv /\ [Next]_vars => GInv'
  BY GatewayStep
<1> QED BY <1>1, <1>2, PTL DEF Spec

LEMMA GatewayTypes == GInv => TypeOK
<1> SUFFICES ASSUME GInv PROVE TypeOK
  OBVIOUS
<1>1. Cardinality({f.cid : f \in created}) = Cardinality(created)
  <2> DEFINE id == [f \in created |-> f.cid]
  <2>1. /\ DOMAIN id = created /\ id = [f \in created |-> id[f]]
        /\ \A f, g \in created : id[f] = id[g] => f = g
        /\ IsFiniteSet(created) /\ {f.cid : f \in created} = {id[f] : f \in created}
    BY DEF GInv, StructInv
  <2> HIDE DEF id
  <2>2. Cardinality({id[f] : f \in created}) = Cardinality(created)
    BY <2>1, Image
  <2> QED BY <2>1, <2>2
<1>2. Cardinality({f.cid : f \in archived}) = Cardinality(archived)
  <2> DEFINE id == [f \in archived |-> f.cid]
  <2>1. /\ DOMAIN id = archived /\ id = [f \in archived |-> id[f]]
        /\ \A f, g \in archived : id[f] = id[g] => f = g
        /\ IsFiniteSet(archived) /\ {f.cid : f \in archived} = {id[f] : f \in archived}
    BY DEF GInv, StructInv
  <2> HIDE DEF id
  <2>2. Cardinality({id[f] : f \in archived}) = Cardinality(archived)
    BY <2>1, Image
  <2> QED BY <2>1, <2>2
<1>3. {f.cid : f \in archived} \subseteq {f.cid : f \in created}
  BY DEF GInv, StructInv
<1>4. \A f \in CreatedAs("StablecoinHolding") : f.owner \in Parties /\ f.amount \in Nat \ {0}
  BY DEF GInv, FactInv, CoinOK
<1>5. gateway.redeemedLocks \subseteq gateway.mintedLocks /\ gateway.mintedLocks \subseteq Locks
  BY DEF GInv, GateInv
<1> QED BY <1>1, <1>2, <1>3, <1>4, <1>5 DEF TypeOK

(* Types of the gateway's history: every holding has a positive amount,    *)
(* contract ids are never reused, and a contract is archived at most once, *)
(* although allocations archive coins they only name.                      *)
THEOREM GatewayTypeCorrect == Spec => []TypeOK
BY GatewayInvariance, GatewayTypes, PTL

(* Each step of the gateway is a step of BackedCash or leaves it alone.    *)
LEMMA BackedStep ==
  ASSUME GInv, [Next]_vars
  PROVE  [Backed!Next]_(Backed!vars)
<1> DEFINE at == [l \in Locks |->
                    IF l \in gateway.redeemedLocks THEN "redeemed"
                    ELSE IF l \in gateway.mintedLocks THEN "minted" ELSE "locked"]
           amount == [l \in Locks |-> Terms[l].amount]
<1>1. /\ gateway.redeemedLocks \subseteq gateway.mintedLocks /\ gateway.mintedLocks \subseteq Locks
      /\ DOMAIN gateway = {"mintedLocks", "redeemedLocks"}
  BY DEF GInv, GateInv
<1>2. ASSUME NEW l, Issues(l) PROVE l \in Locks /\ Backed!Mint(l)
  <2>1. gateway'.mintedLocks = gateway.mintedLocks \cup {l}
        /\ gateway'.redeemedLocks = gateway.redeemedLocks
    BY <1>1, <1>2 DEF Issues
  <2>2. l \in Locks /\ l \notin gateway.mintedLocks
    BY <1>2 DEF Issues
  <2>3. at[l] = "locked" /\ at' = [at EXCEPT ![l] = "minted"]
    BY <1>1, <2>1, <2>2
  <2>4. Total(Coins)' = Total(Coins) + amount[l]
    BY <1>2, <2>2 DEF Issues
  <2> QED BY <2>2, <2>3, <2>4 DEF Backed!Mint
<1>3. ASSUME NEW l, Retires(l) PROVE l \in Locks /\ Backed!Redeem(l)
  <2>1. gateway'.redeemedLocks = gateway.redeemedLocks \cup {l}
        /\ gateway'.mintedLocks = gateway.mintedLocks
    BY <1>1, <1>3 DEF Retires
  <2>2. l \in Locks /\ l \in gateway.mintedLocks /\ l \notin gateway.redeemedLocks
    BY <1>1, <1>3 DEF Retires
  <2>3. at[l] = "minted" /\ at' = [at EXCEPT ![l] = "redeemed"]
    BY <1>1, <2>1, <2>2
  <2>4. Total(Coins)' = Total(Coins) - amount[l]
    BY <1>3, <2>2 DEF Retires
  <2> QED BY <2>2, <2>3, <2>4 DEF Backed!Redeem
<1>4. ASSUME UNCHANGED gateway, Total(Coins)' = Total(Coins) PROVE UNCHANGED Backed!vars
  BY <1>4 DEF Backed!vars
<1> QED BY <1>2, <1>3, <1>4, GatewayStep DEF Backed!Next

(* Backed cash: with at most one false attester each lock is minted once   *)
(* and redeemed once, for the amount locked on Solana, and no other        *)
(* choice of any party changes the supply (Gateway.daml, Allocation.daml). *)
THEOREM OnlyBackedCash == Spec => CashIsBacked
<1>1. Init => Backed!Init
  BY GatewayInit DEF Init, Backed!Init
<1>2. GInv /\ [Next]_vars => [Backed!Next]_(Backed!vars)
  BY BackedStep
<1> QED BY <1>1, <1>2, GatewayInvariance, PTL DEF Spec, CashIsBacked, Backed!Spec
=============================================================================
