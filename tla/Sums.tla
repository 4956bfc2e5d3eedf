-------------------------------- MODULE Sums --------------------------------
(***************************************************************************)
(* Finite sums, as the components' accounting invariants state them with   *)
(* MapThenSumSet: the fold visits the set in an unspecified order, and the *)
(* lemmas below say that the order is irrelevant.  Each is proved on a     *)
(* smallest counterexample, since the subsets of a finite set are well     *)
(* founded.                                                                *)
(***************************************************************************)
EXTENDS Integers, FiniteSetsExt, FiniteSetTheorems, WellFoundedInduction, TLAPS

SumOf(f, S) == MapThenSumSet(LAMBDA x : f[x], S)

Pick(s) == CHOOSE x \in s : TRUE

(* The table of partial sums that the fold builds on the way.              *)
IsTable(t, f, S) ==
  t = [s \in SUBSET S |-> IF s = {} THEN 0 ELSE f[Pick(s)] + t[s \ {Pick(s)}]]

(* What the fold of MapThenSumSet returns.                                 *)
LEMMA SumIs ==
  ASSUME NEW f, NEW S
  PROVE  SumOf(f, S) = (CHOOSE t : IsTable(t, f, S))[S]
BY DEF SumOf, MapThenSumSet, MapThenFoldSet, IsTable, Pick

(* A non-empty collection of subsets of a finite set has a smallest one.   *)
LEMMA SmallestSubset ==
  ASSUME NEW S, IsFiniteSet(S), NEW B, B \subseteq SUBSET S, B # {}
  PROVE  \E x \in B : \A y \in B : y \subseteq x => y = x
<1>1. IsWellFoundedOn(StrictSubsetOrdering(S), SUBSET S)
  BY FS_StrictSubsetOrderingWellFounded, FS_FiniteSubsetsOfFinite
<1>2. PICK x \in B : \A y \in B : ~ (<<y, x>> \in StrictSubsetOrdering(S))
  BY <1>1, WFMin
<1>3. ASSUME NEW y \in B, y \subseteq x, y # x PROVE FALSE
  <2>1. <<y, x>> \in (SUBSET S) \X (SUBSET S)
    OBVIOUS
  <2>2. <<y, x>> \in StrictSubsetOrdering(S)
    BY <2>1, <1>3 DEF StrictSubsetOrdering
  <2> QED BY <2>2, <1>2
<1> QED BY <1>2, <1>3

(* The element the fold visits first is one of the set's.                  *)
LEMMA PickIn == ASSUME NEW s, s # {} PROVE Pick(s) \in s
BY DEF Pick

(* The entries of a table, one by one.                                     *)
LEMMA TableEntry ==
  ASSUME NEW f, NEW S, NEW t, IsTable(t, f, S), NEW s \in SUBSET S
  PROVE  t[s] = IF s = {} THEN 0 ELSE f[Pick(s)] + t[s \ {Pick(s)}]
<1>1. t = [u \in SUBSET S |-> IF u = {} THEN 0 ELSE f[Pick(u)] + t[u \ {Pick(u)}]]
  BY DEF IsTable
<1> QED BY <1>1

(* Two tables agree wherever both are defined.                             *)
LEMMA TablesAgree ==
  ASSUME NEW f, NEW S, IsFiniteSet(S), NEW T \in SUBSET S,
         NEW t, IsTable(t, f, S), NEW u, IsTable(u, f, T)
  PROVE  \A s \in SUBSET T : t[s] = u[s]
<1> DEFINE B == {s \in SUBSET T : t[s] # u[s]}
<1> SUFFICES ASSUME B # {} PROVE FALSE
  OBVIOUS
<1>1. PICK s \in B : \A y \in B : y \subseteq s => y = s
  <2>1. B \subseteq SUBSET S
    OBVIOUS
  <2> HIDE DEF B
  <2> QED BY <2>1, SmallestSubset
<1>2. t[s] = IF s = {} THEN 0 ELSE f[Pick(s)] + t[s \ {Pick(s)}]
  BY TableEntry
<1>3. u[s] = IF s = {} THEN 0 ELSE f[Pick(s)] + u[s \ {Pick(s)}]
  BY TableEntry
<1>4. s # {}
  BY <1>2, <1>3
<1>5. Pick(s) \in s
  BY <1>4, PickIn
<1>6. t[s \ {Pick(s)}] = u[s \ {Pick(s)}]
  BY <1>1, <1>5
<1> QED BY <1>2, <1>3, <1>4, <1>6

(* When the fold has a table, its result is the table's last entry.        *)
LEMMA SumFromTable ==
  ASSUME NEW f, NEW S, IsFiniteSet(S), NEW t, IsTable(t, f, S), NEW s \in SUBSET S,
         \E u : IsTable(u, f, s)
  PROVE  SumOf(f, s) = t[s]
<1>1. IsTable(CHOOSE u : IsTable(u, f, s), f, s)
  OBVIOUS
<1>2. SumOf(f, s) = (CHOOSE u : IsTable(u, f, s))[s]
  BY SumIs
<1>3. PICK c : c = (CHOOSE u : IsTable(u, f, s))
  OBVIOUS
<1>4. IsTable(c, f, s)
  BY <1>1, <1>3
<1>5. t[s] = c[s]
  BY <1>4, TablesAgree
<1> QED BY <1>2, <1>3, <1>5

(* Every finite set has its table.                                         *)
LEMMA TableExists ==
  ASSUME NEW f, NEW S, IsFiniteSet(S)
  PROVE  \E t : IsTable(t, f, S)
<1> DEFINE B == {s \in SUBSET S : ~ \E t : IsTable(t, f, s)}
<1> SUFFICES ASSUME B # {} PROVE FALSE
  OBVIOUS
<1>1. PICK s \in B : \A y \in B : y \subseteq s => y = s
  <2>1. B \subseteq SUBSET S
    OBVIOUS
  <2> HIDE DEF B
  <2> QED BY <2>1, SmallestSubset
<1>2. \A y \in SUBSET s : y # s => \E t : IsTable(t, f, y)
  BY <1>1
<1>3. \A y \in SUBSET s : y # s /\ y # {} => SumOf(f, y) = f[Pick(y)] + SumOf(f, y \ {Pick(y)})
  <2> SUFFICES ASSUME NEW y \in SUBSET s, y # s, y # {}
               PROVE  SumOf(f, y) = f[Pick(y)] + SumOf(f, y \ {Pick(y)})
    OBVIOUS
  <2>1. PICK t : IsTable(t, f, y)
    BY <1>2
  <2>2. IsFiniteSet(y)
    BY FS_Subset
  <2>3. Pick(y) \in y
    BY PickIn
  <2>4. PICK z : z = y \ {Pick(y)}
    OBVIOUS
  <2>5. z \in SUBSET y /\ z \in SUBSET s /\ z # s
    BY <2>3, <2>4
  <2>6. SumOf(f, y) = t[y] /\ SumOf(f, z) = t[z]
    BY <2>1, <2>2, <2>5, <1>2, SumFromTable
  <2>7. t[y] = f[Pick(y)] + t[z]
    BY <2>1, <2>4, TableEntry
  <2> QED BY <2>4, <2>6, <2>7
<1>4. SumOf(f, {}) = 0 \/ s = {}
  <2>1. SUFFICES ASSUME s # {} PROVE SumOf(f, {}) = 0
    OBVIOUS
  <2>2. PICK t : IsTable(t, f, {})
    BY <2>1, <1>2
  <2>3. SumOf(f, {}) = t[{}]
    BY <2>2, SumFromTable, FS_EmptySet
  <2> QED BY <2>2, <2>3, TableEntry
<1> DEFINE t == [y \in SUBSET s |-> IF y = {} THEN 0 ELSE f[Pick(y)] + SumOf(f, y \ {Pick(y)})]
<1>5. \A y \in SUBSET s : y # {} => t[y \ {Pick(y)}] = SumOf(f, y \ {Pick(y)})
  <2> SUFFICES ASSUME NEW y \in SUBSET s, y # {}
               PROVE  t[y \ {Pick(y)}] = SumOf(f, y \ {Pick(y)})
    OBVIOUS
  <2>1. PICK z : z = y \ {Pick(y)}
    OBVIOUS
  <2>2. z \in SUBSET s /\ z # s /\ s # {}
    BY <2>1, PickIn
  <2>3. t[z] = SumOf(f, z)
    BY <2>2, <1>3, <1>4
  <2> QED BY <2>1, <2>3
<1>6. t = [y \in SUBSET s |-> IF y = {} THEN 0 ELSE f[Pick(y)] + t[y \ {Pick(y)}]]
  <2> HIDE DEF t
  <2>1. t = [y \in SUBSET s |-> IF y = {} THEN 0 ELSE f[Pick(y)] + SumOf(f, y \ {Pick(y)})]
    BY DEF t
  <2> QED BY <2>1, <1>5
<1>7. IsTable(t, f, s)
  BY <1>6 DEF IsTable
<1> QED BY <1>7, <1>1

-----------------------------------------------------------------------------
(* The sum of no amounts is zero.                                          *)
LEMMA SumEmpty == ASSUME NEW f PROVE SumOf(f, {}) = 0
<1>1. PICK t : IsTable(t, f, {})
  BY TableExists, FS_EmptySet
<1>2. SumOf(f, {}) = t[{}]
  BY <1>1, SumFromTable, FS_EmptySet
<1> QED BY <1>1, <1>2, TableEntry

(* The fold takes out the element it picks.                                *)
LEMMA SumPick ==
  ASSUME NEW f, NEW S, IsFiniteSet(S), S # {}
  PROVE  SumOf(f, S) = f[Pick(S)] + SumOf(f, S \ {Pick(S)})
<1>1. PICK t : IsTable(t, f, S)
  BY TableExists
<1>2. PICK z : z = S \ {Pick(S)}
  OBVIOUS
<1>3. z \in SUBSET S /\ IsFiniteSet(z)
  BY <1>2, FS_Subset
<1>4. SumOf(f, S) = t[S] /\ SumOf(f, z) = t[z]
  BY <1>1, <1>3, TableExists, SumFromTable
<1>5. t[S] = f[Pick(S)] + t[z]
  BY <1>1, <1>2, TableEntry
<1> QED BY <1>2, <1>4, <1>5

(* A sum of naturals is a natural.                                         *)
LEMMA SumNat ==
  ASSUME NEW f, NEW S, IsFiniteSet(S), \A x \in S : f[x] \in Nat
  PROVE  SumOf(f, S) \in Nat
<1> DEFINE B == {s \in SUBSET S : SumOf(f, s) \notin Nat}
<1> SUFFICES ASSUME B # {} PROVE FALSE
  OBVIOUS
<1>1. PICK s \in B : \A y \in B : y \subseteq s => y = s
  <2>1. B \subseteq SUBSET S
    OBVIOUS
  <2> HIDE DEF B
  <2> QED BY <2>1, SmallestSubset
<1>2. s # {} /\ IsFiniteSet(s)
  <2>1. s \in SUBSET S /\ SumOf(f, s) \notin Nat
    OBVIOUS
  <2>2. s # {}
    <3>1. SumOf(f, {}) = 0
      BY SumEmpty
    <3> HIDE DEF B
    <3> QED BY <3>1, <2>1
  <2> QED BY <2>1, <2>2, FS_Subset
<1>3. Pick(s) \in s
  BY <1>2, PickIn
<1>4. SumOf(f, s) = f[Pick(s)] + SumOf(f, s \ {Pick(s)})
  BY <1>2, SumPick
<1>5. SumOf(f, s \ {Pick(s)}) \in Nat
  BY <1>1, <1>3
<1>6. f[Pick(s)] \in Nat
  BY <1>3
<1>7. SumOf(f, s) \notin Nat
  OBVIOUS
<1> HIDE DEF B
<1> QED BY <1>4, <1>5, <1>6, <1>7

(* Any element can be taken out of a sum, not only the one the fold picks. *)
LEMMA SumRemove ==
  ASSUME NEW f, NEW S, IsFiniteSet(S), \A x \in S : f[x] \in Nat, NEW r \in S
  PROVE  SumOf(f, S) = f[r] + SumOf(f, S \ {r})
<1> DEFINE B == {s \in SUBSET S : \E x \in s : SumOf(f, s) # f[x] + SumOf(f, s \ {x})}
<1> SUFFICES ASSUME B # {} PROVE FALSE
  OBVIOUS
<1>1. PICK s \in B : \A y \in B : y \subseteq s => y = s
  <2>1. B \subseteq SUBSET S
    OBVIOUS
  <2> HIDE DEF B
  <2> QED BY <2>1, SmallestSubset
<1>2. PICK x \in s : SumOf(f, s) # f[x] + SumOf(f, s \ {x})
  OBVIOUS
<1>3. PICK p : p = Pick(s)
  OBVIOUS
<1>4. p \in s /\ IsFiniteSet(s)
  BY <1>2, <1>3, PickIn, FS_Subset
<1>5. SumOf(f, s) = f[p] + SumOf(f, s \ {p})
  BY <1>3, <1>4, SumPick
<1>6. p # x
  BY <1>2, <1>5
<1>7. \A y \in SUBSET s : y # s => \A z \in y : SumOf(f, y) = f[z] + SumOf(f, y \ {z})
  BY <1>1
<1>8. SumOf(f, s \ {p}) = f[x] + SumOf(f, (s \ {p}) \ {x})
  BY <1>4, <1>6, <1>7
<1>9. SumOf(f, s \ {x}) = f[p] + SumOf(f, (s \ {x}) \ {p})
  BY <1>4, <1>6, <1>7
<1>10. (s \ {p}) \ {x} = (s \ {x}) \ {p}
  OBVIOUS
<1>11. SumOf(f, (s \ {x}) \ {p}) \in Nat
  <2>1. IsFiniteSet((s \ {x}) \ {p})
    BY <1>4, FS_Subset
  <2> QED BY <2>1, SumNat
<1>12. f[p] \in Nat /\ f[x] \in Nat
  BY <1>4
<1> QED BY <1>2, <1>5, <1>8, <1>9, <1>10, <1>11, <1>12

(* An element that was not there adds its own amount.                      *)
LEMMA SumInsert ==
  ASSUME NEW f, NEW S, IsFiniteSet(S), NEW r, r \notin S,
         f[r] \in Nat, \A x \in S : f[x] \in Nat
  PROVE  SumOf(f, S \cup {r}) = f[r] + SumOf(f, S)
<1>1. IsFiniteSet(S \cup {r})
  BY FS_AddElement
<1>2. (S \cup {r}) \ {r} = S
  OBVIOUS
<1> QED BY <1>1, <1>2, SumRemove

(* Sums of equal amounts are equal.                                        *)
LEMMA SumSame ==
  ASSUME NEW f, NEW g, NEW S, IsFiniteSet(S), \A x \in S : f[x] = g[x]
  PROVE  SumOf(f, S) = SumOf(g, S)
<1> DEFINE B == {s \in SUBSET S : SumOf(f, s) # SumOf(g, s)}
<1> SUFFICES ASSUME B # {} PROVE FALSE
  OBVIOUS
<1>1. PICK s \in B : \A y \in B : y \subseteq s => y = s
  <2>1. B \subseteq SUBSET S
    OBVIOUS
  <2> HIDE DEF B
  <2> QED BY <2>1, SmallestSubset
<1>2. s # {} /\ IsFiniteSet(s)
  BY SumEmpty, FS_Subset
<1>3. Pick(s) \in s
  BY <1>2, PickIn
<1>4. /\ SumOf(f, s) = f[Pick(s)] + SumOf(f, s \ {Pick(s)})
      /\ SumOf(g, s) = g[Pick(s)] + SumOf(g, s \ {Pick(s)})
  BY <1>2, SumPick
<1>5. SumOf(f, s \ {Pick(s)}) = SumOf(g, s \ {Pick(s)})
  BY <1>1, <1>3
<1> QED BY <1>3, <1>4, <1>5

(* Sums of sums.                                                           *)
LEMMA SumPlus ==
  ASSUME NEW f, NEW g, NEW h, NEW S, IsFiniteSet(S),
         \A x \in S : f[x] \in Nat /\ g[x] \in Nat /\ h[x] = f[x] + g[x]
  PROVE  SumOf(h, S) = SumOf(f, S) + SumOf(g, S)
<1> DEFINE B == {s \in SUBSET S : SumOf(h, s) # SumOf(f, s) + SumOf(g, s)}
<1> SUFFICES ASSUME B # {} PROVE FALSE
  OBVIOUS
<1>1. PICK s \in B : \A y \in B : y \subseteq s => y = s
  <2>1. B \subseteq SUBSET S
    OBVIOUS
  <2> HIDE DEF B
  <2> QED BY <2>1, SmallestSubset
<1>2. s # {} /\ IsFiniteSet(s)
  <2>1. s \in SUBSET S /\ SumOf(h, s) # SumOf(f, s) + SumOf(g, s)
    OBVIOUS
  <2>2. s # {}
    <3> SUFFICES ASSUME s = {} PROVE FALSE
      OBVIOUS
    <3>1. SumOf(f, s) = 0 /\ SumOf(g, s) = 0 /\ SumOf(h, s) = 0
      BY SumEmpty
    <3> HIDE DEF B
    <3> QED BY <3>1, <2>1
  <2> QED BY <2>1, <2>2, FS_Subset
<1>3. PICK p : p = Pick(s)
  OBVIOUS
<1>4. p \in s
  BY <1>2, <1>3, PickIn
<1>5. /\ SumOf(f, s) = f[p] + SumOf(f, s \ {p})
      /\ SumOf(g, s) = g[p] + SumOf(g, s \ {p})
      /\ SumOf(h, s) = h[p] + SumOf(h, s \ {p})
  BY <1>2, <1>3, SumPick
<1>6. SumOf(h, s \ {p}) = SumOf(f, s \ {p}) + SumOf(g, s \ {p})
  BY <1>1, <1>4
<1>7. SumOf(f, s \ {p}) \in Nat /\ SumOf(g, s \ {p}) \in Nat
  <2>1. IsFiniteSet(s \ {p})
    BY <1>2, FS_RemoveElement
  <2> QED BY <2>1, SumNat
<1>8. f[p] \in Nat /\ g[p] \in Nat /\ h[p] = f[p] + g[p]
  BY <1>4
<1>9. SumOf(h, s) # SumOf(f, s) + SumOf(g, s)
  OBVIOUS
<1> HIDE DEF B
<1> QED BY <1>5, <1>6, <1>7, <1>8, <1>9

(* Amounts of zero can be left out.                                        *)
LEMMA SumDrop ==
  ASSUME NEW f, NEW S, IsFiniteSet(S), NEW T \in SUBSET S,
         \A x \in S : f[x] \in Nat, \A x \in S : x \notin T => f[x] = 0
  PROVE  SumOf(f, S) = SumOf(f, T)
<1> DEFINE B == {s \in SUBSET S : T \subseteq s /\ SumOf(f, s) # SumOf(f, T)}
<1> SUFFICES ASSUME B # {} PROVE FALSE
  OBVIOUS
<1>1. PICK s \in B : \A y \in B : y \subseteq s => y = s
  <2>1. B \subseteq SUBSET S
    OBVIOUS
  <2> HIDE DEF B
  <2> QED BY <2>1, SmallestSubset
<1>2. PICK p \in s : p \notin T
  OBVIOUS
<1>3. IsFiniteSet(s) /\ IsFiniteSet(s \ {p})
  BY FS_Subset
<1>4. SumOf(f, s) = f[p] + SumOf(f, s \ {p})
  BY <1>3, SumRemove
<1>5. SumOf(f, s \ {p}) \in Nat
  BY <1>3, SumNat
<1>6. SumOf(f, s \ {p}) = SumOf(f, T)
  BY <1>1, <1>2
<1>7. f[p] = 0 /\ SumOf(f, s) # SumOf(f, T)
  BY <1>2
<1> HIDE DEF B
<1> QED BY <1>4, <1>5, <1>6, <1>7

(* Counting a list's entries by value or by position adds up to the same.  *)
LEMMA SumCount ==
  ASSUME NEW D, IsFiniteSet(D), NEW key, NEW w, NEW S, IsFiniteSet(S),
         \A x \in S : w[x] \in Nat
  PROVE  SumOf([x \in S |-> w[x] * Cardinality({n \in D : key[n] = x})], S)
           = SumOf([n \in D |-> w[key[n]]], {n \in D : key[n] \in S})
<1> DEFINE C(E) == [x \in S |-> w[x] * Cardinality({n \in E : key[n] = x})]
           V == [n \in D |-> w[key[n]]]
           I(E) == {n \in E : key[n] \in S}
           B == {E \in SUBSET D : SumOf(C(E), S) # SumOf(V, I(E))}
<1> SUFFICES ASSUME B # {} PROVE FALSE
  <2>1. D \notin B => SumOf(C(D), S) = SumOf(V, I(D))
    OBVIOUS
  <2> QED BY <2>1
<1>1. PICK E \in B : \A y \in B : y \subseteq E => y = E
  <2>1. B \subseteq SUBSET D
    OBVIOUS
  <2> HIDE DEF B
  <2> QED BY <2>1, SmallestSubset
<1>2. E \in SUBSET D /\ SumOf(C(E), S) # SumOf(V, I(E))
  OBVIOUS
<1>3. \A F \in SUBSET D : F \subseteq E /\ F # E => SumOf(C(F), S) = SumOf(V, I(F))
  BY <1>1
<1>4. ASSUME NEW F \in SUBSET D, NEW x \in S
      PROVE  /\ Cardinality({n \in F : key[n] = x}) \in Nat
             /\ C(F)[x] = w[x] * Cardinality({n \in F : key[n] = x})
             /\ C(F)[x] \in Nat
  <2>1. Cardinality({n \in F : key[n] = x}) \in Nat
    <3>1. IsFiniteSet({n \in F : key[n] = x})
      <4>1. {n \in F : key[n] = x} \in SUBSET D
        OBVIOUS
      <4> QED BY <4>1, FS_Subset
    <3> QED BY <3>1, FS_CardinalityType
  <2>2. w[x] \in Nat
    OBVIOUS
  <2>3. C(F)[x] = w[x] * Cardinality({n \in F : key[n] = x})
    OBVIOUS
  <2> QED BY <2>1, <2>2, <2>3
<1> HIDE DEF B
<1>5. E # {}
  <2> SUFFICES ASSUME E = {} PROVE FALSE
    OBVIOUS
  <2>1. \A x \in S : C(E)[x] = 0
    <3> SUFFICES ASSUME NEW x \in S PROVE C(E)[x] = 0
      OBVIOUS
    <3>1. {n \in E : key[n] = x} = {}
      OBVIOUS
    <3>2. Cardinality({n \in E : key[n] = x}) = 0
      BY <3>1, FS_EmptySet
    <3>3. C(E)[x] = w[x] * Cardinality({n \in E : key[n] = x}) /\ w[x] \in Nat
      OBVIOUS
    <3> QED BY <3>2, <3>3
  <2>2. SumOf(C(E), S) = SumOf(C(E), {})
    <3>1. {} \in SUBSET S
      OBVIOUS
    <3>2. \A x \in S : C(E)[x] \in Nat
      BY <2>1
    <3>3. PICK f : f = C(E)
      OBVIOUS
    <3> QED BY <3>1, <3>2, <3>3, <2>1, SumDrop
  <2>3. SumOf(C(E), {}) = 0
    BY SumEmpty
  <2>4. I(E) = {}
    OBVIOUS
  <2>5. SumOf(V, I(E)) = 0
    BY <2>4, SumEmpty
  <2> QED BY <2>2, <2>3, <2>5, <1>2
<1>6. PICK m : m \in E
  BY <1>5
<1>7. PICK F : F = E \ {m}
  OBVIOUS
<1>8. F \in SUBSET D /\ F \subseteq E /\ F # E /\ m \in D /\ m \notin F
  BY <1>2, <1>6, <1>7
<1>9. SumOf(C(F), S) = SumOf(V, I(F))
  BY <1>3, <1>8
<1>10. \A x \in S : x # key[m] => C(E)[x] = C(F)[x]
  <2> SUFFICES ASSUME NEW x \in S, x # key[m] PROVE C(E)[x] = C(F)[x]
    OBVIOUS
  <2>1. {n \in E : key[n] = x} = {n \in F : key[n] = x}
    BY <1>7
  <2> QED BY <2>1
<1>11. CASE key[m] \notin S
  <2>1. SumOf(C(E), S) = SumOf(C(F), S)
    <3>1. \A x \in S : C(E)[x] = C(F)[x]
      BY <1>10, <1>11
    <3>2. PICK f, g : f = C(E) /\ g = C(F)
      OBVIOUS
    <3> QED BY <3>1, <3>2, SumSame
  <2>2. I(E) = I(F)
    BY <1>7, <1>11
  <2> QED BY <2>1, <2>2, <1>2, <1>9
<1>12. CASE key[m] \in S
  <2>1. PICK y : y = key[m]
    OBVIOUS
  <2>2. y \in S /\ w[y] \in Nat
    BY <2>1, <1>12
  <2>3. C(E)[y] = C(F)[y] + w[y]
    <3>1. PICK a, b : a = {n \in F : key[n] = y} /\ b = {n \in E : key[n] = y}
      OBVIOUS
    <3>2. b = a \cup {m} /\ m \notin a /\ a \in SUBSET D
      BY <3>1, <2>1, <1>6, <1>7, <1>8
    <3>3. IsFiniteSet(a)
      BY <3>2, FS_Subset
    <3>4. Cardinality(b) = Cardinality(a) + 1 /\ Cardinality(a) \in Nat
      BY <3>2, <3>3, FS_AddElement, FS_CardinalityType
    <3>5. C(E)[y] = w[y] * Cardinality(b) /\ C(F)[y] = w[y] * Cardinality(a)
      BY <3>1, <2>2
    <3> QED BY <3>4, <3>5, <2>2
  <2>4. PICK f, g : f = C(E) /\ g = C(F)
    OBVIOUS
  <2>5. /\ \A x \in S : f[x] \in Nat /\ g[x] \in Nat
        /\ \A x \in S \ {y} : f[x] = g[x]
        /\ f[y] = g[y] + w[y]
        /\ IsFiniteSet(S \ {y})
    BY <2>1, <2>3, <2>4, <1>2, <1>4, <1>8, <1>10, FS_RemoveElement
  <2>6. SumOf(f, S) = f[y] + SumOf(f, S \ {y}) /\ SumOf(g, S) = g[y] + SumOf(g, S \ {y})
    BY <2>2, <2>5, SumRemove
  <2>7. SumOf(f, S \ {y}) = SumOf(g, S \ {y}) /\ SumOf(g, S \ {y}) \in Nat
    BY <2>5, SumSame, SumNat
  <2>8. SumOf(f, S) = w[y] + SumOf(g, S)
    BY <2>2, <2>5, <2>6, <2>7
  <2>9. SumOf(V, I(E)) = w[y] + SumOf(V, I(F))
    <3>1. PICK j, v : j = I(F) /\ v = V
      OBVIOUS
    <3>2. I(E) = j \cup {m} /\ m \notin j
      BY <3>1, <1>6, <1>7, <1>12
    <3>3. IsFiniteSet(j)
      <4>1. j \in SUBSET D
        BY <3>1, <1>8
      <4> QED BY <4>1, FS_Subset
    <3>4. v[m] = w[y] /\ \A n \in j : v[n] \in Nat
      BY <3>1, <2>1, <1>8
    <3>5. SumOf(v, j \cup {m}) = v[m] + SumOf(v, j)
      BY <3>2, <3>3, <3>4, <2>2, SumInsert
    <3> QED BY <3>1, <3>2, <3>4, <3>5
  <2> QED BY <2>4, <2>8, <2>9, <1>2, <1>9
<1> QED BY <1>11, <1>12

(* Sums of one and of two amounts.                                         *)
LEMMA SumSmall ==
  ASSUME NEW f, NEW x, NEW y, x # y, f[x] \in Nat, f[y] \in Nat
  PROVE  /\ SumOf(f, {x}) = f[x]
         /\ SumOf(f, {x} \cup {y}) = f[x] + f[y]
<1>1. IsFiniteSet({}) /\ IsFiniteSet({x})
  BY FS_EmptySet, FS_Singleton
<1>2. SumOf(f, {} \cup {x}) = f[x] + SumOf(f, {})
  BY <1>1, SumInsert
<1>3. SumOf(f, {}) = 0 /\ {} \cup {x} = {x}
  BY SumEmpty
<1>4. SumOf(f, {x}) = f[x]
  BY <1>2, <1>3
<1>5. PICK s : s = {x}
  OBVIOUS
<1>6. SumOf(f, s \cup {y}) = f[y] + SumOf(f, s)
  <2>1. y \notin s /\ IsFiniteSet(s) /\ \A z \in s : f[z] \in Nat
    BY <1>1, <1>5
  <2> QED BY <2>1, SumInsert
<1>7. SumOf(f, s \cup {y}) = f[x] + f[y]
  <2>1. SumOf(f, s) = f[x]
    BY <1>4, <1>5
  <2> QED BY <2>1, <1>6
<1> QED BY <1>4, <1>5, <1>7
=============================================================================
