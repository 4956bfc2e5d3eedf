-------------------------- MODULE SettlementProofs --------------------------
(***************************************************************************)
(* Proofs about delivery versus payment, for any set of trades, terms,     *)
(* specifications and attestations and any bounds: every lock backs an     *)
(* allocation, what the parties own changes only by whole trades, and      *)
(* nothing is delivered to a party that was not eligible.                  *)
(***************************************************************************)
EXTENDS Settlement, Sums

(* All possible holdings of a party in an instrument, and their weights.   *)
Whole(p, i) == {h \in Holdings : h.owner = p /\ h.instrument = i}

Units == [h \in Holdings |-> h.amount]

Value == [h \in Holdings |-> h.amount * holdings[h]]

(* What a holding contributes to a balance.                                *)
Share(h, p, i) == IF h.owner = p /\ h.instrument = i THEN h.amount ELSE 0

(* A list of contracts to archive or to create, and what it is worth.      *)
IsList(l) == IsFiniteSet(DOMAIN l) /\ \A n \in DOMAIN l : l[n] \in Holdings

Worth(l, p, i) ==
  SumOf([n \in DOMAIN l |-> Units[l[n]]], {n \in DOMAIN l : l[n] \in Whole(p, i)})

Counts == holdings \in [Holdings -> Nat]

-----------------------------------------------------------------------------
(* Holdings *)

(* What a specification says of its parties and its amount.                *)
LEMMA SpecFields ==
  ASSUME NEW s \in Specs
  PROVE  /\ s.ref \in Trades /\ s.leg \in LegIds
         /\ s.sender \in Parties /\ s.receiver \in Parties /\ s.instrument \in Instruments
         /\ s.amount \in Amounts /\ s.settleBefore \in Nat /\ s.allocateBefore \in Nat
         /\ s # NoLock
<1>1. s \in [ref : Trades, leg : LegIds, sender : Parties, receiver : Parties,
             instrument : Instruments, amount : Amounts,
             allocateBefore : Nat, settleBefore : Nat]
  BY SettlementAssumption
<1>2. DOMAIN s = {"ref", "leg", "sender", "receiver", "instrument", "amount",
                  "allocateBefore", "settleBefore"}
  BY <1>1
<1>3. DOMAIN NoLock = {"ref"}
  BY DEF NoLock
<1>4. s # NoLock
  BY <1>2, <1>3
<1> QED BY <1>1, <1>4

(* The fields of an unlocked holding.                                      *)
LEMMA UnlockedFields ==
  ASSUME NEW p, NEW i, NEW a
  PROVE  /\ Holding(p, i, a).owner = p /\ Holding(p, i, a).instrument = i
         /\ Holding(p, i, a).amount = a /\ Holding(p, i, a).lock = NoLock
BY DEF Holding

(* The fields of the holding an allocation locks.                          *)
LEMMA LockedFields ==
  ASSUME NEW s
  PROVE  /\ LockedFor(s).owner = s.sender /\ LockedFor(s).instrument = s.instrument
         /\ LockedFor(s).amount = s.amount /\ LockedFor(s).lock = s
BY DEF LockedFor

(* Every holding has a whole, positive amount within the supply.           *)
LEMMA HoldingFields ==
  /\ \A h \in Holdings : /\ h.owner \in Parties /\ h.instrument \in Instruments
                         /\ h.amount \in Amounts /\ h.amount \in Nat /\ h.amount > 0
                         /\ \/ h.lock = NoLock
                            \/ h.lock \in Specs /\ h = LockedFor(h.lock)
  /\ \A p \in Parties, i \in Instruments, a \in Amounts : Holding(p, i, a) \in Holdings
  /\ \A s \in Specs : LockedFor(s) \in Holdings
<1>1. ASSUME NEW h \in Holdings
      PROVE  /\ h.owner \in Parties /\ h.instrument \in Instruments /\ h.amount \in Amounts
             /\ h.lock = NoLock \/ (h.lock \in Specs /\ h = LockedFor(h.lock))
  <2>1. CASE \E p \in Parties, i \in Instruments, a \in Amounts : h = Holding(p, i, a)
    BY <2>1, UnlockedFields
  <2>2. CASE \E s \in Specs : h = LockedFor(s)
    BY <2>2, LockedFields, SpecFields
  <2> QED BY <2>1, <2>2 DEF Holdings
<1>2. \A a \in Amounts : a \in Nat /\ a > 0
  BY SettlementAssumption DEF Amounts
<1>3. \A p \in Parties, i \in Instruments, a \in Amounts : Holding(p, i, a) \in Holdings
  BY DEF Holdings
<1>4. \A s \in Specs : LockedFor(s) \in Holdings
  BY DEF Holdings
<1> QED BY <1>1, <1>2, <1>3, <1>4

(* There are finitely many different holdings.                             *)
LEMMA HoldingsFinite ==
  /\ IsFiniteSet(Holdings)
  /\ \A p, i : IsFiniteSet(Whole(p, i)) /\ Whole(p, i) \subseteq Holdings
<1>1. IsFiniteSet(Parties) /\ IsFiniteSet(Instruments)
  <2>1. Parties = {"seller"} \cup {"buyer"} /\ Instruments = {"treasury"} \cup {"cash"}
    BY DEF Parties, Instruments
  <2> QED BY <2>1, FS_Singleton, FS_AddElement
<1>2. IsFiniteSet(Amounts)
  BY FS_Interval, SettlementAssumption DEF Amounts
<1>3. IsFiniteSet((Parties \X Instruments) \X Amounts)
  BY <1>1, <1>2, FS_Product
<1> DEFINE P == (Parties \X Instruments) \X Amounts
           H == {Holding(p, i, a) : p \in Parties, i \in Instruments, a \in Amounts}
           f == [x \in P |-> Holding(x[1][1], x[1][2], x[2])]
           L == {LockedFor(s) : s \in Specs}
           g == [s \in Specs |-> LockedFor(s)]
<1>4. f \in Surjection(P, H)
  <2>1. f \in [P -> H]
    OBVIOUS
  <2>2. ASSUME NEW t \in H PROVE \E x \in P : f[x] = t
    <3>1. PICK p \in Parties, i \in Instruments, a \in Amounts : t = Holding(p, i, a)
      OBVIOUS
    <3>2. <<<<p, i>>, a>> \in P
      OBVIOUS
    <3>3. f[<<<<p, i>>, a>>] = t
      BY <3>1, <3>2
    <3> QED BY <3>2, <3>3
  <2> HIDE DEF f, P, H
  <2> QED BY <2>1, <2>2 DEF Surjection
<1>5. IsFiniteSet(H)
  <2> HIDE DEF f, P, H
  <2>1. IsFiniteSet(P)
    BY <1>3 DEF P
  <2> QED BY <2>1, <1>4, FS_Surjection
<1>6. g \in Surjection(Specs, L)
  BY DEF Surjection
<1>7. IsFiniteSet(L)
  <2> HIDE DEF g, L
  <2> QED BY <1>6, SettlementAssumption, FS_Surjection
<1>8. IsFiniteSet(Holdings)
  <2>1. Holdings = H \cup L
    BY DEF Holdings
  <2> HIDE DEF H, L
  <2> QED BY <2>1, <1>5, <1>7, FS_Union
<1>9. \A p, i : Whole(p, i) \in SUBSET Holdings
  BY DEF Whole
<1> QED BY <1>8, <1>9, FS_Subset

-----------------------------------------------------------------------------
(* Lists *)

(* The contracts a choice archives and creates one or two at a time.       *)
LEMMA ShortLists ==
  /\ IsList(<<>>)
  /\ \A x \in Holdings : IsList(<<x>>)
  /\ \A x, y \in Holdings : IsList(<<x, y>>)
<1>1. IsFiniteSet({}) /\ IsFiniteSet({1}) /\ IsFiniteSet({1} \cup {2})
  BY FS_EmptySet, FS_Singleton, FS_AddElement
<1>2. DOMAIN <<>> = {}
  OBVIOUS
<1>3. \A x : DOMAIN <<x>> = {1} /\ <<x>>[1] = x
  OBVIOUS
<1>4. \A x, y : DOMAIN <<x, y>> = {1} \cup {2} /\ <<x, y>>[1] = x /\ <<x, y>>[2] = y
  OBVIOUS
<1>5. IsList(<<>>)
  BY <1>1, <1>2 DEF IsList
<1>6. ASSUME NEW x \in Holdings PROVE IsList(<<x>>)
  BY <1>1, <1>3 DEF IsList
<1>7. ASSUME NEW x \in Holdings, NEW y \in Holdings PROVE IsList(<<x, y>>)
  BY <1>1, <1>4 DEF IsList
<1> QED BY <1>5, <1>6, <1>7

Hit(x, h) == IF x = h THEN 1 ELSE 0

(* How often a holding occurs in a short list.                             *)
LEMMA ShortOccurrences ==
  ASSUME NEW h, NEW x, NEW y
  PROVE  /\ Occurrences(h, <<>>) = 0
         /\ Occurrences(h, <<x>>) = Hit(x, h)
         /\ Occurrences(h, <<x, y>>) = Hit(x, h) + Hit(y, h)
<1>1. {n \in DOMAIN <<>> : <<>>[n] = h} = {}
  OBVIOUS
<1>2. {n \in DOMAIN <<x>> : <<x>>[n] = h} = IF x = h THEN {1} ELSE {}
  OBVIOUS
<1>3. {n \in DOMAIN <<x, y>> : <<x, y>>[n] = h}
        = (IF x = h THEN {1} ELSE {}) \cup (IF y = h THEN {2} ELSE {})
  OBVIOUS
<1>4. Cardinality({}) = 0 /\ IsFiniteSet({})
  BY FS_EmptySet
<1>5. \A k : Cardinality({k}) = 1 /\ IsFiniteSet({k})
  BY FS_Singleton
<1>6. Cardinality({1} \cup {2}) = 2
  <2>1. 2 \notin {1}
    OBVIOUS
  <2>2. PICK a : a = {1}
    OBVIOUS
  <2>3. IsFiniteSet(a) /\ Cardinality(a) = 1 /\ 2 \notin a
    BY <2>1, <2>2, <1>5
  <2>4. Cardinality(a \cup {2}) = Cardinality(a) + 1
    BY <2>3, FS_AddElement
  <2> QED BY <2>2, <2>3, <2>4
<1>7. Occurrences(h, <<>>) = 0
  BY <1>1, <1>4 DEF Occurrences
<1>8. Occurrences(h, <<x>>) = Hit(x, h)
  BY <1>2, <1>4, <1>5 DEF Occurrences, Hit
<1>9. Occurrences(h, <<x, y>>) = Hit(x, h) + Hit(y, h)
  <2>1. CASE x = h /\ y = h
    <3>1. {n \in DOMAIN <<x, y>> : <<x, y>>[n] = h} = {1} \cup {2}
      BY <2>1, <1>3
    <3> QED BY <2>1, <3>1, <1>6 DEF Occurrences, Hit
  <2>2. CASE x = h /\ y # h
    <3>1. {n \in DOMAIN <<x, y>> : <<x, y>>[n] = h} = {1}
      BY <2>2, <1>3
    <3>2. Occurrences(h, <<x, y>>) = 1
      BY <3>1, <1>5 DEF Occurrences
    <3>3. Hit(x, h) = 1 /\ Hit(y, h) = 0
      BY <2>2 DEF Hit
    <3> QED BY <3>2, <3>3
  <2>3. CASE x # h /\ y = h
    <3>1. {n \in DOMAIN <<x, y>> : <<x, y>>[n] = h} = {2}
      BY <2>3, <1>3
    <3>2. Occurrences(h, <<x, y>>) = 1
      BY <3>1, <1>5 DEF Occurrences
    <3>3. Hit(x, h) = 0 /\ Hit(y, h) = 1
      BY <2>3 DEF Hit
    <3> QED BY <3>2, <3>3
  <2>4. CASE x # h /\ y # h
    <3>1. {n \in DOMAIN <<x, y>> : <<x, y>>[n] = h} = {}
      BY <2>4, <1>3
    <3> QED BY <2>4, <3>1, <1>4 DEF Occurrences, Hit
  <2> QED BY <2>1, <2>2, <2>3, <2>4
<1> QED BY <1>7, <1>8, <1>9

(* A list's occurrences are counted, and none is found of a holding that   *)
(* is not in it.                                                           *)
LEMMA OccurrencesNat ==
  ASSUME NEW l, IsList(l), NEW h
  PROVE  /\ Occurrences(h, l) \in Nat
         /\ (\A n \in DOMAIN l : l[n] # h) => Occurrences(h, l) = 0
<1>1. {n \in DOMAIN l : l[n] = h} \in SUBSET (DOMAIN l)
  OBVIOUS
<1>2. IsFiniteSet({n \in DOMAIN l : l[n] = h})
  BY <1>1, FS_Subset DEF IsList
<1>3. Occurrences(h, l) \in Nat
  BY <1>2, FS_CardinalityType DEF Occurrences
<1>4. ASSUME \A n \in DOMAIN l : l[n] # h PROVE Occurrences(h, l) = 0
  <2>1. {n \in DOMAIN l : l[n] = h} = {}
    BY <1>4
  <2> QED BY <2>1, FS_EmptySet DEF Occurrences
<1> QED BY <1>3, <1>4

(* A possible holding is in exactly one party's balance.                   *)
LEMMA ShareIs ==
  ASSUME NEW h \in Holdings, NEW p, NEW i
  PROVE  /\ h \in Whole(p, i) => Share(h, p, i) = Units[h]
         /\ h \notin Whole(p, i) => Share(h, p, i) = 0
         /\ Units[h] = h.amount /\ Units[h] \in Nat /\ Share(h, p, i) \in Nat
BY HoldingFields DEF Whole, Share, Units

(* What short lists are worth.                                             *)
LEMMA ShortWorth ==
  ASSUME NEW p, NEW i
  PROVE  /\ Worth(<<>>, p, i) = 0
         /\ \A x \in Holdings : Worth(<<x>>, p, i) = Share(x, p, i)
         /\ \A x, y \in Holdings : Worth(<<x, y>>, p, i) = Share(x, p, i) + Share(y, p, i)
<1>1. Worth(<<>>, p, i) = 0
  <2>1. {n \in DOMAIN <<>> : <<>>[n] \in Whole(p, i)} = {}
    OBVIOUS
  <2> QED BY <2>1, SumEmpty DEF Worth
<1>2. ASSUME NEW x \in Holdings PROVE Worth(<<x>>, p, i) = Share(x, p, i)
  <2>1. PICK l : l = <<x>>
    OBVIOUS
  <2>2. PICK f : f = [n \in DOMAIN l |-> Units[l[n]]]
    OBVIOUS
  <2>3. DOMAIN l = {1} /\ l[1] = x
    BY <2>1
  <2>4. f[1] = Units[x]
    BY <2>2, <2>3
  <2>5. PICK S : S = {n \in DOMAIN l : l[n] \in Whole(p, i)}
    OBVIOUS
  <2>6. Worth(l, p, i) = SumOf(f, S)
    BY <2>2, <2>5 DEF Worth
  <2>7. CASE x \in Whole(p, i)
    <3>1. S = {1}
      BY <2>3, <2>5, <2>7
    <3>2. f[1] \in Nat /\ f[1] = Share(x, p, i)
      BY <2>4, <2>7, ShareIs
    <3>3. SumOf(f, {1}) = f[1]
      <4>1. IsFiniteSet({}) /\ \A z \in {} : f[z] \in Nat
        BY FS_EmptySet
      <4>2. SumOf(f, {} \cup {1}) = f[1] + SumOf(f, {})
        BY <3>2, <4>1, SumInsert
      <4>3. SumOf(f, {}) = 0 /\ {} \cup {1} = {1}
        BY SumEmpty
      <4> QED BY <3>2, <4>2, <4>3
    <3> QED BY <2>1, <2>6, <3>1, <3>2, <3>3
  <2>8. CASE x \notin Whole(p, i)
    <3>1. S = {}
      BY <2>3, <2>5, <2>8
    <3> QED BY <2>1, <2>6, <2>8, <3>1, SumEmpty, ShareIs
  <2> QED BY <2>7, <2>8
<1>3. ASSUME NEW x \in Holdings, NEW y \in Holdings
      PROVE  Worth(<<x, y>>, p, i) = Share(x, p, i) + Share(y, p, i)
  <2>1. PICK l : l = <<x, y>>
    OBVIOUS
  <2>2. PICK f : f = [n \in DOMAIN l |-> Units[l[n]]]
    OBVIOUS
  <2>3. DOMAIN l = {1} \cup {2} /\ l[1] = x /\ l[2] = y
    BY <2>1
  <2>4. f[1] = Units[x] /\ f[2] = Units[y]
    BY <2>2, <2>3
  <2>5. PICK S : S = {n \in DOMAIN l : l[n] \in Whole(p, i)}
    OBVIOUS
  <2>6. Worth(l, p, i) = SumOf(f, S)
    BY <2>2, <2>5 DEF Worth
  <2>7. f[1] \in Nat /\ f[2] \in Nat
    BY <2>4, ShareIs
  <2>8. /\ SumOf(f, {1}) = f[1] /\ SumOf(f, {2}) = f[2]
        /\ SumOf(f, {1} \cup {2}) = f[1] + f[2] /\ SumOf(f, {}) = 0
    <3>1. PICK j, k : j = 1 /\ k = 2
      OBVIOUS
    <3>2. j # k /\ f[j] \in Nat /\ f[k] \in Nat
      BY <3>1, <2>7
    <3>3. /\ SumOf(f, {j}) = f[j] /\ SumOf(f, {k}) = f[k]
          /\ SumOf(f, {j} \cup {k}) = f[j] + f[k]
      BY <3>2, SumSmall
    <3> QED BY <3>1, <3>3, SumEmpty
  <2>9. /\ x \in Whole(p, i) => Share(x, p, i) = f[1]
        /\ x \notin Whole(p, i) => Share(x, p, i) = 0
        /\ y \in Whole(p, i) => Share(y, p, i) = f[2]
        /\ y \notin Whole(p, i) => Share(y, p, i) = 0
    BY <2>4, ShareIs
  <2>10. S = (IF x \in Whole(p, i) THEN {1} ELSE {}) \cup (IF y \in Whole(p, i) THEN {2} ELSE {})
    BY <2>3, <2>5
  <2>11. CASE x \in Whole(p, i) /\ y \in Whole(p, i)
    <3>1. S = {1} \cup {2}
      BY <2>10, <2>11
    <3> QED BY <2>1, <2>6, <2>8, <2>9, <2>11, <3>1
  <2>12. CASE x \in Whole(p, i) /\ y \notin Whole(p, i)
    <3>1. S = {1}
      BY <2>10, <2>12
    <3>2. SumOf(f, S) = f[1]
      BY <2>8, <3>1
    <3> QED BY <2>1, <2>6, <2>7, <2>9, <2>12, <3>2
  <2>13. CASE x \notin Whole(p, i) /\ y \in Whole(p, i)
    <3>1. S = {2}
      BY <2>10, <2>13
    <3>2. SumOf(f, S) = f[2]
      BY <2>8, <3>1
    <3> QED BY <2>1, <2>6, <2>7, <2>9, <2>13, <3>2
  <2>14. CASE x \notin Whole(p, i) /\ y \notin Whole(p, i)
    <3>1. S = {}
      BY <2>10, <2>14
    <3>2. SumOf(f, S) = 0
      BY <2>8, <3>1
    <3> QED BY <2>1, <2>6, <2>9, <2>14, <3>2
  <2> QED BY <2>11, <2>12, <2>13, <2>14
<1> QED BY <1>1, <1>2, <1>3

(* totalInputs adds up the input holdings; all of them are of one owner    *)
(* and instrument, whose balance they are taken from.                      *)
LEMMA InputsWorth ==
  ASSUME NEW l, IsList(l), NEW p, NEW i,
         \A n \in DOMAIN l : l[n].owner = p /\ l[n].instrument = i
  PROVE  /\ Worth(l, p, i) = Total(l)
         /\ \A q, j : q # p \/ j # i => Worth(l, q, j) = 0
<1>1. PICK f : f = [n \in DOMAIN l |-> Units[l[n]]]
  OBVIOUS
<1>2. PICK D : D = DOMAIN l
  OBVIOUS
<1>3. IsFiniteSet(D) /\ \A n \in D : f[n] = l[n].amount /\ f[n] \in Nat
  BY <1>1, <1>2, HoldingFields DEF IsList, Units
<1> DEFINE Q(t) == t = [s \in SUBSET D |-> IF s = {} THEN 0
                                           ELSE l[Pick(s)].amount + t[s \ {Pick(s)}]]
<1>4. Total(l) = (CHOOSE t : Q(t))[D]
  BY <1>2 DEF Total, FoldSeq, FoldFunction, FoldFunctionOnSet, MapThenFoldSet, Pick
<1>5. ASSUME NEW t PROVE Q(t) <=> IsTable(t, f, D)
  <2>1. \A s \in SUBSET D : s # {} => f[Pick(s)] = l[Pick(s)].amount
    BY <1>3, PickIn
  <2> QED BY <2>1 DEF IsTable
<1> HIDE DEF Q
<1>6. \E t : Q(t)
  BY <1>3, <1>5, TableExists
<1>7. PICK c : c = (CHOOSE t : Q(t))
  OBVIOUS
<1>8. IsTable(c, f, D)
  BY <1>5, <1>6, <1>7
<1>9. SumOf(f, D) = c[D]
  BY <1>3, <1>8, SumFromTable
<1>10. {n \in DOMAIN l : l[n] \in Whole(p, i)} = D
  BY <1>2 DEF Whole, IsList
<1>11. Worth(l, p, i) = Total(l)
  BY <1>1, <1>4, <1>7, <1>9, <1>10 DEF Worth
<1>12. ASSUME NEW q, NEW j, q # p \/ j # i PROVE Worth(l, q, j) = 0
  <2>1. {n \in DOMAIN l : l[n] \in Whole(q, j)} = {}
    BY <1>12 DEF Whole
  <2> QED BY <2>1, SumEmpty DEF Worth
<1> QED BY <1>11, <1>12

-----------------------------------------------------------------------------
(* Balances *)

(* A party's balance is the sum over all its possible holdings.            *)
LEMMA BalanceIs ==
  ASSUME NEW p, NEW i
  PROVE  Counts => /\ Balance(p, i) = SumOf(Value, Whole(p, i))
                   /\ Balance(p, i) \in Nat
                   /\ \A h \in Whole(p, i) : Value[h] \in Nat
<1> SUFFICES ASSUME Counts
             PROVE  /\ Balance(p, i) = SumOf(Value, Whole(p, i))
                    /\ Balance(p, i) \in Nat
                    /\ \A h \in Whole(p, i) : Value[h] \in Nat
  OBVIOUS
<1>1. PICK S : S = Owned(p, i)
  OBVIOUS
<1>2. PICK W : W = Whole(p, i)
  OBVIOUS
<1>3. PICK v : v = Value
  OBVIOUS
<1>4. S \in SUBSET W /\ W \subseteq Holdings /\ IsFiniteSet(W) /\ IsFiniteSet(S)
  <2>1. S \in SUBSET W
    BY <1>1, <1>2 DEF Owned, Whole
  <2> QED BY <2>1, <1>2, HoldingsFinite, FS_Subset
<1>5. \A h \in W : v[h] = h.amount * holdings[h] /\ v[h] \in Nat
  BY <1>3, <1>4, HoldingFields DEF Value, Counts
<1>6. \A h \in W : h \notin S => v[h] = 0
  <2> SUFFICES ASSUME NEW h \in W, h \notin S PROVE v[h] = 0
    OBVIOUS
  <2>1. holdings[h] = 0
    BY <1>1, <1>2, <1>4 DEF Owned, Whole, Counts
  <2>2. h.amount \in Nat
    BY <1>4, HoldingFields
  <2> QED BY <2>1, <2>2, <1>5
<1> DEFINE Q(t) == t = [s \in SUBSET S |-> IF s = {} THEN 0
                                           ELSE Pick(s).amount * holdings[Pick(s)]
                                                  + t[s \ {Pick(s)}]]
<1>7. Balance(p, i) = (CHOOSE t : Q(t))[S]
  BY <1>1 DEF Balance, MapThenSumSet, MapThenFoldSet, Pick
<1>8. ASSUME NEW t PROVE Q(t) <=> IsTable(t, v, S)
  <2>1. \A s \in SUBSET S : s # {} => v[Pick(s)] = Pick(s).amount * holdings[Pick(s)]
    BY <1>4, <1>5, PickIn
  <2> QED BY <2>1 DEF IsTable
<1> HIDE DEF Q
<1>9. \E t : Q(t)
  BY <1>4, <1>8, TableExists
<1>10. PICK c : c = (CHOOSE t : Q(t))
  OBVIOUS
<1>11. IsTable(c, v, S)
  BY <1>8, <1>9, <1>10
<1>12. SumOf(v, S) = c[S]
  BY <1>4, <1>11, SumFromTable
<1>13. SumOf(v, W) = SumOf(v, S)
  BY <1>4, <1>5, <1>6, SumDrop
<1>14. SumOf(v, W) \in Nat
  BY <1>4, <1>5, SumNat
<1> QED BY <1>2, <1>3, <1>5, <1>7, <1>10, <1>12, <1>13, <1>14

(* A positive number of a holding is part of the balance.                  *)
LEMMA HeldInBalance ==
  ASSUME NEW h \in Holdings
  PROVE  Counts => holdings[h] <= Balance(h.owner, h.instrument)
<1> SUFFICES ASSUME Counts PROVE holdings[h] <= Balance(h.owner, h.instrument)
  OBVIOUS
<1>1. PICK W, v, x : W = Whole(h.owner, h.instrument) /\ v = Value /\ x = holdings[h]
  OBVIOUS
<1>2. h \in W /\ IsFiniteSet(W) /\ W \subseteq Holdings
  <2>1. h \in W
    BY <1>1 DEF Whole
  <2> QED BY <2>1, <1>1, HoldingsFinite
<1>3. /\ Balance(h.owner, h.instrument) = SumOf(v, W)
      /\ \A g \in W : v[g] \in Nat
  BY <1>1, BalanceIs
<1>4. SumOf(v, W) = v[h] + SumOf(v, W \ {h})
  BY <1>2, <1>3, SumRemove
<1>5. SumOf(v, W \ {h}) \in Nat
  <2>1. IsFiniteSet(W \ {h})
    BY <1>2, FS_RemoveElement
  <2> QED BY <2>1, <1>3, SumNat
<1>6. v[h] = h.amount * x /\ h.amount \in Nat /\ h.amount > 0 /\ x \in Nat
  BY <1>1, HoldingFields DEF Value, Counts
<1>7. h.amount * x >= x
  BY <1>6
<1> QED BY <1>1, <1>3, <1>4, <1>5, <1>6, <1>7

(* The guard of Replace: every archived contract exists.                   *)
Exist(l) == \A n \in DOMAIN l : Occurrences(l[n], l) <= holdings[l[n]]

(* The weights left when a list is archived.                               *)
Rest(l) == [h \in Holdings |-> h.amount * (holdings[h] - Occurrences(h, l))]

(* Archived contracts are taken from the balances of their owners.         *)
LEMMA ArchivedHeld ==
  ASSUME Counts, NEW l, IsList(l), Exist(l), NEW p, NEW i
  PROVE  /\ \A h \in Holdings : holdings[h] - Occurrences(h, l) \in Nat
         /\ \A h \in Whole(p, i) : Rest(l)[h] \in Nat
         /\ SumOf(Rest(l), Whole(p, i)) \in Nat /\ Worth(l, p, i) \in Nat
         /\ Balance(p, i) = SumOf(Rest(l), Whole(p, i)) + Worth(l, p, i)
<1>1. PICK W, v, r : W = Whole(p, i) /\ v = Value /\ r = Rest(l)
  OBVIOUS
<1>2. IsFiniteSet(W) /\ W \subseteq Holdings
  BY <1>1, HoldingsFinite
<1>3. \A h \in Holdings : Occurrences(h, l) \in Nat /\ holdings[h] - Occurrences(h, l) \in Nat
  <2> SUFFICES ASSUME NEW h \in Holdings
               PROVE  Occurrences(h, l) \in Nat /\ holdings[h] - Occurrences(h, l) \in Nat
    OBVIOUS
  <2>1. Occurrences(h, l) \in Nat /\ holdings[h] \in Nat
    BY OccurrencesNat DEF Counts
  <2>2. CASE \E n \in DOMAIN l : l[n] = h
    <3>1. Occurrences(h, l) <= holdings[h]
      BY <2>2 DEF Exist
    <3> QED BY <2>1, <3>1
  <2>3. CASE \A n \in DOMAIN l : l[n] # h
    <3>1. Occurrences(h, l) = 0
      BY <2>3, OccurrencesNat
    <3> QED BY <2>1, <3>1
  <2> QED BY <2>2, <2>3
<1>4. PICK a : a = [h \in W |-> Units[h] * Occurrences(h, l)]
  OBVIOUS
<1>5. ASSUME NEW h \in W
      PROVE  r[h] \in Nat /\ a[h] \in Nat /\ v[h] = r[h] + a[h]
  <2>1. PICK m, x, k : m = h.amount /\ x = holdings[h] /\ k = Occurrences(h, l)
    OBVIOUS
  <2>2. m \in Nat /\ x \in Nat /\ k \in Nat /\ x - k \in Nat
    BY <2>1, <1>2, <1>3, HoldingFields DEF Counts
  <2>3. v[h] = m * x /\ r[h] = m * (x - k) /\ a[h] = m * k
    BY <2>1, <1>1, <1>2, <1>4 DEF Value, Rest, Units
  <2>4. m * x = m * (x - k) + m * k
    BY <2>2
  <2>5. m * (x - k) \in Nat /\ m * k \in Nat
    BY <2>2
  <2> QED BY <2>3, <2>4, <2>5
<1>6. SumOf(v, W) = SumOf(r, W) + SumOf(a, W)
  BY <1>2, <1>5, SumPlus
<1>7. SumOf(r, W) \in Nat /\ SumOf(a, W) \in Nat
  BY <1>2, <1>5, SumNat
<1>8. SumOf(a, W) = Worth(l, p, i)
  <2>1. PICK D, u : D = DOMAIN l /\ u = Units
    OBVIOUS
  <2>2. IsFiniteSet(D) /\ \A x \in W : u[x] \in Nat
    BY <2>1, <1>2, ShareIs DEF IsList
  <2>3. SumOf([x \in W |-> u[x] * Cardinality({n \in D : l[n] = x})], W)
          = SumOf([n \in D |-> u[l[n]]], {n \in D : l[n] \in W})
    BY <2>2, <1>2, SumCount
  <2>4. a = [x \in W |-> u[x] * Cardinality({n \in D : l[n] = x})]
    BY <2>1, <1>4 DEF Occurrences
  <2> QED BY <2>1, <2>3, <2>4, <1>1 DEF Worth
<1>9. Balance(p, i) = SumOf(v, W)
  BY <1>1, BalanceIs
<1> QED BY <1>1, <1>3, <1>5, <1>6, <1>7, <1>8, <1>9

(* Replacing contracts moves exactly what they are worth.                  *)
LEMMA ReplaceBalance ==
  ASSUME Counts, NEW a, IsList(a), NEW c, IsList(c), Replace(a, c)
  PROVE  /\ Counts'
         /\ \A p, i : /\ Worth(a, p, i) \in Nat /\ Worth(c, p, i) \in Nat
                      /\ Worth(a, p, i) <= Balance(p, i)
                      /\ Balance(p, i) \in Nat
                      /\ Balance(p, i)' = Balance(p, i) - Worth(a, p, i) + Worth(c, p, i)
<1>1. Exist(a)
  BY DEF Replace, Exist
<1>2. \A h \in Holdings :
        /\ holdings'[h] = holdings[h] - Occurrences(h, a) + Occurrences(h, c)
        /\ holdings[h] - Occurrences(h, a) \in Nat /\ Occurrences(h, c) \in Nat
  BY <1>1, ArchivedHeld, OccurrencesNat DEF Replace
<1>3. Counts'
  BY <1>2 DEF Replace, Counts
<1>4. ASSUME NEW p, NEW i
      PROVE  /\ Worth(a, p, i) \in Nat /\ Worth(c, p, i) \in Nat
             /\ Worth(a, p, i) <= Balance(p, i)
             /\ Balance(p, i) \in Nat
             /\ Balance(p, i)' = Balance(p, i) - Worth(a, p, i) + Worth(c, p, i)
  <2>1. PICK W, v, r : W = Whole(p, i) /\ v = Value' /\ r = Rest(a)
    OBVIOUS
  <2>2. IsFiniteSet(W) /\ W \subseteq Holdings
    BY <2>1, HoldingsFinite
  <2>3. PICK b : b = [h \in W |-> Units[h] * Occurrences(h, c)]
    OBVIOUS
  <2>4. ASSUME NEW h \in W
        PROVE  r[h] \in Nat /\ b[h] \in Nat /\ v[h] = r[h] + b[h]
    <3>1. PICK m, x, k : m = h.amount /\ x = holdings[h] - Occurrences(h, a)
                           /\ k = Occurrences(h, c)
      OBVIOUS
    <3>2. m \in Nat /\ x \in Nat /\ k \in Nat /\ holdings'[h] = x + k
      BY <3>1, <2>2, <1>2, HoldingFields
    <3>3. v[h] = m * (x + k) /\ r[h] = m * x /\ b[h] = m * k
      BY <3>1, <3>2, <2>1, <2>2, <2>3 DEF Value, Rest, Units
    <3>4. m * (x + k) = m * x + m * k /\ m * x \in Nat /\ m * k \in Nat
      BY <3>2
    <3> QED BY <3>3, <3>4
  <2>5. SumOf(v, W) = SumOf(r, W) + SumOf(b, W)
    BY <2>2, <2>4, SumPlus
  <2>6. SumOf(b, W) = Worth(c, p, i) /\ SumOf(b, W) \in Nat
    <3>1. PICK D, u : D = DOMAIN c /\ u = Units
      OBVIOUS
    <3>2. IsFiniteSet(D) /\ \A x \in W : u[x] \in Nat
      BY <3>1, <2>2, ShareIs DEF IsList
    <3>3. SumOf([x \in W |-> u[x] * Cardinality({n \in D : c[n] = x})], W)
            = SumOf([n \in D |-> u[c[n]]], {n \in D : c[n] \in W})
      BY <3>2, <2>2, SumCount
    <3>4. b = [x \in W |-> u[x] * Cardinality({n \in D : c[n] = x})]
      BY <3>1, <2>3 DEF Occurrences
    <3>5. SumOf(b, W) \in Nat
      BY <2>2, <2>4, SumNat
    <3> QED BY <3>1, <3>3, <3>4, <3>5, <2>1 DEF Worth
  <2>7. Balance(p, i)' = SumOf(v, W)
    <3>1. (Counts => Balance(p, i) = SumOf(Value, Whole(p, i)))'
      BY BalanceIs, PTL
    <3>2. Balance(p, i)' = SumOf(Value', Whole(p, i))
      BY <3>1, <1>3
    <3> QED BY <3>2, <2>1
  <2>8. /\ SumOf(r, W) \in Nat /\ Worth(a, p, i) \in Nat
        /\ Balance(p, i) = SumOf(r, W) + Worth(a, p, i)
    BY <2>1, <1>1, ArchivedHeld
  <2> QED BY <2>5, <2>6, <2>7, <2>8
<1> QED BY <1>3, <1>4

-----------------------------------------------------------------------------
(* What each choice does to the balances and to the locks *)

Locks(s) == holdings[LockedFor(s)]

SameBalances == \A p, i : Balance(p, i)' = Balance(p, i)

SameLocks == \A s \in Specs : Locks(s)' = Locks(s)

(* An unlocked holding is made of its owner, instrument and amount.        *)
LEMMA UnlockedIs ==
  ASSUME NEW h \in Holdings, Unlocked(h)
  PROVE  /\ h = Holding(h.owner, h.instrument, h.amount)
         /\ \A b : [h EXCEPT !.amount = b] = Holding(h.owner, h.instrument, b)
<1>1. PICK p \in Parties, i \in Instruments, a \in Amounts : h = Holding(p, i, a)
  <2>1. \A s \in Specs : h # LockedFor(s)
    BY LockedFields, SpecFields DEF Unlocked
  <2> QED BY <2>1 DEF Holdings
<1>2. h.owner = p /\ h.instrument = i /\ h.amount = a
  BY <1>1, UnlockedFields
<1>3. \A b : [Holding(p, i, a) EXCEPT !.amount = b] = Holding(p, i, b)
  BY DEF Holding
<1> QED BY <1>1, <1>2, <1>3

(* What the kinds of holdings contribute.                                  *)
LEMMA Shares ==
  ASSUME NEW q, NEW j
  PROVE  /\ \A p, i, a : Share(Holding(p, i, a), q, j) = IF p = q /\ i = j THEN a ELSE 0
         /\ \A s : Share(LockedFor(s), q, j)
                     = IF s.sender = q /\ s.instrument = j THEN s.amount ELSE 0
BY UnlockedFields, LockedFields DEF Share

(* Only the lock of a specification counts for its allocations.            *)
LEMMA Hits ==
  ASSUME NEW s \in Specs
  PROVE  /\ \A p, i, a : Hit(Holding(p, i, a), LockedFor(s)) = 0
         /\ \A q \in Specs : Hit(LockedFor(q), LockedFor(s)) = IF q = s THEN 1 ELSE 0
         /\ \A h : Unlocked(h) => h # LockedFor(s)
BY UnlockedFields, LockedFields, SpecFields DEF Hit, Unlocked

(* How many holdings are locked for a specification after a replacement.   *)
LEMMA LocksAfter ==
  ASSUME NEW a, NEW c, Replace(a, c), NEW s \in Specs
  PROVE  Locks(s)' = Locks(s) - Occurrences(LockedFor(s), a) + Occurrences(LockedFor(s), c)
<1>1. LockedFor(s) \in Holdings
  BY HoldingFields
<1> QED BY <1>1 DEF Replace, Locks

(* RegistryFactory_Issue and mint add to one balance.                      *)
LEMMA CreateEffect ==
  ASSUME Counts, NEW p \in Parties, NEW i \in Instruments, NEW a \in Amounts, Create(p, i, a)
  PROVE  /\ Counts' /\ SameLocks
         /\ \A q, j : Balance(q, j)' = Balance(q, j) + (IF p = q /\ i = j THEN a ELSE 0)
<1>1. PICK h : h = Holding(p, i, a)
  OBVIOUS
<1>2. h \in Holdings /\ a \in Nat
  BY <1>1, HoldingFields, UnlockedFields
<1>3. Replace(<<>>, <<h>>)
  BY <1>1 DEF Create
<1>4. IsList(<<>>) /\ IsList(<<h>>)
  BY <1>2, ShortLists
<1>5. /\ Counts'
      /\ \A q, j : /\ Balance(q, j)' = Balance(q, j) - Worth(<<>>, q, j) + Worth(<<h>>, q, j)
                   /\ Balance(q, j) \in Nat
  BY <1>3, <1>4, ReplaceBalance
<1>6. ASSUME NEW q, NEW j
      PROVE  Worth(<<>>, q, j) = 0 /\ Worth(<<h>>, q, j) = IF p = q /\ i = j THEN a ELSE 0
  <2>1. Share(h, q, j) = IF p = q /\ i = j THEN a ELSE 0
    BY <1>1, Shares
  <2> QED BY <2>1, <1>2, ShortWorth
<1>7. \A q, j : Balance(q, j)' = Balance(q, j) + (IF p = q /\ i = j THEN a ELSE 0)
  BY <1>2, <1>5, <1>6
<1>8. ASSUME NEW s \in Specs PROVE Locks(s)' = Locks(s)
  <2>1. Occurrences(LockedFor(s), <<>>) = 0 /\ Occurrences(LockedFor(s), <<h>>) = 0
    <3>1. Hit(h, LockedFor(s)) = 0
      BY <1>1, Hits
    <3> QED BY <3>1, ShortOccurrences
  <2>2. Locks(s) \in Nat
    BY HoldingFields DEF Locks, Counts
  <2> QED BY <1>3, <2>1, <2>2, LocksAfter
<1> QED BY <1>5, <1>7, <1>8 DEF SameLocks

(* burn takes an unlocked holding's amount from its owner's cash.          *)
LEMMA BurnEffect ==
  ASSUME Counts, NEW h \in Holdings, Burn(h)
  PROVE  /\ Counts' /\ SameLocks
         /\ h.instrument = "cash"
         /\ \A q, j : /\ Share(h, q, j) \in Nat /\ Share(h, q, j) <= Balance(q, j)
                      /\ Balance(q, j)' = Balance(q, j) - Share(h, q, j)
<1>1. Replace(<<h>>, <<>>) /\ Unlocked(h) /\ h.instrument = "cash"
  BY DEF Burn
<1>2. IsList(<<>>) /\ IsList(<<h>>)
  BY ShortLists
<1>3. /\ Counts'
      /\ \A q, j : /\ Balance(q, j)' = Balance(q, j) - Worth(<<h>>, q, j) + Worth(<<>>, q, j)
                   /\ Balance(q, j) \in Nat /\ Worth(<<h>>, q, j) <= Balance(q, j)
                   /\ Worth(<<h>>, q, j) \in Nat
  BY <1>1, <1>2, ReplaceBalance
<1>4. \A q, j : Worth(<<>>, q, j) = 0 /\ Worth(<<h>>, q, j) = Share(h, q, j)
  BY ShortWorth
<1>5. ASSUME NEW s \in Specs PROVE Locks(s)' = Locks(s)
  <2>1. Occurrences(LockedFor(s), <<>>) = 0 /\ Occurrences(LockedFor(s), <<h>>) = 0
    BY <1>1, ShortOccurrences, Hits DEF Hit
  <2>2. Locks(s) \in Nat
    BY HoldingFields DEF Locks, Counts
  <2> QED BY <1>1, <2>1, <2>2, LocksAfter
<1>6. \A q, j : /\ Share(h, q, j) \in Nat /\ Share(h, q, j) <= Balance(q, j)
                /\ Balance(q, j)' = Balance(q, j) - Share(h, q, j)
  BY <1>3, <1>4
<1> QED BY <1>1, <1>3, <1>5, <1>6 DEF SameLocks

(* Holding_Split keeps its owner's balance.                                *)
LEMMA SplitEffect ==
  ASSUME Counts, NEW h \in Holdings, NEW a \in Amounts, Split(h, a)
  PROVE  Counts' /\ SameLocks /\ SameBalances
<1>1. PICK p, i, m : p = h.owner /\ i = h.instrument /\ m = h.amount
  OBVIOUS
<1>2. PICK x, y : x = Holding(p, i, a) /\ y = Holding(p, i, m - a)
  OBVIOUS
<1>3. Unlocked(h) /\ 0 < a /\ a < m /\ Replace(<<h>>, <<x, y>>)
  BY <1>1, <1>2, UnlockedIs DEF Split
<1>4. p \in Parties /\ i \in Instruments /\ m \in Amounts
  BY <1>1, HoldingFields
<1>5. a \in Nat /\ m \in Nat /\ m - a \in Amounts
  BY <1>3, <1>4, SettlementAssumption DEF Amounts
<1>6. x \in Holdings /\ y \in Holdings
  BY <1>2, <1>4, <1>5, HoldingFields
<1>7. IsList(<<h>>) /\ IsList(<<x, y>>)
  BY <1>6, ShortLists
<1>8. /\ Counts'
      /\ \A q, j : /\ Balance(q, j)' = Balance(q, j) - Worth(<<h>>, q, j) + Worth(<<x, y>>, q, j)
                   /\ Balance(q, j) \in Nat
  BY <1>3, <1>7, ReplaceBalance
<1>9. ASSUME NEW q, NEW j PROVE Balance(q, j)' = Balance(q, j)
  <2>1. Worth(<<h>>, q, j) = Share(h, q, j) /\ Worth(<<x, y>>, q, j) = Share(x, q, j) + Share(y, q, j)
    BY <1>6, ShortWorth
  <2>2. /\ Share(h, q, j) = IF p = q /\ i = j THEN m ELSE 0
        /\ Share(x, q, j) = IF p = q /\ i = j THEN a ELSE 0
        /\ Share(y, q, j) = IF p = q /\ i = j THEN m - a ELSE 0
    BY <1>1, <1>2, Shares DEF Share
  <2> QED BY <2>1, <2>2, <1>5, <1>8
<1>10. ASSUME NEW s \in Specs PROVE Locks(s)' = Locks(s)
  <2>1. Occurrences(LockedFor(s), <<x, y>>) = 0 /\ Occurrences(LockedFor(s), <<h>>) = 0
    <3>1. Hit(x, LockedFor(s)) = 0 /\ Hit(y, LockedFor(s)) = 0
      BY <1>2, Hits
    <3>2. Hit(h, LockedFor(s)) = 0
      BY <1>3, Hits DEF Hit
    <3>3. /\ Occurrences(LockedFor(s), <<x, y>>) = Hit(x, LockedFor(s)) + Hit(y, LockedFor(s))
          /\ Occurrences(LockedFor(s), <<h>>) = Hit(h, LockedFor(s))
      BY ShortOccurrences
    <3> QED BY <3>1, <3>2, <3>3
  <2>2. Locks(s) \in Nat
    BY HoldingFields DEF Locks, Counts
  <2> QED BY <1>3, <2>1, <2>2, LocksAfter
<1> QED BY <1>8, <1>9, <1>10 DEF SameLocks, SameBalances

(* Holding_Merge keeps its owner's balance: what is merged is held, so the *)
(* sum is within the supply.                                               *)
LEMMA MergeEffect ==
  ASSUME Counts, \A j \in Instruments : Supply(j) <= MaxSupply,
         NEW h \in Holdings, NEW g \in Holdings, Merge(h, g)
  PROVE  Counts' /\ SameLocks /\ SameBalances
<1>1. PICK p, i, m, k : p = h.owner /\ i = h.instrument /\ m = h.amount /\ k = g.amount
  OBVIOUS
<1>2. PICK x : x = Holding(p, i, m + k)
  OBVIOUS
<1>3. /\ Unlocked(h) /\ Unlocked(g) /\ g.instrument = i /\ g.owner = p
      /\ Replace(<<h, g>>, <<x>>)
  BY <1>1, <1>2, UnlockedIs DEF Merge
<1>4. p \in Parties /\ i \in Instruments /\ m \in Nat /\ k \in Nat /\ m > 0 /\ k > 0
  BY <1>1, HoldingFields
<1>5. \A q, j : Worth(<<h, g>>, q, j) = IF p = q /\ i = j THEN m + k ELSE 0
  <2> SUFFICES ASSUME NEW q, NEW j
               PROVE  Worth(<<h, g>>, q, j) = IF p = q /\ i = j THEN m + k ELSE 0
    OBVIOUS
  <2>1. Worth(<<h, g>>, q, j) = Share(h, q, j) + Share(g, q, j)
    BY ShortWorth
  <2>2. /\ Share(h, q, j) = IF p = q /\ i = j THEN m ELSE 0
        /\ Share(g, q, j) = IF p = q /\ i = j THEN k ELSE 0
    BY <1>1, <1>3 DEF Share
  <2> QED BY <2>1, <2>2, <1>4
<1>6. IsList(<<h, g>>)
  BY ShortLists
<1>7. m + k \in Amounts
  <2>1. Exist(<<h, g>>)
    BY <1>3 DEF Replace, Exist
  <2>2. /\ SumOf(Rest(<<h, g>>), Whole(p, i)) \in Nat
        /\ Balance(p, i) = SumOf(Rest(<<h, g>>), Whole(p, i)) + Worth(<<h, g>>, p, i)
    BY <2>1, <1>6, ArchivedHeld
  <2>3. Worth(<<h, g>>, p, i) = m + k
    BY <1>5
  <2>4. m + k <= Balance(p, i)
    BY <2>2, <2>3, <1>4
  <2>5. Balance(p, i) <= MaxSupply
    <3>1. Balance("seller", i) \in Nat /\ Balance("buyer", i) \in Nat
      BY BalanceIs
    <3>2. Supply(i) <= MaxSupply /\ (p = "seller" \/ p = "buyer")
      BY <1>4 DEF Parties
    <3> QED BY <3>1, <3>2, SettlementAssumption DEF Supply
  <2>6. Balance(p, i) \in Nat
    BY BalanceIs
  <2> QED BY <2>4, <2>5, <2>6, <1>4, SettlementAssumption DEF Amounts
<1>8. x \in Holdings /\ IsList(<<x>>)
  BY <1>2, <1>4, <1>7, HoldingFields, ShortLists
<1>9. /\ Counts'
      /\ \A q, j : /\ Balance(q, j)' = Balance(q, j) - Worth(<<h, g>>, q, j) + Worth(<<x>>, q, j)
                   /\ Balance(q, j) \in Nat
  BY <1>3, <1>6, <1>8, ReplaceBalance
<1>10. ASSUME NEW q, NEW j PROVE Balance(q, j)' = Balance(q, j)
  <2>1. Worth(<<x>>, q, j) = Share(x, q, j)
    BY <1>8, ShortWorth
  <2>2. Share(x, q, j) = IF p = q /\ i = j THEN m + k ELSE 0
    BY <1>2, Shares
  <2> QED BY <2>1, <2>2, <1>4, <1>5, <1>9
<1>11. ASSUME NEW s \in Specs PROVE Locks(s)' = Locks(s)
  <2>1. Occurrences(LockedFor(s), <<x>>) = 0 /\ Occurrences(LockedFor(s), <<h, g>>) = 0
    <3>1. Hit(x, LockedFor(s)) = 0
      BY <1>2, Hits
    <3>2. Hit(h, LockedFor(s)) = 0 /\ Hit(g, LockedFor(s)) = 0
      BY <1>3, Hits DEF Hit
    <3>3. /\ Occurrences(LockedFor(s), <<h, g>>) = Hit(h, LockedFor(s)) + Hit(g, LockedFor(s))
          /\ Occurrences(LockedFor(s), <<x>>) = Hit(x, LockedFor(s))
      BY ShortOccurrences
    <3> QED BY <3>1, <3>2, <3>3
  <2>2. Locks(s) \in Nat
    BY HoldingFields DEF Locks, Counts
  <2> QED BY <1>3, <2>1, <2>2, LocksAfter
<1> QED BY <1>9, <1>10, <1>11 DEF SameLocks, SameBalances

(* A replacement of unlocked holdings by the lock of one specification and *)
(* perhaps unlocked change.                                                *)
LEMMA LockOne ==
  ASSUME Counts, NEW l, IsList(l), \A n \in DOMAIN l : Unlocked(l[n]),
         NEW s \in Specs, NEW c, Replace(l, c),
         c = <<LockedFor(s)>> \/ \E p, i, a : c = <<LockedFor(s), Holding(p, i, a)>>
  PROVE  \A q \in Specs : Locks(q)' = IF q = s THEN Locks(q) + 1 ELSE Locks(q)
<1> SUFFICES ASSUME NEW q \in Specs
             PROVE  Locks(q)' = IF q = s THEN Locks(q) + 1 ELSE Locks(q)
  OBVIOUS
<1>1. Occurrences(LockedFor(q), l) = 0
  BY Hits, OccurrencesNat
<1>2. Hit(LockedFor(s), LockedFor(q)) = IF s = q THEN 1 ELSE 0
  BY Hits
<1>3. Occurrences(LockedFor(q), c) = IF s = q THEN 1 ELSE 0
  <2>1. CASE c = <<LockedFor(s)>>
    BY <2>1, <1>2, ShortOccurrences
  <2>2. CASE \E p, i, a : c = <<LockedFor(s), Holding(p, i, a)>>
    <3>1. PICK x : c = <<LockedFor(s), x>> /\ Hit(x, LockedFor(q)) = 0
      BY <2>2, Hits
    <3>2. Occurrences(LockedFor(q), <<LockedFor(s), x>>)
            = Hit(LockedFor(s), LockedFor(q)) + Hit(x, LockedFor(q))
      BY ShortOccurrences
    <3> QED BY <3>1, <3>2, <1>2
  <2> QED BY <2>1, <2>2
<1>4. Locks(q) \in Nat
  BY HoldingFields DEF Locks, Counts
<1> QED BY <1>1, <1>3, <1>4, LocksAfter

(* allocationFactory_allocateImpl locks part of what its sender owns and   *)
(* returns the change: no balance moves.                                   *)
LEMMA AllocateEffect ==
  ASSUME Counts, \A j \in Instruments : Supply(j) <= MaxSupply,
         NEW s \in Specs, NEW l \in SeqOf(Owned(s.sender, s.instrument), MaxInputs),
         Allocate(s, l)
  PROVE  /\ Counts' /\ SameBalances
         /\ \A q \in Specs : Locks(q)' = IF q = s THEN Locks(q) + 1 ELSE Locks(q)
<1>1. PICK p, i, m : p = s.sender /\ i = s.instrument /\ m = s.amount
  OBVIOUS
<1>2. PICK t, r : t = Total(l) /\ r = t - m
  OBVIOUS
<1>3. PICK c : c = IF r > 0 THEN <<LockedFor(s), Holding(p, i, r)>> ELSE <<LockedFor(s)>>
  OBVIOUS
<1>4. /\ \A n \in DOMAIN l : l[n].owner = p /\ l[n].instrument = i /\ Unlocked(l[n])
      /\ t >= m /\ Replace(l, c)
  BY <1>1, <1>2, <1>3 DEF Allocate
<1>5. IsList(l)
  <2>1. PICK z \in 0..MaxInputs : l \in [1..z -> Owned(s.sender, s.instrument)]
    BY DEF SeqOf
  <2>2. IsFiniteSet(1..z)
    BY <2>1, FS_Interval, SettlementAssumption
  <2> QED BY <2>1, <2>2 DEF IsList, Owned
<1>6. p \in Parties /\ i \in Instruments /\ m \in Amounts /\ m \in Nat /\ m > 0
  BY <1>1, SpecFields, SettlementAssumption DEF Amounts
<1>7. Worth(l, p, i) = t /\ \A q, j : q # p \/ j # i => Worth(l, q, j) = 0
  BY <1>2, <1>4, <1>5, InputsWorth
<1>8. t \in Nat /\ t <= MaxSupply
  <2>1. Exist(l)
    BY <1>4 DEF Replace, Exist
  <2>2. /\ SumOf(Rest(l), Whole(p, i)) \in Nat /\ Worth(l, p, i) \in Nat
        /\ Balance(p, i) = SumOf(Rest(l), Whole(p, i)) + Worth(l, p, i)
    BY <2>1, <1>5, ArchivedHeld
  <2>3. Balance("seller", i) \in Nat /\ Balance("buyer", i) \in Nat
    BY BalanceIs
  <2>4. Supply(i) <= MaxSupply /\ (p = "seller" \/ p = "buyer")
    BY <1>6 DEF Parties
  <2>5. Balance(p, i) <= MaxSupply
    BY <2>3, <2>4, SettlementAssumption DEF Supply
  <2>6. t <= Balance(p, i) /\ t \in Nat
    BY <2>2, <1>7
  <2> QED BY <2>3, <2>4, <2>5, <2>6, SettlementAssumption
<1>9. LockedFor(s) \in Holdings
  BY HoldingFields
<1>10. IsList(c) /\ \A q, j : Worth(c, q, j) = IF p = q /\ i = j THEN t ELSE 0
  <2>1. \A q, j : Share(LockedFor(s), q, j) = IF p = q /\ i = j THEN m ELSE 0
    BY <1>1, Shares
  <2>2. CASE r > 0
    <3>1. PICK x : x = Holding(p, i, r)
      OBVIOUS
    <3>2. r \in Amounts /\ m + r = t /\ r \in Nat
      BY <2>2, <1>2, <1>6, <1>8, SettlementAssumption DEF Amounts
    <3>3. x \in Holdings /\ c = <<LockedFor(s), x>>
      BY <3>1, <3>2, <2>2, <1>3, <1>6, HoldingFields
    <3>4. \A q, j : Share(x, q, j) = IF p = q /\ i = j THEN r ELSE 0
      BY <3>1, Shares
    <3>5. \A q, j : Worth(c, q, j) = Share(LockedFor(s), q, j) + Share(x, q, j)
      BY <3>3, <1>9, ShortWorth
    <3>6. IsList(c)
      BY <3>3, <1>9, ShortLists
    <3> QED BY <3>2, <3>4, <3>5, <3>6, <2>1
  <2>3. CASE ~(r > 0)
    <3>1. m = t /\ c = <<LockedFor(s)>>
      BY <2>3, <1>2, <1>3, <1>4, <1>6, <1>8
    <3>2. \A q, j : Worth(c, q, j) = Share(LockedFor(s), q, j)
      BY <3>1, <1>9, ShortWorth
    <3>3. IsList(c)
      BY <3>1, <1>9, ShortLists
    <3> QED BY <3>1, <3>2, <3>3, <2>1
  <2> QED BY <2>2, <2>3
<1>11. /\ Counts'
       /\ \A q, j : /\ Balance(q, j)' = Balance(q, j) - Worth(l, q, j) + Worth(c, q, j)
                    /\ Balance(q, j) \in Nat
  BY <1>4, <1>5, <1>10, ReplaceBalance
<1>12. ASSUME NEW q, NEW j PROVE Balance(q, j)' = Balance(q, j)
  <2>1. Worth(l, q, j) = Worth(c, q, j) /\ Worth(c, q, j) \in Nat
    BY <1>7, <1>8, <1>10
  <2> QED BY <2>1, <1>11
<1>13. c = <<LockedFor(s)>> \/ \E a, b, d : c = <<LockedFor(s), Holding(a, b, d)>>
  BY <1>3
<1>14. \A q \in Specs : Locks(q)' = IF q = s THEN Locks(q) + 1 ELSE Locks(q)
  BY <1>4, <1>5, <1>13, LockOne
<1> QED BY <1>11, <1>12, <1>14 DEF SameBalances

(* Replacing an allocation's locked holding by an unlocked one of the same *)
(* instrument and amount.                                                  *)
LEMMA ReleaseEffect ==
  ASSUME Counts, NEW s \in Specs, NEW p \in Parties,
         Replace(<<LockedFor(s)>>, <<Holding(p, s.instrument, s.amount)>>)
  PROVE  /\ Counts'
         /\ \A q \in Specs : Locks(q)' = IF q = s THEN Locks(q) - 1 ELSE Locks(q)
         /\ \A q, j : /\ Balance(q, j) \in Nat
                      /\ Balance(q, j)' = Balance(q, j)
                           - (IF s.sender = q /\ s.instrument = j THEN s.amount ELSE 0)
                           + (IF p = q /\ s.instrument = j THEN s.amount ELSE 0)
<1>1. PICK k, x : k = LockedFor(s) /\ x = Holding(p, s.instrument, s.amount)
  OBVIOUS
<1>2. k \in Holdings /\ x \in Holdings
  BY <1>1, HoldingFields, SpecFields
<1>3. Replace(<<k>>, <<x>>) /\ IsList(<<k>>) /\ IsList(<<x>>)
  BY <1>1, <1>2, ShortLists
<1>4. /\ Counts'
      /\ \A q, j : /\ Balance(q, j)' = Balance(q, j) - Worth(<<k>>, q, j) + Worth(<<x>>, q, j)
                   /\ Balance(q, j) \in Nat
  BY <1>3, ReplaceBalance
<1>5. ASSUME NEW q, NEW j
      PROVE  /\ Worth(<<k>>, q, j) = IF s.sender = q /\ s.instrument = j THEN s.amount ELSE 0
             /\ Worth(<<x>>, q, j) = IF p = q /\ s.instrument = j THEN s.amount ELSE 0
  <2>1. Worth(<<k>>, q, j) = Share(k, q, j) /\ Worth(<<x>>, q, j) = Share(x, q, j)
    BY <1>2, ShortWorth
  <2> QED BY <2>1, <1>1, Shares
<1>6. ASSUME NEW q \in Specs PROVE Locks(q)' = IF q = s THEN Locks(q) - 1 ELSE Locks(q)
  <2>1. Hit(x, LockedFor(q)) = 0 /\ Hit(k, LockedFor(q)) = IF s = q THEN 1 ELSE 0
    BY <1>1, Hits
  <2>2. /\ Occurrences(LockedFor(q), <<k>>) = Hit(k, LockedFor(q))
        /\ Occurrences(LockedFor(q), <<x>>) = Hit(x, LockedFor(q))
    BY ShortOccurrences
  <2>3. Locks(q) \in Nat
    BY HoldingFields DEF Locks, Counts
  <2>4. Locks(q)' = Locks(q) - Occurrences(LockedFor(q), <<k>>) + Occurrences(LockedFor(q), <<x>>)
    BY <1>3, LocksAfter
  <2> QED BY <2>1, <2>2, <2>3, <2>4
<1> QED BY <1>4, <1>5, <1>6

(* returnToSender gives the sender back what it had locked.                *)
LEMMA ReturnEffect ==
  ASSUME Counts, NEW s \in Specs, ReturnToSender(s)
  PROVE  /\ Counts' /\ SameBalances
         /\ \A q \in Specs : Locks(q)' = IF q = s THEN Locks(q) - 1 ELSE Locks(q)
<1>1. s.sender \in Parties /\ s.amount \in Nat
  BY SpecFields, SettlementAssumption DEF Amounts
<1>2. Replace(<<LockedFor(s)>>, <<Holding(s.sender, s.instrument, s.amount)>>)
  BY DEF ReturnToSender, Returned
<1>3. /\ Counts'
      /\ \A q \in Specs : Locks(q)' = IF q = s THEN Locks(q) - 1 ELSE Locks(q)
      /\ \A q, j : /\ Balance(q, j) \in Nat
                   /\ Balance(q, j)' = Balance(q, j)
                        - (IF s.sender = q /\ s.instrument = j THEN s.amount ELSE 0)
                        + (IF s.sender = q /\ s.instrument = j THEN s.amount ELSE 0)
  BY <1>1, <1>2, ReleaseEffect
<1>4. ASSUME NEW q, NEW j PROVE Balance(q, j)' = Balance(q, j)
  BY <1>1, <1>3
<1> QED BY <1>3, <1>4 DEF SameBalances

(* Allocation_ExecuteTransfer moves the allocation's amount, whole.        *)
LEMMA ExecuteEffect ==
  ASSUME Counts, NEW s \in Specs, ExecuteTransfer(s)
  PROVE  /\ Counts'
         /\ \A q \in Specs : Locks(q)' = IF q = s THEN Locks(q) - 1 ELSE Locks(q)
         /\ \A q, j : /\ Balance(q, j) \in Nat
                      /\ Balance(q, j)' = Balance(q, j)
                           - (IF s.sender = q /\ s.instrument = j THEN s.amount ELSE 0)
                           + (IF s.receiver = q /\ s.instrument = j THEN s.amount ELSE 0)
<1>1. s.receiver \in Parties
  BY SpecFields
<1>2. Replace(<<LockedFor(s)>>, <<Holding(s.receiver, s.instrument, s.amount)>>)
  BY DEF ExecuteTransfer, Delivered
<1> QED BY <1>1, <1>2, ReleaseEffect

(* expectedAllocation: who sends what in each leg of a trade.              *)
LEMMA ExpectedFields ==
  ASSUME NEW t \in Trades
  PROVE  /\ LET d == ExpectedAllocation(t, "delivery")
            IN  /\ d.sender = "seller" /\ d.receiver = "buyer" /\ d.instrument = "treasury"
                /\ d.amount = Terms[t].delivery
         /\ LET c == ExpectedAllocation(t, "payment")
            IN  /\ c.sender = "buyer" /\ c.receiver = "seller" /\ c.instrument = "cash"
                /\ c.amount = Terms[t].payment
         /\ Terms[t].delivery \in Nat \ {0} /\ Terms[t].payment \in Nat \ {0}
<1>1. Terms[t].delivery \in Amounts /\ Terms[t].payment \in Amounts
  BY SettlementAssumption
<1>2. \A a \in Amounts : a \in Nat \ {0}
  BY SettlementAssumption DEF Amounts
<1> QED BY <1>1, <1>2 DEF ExpectedAllocation

(* What a settlement moves in each of the four balances.                   *)
Moved(t, q, j) == IF j = "treasury"
                  THEN IF q = "seller" THEN 0 - Terms[t].delivery ELSE Terms[t].delivery
                  ELSE IF q = "buyer" THEN 0 - Terms[t].payment ELSE Terms[t].payment

(* DvpTrade_Settle moves both legs with the agreed amounts.                *)
LEMMA SettleEffect ==
  ASSUME Counts, NEW t \in Trades, NEW d \in Specs, NEW c \in Specs, Settle(t, d, c)
  PROVE  /\ Counts'
         /\ \A q \in Specs : Locks(q)' = IF q \in {d, c} THEN Locks(q) - 1 ELSE Locks(q)
         /\ \A q \in Parties, j \in Instruments :
              /\ Balance(q, j) \in Nat /\ Balance(q, j)' \in Nat
              /\ Balance(q, j)' = Balance(q, j) + Moved(t, q, j)
<1>1. PICK k, m, x, y : /\ k = LockedFor(d) /\ m = LockedFor(c)
                        /\ x = Delivered(d) /\ y = Delivered(c)
  OBVIOUS
<1>2. /\ d # c /\ Replace(<<k, m>>, <<x, y>>)
      /\ d = ExpectedAllocation(t, "delivery") /\ c = ExpectedAllocation(t, "payment")
  BY <1>1 DEF Settle, Matches
<1>3. /\ k \in Holdings /\ m \in Holdings /\ x \in Holdings /\ y \in Holdings
      /\ x = Holding(d.receiver, d.instrument, d.amount)
      /\ y = Holding(c.receiver, c.instrument, c.amount)
  BY <1>1, HoldingFields, SpecFields DEF Delivered
<1>4. IsList(<<k, m>>) /\ IsList(<<x, y>>)
  BY <1>3, ShortLists
<1>5. /\ Counts'
      /\ \A q, j : /\ Balance(q, j)' = Balance(q, j) - Worth(<<k, m>>, q, j) + Worth(<<x, y>>, q, j)
                   /\ Balance(q, j) \in Nat /\ Worth(<<k, m>>, q, j) <= Balance(q, j)
                   /\ Worth(<<k, m>>, q, j) \in Nat /\ Worth(<<x, y>>, q, j) \in Nat
  BY <1>2, <1>4, ReplaceBalance
<1>6. /\ d.sender = "seller" /\ d.receiver = "buyer" /\ d.instrument = "treasury"
      /\ d.amount = Terms[t].delivery
      /\ c.sender = "buyer" /\ c.receiver = "seller" /\ c.instrument = "cash"
      /\ c.amount = Terms[t].payment
      /\ Terms[t].delivery \in Nat /\ Terms[t].payment \in Nat
  BY <1>2, ExpectedFields
<1>7. ASSUME NEW q \in Parties, NEW j \in Instruments
      PROVE  /\ Balance(q, j) \in Nat /\ Balance(q, j)' \in Nat
             /\ Balance(q, j)' = Balance(q, j) + Moved(t, q, j)
  <2>1. /\ Worth(<<k, m>>, q, j) = Share(k, q, j) + Share(m, q, j)
        /\ Worth(<<x, y>>, q, j) = Share(x, q, j) + Share(y, q, j)
    BY <1>3, ShortWorth
  <2>2. /\ Share(k, q, j) = IF q = "seller" /\ j = "treasury" THEN Terms[t].delivery ELSE 0
        /\ Share(m, q, j) = IF q = "buyer" /\ j = "cash" THEN Terms[t].payment ELSE 0
    BY <1>1, <1>6, Shares
  <2>3. /\ Share(x, q, j) = IF q = "buyer" /\ j = "treasury" THEN Terms[t].delivery ELSE 0
        /\ Share(y, q, j) = IF q = "seller" /\ j = "cash" THEN Terms[t].payment ELSE 0
    BY <1>3, <1>6, Shares
  <2>4. (q = "seller" \/ q = "buyer") /\ (j = "treasury" \/ j = "cash")
    BY DEF Parties, Instruments
  <2>5. PICK b, e, w, v : /\ b = Balance(q, j) /\ e = Balance(q, j)'
                          /\ w = Worth(<<k, m>>, q, j) /\ v = Worth(<<x, y>>, q, j)
    OBVIOUS
  <2>6. e = b - w + v /\ b \in Nat /\ w <= b /\ w \in Nat /\ v \in Nat
    BY <2>5, <1>5
  <2>7. v - w = Moved(t, q, j)
    BY <2>1, <2>2, <2>3, <2>4, <2>5, <1>6 DEF Moved
  <2> QED BY <2>5, <2>6, <2>7
<1>8. ASSUME NEW q \in Specs PROVE Locks(q)' = IF q \in {d, c} THEN Locks(q) - 1 ELSE Locks(q)
  <2>1. Hit(x, LockedFor(q)) = 0 /\ Hit(y, LockedFor(q)) = 0
    BY <1>3, Hits
  <2>2. /\ Hit(k, LockedFor(q)) = IF d = q THEN 1 ELSE 0
        /\ Hit(m, LockedFor(q)) = IF c = q THEN 1 ELSE 0
    BY <1>1, Hits
  <2>3. /\ Occurrences(LockedFor(q), <<k, m>>) = Hit(k, LockedFor(q)) + Hit(m, LockedFor(q))
        /\ Occurrences(LockedFor(q), <<x, y>>) = Hit(x, LockedFor(q)) + Hit(y, LockedFor(q))
    BY ShortOccurrences
  <2>4. Locks(q) \in Nat
    BY HoldingFields DEF Locks, Counts
  <2>5. Locks(q)' = Locks(q) - Occurrences(LockedFor(q), <<k, m>>)
                             + Occurrences(LockedFor(q), <<x, y>>)
    BY <1>2, LocksAfter
  <2>6. Occurrences(LockedFor(q), <<x, y>>) = 0
    BY <2>1, <2>3
  <2>7. Occurrences(LockedFor(q), <<k, m>>) = IF q \in {d, c} THEN 1 ELSE 0
    BY <2>2, <2>3, <1>2
  <2> QED BY <2>4, <2>5, <2>6, <2>7
<1> QED BY <1>5, <1>7, <1>8

-----------------------------------------------------------------------------
(* The inductive invariant *)

SupplyBounded == \A i \in Instruments : Supply(i) <= MaxSupply

(* Whoever sends or receives an allocation was attested when it was made,  *)
(* until its settlement deadline at least; revoking an attestation does    *)
(* not undo that.                                                          *)
AllocatedWhileEligible ==
  \A s \in Specs : allocations[s] > 0 =>
    \A p \in {s.sender, s.receiver} :
      \E e \in Attestations :
        /\ attested[e] # "absent" /\ e.status = "Eligible"
        /\ e.instrument = s.instrument /\ e.investor = p
        /\ e.from <= now /\ s.settleBefore <= e.until

(* The bound on the supply keeps every holding that is merged or returned  *)
(* as change among the holdings; the locks are what the allocations'       *)
(* execution finds.                                                        *)
SInv == TypeOK /\ LocksBackAllocations /\ SupplyBounded /\ AllocatedWhileEligible

(* The steps by what they do to holdings and allocations.                  *)
LEMMA StepCases ==
  ASSUME [Next]_vars
  PROVE  \/ \E p \in Parties, i \in Instruments, a \in Amounts : Create(p, i, a)
         \/ \E h \in Holdings : Burn(h)
         \/ \E h \in Holdings, a \in Amounts : Split(h, a)
         \/ \E h \in Holdings, g \in Holdings : Merge(h, g)
         \/ \E s \in Specs : /\ allocations[s] < MaxCopies
                             /\ \E l \in SeqOf(Owned(s.sender, s.instrument), MaxInputs) :
                                  Allocate(s, l)
         \/ \E s \in Specs : ReturnToSender(s)
         \/ \E s \in Joint : ExecuteTransfer(s)
         \/ \E t \in Trades, d \in Specs, c \in Specs : Settle(t, d, c)
         \/ UNCHANGED <<holdings, allocations>>
<1>1. CASE UNCHANGED vars
  BY <1>1 DEF vars
<1>2. CASE \E p \in Parties, a \in Amounts : Issue(p, a) \/ Mint(p, a)
  BY <1>2 DEF Issue, Mint, Instruments
<1>3. CASE \E s \in Specs : Withdraw(s) \/ Cancel(s)
  BY <1>3 DEF Withdraw, Cancel
<1>4. CASE \/ \E e \in Attestations : Attest(e)
           \/ \E e \in Revocable : Revoke(e)
           \/ \E t \in Trades : \/ Propose(t) \/ RejectProposal(t)
                                \/ InitiateSettlement(t) \/ EndRequest(t)
                                \/ \E p \in Parties : Accept(t, p)
           \/ Tick
  BY <1>4 DEF Attest, Revoke, Propose, RejectProposal, EndRequest, End, InitiateSettlement,
              Accept, Tick
<1>5. CASE \/ \E h \in Holdings : \/ Burn(h)
                                  \/ \E a \in Amounts : Split(h, a)
                                  \/ \E g \in Holdings : Merge(h, g)
           \/ \E s \in Specs : /\ allocations[s] < MaxCopies
                               /\ \E l \in SeqOf(Owned(s.sender, s.instrument), MaxInputs) :
                                    Allocate(s, l)
           \/ \E s \in Joint : ExecuteTransfer(s)
           \/ \E t \in Trades, d \in Specs, c \in Specs : Settle(t, d, c)
  BY <1>5
<1> QED BY <1>1, <1>2, <1>3, <1>4, <1>5 DEF Next

(* Where no holding changes, no balance does.                              *)
LEMMA FrameEffect ==
  ASSUME Counts, UNCHANGED holdings
  PROVE  Counts' /\ SameBalances /\ SameLocks
<1>1. Counts' /\ Value' = Value
  BY DEF Counts, Value
<1>2. ASSUME NEW p, NEW i PROVE Balance(p, i)' = Balance(p, i)
  <2>1. (Counts => Balance(p, i) = SumOf(Value, Whole(p, i)))'
    BY BalanceIs, PTL
  <2>2. Balance(p, i)' = SumOf(Value', Whole(p, i))
    BY <2>1, <1>1
  <2>3. Balance(p, i) = SumOf(Value, Whole(p, i))
    BY BalanceIs
  <2> QED BY <2>2, <2>3, <1>1
<1>3. SameLocks
  BY DEF SameLocks, Locks
<1> QED BY <1>1, <1>2, <1>3 DEF SameBalances

(* Only issuing and minting enlarge what is outstanding, and they stop at  *)
(* the bound.                                                              *)
LEMMA SupplyStep ==
  ASSUME SInv, [Next]_vars
  PROVE  Counts' /\ SupplyBounded'
<1>1. Counts /\ SupplyBounded
  BY SettlementAssumption DEF SInv, TypeOK, Counts
<1>2. \A p, i : Balance(p, i) \in Nat
  BY <1>1, BalanceIs
<1>3. SameBalances => SupplyBounded'
  BY <1>1 DEF SameBalances, SupplyBounded, Supply
<1>4. ASSUME NEW p \in Parties, NEW i \in Instruments, NEW a \in Amounts, Create(p, i, a)
      PROVE  Counts' /\ SupplyBounded'
  <2>1. /\ Counts'
        /\ \A q, j : Balance(q, j)' = Balance(q, j) + (IF p = q /\ i = j THEN a ELSE 0)
    BY <1>1, <1>4, CreateEffect
  <2>2. Supply(i) + a <= MaxSupply /\ a \in Nat /\ MaxSupply \in Nat
    BY <1>4, SettlementAssumption DEF Create, Amounts
  <2>3. ASSUME NEW j \in Instruments PROVE Supply(j)' <= MaxSupply
    <3>1. PICK u, v : u = Balance("seller", j) /\ v = Balance("buyer", j)
      OBVIOUS
    <3>2. u \in Nat /\ v \in Nat /\ Supply(j) = u + v /\ Supply(j) <= MaxSupply
      BY <3>1, <1>1, <1>2 DEF Supply, SupplyBounded
    <3>3. Supply(j)' = Balance("seller", j)' + Balance("buyer", j)'
      BY DEF Supply
    <3>4. CASE j # i
      BY <3>1, <3>2, <3>3, <3>4, <2>1
    <3>5. CASE j = i /\ p = "seller"
      <4>1. Balance("seller", j)' = u + a /\ Balance("buyer", j)' = v + 0
        BY <3>1, <3>5, <2>1
      <4> QED BY <4>1, <3>2, <3>3, <3>5, <2>2
    <3>6. CASE j = i /\ p = "buyer"
      <4>1. Balance("seller", j)' = u + 0 /\ Balance("buyer", j)' = v + a
        BY <3>1, <3>6, <2>1
      <4> QED BY <4>1, <3>2, <3>3, <3>6, <2>2
    <3> QED BY <3>4, <3>5, <3>6 DEF Parties
  <2> QED BY <2>1, <2>3 DEF SupplyBounded
<1>5. ASSUME NEW h \in Holdings, Burn(h) PROVE Counts' /\ SupplyBounded'
  <2>1. /\ Counts'
        /\ \A q, j : /\ Share(h, q, j) \in Nat
                     /\ Balance(q, j)' = Balance(q, j) - Share(h, q, j)
    BY <1>1, <1>5, BurnEffect
  <2>2. ASSUME NEW j \in Instruments PROVE Supply(j)' <= MaxSupply
    <3>1. PICK u, v, x, y : /\ u = Balance("seller", j) /\ v = Balance("buyer", j)
                            /\ x = Share(h, "seller", j) /\ y = Share(h, "buyer", j)
      OBVIOUS
    <3>2. u \in Nat /\ v \in Nat /\ x \in Nat /\ y \in Nat /\ u + v <= MaxSupply
      BY <3>1, <2>1, <1>1, <1>2 DEF Supply, SupplyBounded
    <3>3. Supply(j)' = (u - x) + (v - y)
      BY <3>1, <2>1 DEF Supply
    <3> QED BY <3>2, <3>3, SettlementAssumption
  <2> QED BY <2>1, <2>2 DEF SupplyBounded
<1>6. ASSUME NEW s \in Specs, ExecuteTransfer(s) PROVE Counts' /\ SupplyBounded'
  <2>1. /\ Counts'
        /\ \A q, j : Balance(q, j)' = Balance(q, j)
                       - (IF s.sender = q /\ s.instrument = j THEN s.amount ELSE 0)
                       + (IF s.receiver = q /\ s.instrument = j THEN s.amount ELSE 0)
    BY <1>1, <1>6, ExecuteEffect
  <2>2. s.amount \in Nat /\ s.sender \in {"seller", "buyer"} /\ s.receiver \in {"seller", "buyer"}
    BY SpecFields, SettlementAssumption DEF Amounts, Parties
  <2>3. ASSUME NEW j \in Instruments PROVE Supply(j)' <= MaxSupply
    <3>1. PICK u, v, m : u = Balance("seller", j) /\ v = Balance("buyer", j) /\ m = s.amount
      OBVIOUS
    <3>2. u \in Nat /\ v \in Nat /\ m \in Nat /\ u + v <= MaxSupply
      BY <3>1, <2>2, <1>1, <1>2 DEF Supply, SupplyBounded
    <3>3. /\ Balance("seller", j)' = u - (IF s.sender = "seller" /\ s.instrument = j THEN m ELSE 0)
                                       + (IF s.receiver = "seller" /\ s.instrument = j THEN m ELSE 0)
          /\ Balance("buyer", j)' = v - (IF s.sender = "buyer" /\ s.instrument = j THEN m ELSE 0)
                                      + (IF s.receiver = "buyer" /\ s.instrument = j THEN m ELSE 0)
      BY <3>1, <2>1
    <3>4. Balance("seller", j)' + Balance("buyer", j)' = u + v
      <4>1. PICK b, e, i, p, q : /\ b = Balance("seller", j)' /\ e = Balance("buyer", j)'
                                 /\ i = s.instrument /\ p = s.sender /\ q = s.receiver
        OBVIOUS
      <4>2. /\ b = u - (IF p = "seller" /\ i = j THEN m ELSE 0)
                   + (IF q = "seller" /\ i = j THEN m ELSE 0)
            /\ e = v - (IF p = "buyer" /\ i = j THEN m ELSE 0)
                   + (IF q = "buyer" /\ i = j THEN m ELSE 0)
            /\ p = "seller" \/ p = "buyer"
            /\ q = "seller" \/ q = "buyer"
        BY <4>1, <3>3, <2>2
      <4>3. b + e = u + v
        BY <4>2, <3>2
      <4> QED BY <4>1, <4>3
    <3> QED BY <3>2, <3>4 DEF Supply
  <2> QED BY <2>1, <2>3 DEF SupplyBounded
<1>7. ASSUME NEW t \in Trades, NEW d \in Specs, NEW c \in Specs, Settle(t, d, c)
      PROVE  Counts' /\ SupplyBounded'
  <2>1. /\ Counts'
        /\ \A q \in Parties, j \in Instruments : Balance(q, j)' = Balance(q, j) + Moved(t, q, j)
    BY <1>1, <1>7, SettleEffect
  <2>2. Terms[t].delivery \in Nat /\ Terms[t].payment \in Nat
    BY ExpectedFields
  <2>3. ASSUME NEW j \in Instruments PROVE Supply(j)' <= MaxSupply
    <3>1. PICK u, v : u = Balance("seller", j) /\ v = Balance("buyer", j)
      OBVIOUS
    <3>2. u \in Nat /\ v \in Nat /\ u + v <= MaxSupply
      BY <3>1, <1>1, <1>2 DEF Supply, SupplyBounded
    <3>3. /\ Balance("seller", j)' = u + Moved(t, "seller", j)
          /\ Balance("buyer", j)' = v + Moved(t, "buyer", j)
      BY <3>1, <2>1 DEF Parties
    <3>4. Moved(t, "seller", j) \in Int /\ Moved(t, "buyer", j) = 0 - Moved(t, "seller", j)
      BY <2>2 DEF Moved
    <3> QED BY <3>2, <3>3, <3>4 DEF Supply
  <2> QED BY <2>1, <2>3 DEF SupplyBounded
<1>8. CASE \/ \E h \in Holdings, a \in Amounts : Split(h, a)
           \/ \E h \in Holdings, g \in Holdings : Merge(h, g)
           \/ \E s \in Specs : ReturnToSender(s)
           \/ \E s \in Specs : \E l \in SeqOf(Owned(s.sender, s.instrument), MaxInputs) :
                                 Allocate(s, l)
           \/ UNCHANGED holdings
  <2>1. Counts' /\ SameBalances
    BY <1>1, <1>8, SplitEffect, MergeEffect, ReturnEffect, AllocateEffect, FrameEffect
       DEF SupplyBounded
  <2> QED BY <2>1, <1>3
<1>9. \A s \in Joint : s \in Specs
  BY SettlementAssumption
<1> QED BY <1>4, <1>5, <1>6, <1>7, <1>8, <1>9, StepCases

(* Allocating locks one holding, returning and executing unlock the        *)
(* allocation's own, and nothing else touches a lock.                      *)
LEMMA LockStep ==
  ASSUME SInv, [Next]_vars
  PROVE  /\ allocations' \in [Specs -> 0..MaxCopies]
         /\ \A q \in Specs : Locks(q)' = allocations'[q]
<1>1. Counts /\ SupplyBounded /\ MaxCopies \in Nat
  BY SettlementAssumption DEF SInv, TypeOK, Counts
<1>2. /\ allocations \in [Specs -> 0..MaxCopies]
      /\ \A q \in Specs : Locks(q) = allocations[q]
  BY DEF SInv, TypeOK, LocksBackAllocations, Locks
<1>3. CASE allocations' = allocations /\ SameLocks
  BY <1>2, <1>3 DEF SameLocks
<1>4. ASSUME NEW s \in Specs, allocations[s] < MaxCopies,
             NEW l \in SeqOf(Owned(s.sender, s.instrument), MaxInputs), Allocate(s, l)
      PROVE  /\ allocations' \in [Specs -> 0..MaxCopies]
             /\ \A q \in Specs : Locks(q)' = allocations'[q]
  <2>1. \A q \in Specs : Locks(q)' = IF q = s THEN Locks(q) + 1 ELSE Locks(q)
    BY <1>1, <1>4, AllocateEffect DEF SupplyBounded
  <2>2. allocations' = [allocations EXCEPT ![s] = allocations[s] + 1]
    BY <1>4 DEF Allocate
  <2>3. allocations[s] + 1 \in 0..MaxCopies
    BY <1>1, <1>2, <1>4
  <2> QED BY <2>1, <2>2, <2>3, <1>2
<1>5. ASSUME NEW s \in Specs, ReturnToSender(s) \/ ExecuteTransfer(s)
      PROVE  /\ allocations' \in [Specs -> 0..MaxCopies]
             /\ \A q \in Specs : Locks(q)' = allocations'[q]
  <2>1. \A q \in Specs : Locks(q)' = IF q = s THEN Locks(q) - 1 ELSE Locks(q)
    BY <1>1, <1>5, ReturnEffect, ExecuteEffect
  <2>2. allocations' = [allocations EXCEPT ![s] = allocations[s] - 1] /\ allocations[s] > 0
    BY <1>5 DEF ReturnToSender, ExecuteTransfer
  <2>3. allocations[s] - 1 \in 0..MaxCopies
    BY <1>1, <1>2, <2>2
  <2> QED BY <2>1, <2>2, <2>3, <1>2
<1>6. ASSUME NEW t \in Trades, NEW d \in Specs, NEW c \in Specs, Settle(t, d, c)
      PROVE  /\ allocations' \in [Specs -> 0..MaxCopies]
             /\ \A q \in Specs : Locks(q)' = allocations'[q]
  <2>1. \A q \in Specs : Locks(q)' = IF q \in {d, c} THEN Locks(q) - 1 ELSE Locks(q)
    BY <1>1, <1>6, SettleEffect
  <2>2. /\ allocations' = [allocations EXCEPT ![d] = @ - 1, ![c] = @ - 1]
        /\ allocations[d] > 0 /\ allocations[c] > 0 /\ d # c
    BY <1>6 DEF Settle
  <2>3. allocations[d] - 1 \in 0..MaxCopies /\ allocations[c] - 1 \in 0..MaxCopies
    BY <1>1, <1>2, <2>2
  <2>4. /\ allocations' \in [Specs -> 0..MaxCopies]
        /\ \A q \in Specs : allocations'[q] = IF q \in {d, c} THEN allocations[q] - 1
                                                              ELSE allocations[q]
    BY <2>2, <2>3, <1>2
  <2> QED BY <2>1, <2>4, <1>2
<1>7. CASE \E p \in Parties, i \in Instruments, a \in Amounts : Create(p, i, a)
  BY <1>1, <1>3, <1>7, CreateEffect DEF Create
<1>8. CASE \E h \in Holdings : Burn(h)
  BY <1>1, <1>3, <1>8, BurnEffect DEF Burn
<1>9. CASE \E h \in Holdings, a \in Amounts : Split(h, a)
  BY <1>1, <1>3, <1>9, SplitEffect DEF Split
<1>10. CASE \E h \in Holdings, g \in Holdings : Merge(h, g)
  BY <1>1, <1>3, <1>10, MergeEffect DEF Merge, SupplyBounded
<1>11. CASE UNCHANGED <<holdings, allocations>>
  BY <1>1, <1>3, <1>11, FrameEffect
<1>12. \A s \in Joint : s \in Specs
  BY SettlementAssumption
<1> QED BY <1>4, <1>5, <1>6, <1>7, <1>8, <1>9, <1>10, <1>11, <1>12, StepCases

(* The states of trades, attestations and time.                            *)
LEMMA ContractStep ==
  ASSUME TypeOK, [Next]_vars
  PROVE  /\ trade' \in [Trades -> {"none", "proposed", "open", "settled", "ended"}]
         /\ approvers' \in [Trades -> SUBSET Parties]
         /\ attested' \in [Attestations -> {"absent", "active", "revoked"}]
         /\ now' \in 0..MaxTime /\ now <= now'
         /\ \A e \in Attestations : attested[e] # "absent" => attested'[e] # "absent"
<1>1. CASE UNCHANGED <<contracts, attested, now>>
  BY <1>1, SettlementAssumption DEF contracts, TypeOK
<1>2. CASE Tick
  BY <1>2, SettlementAssumption DEF Tick, contracts, TypeOK
<1>3. CASE (\E e \in Attestations : Attest(e)) \/ (\E e \in Revocable : Revoke(e))
  <2>1. UNCHANGED <<contracts, now>>
    BY <1>3 DEF Attest, Revoke
  <2>2. PICK e \in Attestations : attested' = [attested EXCEPT ![e] = "active"]
                                   \/ attested' = [attested EXCEPT ![e] = "revoked"]
    BY <1>3, SettlementAssumption DEF Attest, Revoke
  <2> QED BY <2>1, <2>2, SettlementAssumption DEF contracts, TypeOK
<1>4. ASSUME NEW t \in Trades,
             \/ Propose(t) \/ RejectProposal(t) \/ InitiateSettlement(t) \/ EndRequest(t)
             \/ \E p \in Parties : Accept(t, p)
             \/ \E d, c \in Specs : Settle(t, d, c)
      PROVE  /\ trade' \in [Trades -> {"none", "proposed", "open", "settled", "ended"}]
             /\ approvers' \in [Trades -> SUBSET Parties]
             /\ UNCHANGED <<attested, now>>
  BY <1>4 DEF Propose, RejectProposal, InitiateSettlement, EndRequest, End, Accept, Settle, TypeOK
<1>5. \/ UNCHANGED <<contracts, attested, now>>
      \/ Tick
      \/ (\E e \in Attestations : Attest(e)) \/ (\E e \in Revocable : Revoke(e))
      \/ \E t \in Trades : \/ Propose(t) \/ RejectProposal(t) \/ InitiateSettlement(t)
                           \/ EndRequest(t)
                           \/ \E p \in Parties : Accept(t, p)
                           \/ \E d, c \in Specs : Settle(t, d, c)
  BY DEF Next, vars, Issue, Mint, Create, Burn, Split, Merge, Allocate, Withdraw, Cancel,
         ReturnToSender, ExecuteTransfer
<1>6. now \in 0..MaxTime /\ MaxTime \in Nat
  BY SettlementAssumption DEF TypeOK
<1>7. CASE /\ trade' \in [Trades -> {"none", "proposed", "open", "settled", "ended"}]
           /\ approvers' \in [Trades -> SUBSET Parties]
           /\ UNCHANGED <<attested, now>>
  BY <1>6, <1>7 DEF TypeOK
<1> QED BY <1>1, <1>2, <1>3, <1>4, <1>5, <1>7

(* requireEligible asked for validity until the deadline, and attestations *)
(* are never forgotten.                                                    *)
LEMMA EligibleStep ==
  ASSUME SInv, [Next]_vars
  PROVE  AllocatedWhileEligible'
<1>1. /\ now \in Nat /\ now' \in Nat /\ now <= now'
      /\ \A e \in Attestations : /\ attested[e] # "absent" => attested'[e] # "absent"
                                 /\ e.from \in Nat
  BY ContractStep, SettlementAssumption DEF SInv, TypeOK
<1>2. allocations \in [Specs -> Nat] /\ allocations' \in [Specs -> Nat]
  BY LockStep, SettlementAssumption DEF SInv, TypeOK
<1> SUFFICES ASSUME NEW s \in Specs, allocations'[s] > 0, NEW p \in {s.sender, s.receiver}
             PROVE  \E e \in Attestations :
                      /\ attested'[e] # "absent" /\ e.status = "Eligible"
                      /\ e.instrument = s.instrument /\ e.investor = p
                      /\ e.from <= now' /\ s.settleBefore <= e.until
  BY DEF AllocatedWhileEligible
<1>3. CASE \E e \in Attestations :
             /\ attested[e] # "absent" /\ e.status = "Eligible"
             /\ e.instrument = s.instrument /\ e.investor = p
             /\ e.from <= now /\ s.settleBefore <= e.until
  BY <1>1, <1>3
<1>4. CASE allocations[s] > 0
  BY <1>3, <1>4 DEF SInv, AllocatedWhileEligible
<1>5. CASE EligibleParties(s)
  <2>1. PICK e \in Attestations :
          attested[e] = "active" /\ RequireEligible(e, s.instrument, p, s.settleBefore)
    BY <1>5 DEF EligibleParties
  <2> QED BY <2>1, <1>3 DEF RequireEligible
<1>6. allocations[s] > 0 \/ EligibleParties(s)
  <2> SUFFICES ASSUME ~(allocations[s] > 0) PROVE EligibleParties(s)
    OBVIOUS
  <2>1. CASE \E q \in Specs : \E l \in SeqOf(Owned(q.sender, q.instrument), MaxInputs) : Allocate(q, l)
    <3>1. PICK q \in Specs : /\ allocations' = [allocations EXCEPT ![q] = @ + 1]
                             /\ EligibleParties(q)
      BY <2>1 DEF Allocate
    <3>2. q = s
      BY <3>1, <1>2
    <3> QED BY <3>1, <3>2
  <2>2. CASE allocations' = allocations
    BY <2>2
  <2>3. CASE \E q \in Specs : ReturnToSender(q) \/ ExecuteTransfer(q)
    <3>1. PICK q \in Specs : allocations' = [allocations EXCEPT ![q] = allocations[q] - 1]
      BY <2>3 DEF ReturnToSender, ExecuteTransfer
    <3> QED BY <3>1, <1>2
  <2>4. CASE \E t \in Trades, d \in Specs, c \in Specs : Settle(t, d, c)
    <3>1. PICK d \in Specs, c \in Specs :
            allocations' = [allocations EXCEPT ![d] = @ - 1, ![c] = @ - 1] /\ d # c
      BY <2>4 DEF Settle
    <3> QED BY <3>1, <1>2
  <2>5. \A q \in Joint : q \in Specs
    BY SettlementAssumption
  <2>6. \/ allocations' = allocations
        \/ \E q \in Specs : \E l \in SeqOf(Owned(q.sender, q.instrument), MaxInputs) : Allocate(q, l)
        \/ \E q \in Specs : ReturnToSender(q) \/ ExecuteTransfer(q)
        \/ \E t \in Trades, d \in Specs, c \in Specs : Settle(t, d, c)
    BY <2>5, StepCases DEF Create, Burn, Split, Merge
  <2> QED BY <2>1, <2>2, <2>3, <2>4, <2>6
<1> QED BY <1>4, <1>5, <1>6

(* The supply bounds every count of holdings.                              *)
LEMMA HoldingsTyped == Counts /\ SupplyBounded => holdings \in [Holdings -> 0..MaxSupply]
<1> SUFFICES ASSUME Counts, SupplyBounded PROVE holdings \in [Holdings -> 0..MaxSupply]
  OBVIOUS
<1>1. ASSUME NEW h \in Holdings PROVE holdings[h] \in 0..MaxSupply
  <2>1. h.owner \in Parties /\ h.instrument \in Instruments
    BY HoldingFields
  <2>2. holdings[h] <= Balance(h.owner, h.instrument) /\ holdings[h] \in Nat
    BY HeldInBalance DEF Counts
  <2>3. PICK j : j = h.instrument
    OBVIOUS
  <2>4. Balance("seller", j) \in Nat /\ Balance("buyer", j) \in Nat /\ Supply(j) <= MaxSupply
    BY <2>1, <2>3, BalanceIs DEF SupplyBounded
  <2>5. Balance(h.owner, j) <= MaxSupply /\ Balance(h.owner, j) \in Nat
    BY <2>1, <2>4, SettlementAssumption DEF Supply, Parties
  <2> QED BY <2>2, <2>3, <2>5, SettlementAssumption
<1> QED BY <1>1 DEF Counts

(* Every step keeps the inductive invariant.                               *)
LEMMA SettlementStep == SInv /\ [Next]_vars => SInv'
<1> SUFFICES ASSUME SInv, [Next]_vars PROVE SInv'
  OBVIOUS
<1>1. Counts' /\ SupplyBounded'
  BY SupplyStep
<1>2. (Counts /\ SupplyBounded => holdings \in [Holdings -> 0..MaxSupply])'
  BY HoldingsTyped, PTL
<1>3. holdings' \in [Holdings -> 0..MaxSupply]
  BY <1>1, <1>2
<1>4. /\ allocations' \in [Specs -> 0..MaxCopies]
      /\ \A q \in Specs : Locks(q)' = allocations'[q]
  BY LockStep
<1>5. TypeOK'
  BY <1>3, <1>4, ContractStep DEF SInv, TypeOK
<1>6. LocksBackAllocations'
  BY <1>4 DEF LocksBackAllocations, Locks
<1> QED BY <1>1, <1>5, <1>6, EligibleStep DEF SInv

(* Nobody owns anything before the first issue.                            *)
LEMMA EmptyBalances ==
  ASSUME Init, NEW p, NEW i
  PROVE  Balance(p, i) = 0
<1>0. Counts
  BY DEF Init, Counts
<1>1. Owned(p, i) = {}
  BY DEF Init, Owned
<1>2. PICK v, W : v = Value /\ W = Whole(p, i)
  OBVIOUS
<1>3. \A h \in W : v[h] = 0
  BY <1>2, HoldingFields DEF Init, Value, Whole
<1>4. IsFiniteSet(W) /\ {} \in SUBSET W
  BY <1>2, HoldingsFinite
<1>5. SumOf(v, W) = SumOf(v, {})
  BY <1>3, <1>4, SumDrop
<1> QED BY <1>2, <1>5, <1>0, SumEmpty, BalanceIs

(* An empty ledger with the attestations granted beforehand.               *)
LEMMA SettlementInit == Init => SInv
<1> SUFFICES ASSUME Init PROVE SInv
  OBVIOUS
<1>1. Counts
  BY DEF Init, Counts
<1>2. \A p, i : Balance(p, i) = 0
  BY EmptyBalances
<1>3. SupplyBounded
  BY <1>2, SettlementAssumption DEF SupplyBounded, Supply
<1>4. holdings \in [Holdings -> 0..MaxSupply]
  BY <1>1, <1>3, HoldingsTyped
<1>5. TypeOK
  BY <1>4, SettlementAssumption DEF Init, TypeOK
<1>6. LocksBackAllocations
  BY HoldingFields DEF Init, LocksBackAllocations
<1>7. AllocatedWhileEligible
  BY DEF Init, AllocatedWhileEligible
<1> QED BY <1>3, <1>5, <1>6, <1>7 DEF SInv

(* The ledger's holdings, allocations, trades and attestations keep the    *)
(* inductive invariant, for every choice of the parties.                   *)
THEOREM SettlementInvariance == Spec => []SInv
BY SettlementInit, SettlementStep, PTL DEF Spec

(* No choice creates a negative count, a holding beyond the outstanding    *)
(* supply or an unknown state: see TypeOK.                                 *)
THEOREM SettlementTypeCorrect == Spec => []TypeOK
<1>1. SInv => TypeOK
  BY DEF SInv
<1> QED BY <1>1, SettlementInvariance, PTL

(* Every allocation owns exactly one locked holding and every locked       *)
(* holding has its allocation, for any number of trades and copies: see    *)
(* LocksBackAllocations.                                                   *)
THEOREM LocksAreBacked == Spec => []LocksBackAllocations
<1>1. SInv => LocksBackAllocations
  BY DEF SInv
<1> QED BY <1>1, SettlementInvariance, PTL

-----------------------------------------------------------------------------
(* Delivery versus payment *)

(* What the abstract specification sees of the ledger.                     *)
Seen == [p \in Parties |-> [i \in Instruments |-> Balance(p, i)]]

Done == {t \in Trades : trade[t] = "settled"}

(* A step that moves no balance and settles nothing is invisible.          *)
LEMMA Invisible ==
  ASSUME \A p \in Parties, i \in Instruments : Balance(p, i)' = Balance(p, i), Done' = Done
  PROVE  UNCHANGED A!vars
<1>1. Seen' = Seen
  BY DEF Seen
<1> QED BY <1>1 DEF A!vars, Seen, Done

(* A step that moves one balance.                                          *)
LEMMA OneBalance ==
  ASSUME NEW p \in Parties, NEW i \in Instruments,
         \A q, j : q # p \/ j # i => Balance(q, j)' = Balance(q, j)
  PROVE  Seen' = [Seen EXCEPT ![p][i] = Seen'[p][i]]
<1>1. ASSUME NEW q \in Parties
      PROVE  Seen'[q] = [Seen EXCEPT ![p][i] = Seen'[p][i]][q]
  BY DEF Seen
<1> QED BY <1>1 DEF Seen

(* Which steps change what is settled.                                     *)
LEMMA DoneStep ==
  ASSUME TypeOK, [Next]_vars, \A t \in Trades, d \in Specs, c \in Specs : ~Settle(t, d, c)
  PROVE  Done' = Done
<1>1. CASE UNCHANGED trade
  BY <1>1 DEF Done
<1>2. ASSUME NEW t \in Trades,
             Propose(t) \/ RejectProposal(t) \/ InitiateSettlement(t) \/ EndRequest(t)
      PROVE  Done' = Done
  <2>1. PICK x : /\ trade' = [trade EXCEPT ![t] = x]
                 /\ x # "settled" /\ trade[t] # "settled"
    BY <1>2 DEF Propose, RejectProposal, InitiateSettlement, EndRequest, End
  <2> QED BY <2>1 DEF Done, TypeOK
<1>3. \/ UNCHANGED trade
      \/ \E t \in Trades : \/ Propose(t) \/ RejectProposal(t) \/ InitiateSettlement(t)
                           \/ EndRequest(t)
  BY DEF Next, vars, contracts, Issue, Mint, Create, Burn, Split, Merge, Allocate, Withdraw,
         Cancel, ReturnToSender, ExecuteTransfer, Attest, Revoke, Accept, Tick
<1> QED BY <1>1, <1>2, <1>3

(* DvpTrade_Settle is the abstract swap of the trade.                      *)
LEMMA SettleSwaps ==
  ASSUME SInv, NEW t \in Trades, NEW d \in Specs, NEW c \in Specs, Settle(t, d, c)
  PROVE  A!Swap(t)
<1>1. Counts
  BY SettlementAssumption DEF SInv, TypeOK, Counts
<1>2. \A q \in Parties, j \in Instruments :
        /\ Balance(q, j) \in Nat /\ Balance(q, j)' \in Nat
        /\ Balance(q, j)' = Balance(q, j) + Moved(t, q, j)
  BY <1>1, SettleEffect
<1>3. PICK x, y : x = Terms[t].delivery /\ y = Terms[t].payment
  OBVIOUS
<1>4. /\ x \in Nat /\ y \in Nat
      /\ Legs[t].delivery.sender = "seller" /\ Legs[t].delivery.receiver = "buyer"
      /\ Legs[t].delivery.instrument = "treasury" /\ Legs[t].delivery.amount = x
      /\ Legs[t].payment.sender = "buyer" /\ Legs[t].payment.receiver = "seller"
      /\ Legs[t].payment.instrument = "cash" /\ Legs[t].payment.amount = y
  <2>1. /\ Legs[t].delivery = ExpectedAllocation(t, "delivery")
        /\ Legs[t].payment = ExpectedAllocation(t, "payment")
    BY DEF Legs
  <2> QED BY <2>1, <1>3, ExpectedFields
<1>5. /\ Balance("seller", "treasury")' = Balance("seller", "treasury") - x
      /\ Balance("buyer", "treasury")' = Balance("buyer", "treasury") + x
      /\ Balance("buyer", "cash")' = Balance("buyer", "cash") - y
      /\ Balance("seller", "cash")' = Balance("seller", "cash") + y
      /\ Balance("seller", "treasury") >= x /\ Balance("buyer", "cash") >= y
  BY <1>2, <1>3, <1>4 DEF Moved, Parties, Instruments
<1>6. t \notin Done /\ Done' = Done \cup {t}
  BY DEF Settle, Done, SInv, TypeOK
<1>7. Seen' = [Seen EXCEPT !["seller"]["treasury"] = @ - x, !["buyer"]["treasury"] = @ + x,
                           !["buyer"]["cash"] = @ - y, !["seller"]["cash"] = @ + y]
  BY <1>5 DEF Seen, Parties, Instruments
<1>8. Seen["seller"]["treasury"] >= x /\ Seen["buyer"]["cash"] >= y
  BY <1>5 DEF Seen, Parties, Instruments
<1> QED BY <1>4, <1>6, <1>7, <1>8 DEF A!Swap, Seen, Done

(* Issuing and minting create, burning destroys, a settlement swaps, and   *)
(* everything else is invisible.                                           *)
LEMMA DvpStep ==
  ASSUME Joint = {}
  PROVE  SInv /\ [Next]_vars => [A!Next]_(A!vars)
<1> SUFFICES ASSUME SInv, [Next]_vars PROVE A!Next \/ UNCHANGED A!vars
  OBVIOUS
<1>1. Counts /\ SupplyBounded /\ TypeOK
  BY SettlementAssumption DEF SInv, TypeOK, Counts
<1>2. CASE \E t \in Trades, d \in Specs, c \in Specs : Settle(t, d, c)
  BY <1>2, SettleSwaps DEF A!Next
<1>3. CASE \A t \in Trades, d \in Specs, c \in Specs : ~Settle(t, d, c)
  <2>1. Done' = Done
    BY <1>1, <1>3, DoneStep
  <2>2. SameBalances => UNCHANGED A!vars
    BY <2>1, Invisible DEF SameBalances
  <2>3. ASSUME NEW p \in Parties, NEW i \in Instruments, NEW a \in Amounts, Create(p, i, a)
        PROVE  A!Create(p, i)
    <3>1. \A q, j : /\ Balance(q, j)' = Balance(q, j) + (IF p = q /\ i = j THEN a ELSE 0)
                    /\ Balance(q, j) \in Nat
      BY <1>1, <2>3, CreateEffect, BalanceIs
    <3>2. a \in Nat /\ a > 0
      BY SettlementAssumption DEF Amounts
    <3>3. Seen'[p][i] > Seen[p][i]
      BY <3>1, <3>2 DEF Seen
    <3>4. Seen' = [Seen EXCEPT ![p][i] = Seen'[p][i]]
      <4>1. \A q, j : q # p \/ j # i => Balance(q, j)' = Balance(q, j)
        BY <3>1
      <4> QED BY <4>1, OneBalance
    <3> QED BY <3>3, <3>4, <2>1 DEF A!Create, Seen, Done
  <2>4. ASSUME NEW h \in Holdings, Burn(h)
        PROVE  \E p \in Parties : A!Destroy(p)
    <3>1. PICK p, m : p = h.owner /\ m = h.amount
      OBVIOUS
    <3>2. p \in Parties /\ m \in Nat /\ m > 0 /\ h.instrument = "cash"
      BY <3>1, <1>1, <2>4, HoldingFields, BurnEffect
    <3>3. \A q, j : /\ Balance(q, j)' = Balance(q, j) - (IF p = q /\ "cash" = j THEN m ELSE 0)
                    /\ Balance(q, j) \in Nat
      BY <3>1, <3>2, <1>1, <2>4, BurnEffect, BalanceIs DEF Share
    <3>4. Seen'[p]["cash"] < Seen[p]["cash"]
      BY <3>2, <3>3 DEF Seen, Instruments
    <3>5. Seen' = [Seen EXCEPT ![p]["cash"] = Seen'[p]["cash"]]
      <4>1. \A q, j : q # p \/ j # "cash" => Balance(q, j)' = Balance(q, j)
        BY <3>3
      <4> QED BY <4>1, <3>2, OneBalance DEF Instruments
    <3> QED BY <3>2, <3>4, <3>5, <2>1 DEF A!Destroy, Seen, Done
  <2>5. CASE \/ \E h \in Holdings, a \in Amounts : Split(h, a)
             \/ \E h \in Holdings, g \in Holdings : Merge(h, g)
             \/ \E s \in Specs : ReturnToSender(s)
             \/ \E s \in Specs : \E l \in SeqOf(Owned(s.sender, s.instrument), MaxInputs) :
                                   Allocate(s, l)
             \/ UNCHANGED holdings
    <3>1. SameBalances
      BY <1>1, <2>5, SplitEffect, MergeEffect, ReturnEffect, AllocateEffect, FrameEffect
         DEF SupplyBounded
    <3> QED BY <3>1, <2>2
  <2> QED BY <1>3, <2>3, <2>4, <2>5, StepCases DEF A!Next
<1> QED BY <1>2, <1>3

(* As long as the three parties do not jointly execute an allocation       *)
(* outside its trade (which Allocation_ExecuteTransfer lets them), what    *)
(* they own changes only by whole trades, with their own amounts, once:    *)
(* see AtomicDvpImplemented.                                               *)
THEOREM DvpIsAtomic ==
  ASSUME Joint = {}
  PROVE  Spec => AtomicDvpImplemented
<1>1. Init => A!Init
  <2> SUFFICES ASSUME Init PROVE A!Init
    OBVIOUS
  <2>1. \A p \in Parties, i \in Instruments : Balance(p, i) = 0
    BY EmptyBalances
  <2>2. Seen = [p \in Parties |-> [i \in Instruments |-> 0]]
    BY <2>1 DEF Seen
  <2>3. Done = {}
    BY DEF Init, Done
  <2> QED BY <2>2, <2>3 DEF A!Init, Seen, Done
<1>2. SInv /\ [Next]_vars => [A!Next]_(A!vars)
  BY DvpStep
<1> QED BY <1>1, <1>2, SettlementInvariance, PTL DEF Spec, AtomicDvpImplemented, A!Spec

-----------------------------------------------------------------------------
(* Eligibility *)

(* An allocation that leaves with its amount delivered was covered.        *)
LEMMA DeliveryStep ==
  SInv /\ [Next]_vars =>
    [\A s \in Specs :
       /\ allocations'[s] < allocations[s]
       /\ Balance(s.receiver, s.instrument)' > Balance(s.receiver, s.instrument)
       => Covered(s)]_vars
<1> SUFFICES ASSUME SInv, [Next]_vars, NEW s \in Specs,
                    allocations'[s] < allocations[s],
                    Balance(s.receiver, s.instrument)' > Balance(s.receiver, s.instrument)
             PROVE  Covered(s)
  OBVIOUS
<1>1. Counts /\ now \in Nat /\ allocations \in [Specs -> Nat] /\ allocations[s] \in Nat
  BY SettlementAssumption DEF SInv, TypeOK, Counts
<1>2. Balance(s.receiver, s.instrument) \in Nat
  BY <1>1, BalanceIs
<1>3. CASE now < s.settleBefore /\ allocations[s] > 0
  <2>1. s.settleBefore \in Nat /\ \A e \in Attestations : e.until \in Nat
    BY SpecFields, SettlementAssumption
  <2> QED BY <1>1, <1>3, <2>1 DEF SInv, AllocatedWhileEligible, Covered
<1>4. ASSUME NEW q \in Specs, ExecuteTransfer(q) PROVE Covered(s)
  <2>1. /\ allocations' = [allocations EXCEPT ![q] = allocations[q] - 1]
        /\ allocations[q] > 0 /\ now < q.settleBefore
    BY <1>4 DEF ExecuteTransfer
  <2>2. q = s
    BY <2>1, <1>1
  <2> QED BY <2>1, <2>2, <1>3
<1>5. ASSUME NEW t \in Trades, NEW d \in Specs, NEW c \in Specs, Settle(t, d, c)
      PROVE  Covered(s)
  <2>1. /\ allocations' = [allocations EXCEPT ![d] = @ - 1, ![c] = @ - 1]
        /\ allocations[d] > 0 /\ allocations[c] > 0
        /\ now < d.settleBefore /\ now < c.settleBefore
    BY <1>5 DEF Settle
  <2>2. s \in {d, c}
    BY <2>1, <1>1
  <2> QED BY <2>1, <2>2, <1>3
<1>6. CASE \E q \in Specs : ReturnToSender(q)
  <2>1. SameBalances
    BY <1>1, <1>6, ReturnEffect
  <2> QED BY <2>1, <1>2 DEF SameBalances
<1>7. CASE \E q \in Specs : \E l \in SeqOf(Owned(q.sender, q.instrument), MaxInputs) : Allocate(q, l)
  <2>1. PICK q \in Specs : allocations' = [allocations EXCEPT ![q] = allocations[q] + 1]
    BY <1>7 DEF Allocate
  <2> QED BY <2>1, <1>1
<1>8. CASE allocations' = allocations
  BY <1>1, <1>8
<1>9. \/ allocations' = allocations
      \/ \E q \in Specs : \E l \in SeqOf(Owned(q.sender, q.instrument), MaxInputs) : Allocate(q, l)
      \/ \E q \in Specs : ReturnToSender(q) \/ ExecuteTransfer(q)
      \/ \E t \in Trades, d \in Specs, c \in Specs : Settle(t, d, c)
  <2>1. \A q \in Joint : q \in Specs
    BY SettlementAssumption
  <2> QED BY <2>1, StepCases DEF Create, Burn, Split, Merge
<1> QED BY <1>4, <1>5, <1>6, <1>7, <1>8, <1>9

(* Every transfer reaches parties whose attestations cover the moment of   *)
(* delivery, for any attestations, revocations and deadlines: see          *)
(* DeliveredWhileEligible.                                                 *)
THEOREM DeliveriesAreEligible == Spec => DeliveredWhileEligible
BY SettlementInvariance, DeliveryStep, PTL DEF Spec, DeliveredWhileEligible
=============================================================================
