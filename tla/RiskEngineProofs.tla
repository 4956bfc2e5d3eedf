-------------------------- MODULE RiskEngineProofs --------------------------
(***************************************************************************)
(* Proofs about the confidential risk engine, for any width of the         *)
(* encrypted integers and any sets of reservations, clients and limits.    *)
(***************************************************************************)
EXTENDS RiskEngine, Sums

(* The checked arithmetic never leaves the encrypted width; a failed       *)
(* operation keeps the old value.                                          *)
LEMMA SafeMath ==
  ASSUME NEW a \in U, NEW b \in U
  PROVE  /\ TryIncrease(a, b).value \in U /\ TryIncrease(a, b).ok \in BOOLEAN
         /\ TryDecrease(a, b).value \in U /\ TryDecrease(a, b).ok \in BOOLEAN
         /\ TryAdd(a, b).value \in U /\ TryAdd(a, b).ok \in BOOLEAN
         /\ TryIncrease(a, b).ok => TryIncrease(a, b).value = a + b
         /\ TryDecrease(a, b).ok => TryDecrease(a, b).value = a - b
         /\ TryDecrease(a, b).value <= a
         /\ TryAdd(a, b).ok => TryAdd(a, b).value = a + b
BY RiskAssumption DEF U, TryIncrease, TryDecrease, TryAdd

(* A select between two widths stays within the width.                     *)
LEMMA SelectType ==
  ASSUME NEW ok \in BOOLEAN, NEW S, NEW a \in S, NEW b \in S
  PROVE  Select(ok, a, b) \in S
BY DEF Select

(* Every call keeps every field of its type.                               *)
LEMMA FieldsStep == Fields /\ [Next]_vars => Fields'
<1> SUFFICES ASSUME Fields, [Next]_vars PROVE Fields'
  OBVIOUS
<1> USE RiskAssumption
<1>1. ASSUME NEW r \in Reservations, NEW c \in Clients, NEW a \in Amounts, Reserve(r, c, a)
      PROVE  Fields'
  <2>1. a \in U /\ 0 \in U /\ reserved \in U /\ usage[c] \in U
    BY DEF Fields, U
  <2>2. \A v \in U : \A ok \in BOOLEAN :
          /\ Select(ok, TryIncrease(reserved, a).value, reserved) \in U
          /\ Select(ok, TryIncrease(usage[c], a).value, usage[c]) \in U
          /\ Select(ok, a, 0) \in U
    BY <2>1, SafeMath, SelectType
  <2>3. PICK ok \in BOOLEAN :
          /\ reserved' = Select(ok, TryIncrease(reserved, a).value, reserved)
          /\ usage' = [usage EXCEPT ![c] = Select(ok, TryIncrease(usage[c], a).value, usage[c])]
          /\ amount' = [amount EXCEPT ![r] = Select(ok, a, 0)]
          /\ approved' = [approved EXCEPT ![r] = ok]
    BY <1>1 DEF Reserve
  <2>4. reserved' \in U /\ usage' \in [Clients -> U] /\ amount' \in [Reservations -> U]
        /\ approved' \in [Reservations -> BOOLEAN]
    BY <2>1, <2>2, <2>3 DEF Fields
  <2>5. /\ client' \in [Reservations -> Clients \cup {"none"}]
        /\ status' \in [Reservations -> Statuses]
        /\ UNCHANGED <<paused, epoch, capacity, configured, limit, active>>
    BY <1>1 DEF Reserve, Fields, Statuses, policy
  <2> QED BY <2>4, <2>5 DEF Fields
<1>2. ASSUME NEW r \in Reservations, Finalize(r) \/ Cancel(r) \/ Redeem(r)
      PROVE  Fields'
  <2>1. amount[r] \in U /\ reserved \in U /\ active \in U
    BY DEF Fields
  <2>2. \A ok \in BOOLEAN :
          /\ Select(ok, TryDecrease(reserved, amount[r]).value, reserved) \in U
          /\ Select(ok, TryDecrease(active, amount[r]).value, active) \in U
          /\ Select(ok, TryIncrease(active, amount[r]).value, active) \in U
    BY <2>1, SafeMath, SelectType
  <2>3. \A ok \in BOOLEAN : client[r] \in Clients =>
          Select(ok, TryDecrease(usage[client[r]], amount[r]).value, usage[client[r]]) \in U
    BY <2>1, SafeMath, SelectType DEF Fields
  <2>4. /\ status' \in [Reservations -> Statuses]
        /\ UNCHANGED <<paused, epoch, capacity, configured, limit, client, amount, approved>>
    BY <1>2 DEF Finalize, Cancel, Redeem, Fields, Statuses, policy
  <2>5. CASE Finalize(r)
    <3>1. PICK ok \in BOOLEAN :
            /\ reserved' = Select(ok, TryDecrease(reserved, amount[r]).value, reserved)
            /\ active' = Select(ok, TryIncrease(active, amount[r]).value, active)
      BY <2>5, <2>1, SafeMath DEF Finalize
    <3>2. usage' = usage
      BY <2>5 DEF Finalize
    <3> QED BY <3>1, <3>2, <2>2, <2>4 DEF Fields
  <2>6. CASE Cancel(r)
    <3>1. PICK ok \in BOOLEAN :
            /\ reserved' = Select(ok, TryDecrease(reserved, amount[r]).value, reserved)
            /\ usage' = [usage EXCEPT ![client[r]] =
                 Select(ok, TryDecrease(usage[client[r]], amount[r]).value, usage[client[r]])]
      BY <2>6 DEF Cancel
    <3>2. active' = active
      BY <2>6 DEF Cancel
    <3>3. usage' \in [Clients -> U]
      BY <3>1, <2>3 DEF Fields
    <3> QED BY <3>1, <3>2, <3>3, <2>2, <2>4 DEF Fields
  <2>7. CASE Redeem(r)
    <3>1. PICK ok \in BOOLEAN :
            /\ active' = Select(ok, TryDecrease(active, amount[r]).value, active)
            /\ usage' = [usage EXCEPT ![client[r]] =
                 Select(ok, TryDecrease(usage[client[r]], amount[r]).value, usage[client[r]])]
      BY <2>7 DEF Redeem
    <3>2. reserved' = reserved
      BY <2>7 DEF Redeem
    <3>3. usage' \in [Clients -> U]
      BY <3>1, <2>3 DEF Fields
    <3> QED BY <3>1, <3>2, <3>3, <2>2, <2>4 DEF Fields
  <2> QED BY <1>2, <2>5, <2>6, <2>7
<1>3. ASSUME NEW c \in Clients, NEW v \in Limits, ConfigureClientLimit(c, v)
      PROVE  Fields'
  BY <1>3 DEF ConfigureClientLimit, InitialUsage, Fields, U
<1>4. CASE Pause \/ Unpause \/ RolloverEpoch \/ \E v \in Limits : ConfigureCapacity(v)
  <2>1. (epoch + 1) % EpochModulus \in 0..(EpochModulus - 1)
    BY DEF Fields
  <2>2. CASE Pause \/ Unpause
    BY <2>2 DEF Pause, Unpause, Fields, exposure
  <2>3. CASE RolloverEpoch
    BY <2>1, <2>3 DEF RolloverEpoch, Fields, exposure
  <2>4. CASE \E v \in Limits : ConfigureCapacity(v)
    BY <2>4 DEF ConfigureCapacity, Fields, U, exposure
  <2> QED BY <1>4, <2>2, <2>3, <2>4
<1>5. CASE UNCHANGED vars
  BY <1>5 DEF vars, policy, exposure, Fields
<1> QED BY <1>1, <1>2, <1>3, <1>4, <1>5 DEF Next

(* The contract is deployed with every field of its type.                  *)
LEMMA RiskInitFields == Init => Fields
<1> SUFFICES ASSUME Init PROVE Fields
  OBVIOUS
<1>1. 0 \in U /\ epoch \in 0..(EpochModulus - 1)
  BY RiskAssumption DEF Init, U
<1>2. paused \in BOOLEAN /\ approved \in [Reservations -> BOOLEAN]
  BY Zenon DEF Init
<1>3. /\ capacity \in U /\ reserved \in U /\ active \in U
      /\ configured \subseteq Clients
      /\ limit \in [Clients -> U] /\ usage \in [Clients -> U]
      /\ status \in [Reservations -> Statuses]
      /\ client \in [Reservations -> Clients \cup {"none"}]
      /\ amount \in [Reservations -> U]
  BY <1>1 DEF Init, Statuses
<1> QED BY <1>1, <1>2, <1>3 DEF Fields

(* Every counter, limit and recorded amount stays within the encrypted     *)
(* width, whatever is reserved, settled and reconfigured.                  *)
LEMMA FieldsCorrect == Spec => []Fields
BY RiskInitFields, FieldsStep, PTL DEF Spec

-----------------------------------------------------------------------------
(* Growth *)

(* An approved reservation fits the capacity and the client's limit; every *)
(* other call leaves the committed exposure and all usages at most where   *)
(* they were.                                                              *)
LEMMA GrowthStep == Fields /\ [Next]_vars => [\A c \in Clients : Grows(c)]_vars
<1> SUFFICES ASSUME Fields, Next, NEW k \in Clients PROVE Grows(k)
  OBVIOUS
<1>0. /\ reserved \in Int /\ active \in Int /\ capacity \in Int
      /\ \A c \in Clients : usage[c] \in Int /\ limit[c] \in Int
  BY DEF Fields, U
<1>1. ASSUME NEW r \in Reservations, NEW c \in Clients, NEW a \in Amounts, Reserve(r, c, a)
      PROVE  Grows(k)
  <2> DEFINE nr == TryIncrease(reserved, a)
             nu == TryIncrease(usage[c], a)
             nc == TryAdd(nr.value, active)
             ok == nr.ok /\ nu.ok /\ nc.ok /\ nc.value <= capacity
                     /\ nu.value <= limit[c] /\ a > 0
  <2>1. a \in U /\ reserved \in U /\ active \in U /\ usage[c] \in U
    BY RiskAssumption DEF Fields, U
  <2>2. nr.value \in U /\ nu.value \in U
    BY <2>1, SafeMath
  <2>3. nc.ok => nc.value = nr.value + active
    BY <2>1, <2>2, SafeMath
  <2>4. /\ reserved' = Select(ok, nr.value, reserved) /\ active' = active
        /\ usage' = [usage EXCEPT ![c] = Select(ok, nu.value, usage[c])]
    BY <1>1 DEF Reserve
  <2> HIDE DEF nr, nu, nc
  <2>5. CASE ok
    <3>1. reserved' = nr.value /\ usage' = [usage EXCEPT ![c] = nu.value]
      BY <2>4, <2>5 DEF Select
    <3>2. reserved' + active' <= capacity
      BY <3>1, <2>3, <2>4, <2>5
    <3>3. usage'[k] > usage[k] => usage'[k] <= limit[k]
      BY <3>1, <2>5, <1>0 DEF Fields
    <3> QED BY <3>2, <3>3 DEF Grows
  <2>6. CASE ~ok
    <3>1. reserved' = reserved /\ usage'[k] = usage[k]
      BY <2>4, <2>6 DEF Select, Fields
    <3> QED BY <3>1, <2>4, <1>0 DEF Grows
  <2> QED BY <2>5, <2>6
<1>2. ASSUME NEW r \in Reservations, Finalize(r)
      PROVE  Grows(k)
  <2> DEFINE nr == TryDecrease(reserved, amount[r])
             na == TryIncrease(active, amount[r])
             ok == nr.ok /\ na.ok
  <2>1. amount[r] \in U /\ reserved \in U /\ active \in U /\ amount[r] \in Int
    BY DEF Fields, U
  <2>2. /\ nr.ok => nr.value = reserved - amount[r]
        /\ na.ok => na.value = active + amount[r]
    BY <2>1, SafeMath
  <2>3. /\ reserved' = Select(ok, nr.value, reserved)
        /\ active' = Select(ok, na.value, active) /\ usage' = usage
    BY <1>2 DEF Finalize
  <2> HIDE DEF nr, na
  <2>4. reserved' + active' = reserved + active
    BY <2>1, <2>2, <2>3, <1>0 DEF Select
  <2> QED BY <2>3, <2>4, <1>0 DEF Grows
<1>3. ASSUME NEW r \in Reservations, Cancel(r) \/ Redeem(r)
      PROVE  Grows(k)
  <2>1. amount[r] \in U /\ reserved \in U /\ active \in U
    BY DEF Fields
  <2>2. /\ TryDecrease(reserved, amount[r]).value \in U
        /\ TryDecrease(reserved, amount[r]).value <= reserved
        /\ TryDecrease(active, amount[r]).value \in U
        /\ TryDecrease(active, amount[r]).value <= active
    BY <2>1, SafeMath
  <2>3. \A c \in Clients : /\ TryDecrease(usage[c], amount[r]).value \in U
                           /\ TryDecrease(usage[c], amount[r]).value <= usage[c]
    BY <2>1, SafeMath DEF Fields
  <2>4. PICK ok \in BOOLEAN :
          /\ \/ /\ reserved' = Select(ok, TryDecrease(reserved, amount[r]).value, reserved)
                /\ active' = active
             \/ /\ active' = Select(ok, TryDecrease(active, amount[r]).value, active)
                /\ reserved' = reserved
          /\ usage' = [usage EXCEPT ![client[r]] =
               Select(ok, TryDecrease(usage[client[r]], amount[r]).value, usage[client[r]])]
    BY <1>3 DEF Cancel, Redeem
  <2>5. ~(reserved' + active' > reserved + active)
    BY <2>2, <2>4, <1>0 DEF Select, U
  <2>6. ~(usage'[k] > usage[k])
    BY <2>3, <2>4, <1>0 DEF Select, U, Fields
  <2> QED BY <2>5, <2>6 DEF Grows
<1>4. ASSUME NEW c \in Clients, NEW v \in Limits, ConfigureClientLimit(c, v)
      PROVE  Grows(k)
  <2>1. usage'[k] = usage[k] \/ usage'[k] = 0
    BY <1>4 DEF ConfigureClientLimit, InitialUsage, Fields
  <2>2. usage[k] \in Int /\ 0 <= usage[k] /\ reserved' = reserved /\ active' = active
    BY <1>4 DEF ConfigureClientLimit, Fields, U
  <2> QED BY <2>1, <2>2, <1>0 DEF Grows
<1>5. CASE Pause \/ Unpause \/ RolloverEpoch \/ \E v \in Limits : ConfigureCapacity(v)
  <2>1. UNCHANGED exposure
    BY <1>5 DEF Pause, Unpause, RolloverEpoch, ConfigureCapacity
  <2> QED BY <2>1, <1>0 DEF Grows, exposure
<1> QED BY <1>1, <1>2, <1>3, <1>4, <1>5 DEF Next

(* Exposure and usage never grow past the policy in force, for any         *)
(* sequence of reconfigurations: see GrowthWithinPolicy.                   *)
THEOREM GrowthIsBounded == Spec => GrowthWithinPolicy
<1>1. Spec => []Fields
  BY FieldsCorrect
<1> QED BY <1>1, GrowthStep, PTL DEF Spec, GrowthWithinPolicy

-----------------------------------------------------------------------------
(* Reservations *)

(* reserve records the client, the decision and the amount together, and   *)
(* no later call changes them or removes a configuration.                  *)
LEMMA RecordStep == Fields /\ Records /\ [Next]_vars => Records'
<1> SUFFICES ASSUME Fields, Records, [Next]_vars, NEW q \in Reservations
             PROVE  Recorded(q)'
  BY DEF Records
<1>0. Recorded(q)
  BY DEF Records
<1>1. ASSUME NEW r \in Reservations, NEW c \in Clients, NEW a \in Amounts, Reserve(r, c, a)
      PROVE  Recorded(q)'
  <2>1. PICK ok \in BOOLEAN : /\ amount' = [amount EXCEPT ![r] = Select(ok, a, 0)]
                              /\ approved' = [approved EXCEPT ![r] = ok]
                              /\ ok => a > 0
    BY <1>1 DEF Reserve
  <2>2. /\ client' = [client EXCEPT ![r] = c] /\ status' = [status EXCEPT ![r] = "Reserved"]
        /\ c \in configured /\ configured' = configured
    BY <1>1 DEF Reserve, policy
  <2>3. CASE q = r
    <3>1. approved'[q] = ok /\ amount'[q] = Select(ok, a, 0)
      BY <2>1, <2>3 DEF Fields
    <3>2. status'[q] # "Empty" /\ client'[q] \in configured'
      BY <2>2, <2>3 DEF Fields
    <3>3. Select(ok, a, 0) > 0 <=> ok
      BY <2>1 DEF Select
    <3> QED BY <3>1, <3>2, <3>3 DEF Recorded
  <2>4. CASE q # r
    <3>1. /\ approved'[q] = approved[q] /\ amount'[q] = amount[q]
          /\ status'[q] = status[q] /\ client'[q] = client[q]
      BY <2>1, <2>2, <2>4 DEF Fields
    <3> QED BY <1>0, <2>2, <3>1 DEF Recorded
  <2> QED BY <2>3, <2>4
<1>2. ASSUME UNCHANGED <<amount, approved, client>>, configured \subseteq configured',
             status'[q] = "Empty" <=> status[q] = "Empty"
      PROVE  Recorded(q)'
  BY <1>0, <1>2 DEF Recorded
<1>3. ASSUME NEW r \in Reservations, Finalize(r) \/ Cancel(r) \/ Redeem(r)
      PROVE  Recorded(q)'
  <2>1. UNCHANGED <<amount, approved, client>> /\ configured \subseteq configured'
    BY <1>3 DEF Finalize, Cancel, Redeem, policy
  <2>2. status'[q] = "Empty" <=> status[q] = "Empty"
    BY <1>3 DEF Finalize, Cancel, Redeem, Fields
  <2> QED BY <1>2, <2>1, <2>2
<1>4. \/ UNCHANGED <<amount, approved, client, status>> /\ configured \subseteq configured'
      \/ \E r \in Reservations, c \in Clients, a \in Amounts : Reserve(r, c, a)
      \/ \E r \in Reservations : Finalize(r) \/ Cancel(r) \/ Redeem(r)
  BY DEF Next, vars, policy, Pause, Unpause, RolloverEpoch, ConfigureCapacity,
         ConfigureClientLimit
<1> QED BY <1>1, <1>2, <1>3, <1>4

(* A fresh contract has recorded nothing.                                  *)
LEMMA InitRecords == Init => Records
BY DEF Init, Records, Recorded

(* A call that moves the status of a rejected reservation adds and removes *)
(* nothing.                                                                *)
LEMMA InertStep == Fields /\ Records /\ [Next]_vars
                     => [\A r \in Reservations : Inert(r)]_vars
<1> SUFFICES ASSUME Fields, Records, Next, NEW q \in Reservations,
                    status'[q] # status[q], ~approved'[q]
             PROVE  UNCHANGED exposure
  BY DEF Inert
<1>1. ASSUME NEW r \in Reservations, NEW c \in Clients, NEW a \in Amounts, Reserve(r, c, a)
      PROVE  UNCHANGED exposure
  <2>1. PICK ok \in BOOLEAN :
          /\ reserved' = Select(ok, TryIncrease(reserved, a).value, reserved)
          /\ usage' = [usage EXCEPT ![c] = Select(ok, TryIncrease(usage[c], a).value, usage[c])]
          /\ approved' = [approved EXCEPT ![r] = ok]
    BY <1>1 DEF Reserve
  <2>2. q = r
    BY <1>1 DEF Reserve, Fields
  <2>3. ~ok
    BY <2>1, <2>2 DEF Fields
  <2>4. reserved' = reserved /\ usage' = usage
    BY <2>1, <2>3 DEF Select, Fields
  <2>5. active' = active
    BY <1>1 DEF Reserve
  <2> QED BY <2>4, <2>5 DEF exposure
<1>2. ASSUME NEW r \in Reservations, Finalize(r) \/ Cancel(r) \/ Redeem(r)
      PROVE  UNCHANGED exposure
  <2>1. q = r /\ approved' = approved
    BY <1>2 DEF Finalize, Cancel, Redeem, Fields
  <2>2. amount[r] = 0
    <3>1. ~approved[r] /\ amount[r] \in U
      BY <2>1 DEF Fields
    <3> QED BY <3>1 DEF Records, Recorded, U
  <2>3. \A v \in U : TryDecrease(v, 0).value = v /\ TryIncrease(v, 0).value = v
    BY DEF TryDecrease, TryIncrease, U
  <2>4. \A ok, v : Select(ok, v, v) = v
    BY DEF Select
  <2>5. reserved \in U /\ active \in U
    BY DEF Fields
  <2>6. CASE Finalize(r)
    BY <2>2, <2>3, <2>4, <2>5, <2>6 DEF Finalize, exposure
  <2>7. CASE Cancel(r) \/ Redeem(r)
    <3>1. reserved' = reserved /\ active' = active
      BY <2>2, <2>3, <2>4, <2>5, <2>7 DEF Cancel, Redeem
    <3>2. usage' = [usage EXCEPT ![client[r]] = usage[client[r]]]
             \/ (client[r] \notin Clients /\ usage' = usage)
      <4>1. CASE client[r] \in Clients
        <5>1. TryDecrease(usage[client[r]], 0).value = usage[client[r]]
          BY <4>1, <2>3 DEF Fields
        <5> QED BY <5>1, <2>2, <2>4, <2>7 DEF Cancel, Redeem
      <4>2. CASE client[r] \notin Clients
        BY <4>2, <2>7 DEF Cancel, Redeem, Fields
      <4> QED BY <4>1, <4>2
    <3>3. usage' = usage
      BY <3>2 DEF Fields
    <3> QED BY <3>1, <3>3 DEF exposure
  <2> QED BY <1>2, <2>6, <2>7
<1>3. CASE UNCHANGED status
  BY <1>3
<1>4. \/ UNCHANGED status
      \/ \E r \in Reservations, c \in Clients, a \in Amounts : Reserve(r, c, a)
      \/ \E r \in Reservations : Finalize(r) \/ Cancel(r) \/ Redeem(r)
  BY DEF Next, Pause, Unpause, RolloverEpoch, ConfigureCapacity, ConfigureClientLimit
<1> QED BY <1>1, <1>2, <1>3, <1>4

(* A rejected reservation is inert for its whole life: see                 *)
(* RejectedIsInert.                                                        *)
THEOREM RejectionIsInert == Spec => RejectedIsInert
<1>1. Spec => []Fields
  BY FieldsCorrect
<1> QED BY <1>1, InitRecords, RecordStep, InertStep, PTL DEF Spec, RejectedIsInert
-----------------------------------------------------------------------------
(* Exposure accounting *)

In(s) == {r \in Reservations : status[r] = s}

Of(c) == {r \in In("Reserved") \cup In("Finalized") : client[r] = c}

(* ExposureAccounted, with the sums named.                                 *)
Counted == /\ reserved = SumOf(amount, In("Reserved"))
           /\ active = SumOf(amount, In("Finalized"))
           /\ \A c \in Clients : usage[c] = SumOf(amount, Of(c))

(* What the counters' agreement with the reservations needs to be kept is  *)
(* in TypeOK: every reservation that exists belongs to a configured        *)
(* client, so that the first configuration of a client resets nothing; and *)
(* what is committed altogether fits the width, whatever the capacity was  *)
(* lowered to, so that moving a reservation from reserved to active never  *)
(* overflows.  Both depend on the agreement in turn.                       *)
RInv == TypeOK /\ Counted

(* Counted is what the runs check of the three counters.                   *)
LEMMA CountedIsAccounted == Counted <=> ExposureAccounted
BY DEF Counted, ExposureAccounted, Total, SumOf, In, Of

(* The live reservations are finite in number and their amounts fit.       *)
LEMMA LiveFinite ==
  ASSUME Fields
  PROVE  /\ \A s : IsFiniteSet(In(s))
         /\ \A c : IsFiniteSet(Of(c))
         /\ \A r \in Reservations : amount[r] \in U /\ amount[r] \in Nat
<1>1. \A s : In(s) \in SUBSET Reservations
  BY DEF In
<1>2. \A c : Of(c) \in SUBSET Reservations
  BY DEF Of, In
<1> QED BY <1>1, <1>2, FS_Subset, RiskAssumption DEF Fields, U

(* A call that moves neither a reservation nor a counter.                  *)
LEMMA AccountedFrame ==
  ASSUME Counted, UNCHANGED <<reserved, active, usage, status, client, amount>>
  PROVE  Counted'
<1>1. In("Reserved")' = In("Reserved") /\ In("Finalized")' = In("Finalized")
  BY DEF In
<1>2. \A c : Of(c)' = Of(c)
  BY DEF Of, In
<1> QED BY <1>1, <1>2 DEF Counted

(* configureClientLimit resets the usage of a client with no reservations. *)
LEMMA AccountedConfigure ==
  ASSUME RInv, NEW c \in Clients, NEW v \in Limits, ConfigureClientLimit(c, v)
  PROVE  Counted'
<1>1. CASE c \in configured
  <2>1. UNCHANGED <<reserved, active, usage, status, client, amount>>
    BY <1>1 DEF ConfigureClientLimit, InitialUsage
  <2> QED BY <2>1, AccountedFrame DEF RInv
<1>2. CASE c \notin configured
  <2>1. Of(c) = {}
    BY <1>2 DEF Of, In, RInv, TypeOK, Records, Recorded
  <2>2. usage[c] = 0
    BY <2>1, SumEmpty DEF RInv, Counted
  <2>3. usage' = usage
    BY <1>2, <2>2 DEF ConfigureClientLimit, InitialUsage, RInv, TypeOK, Fields
  <2>4. UNCHANGED <<reserved, active, usage, status, client, amount>>
    BY <2>3 DEF ConfigureClientLimit
  <2> QED BY <2>4, AccountedFrame DEF RInv
<1> QED BY <1>1, <1>2

(* reserve adds the recorded amount, which is 0 when it is rejected, to    *)
(* the reserved exposure and to the client's usage.                        *)
LEMMA AccountedReserve ==
  ASSUME RInv, NEW r \in Reservations, NEW c \in Clients, NEW a \in Amounts, Reserve(r, c, a)
  PROVE  Counted' /\ reserved' + active' <= MaxU
<1> DEFINE nr == TryIncrease(reserved, a)
           nu == TryIncrease(usage[c], a)
           nc == TryAdd(nr.value, active)
           ok == nr.ok /\ nu.ok /\ nc.ok /\ nc.value <= capacity
                   /\ nu.value <= limit[c] /\ a > 0
<1>0. /\ a \in U /\ reserved \in U /\ active \in U /\ usage[c] \in U /\ MaxU \in Nat
      /\ a \in Int /\ reserved \in Int /\ active \in Int /\ usage[c] \in Int
  BY RiskAssumption DEF RInv, TypeOK, Fields, U
<1>1. nr.ok => nr.value = reserved + a
  BY <1>0, SafeMath
<1>2. nu.ok => nu.value = usage[c] + a
  BY <1>0, SafeMath
<1>3. nc.ok => nr.value + active <= MaxU
  BY <1>0 DEF TryAdd
<1>4. /\ reserved' = Select(ok, nr.value, reserved) /\ active' = active
      /\ usage' = [usage EXCEPT ![c] = Select(ok, nu.value, usage[c])]
      /\ amount' = [amount EXCEPT ![r] = Select(ok, a, 0)]
      /\ client' = [client EXCEPT ![r] = c]
      /\ status' = [status EXCEPT ![r] = "Reserved"]
      /\ status[r] = "Empty"
  BY DEF Reserve
<1> HIDE DEF nr, nu, nc
<1>5. PICK d : d = Select(ok, a, 0)
  OBVIOUS
<1>6. /\ d \in Nat /\ reserved' = reserved + d
      /\ usage' = [usage EXCEPT ![c] = usage[c] + d]
  <2>1. CASE ok
    <3>1. d = a /\ reserved' = nr.value /\ usage' = [usage EXCEPT ![c] = nu.value]
      BY <2>1, <1>4, <1>5 DEF Select
    <3>2. nr.value = reserved + a /\ nu.value = usage[c] + a /\ a \in Nat
      BY <2>1, <1>0, <1>1, <1>2
    <3> QED BY <3>1, <3>2
  <2>2. CASE ~ok
    <3>1. d = 0 /\ reserved' = reserved /\ usage' = [usage EXCEPT ![c] = usage[c]]
      BY <2>2, <1>4, <1>5 DEF Select
    <3>2. usage[c] + 0 = usage[c] /\ reserved + 0 = reserved
      BY <1>0
    <3> HIDE DEF ok
    <3> QED BY <3>1, <3>2
  <2> QED BY <2>1, <2>2
<1>7. reserved' + active' <= MaxU
  BY <1>0, <1>3, <1>4 DEF Select, RInv, TypeOK, U
<1>8. amount'[r] = d /\ \A q \in Reservations : q # r => amount'[q] = amount[q]
  BY <1>4, <1>5 DEF RInv, TypeOK, Fields
<1>9. /\ In("Reserved")' = In("Reserved") \cup {r} /\ r \notin In("Reserved")
      /\ In("Finalized")' = In("Finalized") /\ r \notin In("Finalized")
  BY <1>4 DEF In, RInv, TypeOK, Fields
<1>10. /\ Of(c)' = Of(c) \cup {r}
       /\ \A k \in Clients : r \notin Of(k) /\ (k # c => Of(k)' = Of(k))
  BY <1>4 DEF Of, In, RInv, TypeOK, Fields
<1>11. /\ \A s : IsFiniteSet(In(s)) /\ In(s) \subseteq Reservations
       /\ \A k : IsFiniteSet(Of(k)) /\ Of(k) \subseteq Reservations
       /\ \A q \in Reservations : amount[q] \in Nat
  BY LiveFinite DEF RInv, TypeOK, In, Of
<1>12. ASSUME NEW S, S \subseteq Reservations, r \notin S, IsFiniteSet(S)
       PROVE  /\ SumOf(amount', S) = SumOf(amount, S)
              /\ SumOf(amount', S \cup {r}) = d + SumOf(amount, S)
  <2>1. \A x \in S : amount'[x] = amount[x] /\ amount'[x] \in Nat
    BY <1>8, <1>11, <1>12
  <2>2. SumOf(amount', S) = SumOf(amount, S)
    BY <2>1, <1>12, SumSame
  <2>3. SumOf(amount', S \cup {r}) = amount'[r] + SumOf(amount', S)
    BY <2>1, <1>6, <1>8, <1>12, SumInsert
  <2> QED BY <2>2, <2>3, <1>8
<1>13. /\ reserved = SumOf(amount, In("Reserved"))
       /\ active = SumOf(amount, In("Finalized"))
       /\ \A k \in Clients : usage[k] = SumOf(amount, Of(k))
  BY DEF RInv, Counted
<1>14. reserved' = SumOf(amount', In("Reserved")')
  BY <1>0, <1>6, <1>9, <1>11, <1>12, <1>13
<1>15. active' = SumOf(amount', In("Finalized")')
  BY <1>4, <1>9, <1>11, <1>12, <1>13
<1>16. ASSUME NEW k \in Clients PROVE usage'[k] = SumOf(amount', Of(k)')
  <2>1. CASE k = c
    <3>1. usage'[k] = usage[c] + d
      BY <2>1, <1>6 DEF RInv, TypeOK, Fields
    <3>2. SumOf(amount', Of(c)') = d + SumOf(amount, Of(c))
      BY <1>10, <1>11, <1>12
    <3> QED BY <3>1, <3>2, <2>1, <1>0, <1>6, <1>13
  <2>2. CASE k # c
    <3>1. usage'[k] = usage[k]
      BY <2>2, <1>6 DEF RInv, TypeOK, Fields
    <3>2. SumOf(amount', Of(k)) = SumOf(amount, Of(k))
      BY <1>10, <1>11, <1>12
    <3> QED BY <3>1, <3>2, <2>2, <1>10, <1>13
  <2> QED BY <2>1, <2>2
<1>17. Counted'
  BY <1>14, <1>15, <1>16 DEF Counted
<1> QED BY <1>7, <1>17

(* finalize, cancel and redeem find the reservation's amount in every      *)
(* counter they take it from: no tryDecrease fails, and neither does the   *)
(* tryIncrease of the active exposure.                                     *)
LEMMA ArithmeticSucceeds ==
  ASSUME RInv, NEW r \in Reservations
  PROVE  /\ status[r] = "Reserved" =>
              /\ TryDecrease(reserved, amount[r]).ok
              /\ TryDecrease(reserved, amount[r]).value = reserved - amount[r]
              /\ TryIncrease(active, amount[r]).ok
              /\ TryIncrease(active, amount[r]).value = active + amount[r]
         /\ status[r] = "Finalized" =>
              /\ TryDecrease(active, amount[r]).ok
              /\ TryDecrease(active, amount[r]).value = active - amount[r]
         /\ status[r] \in {"Reserved", "Finalized"} =>
              /\ client[r] \in Clients
              /\ TryDecrease(usage[client[r]], amount[r]).ok
              /\ TryDecrease(usage[client[r]], amount[r]).value = usage[client[r]] - amount[r]
<1>1. /\ reserved = SumOf(amount, In("Reserved"))
      /\ active = SumOf(amount, In("Finalized"))
      /\ \A c \in Clients : usage[c] = SumOf(amount, Of(c))
  BY DEF RInv, Counted
<1>2. ASSUME NEW S, S \subseteq Reservations, r \in S, IsFiniteSet(S)
      PROVE  SumOf(amount, S) >= amount[r]
  <2>1. \A x \in S : amount[x] \in Nat
    BY <1>2, LiveFinite DEF RInv, TypeOK
  <2>2. SumOf(amount, S) = amount[r] + SumOf(amount, S \ {r})
    BY <1>2, <2>1, SumRemove
  <2>3. SumOf(amount, S \ {r}) \in Nat
    BY <1>2, <2>1, SumNat, FS_Subset
  <2> QED BY <2>1, <2>2, <2>3, <1>2
<1>3. /\ \A s : IsFiniteSet(In(s)) /\ In(s) \subseteq Reservations
      /\ \A k : IsFiniteSet(Of(k)) /\ Of(k) \subseteq Reservations
  BY LiveFinite DEF RInv, TypeOK, In, Of
<1>0. amount[r] \in Nat /\ reserved \in Int /\ active \in Int /\ MaxU \in Nat
  BY LiveFinite, RiskAssumption DEF RInv, TypeOK, Fields, U
<1>4. CASE status[r] = "Reserved"
  <2>1. r \in In("Reserved") /\ client[r] \in Clients /\ r \in Of(client[r])
    BY <1>4 DEF In, Of, RInv, TypeOK, Fields, Records, Recorded
  <2>2. reserved >= amount[r] /\ usage[client[r]] >= amount[r]
    BY <2>1, <1>1, <1>2, <1>3
  <2>3. active + amount[r] <= MaxU
    BY <2>2, <1>0 DEF RInv, TypeOK, U
  <2> QED BY <2>1, <2>2, <2>3, <1>4 DEF TryDecrease, TryIncrease
<1>5. CASE status[r] = "Finalized"
  <2>1. r \in In("Finalized") /\ client[r] \in Clients /\ r \in Of(client[r])
    BY <1>5 DEF In, Of, RInv, TypeOK, Fields, Records, Recorded
  <2>2. active >= amount[r] /\ usage[client[r]] >= amount[r]
    BY <2>1, <1>1, <1>2, <1>3
  <2> QED BY <2>1, <2>2, <1>5 DEF TryDecrease
<1> QED BY <1>4, <1>5

(* An amount moves into and out of a sum over live reservations.           *)
LEMMA Shift ==
  ASSUME Fields, NEW r \in Reservations
  PROVE  /\ \A s : r \in In(s) =>
              /\ SumOf(amount, In(s)) = amount[r] + SumOf(amount, In(s) \ {r})
              /\ SumOf(amount, In(s) \ {r}) \in Nat
         /\ \A s : r \notin In(s) => SumOf(amount, In(s) \cup {r}) = amount[r] + SumOf(amount, In(s))
         /\ \A c : r \in Of(c) =>
              /\ SumOf(amount, Of(c)) = amount[r] + SumOf(amount, Of(c) \ {r})
              /\ SumOf(amount, Of(c) \ {r}) \in Nat
<1>1. /\ \A s : IsFiniteSet(In(s)) /\ In(s) \subseteq Reservations
      /\ \A k : IsFiniteSet(Of(k)) /\ Of(k) \subseteq Reservations
      /\ \A q \in Reservations : amount[q] \in Nat
  BY LiveFinite DEF In, Of
<1>2. ASSUME NEW S, S \subseteq Reservations, IsFiniteSet(S)
      PROVE  /\ r \in S => /\ SumOf(amount, S) = amount[r] + SumOf(amount, S \ {r})
                           /\ SumOf(amount, S \ {r}) \in Nat
             /\ r \notin S => SumOf(amount, S \cup {r}) = amount[r] + SumOf(amount, S)
  <2>1. \A x \in S : amount[x] \in Nat
    BY <1>1, <1>2
  <2>2. IsFiniteSet(S \ {r})
    BY <1>2, FS_RemoveElement
  <2>3. SumOf(amount, S \ {r}) \in Nat
    BY <2>1, <2>2, SumNat
  <2>4. r \in S => SumOf(amount, S) = amount[r] + SumOf(amount, S \ {r})
    BY <1>2, <2>1, SumRemove
  <2>5. r \notin S => SumOf(amount, S \cup {r}) = amount[r] + SumOf(amount, S)
    BY <1>1, <1>2, <2>1, SumInsert
  <2> QED BY <2>3, <2>4, <2>5
<1> QED BY <1>1, <1>2

(* finalize moves the reservation's amount from the reserved to the active *)
(* exposure; the client's usage still holds it.                            *)
LEMMA AccountedFinalize ==
  ASSUME RInv, NEW r \in Reservations, Finalize(r)
  PROVE  Counted' /\ reserved' + active' <= MaxU
<1>1. /\ reserved' = reserved - amount[r] /\ active' = active + amount[r]
      /\ UNCHANGED <<usage, client, amount>>
      /\ status' = [status EXCEPT ![r] = "Finalized"] /\ status[r] = "Reserved"
  BY ArithmeticSucceeds DEF Finalize, Select
<1>2. /\ In("Reserved")' = In("Reserved") \ {r} /\ r \in In("Reserved")
      /\ In("Finalized")' = In("Finalized") \cup {r} /\ r \notin In("Finalized")
      /\ \A k : Of(k)' = Of(k)
  BY <1>1 DEF In, Of, RInv, TypeOK, Fields
<1>3. /\ SumOf(amount, In("Reserved")) = amount[r] + SumOf(amount, In("Reserved") \ {r})
      /\ SumOf(amount, In("Finalized") \cup {r}) = amount[r] + SumOf(amount, In("Finalized"))
      /\ SumOf(amount, In("Reserved") \ {r}) \in Nat
  BY <1>2, Shift DEF RInv, TypeOK
<1>4. /\ amount[r] \in Nat /\ reserved \in Nat /\ active \in Nat /\ MaxU \in Nat
      /\ reserved + active <= MaxU
  BY LiveFinite, RiskAssumption DEF RInv, TypeOK, Fields, U
<1>5. reserved' + active' <= MaxU
  BY <1>1, <1>4
<1>6. reserved' = SumOf(amount', In("Reserved")')
  <2>1. reserved = SumOf(amount, In("Reserved"))
    BY DEF RInv, Counted
  <2>2. SumOf(amount', In("Reserved")') = SumOf(amount, In("Reserved") \ {r})
    BY <1>1, <1>2
  <2>3. reserved' = SumOf(amount, In("Reserved") \ {r})
    BY <2>1, <1>1, <1>3, <1>4
  <2> QED BY <2>2, <2>3
<1>7. active' = SumOf(amount', In("Finalized")')
  <2>1. active = SumOf(amount, In("Finalized"))
    BY DEF RInv, Counted
  <2>2. SumOf(amount', In("Finalized")') = SumOf(amount, In("Finalized") \cup {r})
    BY <1>1, <1>2
  <2>3. active' = SumOf(amount, In("Finalized") \cup {r})
    BY <2>1, <1>1, <1>3, <1>4
  <2> QED BY <2>2, <2>3
<1>8. \A k \in Clients : usage'[k] = SumOf(amount', Of(k)')
  BY <1>1, <1>2 DEF RInv, Counted
<1> QED BY <1>5, <1>6, <1>7, <1>8 DEF Counted

(* cancel and redeem take the reservation's amount out of the exposure it  *)
(* was in and out of its own client's usage.                               *)
LEMMA AccountedRelease ==
  ASSUME RInv, NEW r \in Reservations, Cancel(r) \/ Redeem(r)
  PROVE  Counted' /\ reserved' + active' <= MaxU
<1>1. /\ status[r] \in {"Reserved", "Finalized"}
      /\ client[r] \in Clients
      /\ usage' = [usage EXCEPT ![client[r]] = usage[client[r]] - amount[r]]
      /\ UNCHANGED <<client, amount>>
      /\ \/ /\ status[r] = "Reserved" /\ status' = [status EXCEPT ![r] = "Cancelled"]
            /\ reserved' = reserved - amount[r] /\ active' = active
         \/ /\ status[r] = "Finalized" /\ status' = [status EXCEPT ![r] = "Redeemed"]
            /\ active' = active - amount[r] /\ reserved' = reserved
  <2>1. CASE Cancel(r)
    BY <2>1, ArithmeticSucceeds DEF Cancel, Select
  <2>2. CASE Redeem(r)
    BY <2>2, ArithmeticSucceeds DEF Redeem, Select
  <2> QED BY <2>1, <2>2
<1>2. /\ status[r] = "Reserved" =>
           /\ In("Reserved")' = In("Reserved") \ {r} /\ r \in In("Reserved")
           /\ In("Finalized")' = In("Finalized")
      /\ status[r] = "Finalized" =>
           /\ In("Finalized")' = In("Finalized") \ {r} /\ r \in In("Finalized")
           /\ In("Reserved")' = In("Reserved")
  BY <1>1 DEF In, RInv, TypeOK, Fields
<1>3. /\ r \in Of(client[r]) /\ Of(client[r])' = Of(client[r]) \ {r}
      /\ \A k \in Clients : k # client[r] => Of(k)' = Of(k)
  BY <1>1 DEF In, Of, RInv, TypeOK, Fields
<1>4. /\ amount[r] \in Nat /\ reserved \in Nat /\ active \in Nat /\ MaxU \in Nat
      /\ reserved + active <= MaxU
  BY LiveFinite, RiskAssumption DEF RInv, TypeOK, Fields, U
<1>5. reserved' + active' <= MaxU
  BY <1>1, <1>4
<1>6. ASSUME NEW s, r \in In(s)
      PROVE  SumOf(amount, In(s)) - amount[r] = SumOf(amount, In(s) \ {r})
  BY <1>4, <1>6, Shift DEF RInv, TypeOK
<1>7. SumOf(amount, Of(client[r])) - amount[r] = SumOf(amount, Of(client[r]) \ {r})
  BY <1>3, <1>4, Shift DEF RInv, TypeOK
<1>8. reserved' = SumOf(amount', In("Reserved")')
  BY <1>1, <1>2, <1>6 DEF RInv, Counted
<1>9. active' = SumOf(amount', In("Finalized")')
  BY <1>1, <1>2, <1>6 DEF RInv, Counted
<1>10. ASSUME NEW k \in Clients PROVE usage'[k] = SumOf(amount', Of(k)')
  <2>1. CASE k = client[r]
    <3>1. usage'[k] = usage[client[r]] - amount[r]
      BY <2>1, <1>1 DEF RInv, TypeOK, Fields
    <3>2. usage[client[r]] = SumOf(amount, Of(client[r]))
      BY <1>1 DEF RInv, Counted
    <3>3. Of(k)' = Of(client[r]) \ {r}
      BY <2>1, <1>1, <1>3 DEF Of, In
    <3> QED BY <3>1, <3>2, <3>3, <1>1, <1>7
  <2>2. CASE k # client[r]
    <3>1. usage'[k] = usage[k]
      BY <2>2, <1>1 DEF RInv, TypeOK, Fields
    <3> QED BY <3>1, <2>2, <1>1, <1>3 DEF RInv, Counted
  <2> QED BY <2>1, <2>2
<1> QED BY <1>5, <1>8, <1>9, <1>10 DEF Counted

(* Every call keeps the counters and the reservations in agreement.        *)
LEMMA AccountedStep == RInv /\ [Next]_vars => RInv'
<1> SUFFICES ASSUME RInv, [Next]_vars PROVE RInv'
  OBVIOUS
<1>1. Fields'
  BY FieldsStep DEF RInv, TypeOK
<1>2. Records'
  BY RecordStep DEF RInv, TypeOK
<1>3. Counted' /\ reserved' + active' <= MaxU
  <2>0. reserved + active <= MaxU
    BY RiskAssumption DEF RInv, TypeOK, U
  <2>1. ASSUME NEW r \in Reservations, NEW c \in Clients, NEW a \in Amounts, Reserve(r, c, a)
        PROVE  Counted' /\ reserved' + active' <= MaxU
    BY <2>1, AccountedReserve
  <2>2. ASSUME NEW r \in Reservations, Finalize(r) \/ Cancel(r) \/ Redeem(r)
        PROVE  Counted' /\ reserved' + active' <= MaxU
    BY <2>2, AccountedFinalize, AccountedRelease
  <2>3. ASSUME NEW c \in Clients, NEW v \in Limits, ConfigureClientLimit(c, v)
        PROVE  Counted' /\ reserved' + active' <= MaxU
    <3>1. reserved' = reserved /\ active' = active
      BY <2>3 DEF ConfigureClientLimit
    <3> QED BY <2>0, <2>3, <3>1, AccountedConfigure
  <2>4. CASE UNCHANGED <<reserved, active, usage, status, client, amount>>
    BY <2>0, <2>4, AccountedFrame DEF RInv
  <2>5. \/ UNCHANGED <<reserved, active, usage, status, client, amount>>
        \/ \E r \in Reservations, c \in Clients, a \in Amounts : Reserve(r, c, a)
        \/ \E r \in Reservations : Finalize(r) \/ Cancel(r) \/ Redeem(r)
        \/ \E c \in Clients, v \in Limits : ConfigureClientLimit(c, v)
    BY DEF Next, vars, exposure, Pause, Unpause, RolloverEpoch, ConfigureCapacity
  <2> QED BY <2>1, <2>2, <2>3, <2>4, <2>5
<1>4. reserved' + active' \in U
  <2>1. reserved' \in Nat /\ active' \in Nat
    BY <1>1, RiskAssumption DEF Fields, U
  <2>2. reserved' + active' <= MaxU
    BY <1>3
  <2>3. \A m, n \in Nat : m + n <= MaxU => m + n \in 0..MaxU
    BY RiskAssumption
  <2> QED BY <2>1, <2>2, <2>3 DEF U
<1> QED BY <1>1, <1>2, <1>3, <1>4 DEF RInv, TypeOK

(* The counters agree with the reservations, every reservation belongs to  *)
(* a configured client and the committed exposure fits the width, at every *)
(* moment: the invariant that carries ExposureAccounted.                   *)
THEOREM RiskInvariance == Spec => []RInv
<1>1. Init => RInv
  <2> SUFFICES ASSUME Init PROVE RInv
    OBVIOUS
  <2>1. Fields /\ Records
    BY RiskInitFields, InitRecords
  <2>2. /\ In("Reserved") = {} /\ In("Finalized") = {} /\ \A c : Of(c) = {}
        /\ \A r \in Reservations : status[r] = "Empty"
        /\ reserved = 0 /\ active = 0 /\ \A c \in Clients : usage[c] = 0
    BY DEF Init, In, Of
  <2>3. Counted
    BY <2>2, SumEmpty DEF Counted
  <2>4. reserved + active \in U
    BY <2>2, RiskAssumption DEF U
  <2> QED BY <2>1, <2>3, <2>4 DEF RInv, TypeOK
<1> QED BY <1>1, AccountedStep, PTL DEF Spec

(* The contract stays well formed: no reservation's amount is counted as   *)
(* reserved and as active at once, so the two together fit one euint64 at  *)
(* every moment, for any width.  See TypeOK.                               *)
THEOREM RiskTypeCorrect == Spec => []TypeOK
<1>1. RInv => TypeOK
  BY DEF RInv
<1> QED BY <1>1, RiskInvariance, PTL

(* The encrypted counters are the sums of the live reservations for any    *)
(* number of reservations and clients and any width: see                   *)
(* ExposureAccounted.                                                      *)
THEOREM CapacityNeverLeaks == Spec => []ExposureAccounted
<1>1. RInv => ExposureAccounted
  BY CountedIsAccounted DEF RInv
<1> QED BY <1>1, RiskInvariance, PTL
=============================================================================
