----------------------------- MODULE RiskEngine -----------------------------
(***************************************************************************)
(* The Zama confidential risk engine                                       *)
(* (zama/contracts/ConfidentialRiskEngine.sol).  One contract call is one  *)
(* atomic action.  Encrypted values are modelled by their plaintexts,      *)
(* which the contract never branches on: every FHE.select is a conditional *)
(* value, every revert a disabled action.  The width of euint64 is MaxU.   *)
(* Callers hold the role the function asks for; roles never change.        *)
(***************************************************************************)
EXTENDS Integers, FiniteSetsExt

CONSTANTS Reservations,   \* reservation ids
          Clients,        \* client ids
          MaxU,           \* largest euint64 (2^64 - 1 in the contract)
          EpochModulus,   \* 2^64 in the contract
          Amounts,        \* encrypted amounts a requester may submit
          Limits          \* capacities and limits an administrator may set

ASSUME RiskAssumption == /\ MaxU \in Nat
                         /\ EpochModulus \in Nat \ {0}
                         /\ Amounts \subseteq 0..MaxU
                         /\ Limits \subseteq 0..MaxU
                         /\ IsFiniteSet(Reservations)   \* bytes32 ids

VARIABLES paused, epoch,
          capacity, reserved, active,    \* globalCapacity and exposures
          configured, limit, usage,      \* per client
          status, client, amount, approved   \* per reservation

policy == <<paused, epoch, capacity, configured, limit>>
exposure == <<reserved, active, usage>>
vars == <<policy, exposure, status, client, amount, approved>>

U == 0..MaxU

Statuses == {"Empty", "Reserved", "Finalized", "Cancelled", "Redeemed"}

Fields == /\ paused \in BOOLEAN
          /\ epoch \in 0..(EpochModulus - 1)
          /\ capacity \in U /\ reserved \in U /\ active \in U
          /\ configured \subseteq Clients
          /\ limit \in [Clients -> U] /\ usage \in [Clients -> U]
          /\ status \in [Reservations -> Statuses]
          /\ client \in [Reservations -> Clients \cup {"none"}]
          /\ amount \in [Reservations -> U]
          /\ approved \in [Reservations -> BOOLEAN]

Recorded(r) == IF status[r] = "Empty"
               THEN client[r] = "none" /\ amount[r] = 0 /\ ~approved[r]
               ELSE client[r] \in configured /\ (approved[r] <=> amount[r] > 0)

Records == \A r \in Reservations : Recorded(r)

(* A well-formed contract.  Every field is of its type; a reservation id   *)
(* in use has a configured client and an amount exactly when it was        *)
(* approved, an unused one has nothing; and what is reserved and active    *)
(* together still fits one euint64, which the tryAdd of the next reserve   *)
(* (nextCommitted) and the tryIncrease of finalize depend on.              *)
TypeOK == Fields /\ Records /\ reserved + active \in U

-----------------------------------------------------------------------------
(* FHESafeMath: on failure the old value is kept and ok is false.          *)

TryIncrease(old, delta) == IF old + delta <= MaxU
                           THEN [ok |-> TRUE, value |-> old + delta]
                           ELSE [ok |-> FALSE, value |-> old]

TryDecrease(old, delta) == IF old >= delta
                           THEN [ok |-> TRUE, value |-> old - delta]
                           ELSE [ok |-> FALSE, value |-> old]

(* Faulty variant: a plain addition that wraps.                            *)
WrappingAdd(a, b) == [ok |-> TRUE, value |-> (a + b) % (MaxU + 1)]

TryAdd(a, b) == IF a + b <= MaxU
                THEN [ok |-> TRUE, value |-> a + b]
                ELSE [ok |-> FALSE, value |-> 0]

(* Faulty variant: the decision is ignored.                                *)
Always(ok, yes, no) == yes

Select(ok, yes, no) == IF ok THEN yes ELSE no

-----------------------------------------------------------------------------
Init == /\ paused = FALSE /\ epoch = 0
        /\ capacity = 0 /\ reserved = 0 /\ active = 0
        /\ configured = {}
        /\ limit = [c \in Clients |-> 0] /\ usage = [c \in Clients |-> 0]
        /\ status = [r \in Reservations |-> "Empty"]
        /\ client = [r \in Reservations |-> "none"]
        /\ amount = [r \in Reservations |-> 0]
        /\ approved = [r \in Reservations |-> FALSE]

Pause == /\ ~paused /\ paused' = TRUE
         /\ UNCHANGED <<epoch, capacity, configured, limit>>
         /\ UNCHANGED <<exposure, status, client, amount, approved>>

Unpause == /\ paused /\ paused' = FALSE
           /\ UNCHANGED <<epoch, capacity, configured, limit>>
           /\ UNCHANGED <<exposure, status, client, amount, approved>>

RolloverEpoch == /\ epoch' = (epoch + 1) % EpochModulus
                 /\ UNCHANGED <<paused, capacity, configured, limit>>
                 /\ UNCHANGED <<exposure, status, client, amount, approved>>

ConfigureCapacity(cap) == /\ capacity' = cap
                          /\ UNCHANGED <<paused, epoch, configured, limit>>
                          /\ UNCHANGED <<exposure, status, client, amount, approved>>

(* Faulty variant: every configuration resets the usage.                   *)
ResetUsage(c) == [usage EXCEPT ![c] = 0]

(* Only the first configuration of a client initialises its usage.         *)
InitialUsage(c) == IF c \in configured THEN usage ELSE [usage EXCEPT ![c] = 0]

ConfigureClientLimit(c, lim) ==
  /\ limit' = [limit EXCEPT ![c] = lim]
  /\ configured' = configured \cup {c}
  /\ usage' = InitialUsage(c)
  /\ UNCHANGED <<paused, epoch, capacity, reserved, active>>
  /\ UNCHANGED <<status, client, amount, approved>>

(* A request beyond capacity or limit, an overflowing or a zero one is     *)
(* recorded as Reserved all the same, with amount 0 and not approved.      *)
Reserve(r, c, a) ==
  /\ ~paused
  /\ status[r] = "Empty"
  /\ c \in configured
  /\ LET nextReserved  == TryIncrease(reserved, a)
         nextUsage     == TryIncrease(usage[c], a)
         nextCommitted == TryAdd(nextReserved.value, active)
         ok == /\ nextReserved.ok /\ nextUsage.ok
               /\ nextCommitted.ok /\ nextCommitted.value <= capacity
               /\ nextUsage.value <= limit[c]
               /\ a > 0
     IN  /\ reserved' = Select(ok, nextReserved.value, reserved)
         /\ usage' = [usage EXCEPT ![c] = Select(ok, nextUsage.value, @)]
         /\ amount' = [amount EXCEPT ![r] = Select(ok, a, 0)]
         /\ approved' = [approved EXCEPT ![r] = ok]
  /\ client' = [client EXCEPT ![r] = c]
  /\ status' = [status EXCEPT ![r] = "Reserved"]
  /\ UNCHANGED <<policy, active>>

(* Faulty variant: the amount becomes active and stays reserved as well.   *)
KeepsReserved(r) ==
  /\ ~paused
  /\ status[r] = "Reserved"
  /\ active' = TryIncrease(active, amount[r]).value
  /\ status' = [status EXCEPT ![r] = "Finalized"]
  /\ UNCHANGED <<policy, reserved, usage, client, amount, approved>>

(* The status advances even when the encrypted arithmetic fails.           *)
Finalize(r) ==
  /\ ~paused
  /\ status[r] = "Reserved"
  /\ LET nextReserved == TryDecrease(reserved, amount[r])
         nextActive   == TryIncrease(active, amount[r])
         ok == nextReserved.ok /\ nextActive.ok
     IN  /\ reserved' = Select(ok, nextReserved.value, reserved)
         /\ active' = Select(ok, nextActive.value, active)
  /\ status' = [status EXCEPT ![r] = "Finalized"]
  /\ UNCHANGED <<policy, usage, client, amount, approved>>

Cancel(r) ==
  /\ ~paused
  /\ status[r] = "Reserved"
  /\ LET nextReserved == TryDecrease(reserved, amount[r])
         nextUsage    == TryDecrease(usage[client[r]], amount[r])
         ok == nextReserved.ok /\ nextUsage.ok
     IN  /\ reserved' = Select(ok, nextReserved.value, reserved)
         /\ usage' = [usage EXCEPT ![client[r]] = Select(ok, nextUsage.value, @)]
  /\ status' = [status EXCEPT ![r] = "Cancelled"]
  /\ UNCHANGED <<policy, active, client, amount, approved>>

Redeem(r) ==
  /\ ~paused
  /\ status[r] = "Finalized"
  /\ LET nextActive == TryDecrease(active, amount[r])
         nextUsage  == TryDecrease(usage[client[r]], amount[r])
         ok == nextActive.ok /\ nextUsage.ok
     IN  /\ active' = Select(ok, nextActive.value, active)
         /\ usage' = [usage EXCEPT ![client[r]] = Select(ok, nextUsage.value, @)]
  /\ status' = [status EXCEPT ![r] = "Redeemed"]
  /\ UNCHANGED <<policy, reserved, client, amount, approved>>

Next == \/ Pause \/ Unpause \/ RolloverEpoch
        \/ \E v \in Limits : ConfigureCapacity(v)
        \/ \E c \in Clients, v \in Limits : ConfigureClientLimit(c, v)
        \/ \E r \in Reservations, c \in Clients, a \in Amounts : Reserve(r, c, a)
        \/ \E r \in Reservations : Finalize(r) \/ Cancel(r) \/ Redeem(r)

Spec == Init /\ [][Next]_vars

-----------------------------------------------------------------------------
(* Properties *)

Total(S) == MapThenSumSet(LAMBDA r : amount[r], S)

(* The encrypted counters are the sums of the live reservations: reserved  *)
(* exposure over the reserved ones, active exposure over the finalized     *)
(* ones, each client's usage over both.  No sequence of rejections,        *)
(* cancellations, limit changes and redemptions leaks capacity or frees    *)
(* another reservation's share, and so no tryDecrease ever fails.          *)
ExposureAccounted ==
  LET in(s) == {r \in Reservations : status[r] = s}
  IN  /\ reserved = Total(in("Reserved"))
      /\ active = Total(in("Finalized"))
      /\ \A c \in Clients :
           usage[c] = Total({r \in in("Reserved") \cup in("Finalized") : client[r] = c})

Grows(c) ==
  /\ reserved' + active' > reserved + active => reserved' + active' <= capacity
  /\ usage'[c] > usage[c] => usage'[c] <= limit[c]

(* Exposure and client usage only ever grow up to the policy in force at   *)
(* that moment; lowering a limit below the current exposure stops growth   *)
(* but takes nothing away (reserve, configureCapacity).                    *)
GrowthWithinPolicy == [][\A c \in Clients : Grows(c)]_vars

Inert(r) == status'[r] # status[r] /\ ~approved'[r] => UNCHANGED exposure

(* A reservation the engine did not approve never moves exposure, at any   *)
(* point of its life: settling, cancelling or redeeming it is inert, so    *)
(* capacity is never freed for something that never took any (reserve      *)
(* records amount 0).                                                      *)
RejectedIsInert == [][\A r \in Reservations : Inert(r)]_vars
=============================================================================
