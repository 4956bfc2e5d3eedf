------------------------------- MODULE Units -------------------------------
(***************************************************************************)
(* Amounts as the coordinator converts them: whole tokens of an operator,  *)
(* base units on Solana (bridge/src/units.rs), decimal texts on Canton,    *)
(* and the comparison of such texts by the completion checks               *)
(* (canton.rs, canton_history.rs).                                         *)
(*                                                                         *)
(* A text is its whole part and the digits after the point; a text that is *)
(* no decimal is refused by every reader and is left out.  The radix and   *)
(* the widths of u64 and u128 are parameters, so that overflow, padding    *)
(* and every number of places occur in a small instance.                   *)
(***************************************************************************)
EXTENDS Integers, Sequences

CONSTANTS Radix,        \* 10
          MaxDecimals,  \* 18, what validate_decimals admits
          Places,       \* 6, the places the completion checks keep
          MaxU64, MaxU128

(* Powers of the radix, as a function so that they can be reasoned about.  *)
Pow[n \in Nat] == IF n = 0 THEN 1 ELSE Pow[n - 1] * Radix

ASSUME UnitsAssumption ==
  /\ {Radix, MaxDecimals, Places, MaxU64, MaxU128} \subseteq Nat \ {0}
  /\ Radix > 1 /\ Places <= MaxDecimals
  /\ Pow[MaxDecimals] <= MaxU64 /\ MaxU64 <= MaxU128

Error == -1

Digit == 0..(Radix - 1)

(* checked_mul and checked_add, and parse, of an exact result.             *)
Checked(n, max) == IF n \in 0..max THEN n ELSE Error

(* Decimal digits to a number and back, without leading zeros.             *)
NumberOf(digits) ==
  LET value[k \in 0..Len(digits)] ==
        IF k = 0 THEN 0 ELSE value[k - 1] * Radix + digits[k]
  IN  value[Len(digits)]

DigitsOf(n) ==
  LET width == CHOOSE w \in 1..(n + 1) : n < Pow[w] /\ (w = 1 \/ n >= Pow[w - 1])
  IN  [i \in 1..width |-> (n \div Pow[width - i]) % Radix]

PadRight(digits, width) ==
  digits \o [i \in 1..(IF Len(digits) < width THEN width - Len(digits) ELSE 0) |-> 0]

PadLeft(digits, width) ==
  [i \in 1..(IF Len(digits) < width THEN width - Len(digits) ELSE 0) |-> 0] \o digits

(* trim_end_matches('0').                                                  *)
TrimZeros(digits) ==
  SubSeq(digits, 1, CHOOSE k \in 0..Len(digits) :
                      /\ \A i \in (k + 1)..Len(digits) : digits[i] = 0
                      /\ k = 0 \/ digits[k] # 0)

-----------------------------------------------------------------------------
ScaleFor(decimals) == IF decimals > MaxDecimals THEN Error ELSE Checked(Pow[decimals], MaxU64)

FromWholeTokens(tokens, decimals) ==
  IF ScaleFor(decimals) = Error \/ tokens = 0 THEN Error
  ELSE Checked(tokens * ScaleFor(decimals), MaxU64)

WholeTokens(base, decimals) ==
  IF ScaleFor(decimals) = Error \/ base % ScaleFor(decimals) # 0 THEN Error
  ELSE base \div ScaleFor(decimals)

(* canton_decimal_to_base_units.                                           *)
CantonDecimalToBaseUnits(text, decimals) ==
  LET whole == Checked(text.whole, MaxU64)
      frac  == Checked(NumberOf(PadRight(text.frac, decimals)), MaxU64)
      base  == Checked(whole * ScaleFor(decimals), MaxU64)
  IN  IF \/ decimals > MaxDecimals \/ Len(text.frac) > decimals
         \/ whole = Error \/ frac = Error \/ base = Error
         \/ base + frac = 0
      THEN Error ELSE Checked(base + frac, MaxU64)

(* Faulty variant: the places after the point are not filled with zeros.   *)
Unpadded(base, decimals) ==
  [whole |-> base \div ScaleFor(decimals), frac |-> DigitsOf(base % ScaleFor(decimals))]

(* base_units_to_canton_decimal.  Without decimals one zero is printed.    *)
BaseUnitsToCantonDecimal(base, decimals) ==
  [whole |-> base \div ScaleFor(decimals),
   frac  |-> PadLeft(DigitsOf(base % ScaleFor(decimals)), decimals)]

(* decimal_to_base6: any number of trailing zeros, and zero is an amount.  *)
DecimalToBase6(text) ==
  LET frac  == TrimZeros(text.frac)
      whole == Checked(text.whole, MaxU128)
      base  == Checked(whole * Pow[Places], MaxU128)
  IN  IF Len(frac) > Places \/ whole = Error \/ base = Error THEN Error
      ELSE Checked(base + NumberOf(PadRight(frac, Places)), MaxU128)

AmountsMatch(left, right) ==
  DecimalToBase6(left) # Error /\ DecimalToBase6(left) = DecimalToBase6(right)

-----------------------------------------------------------------------------
(* Reference: a text is worth an exact number of the smallest unit any     *)
(* text in use can show.                                                   *)
Texts == [whole : 0..(MaxU64 + 1), frac : UNION {[1..n -> Digit] : n \in 0..(MaxDecimals + 1)}]

Worth(text) == text.whole * Pow[MaxDecimals + 1]
               + NumberOf(PadRight(text.frac, MaxDecimals + 1))

UnitWorth(decimals) == Pow[MaxDecimals + 1 - decimals]

(* Conversions lose nothing and invent nothing: what is printed for Canton *)
(* reads back as the same base units; a text is read as exactly its worth  *)
(* or refused; whole tokens come back or do not fit; and the completion    *)
(* checks call two texts equal only if they are worth the same, and always *)
(* when one was printed by the coordinator and the other means the amount. *)
(* Without decimals the printed text has a place the reader refuses.       *)
UnitsAgree ==
  /\ \A base \in 1..MaxU64, d \in 0..MaxDecimals :
       CantonDecimalToBaseUnits(BaseUnitsToCantonDecimal(base, d), d)
         = IF d = 0 THEN Error ELSE base
  /\ \A text \in Texts, d \in 0..(MaxDecimals + 1) :
       LET base == CantonDecimalToBaseUnits(text, d)
       IN  IF base # Error THEN base > 0 /\ base * UnitWorth(d) = Worth(text)
           ELSE \/ d > MaxDecimals \/ Len(text.frac) > d
                \/ Worth(text) \notin UnitWorth(d)..(MaxU64 * UnitWorth(d))
  /\ \A tokens \in 0..MaxU64, d \in 0..MaxDecimals :
       LET base == FromWholeTokens(tokens, d)
       IN  IF base # Error THEN WholeTokens(base, d) = tokens
           ELSE tokens = 0 \/ tokens * Pow[d] > MaxU64
  /\ \A base \in 1..MaxU64, text \in Texts :
       LET printed == BaseUnitsToCantonDecimal(base, Places)
       IN  AmountsMatch(printed, text) <=> Worth(text) = base * UnitWorth(Places)
=============================================================================
