---------------------------- MODULE ScaledValue ----------------------------
(***************************************************************************)
(* Scaled numbers, value * 10^scale, and their text                        *)
(* (src/src/use_case/model/scaled_value.c, src/src/common/eebus_math).     *)
(* A text is its sign, its digits before the point and the digits after    *)
(* the point as a count and a number; a real number in a double is a       *)
(* count of ten-thousandths, the precision that is kept.                   *)
(***************************************************************************)
EXTENDS Integers

CONSTANT NoString   \* the null pointer for a number that has no text

kMaxSafeScale == 18
kMaxNegativeScale == -4

PowerOfTen[n \in Nat] == IF n = 0 THEN 1 ELSE 10 * PowerOfTen[n - 1]

Abs(n) == IF n < 0 THEN -n ELSE n

(* Division of C, which rounds towards zero.                               *)
CDiv(n, d) == IF n < 0 THEN -((-n) \div d) ELSE n \div d

(* A number without a scale has the scale 0; one without a value is none.  *)
ScaledValueInitWithScaledNumber(number, scale) ==
    [value |-> number[1], scale |-> IF scale = <<>> THEN 0 ELSE scale[1]]

Text(neg, whole, digits, fraction) ==
    [neg |-> neg, whole |-> whole, digits |-> digits, fraction |-> fraction]

ScaledValueToString(v) ==
    IF v.scale = 0 \/ v.value = 0 THEN Text(v.value < 0, Abs(v.value), 0, 0)
    ELSE IF Abs(v.scale) > kMaxSafeScale THEN NoString
    ELSE IF v.scale > 0 THEN Text(v.value < 0, Abs(v.value) * PowerOfTen[v.scale], 0, 0)
    ELSE LET p     == PowerOfTen[-v.scale]
             whole == CDiv(v.value, p)
             frac  == Abs(v.value) % p
         IN  IF frac = 0 THEN Text(whole < 0, Abs(whole), 0, 0)
             ELSE Text(v.value < 0, Abs(whole), -v.scale, frac)

(* The sign is taken off before the digits are read.                       *)
ScaledValueParse(t) ==
    LET scale == IF t.fraction = 0 THEN 0 ELSE -t.digits
        n     == t.whole * PowerOfTen[-scale] + t.fraction
    IN  [value |-> IF t.neg THEN -n ELSE n, scale |-> scale]

(* In ten-thousandths; a number with more decimals is not exact, and a     *)
(* scale out of range is an error.                                         *)
ScaledValueToDouble(v) ==
    CASE v.value = 0                  -> 0
      [] Abs(v.scale) > kMaxSafeScale -> NoString
      [] v.scale >= kMaxNegativeScale -> v.value * PowerOfTen[v.scale - kMaxNegativeScale]
      [] OTHER                        -> CDiv(v.value, PowerOfTen[kMaxNegativeScale - v.scale])

(* Trailing zeros are stripped until no decimal is left.                   *)
ScaledValueWithDouble(d) ==
    LET zeros == CHOOSE k \in 0..4 :
                    /\ Abs(d) % PowerOfTen[k] = 0
                    /\ k = 4 \/ Abs(d) % PowerOfTen[k + 1] # 0
    IN  [value |-> CDiv(d, PowerOfTen[zeros]), scale |-> kMaxNegativeScale + zeros]

(* Two scaled values are the same number.                                  *)
SameNumber(v, w) ==
    LET low == IF v.scale < w.scale THEN v.scale ELSE w.scale
    IN  v.value * PowerOfTen[v.scale - low] = w.value * PowerOfTen[w.scale - low]
=============================================================================
