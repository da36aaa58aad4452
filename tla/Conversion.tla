------------------------------ MODULE Conversion ------------------------------
(***************************************************************************)
(* The conversions of tstlan/devices/models.py: what a user may write to a  *)
(* variable (coerce_value) and what becomes of the sample of a signal       *)
(* (fit_value).                                                             *)
(*                                                                          *)
(* A number is counted in quarters: 6 is 1.5.  It is the coarsest unit with *)
(* a fraction below a half, a tie and one above.  The finite precision and  *)
(* range of f32 and f64 are left out.  TLC, whose integers have 32 bits,    *)
(* meets the narrow types only; the theorems are about all of them.         *)
(***************************************************************************)
EXTENDS Integers

Unit == 4

Word == 65536

Floats == {"f32", "f64"}

Ints == {"bit", "u8", "i8", "u16", "i16", "u32", "i32", "u64", "i64"}

CTypes == Ints \cup Floats

(* _INT_RANGES. *)
High(ctype) ==
    CASE ctype = "bit" -> 1
      [] ctype = "u8"  -> 255
      [] ctype = "i8"  -> 127
      [] ctype = "u16" -> Word - 1
      [] ctype = "i16" -> 32767
      [] ctype = "u32" -> Word * Word - 1
      [] ctype = "i32" -> 32768 * Word - 1
      [] ctype = "u64" -> Word * Word * Word * Word - 1
      [] ctype = "i64" -> 32768 * Word * Word * Word - 1

Low(ctype) == IF ctype \in {"i8", "i16", "i32", "i64"} THEN -High(ctype) - 1 ELSE 0

InRange(ctype, n) == Low(ctype) <= n /\ n <= High(ctype)

(* What the buffer of the device can hold. *)
Represents(ctype, x) == ctype \in Ints => x % Unit = 0 /\ InRange(ctype, x \div Unit)

----------------------------------------------------------------------------
(* A number of a JSON request: an integer literal, a literal with a point,  *)
(* or a boolean, which Python counts among the integers.                    *)
Whole(n) == [form |-> "int", x |-> Unit * n]
Decimal(x) == [form |-> "float", x |-> x]
Boolean(n) == [form |-> "bool", x |-> Unit * n]

(* coerce_value returns the number, or raises ValueValidationError.         *)
Accepts(ctype, input) ==
    /\ input.form # "bool"
    /\ ctype \in Ints => input.form = "int" /\ InRange(ctype, input.x \div Unit)

(* The fraction is cut off. *)
SlipRound(x) == x \div Unit

(* round: the nearest integer, a half to the even one.                      *)
Round(x) ==
    LET n == x \div Unit  rest == 2 * (x % Unit) IN
    IF rest < Unit \/ (rest = Unit /\ n % 2 = 0) THEN n ELSE n + 1

Clamp(ctype, n) ==
    IF n < Low(ctype) THEN Low(ctype) ELSE IF n > High(ctype) THEN High(ctype) ELSE n

FitValue(ctype, x) == IF ctype \in Floats THEN x ELSE Unit * Clamp(ctype, Round(x))

----------------------------------------------------------------------------
Distance(x, y) == IF x < y THEN y - x ELSE x - y

(* Of the values a register can hold, y is one that is nearest to x.        *)
Nearest(ctype, x, y) ==
    IF ctype \in Floats THEN y = x
    ELSE /\ Represents(ctype, y)
         /\ \A n \in Low(ctype)..High(ctype) : Distance(x, y) <= Distance(x, Unit * n)

(* A sample becomes the nearest value its register can hold. *)
FitsNearest(ctype, x) == Nearest(ctype, x, FitValue(ctype, x))

(* Users and signals meet the same limits: a write is accepted exactly when *)
(* it is a number that fit_value would store unchanged.                     *)
SameLimits(ctype, n) ==
    /\ Accepts(ctype, Whole(n)) <=> FitValue(ctype, Unit * n) = Unit * n
    /\ ~Accepts(ctype, Boolean(n))
=============================================================================
