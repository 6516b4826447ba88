----------------------------- MODULE Timestamp -----------------------------
(***************************************************************************)
(* The end of parse_timestamp, the same code in both venues' parsers: the  *)
(* seconds since the epoch and the digits of the fraction become one       *)
(* signed integer of nanoseconds, or the message is refused.  The calendar *)
(* (std::chrono) and the layout of the text are left out: the inputs are   *)
(* the seconds, negative before 1970, and the digits after the point.      *)
(***************************************************************************)
EXTENDS FixedWidth

CONSTANTS
    FractionDigits,  \* digits of a full fraction (9)
    Seconds,         \* seconds that occur
    Fractions        \* digit sequences that occur, at most FractionDigits long

ASSUME TimestampAssumption ==
    /\ FractionDigits \in Nat
    /\ Seconds \subseteq Int
    /\ \A f \in Fractions : f \in Seq(0 .. 9) /\ Len(f) <= FractionDigits

VARIABLES seconds, digits,  \* inputs
          fraction, count,  \* the fraction, digits read or zeros appended so far
          stamp, answer

stampVars == <<seconds, digits, fraction, count, stamp, answer>>

Billion == 10 ^ FractionDigits

\* C++ division and remainder: towards zero.
Quotient(n, d) == IF n >= 0 THEN n \div d ELSE -((-n) \div d)
Remainder(n, d) == n - d * Quotient(n, d)

StampInit ==
    /\ seconds \in Seconds /\ digits \in Fractions
    /\ fraction = 0 /\ count = 0
    /\ stamp = 0 /\ answer = "fraction"

\* number(20, digits), then fraction *= 10 until there are nine digits.
ReadFraction ==
    /\ answer = "fraction" /\ count < FractionDigits
    /\ fraction' = Wrap(fraction * 10 + IF count < Len(digits) THEN digits[count + 1] ELSE 0)
    /\ count' = count + 1
    /\ UNCHANGED <<seconds, digits, stamp, answer>>

\* Mutant of TooLate: the fraction is left out of the bound.
TooLateBySeconds == seconds > Quotient(Maximum, Billion)

TooLate == seconds > Quotient(Maximum - fraction, Billion)

Answer(refused, value) ==
    IF refused THEN answer' = "invalid" /\ UNCHANGED stamp
    ELSE answer' = "done" /\ stamp' = value

ConvertNonnegative ==
    /\ answer = "fraction" /\ count = FractionDigits /\ seconds >= 0
    /\ Answer(TooLate, Wrap(Wrap(seconds * Billion) + fraction))
    /\ UNCHANGED <<seconds, digits, fraction, count>>

TooEarly ==
    LET least == Quotient(Minimum, Billion) - 1
    IN seconds < least \/ (seconds = least /\ fraction < Billion + Remainder(Minimum, Billion))

ConvertNegative ==
    /\ answer = "fraction" /\ count = FractionDigits /\ seconds < 0
    /\ Answer(TooEarly, Wrap(Wrap((seconds + 1) * Billion) + (fraction - Billion)))
    /\ UNCHANGED <<seconds, digits, fraction, count>>

StampNext == ReadFraction \/ ConvertNonnegative \/ ConvertNegative

-----------------------------------------------------------------------------
(***************************************************************************)
(* Properties.                                                             *)
(***************************************************************************)

\* The reference: the digits read as a fraction of a second, in nanoseconds.
Nanoseconds ==
    seconds * Billion
    + Number(digits) * 10 ^ (FractionDigits - Len(digits))

\* A time stamp is exact or refused, and refused only when it does not fit: up to
\* both ends of the range, in the second that straddles each of them, and before
\* the epoch, where the fraction still counts upwards.
ConvertsExactly ==
    /\ answer = "done" => stamp = Nanoseconds
    /\ answer = "invalid" => Nanoseconds \notin Minimum .. Maximum
=============================================================================
