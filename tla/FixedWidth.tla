----------------------------- MODULE FixedWidth -----------------------------
(***************************************************************************)
(* Signed integers of Width bits, 64 in the code.  Products and sums wrap, *)
(* so that an overflow the code fails to refuse is seen.                   *)
(***************************************************************************)
EXTENDS Integers, Sequences, SequencesExt

CONSTANT Width

ASSUME WidthAssumption == Width \in Nat \ {0, 1}

Maximum == 2 ^ (Width - 1) - 1
Minimum == -(2 ^ (Width - 1))

\* Two's complement.
Wrap(n) == ((n - Minimum) % (2 ^ Width)) + Minimum

\* The number a sequence of digits denotes.
Number(digits) == FoldLeft(LAMBDA n, d : 10 * n + d, 0, digits)
=============================================================================
