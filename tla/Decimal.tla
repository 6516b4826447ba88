------------------------------ MODULE Decimal ------------------------------
(***************************************************************************)
(* From a number token to a fixed-point integer: kraken's decimal_token,   *)
(* which expands an exponent, and core's parse_decimal, which both venues  *)
(* call.  A text is a sequence of characters: the digits 0 .. 9, Point and *)
(* Other (anything else).  A token is what decimal_token's grammar splits  *)
(* a number into: sign, digits before and after the point, and the         *)
(* exponent, <<>> when there is none.                                      *)
(***************************************************************************)
EXTENDS FixedWidth

CONSTANTS
    MaxScale,       \* largest scale (18)
    MaxExponent,    \* largest exponent (100)
    Tokens,         \* tokens decimal_token is given
    Texts,          \* texts parse_decimal is given directly
    Scales          \* scales asked for

Point == 10
Other == 11
Digits == 0 .. 9

ASSUME DecimalAssumption ==
    /\ MaxScale \in Nat /\ MaxExponent \in Nat
    /\ \A t \in Tokens : /\ t.negative \in BOOLEAN /\ t.whole # <<>>
                         /\ t.whole \in Seq(Digits) /\ t.fraction \in Seq(Digits)
                         /\ t.exponent \in Seq(Int) /\ Len(t.exponent) <= 1
    /\ Texts \subseteq Seq(Digits \cup {Point, Other})
    /\ Scales \subseteq Int

VARIABLES token, text, scale,  \* inputs; text is also decimal_token's result
          raw, next, zeros,    \* parse_decimal: value, next character, zeros appended
          outcome

decimalVars == <<token, text, scale, raw, next, zeros, outcome>>

-----------------------------------------------------------------------------
(***************************************************************************)
(* decimal_token.                                                          *)
(***************************************************************************)
Zeros(n) == [i \in 1 .. n |-> 0]

\* The digits with the point moved by the exponent.
Expanded(t) ==
    LET s == t.whole \o t.fraction
        position == Len(t.whole) + Head(t.exponent)
    IN IF position <= 0 THEN <<0, Point>> \o Zeros(-position) \o s
       ELSE IF position >= Len(s) THEN s \o Zeros(position - Len(s))
       ELSE SubSeq(s, 1, position) \o <<Point>> \o SubSeq(s, position + 1, Len(s))

\* A token without exponent is returned as it is.
Verbatim(t) == IF t.fraction = <<>> THEN t.whole ELSE t.whole \o <<Point>> \o t.fraction

\* The grammar has no sign, and the exponent is bounded.
Refused(t) == t.negative \/ (t.exponent # <<>> /\ Head(t.exponent) \notin -MaxExponent .. MaxExponent)

ExpandToken ==
    /\ outcome = "token"
    /\ IF Refused(token) THEN outcome' = "invalid" /\ UNCHANGED text
       ELSE /\ outcome' = "text"
            /\ text' = IF token.exponent = <<>> THEN Verbatim(token) ELSE Expanded(token)
    /\ UNCHANGED <<token, scale, raw, next, zeros>>

-----------------------------------------------------------------------------
(***************************************************************************)
(* parse_decimal.                                                          *)
(***************************************************************************)
\* The validation loop.
WellFormed(s) ==
    /\ \A i \in DOMAIN s : s[i] # Other
    /\ \A i \in DOMAIN s : s[i] = Point => /\ i # 1 /\ i # Len(s)
                                           /\ \A j \in 1 .. i - 1 : s[j] # Point

FractionalDigits(s) ==
    IF \E i \in DOMAIN s : s[i] = Point
    THEN Len(s) - (CHOOSE i \in DOMAIN s : s[i] = Point) ELSE 0

\* scale, empty text, grammar and precision are checked before any digit is used.
Validate ==
    /\ outcome = "text"
    /\ outcome' = IF scale \notin 0 .. MaxScale THEN "unsupported_scale"
                  ELSE IF text = <<>> \/ ~WellFormed(text) \/ FractionalDigits(text) > scale
                  THEN "invalid" ELSE "append"
    /\ UNCHANGED <<token, text, scale, raw, next, zeros>>

\* Mutant of Overflows: the digit is left out of the comparison.
OverflowsByProduct(digit) == raw > Maximum \div 10

Overflows(digit) == raw > (Maximum - digit) \div 10

Append10(digit) ==
    IF Overflows(digit) THEN outcome' = "overflow" /\ UNCHANGED raw
    ELSE raw' = Wrap(raw * 10 + digit) /\ UNCHANGED outcome

AppendCharacter ==
    /\ outcome = "append" /\ next <= Len(text)
    /\ next' = next + 1
    /\ IF text[next] = Point THEN UNCHANGED <<raw, outcome>> ELSE Append10(text[next])
    /\ UNCHANGED <<token, text, scale, zeros>>

AppendZero ==
    /\ outcome = "append" /\ next > Len(text) /\ FractionalDigits(text) + zeros < scale
    /\ zeros' = zeros + 1
    /\ Append10(0)
    /\ UNCHANGED <<token, text, scale, next>>

ParseReturns ==
    /\ outcome = "append" /\ next > Len(text) /\ FractionalDigits(text) + zeros = scale
    /\ outcome' = "done"
    /\ UNCHANGED <<token, text, scale, raw, next, zeros>>

-----------------------------------------------------------------------------
NoToken == [negative |-> FALSE, whole |-> <<>>, fraction |-> <<>>, exponent |-> <<>>]

DecimalInit ==
    /\ \/ token \in Tokens /\ text = <<>> /\ outcome = "token"
       \/ token = NoToken /\ text \in Texts /\ outcome = "text"
    /\ scale \in Scales
    /\ raw = 0 /\ next = 1 /\ zeros = 0

DecimalNext == ExpandToken \/ Validate \/ AppendCharacter \/ AppendZero \/ ParseReturns

-----------------------------------------------------------------------------
(***************************************************************************)
(* Properties.                                                             *)
(***************************************************************************)
\* The reference: the digits and the power of ten the input stands for, the token
\* as it was written or the text without its point.
Denoted ==
    IF token = NoToken
    THEN [digits |-> SelectSeq(text, LAMBDA c : c # Point), exponent |-> -FractionalDigits(text)]
    ELSE [digits |-> token.whole \o token.fraction,
          exponent |-> (IF token.exponent = <<>> THEN 0 ELSE Head(token.exponent))
                           - Len(token.fraction)]

Verdict ==
    IF token # NoToken /\ Refused(token) THEN "invalid"
    ELSE IF scale \notin 0 .. MaxScale THEN "unsupported_scale"
    ELSE IF \/ token = NoToken /\ (text = <<>> \/ ~WellFormed(text))
            \/ Denoted.exponent + scale < 0 THEN "invalid"
    ELSE IF Number(Denoted.digits) * 10 ^ (Denoted.exponent + scale) > Maximum THEN "overflow"
    ELSE "done"

\* Conversion is exact or refuses.  The result is the value of the number as it was
\* written, however its exponent moves the point; the precision check sees the same
\* excess of decimals whichever way it is written; and the overflow check, made
\* digit by digit on prefixes and on the zeros that scale them, fires exactly when
\* the value does not fit.
ParsesExactly ==
    outcome \in {"done", "invalid", "unsupported_scale", "overflow"} =>
        /\ outcome = Verdict
        /\ outcome = "done" => raw = Number(Denoted.digits) * 10 ^ (Denoted.exponent + scale)
=============================================================================
