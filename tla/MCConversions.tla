--------------------------- MODULE MCConversions ---------------------------
(* Conversions on a 10-bit integer (-512 .. 511).  Decimals: texts of at most *)
(* four characters, tokens of at most two digits on each side of the point.   *)
(* Time stamps: two digits of fraction; the range ends inside the seconds -6  *)
(* and 5, and seconds go beyond it on both sides.                             *)
EXTENDS Conversions

MCWholes == {<<0>>} \cup {<<d>> : d \in {1, 5, 7}}
                    \cup {<<d, e>> : d \in {1, 5, 7}, e \in {0, 1}}

MCTokens ==
    [negative : {FALSE}, whole : MCWholes, fraction : BoundedSeq({0, 1, 2}, 2),
     exponent : {<<>>} \cup {<<e>> : e \in -3 .. 3}]
    \cup [negative : {TRUE}, whole : {<<1>>}, fraction : {<<>>}, exponent : {<<>>}]

MCTexts == BoundedSeq({0, 1, 2, 5, Point, Other}, 4)

MCScales == -1 .. 3

MCSeconds == -8 .. 8
MCFractions == BoundedSeq(0 .. 9, 2)
=============================================================================
