---------------------------- MODULE Conversions ----------------------------
(***************************************************************************)
(* The numbers of a message, converted one at a time: a behaviour is one   *)
(* call, of the decimal conversion or of the time stamp conversion.        *)
(***************************************************************************)
EXTENDS Decimal, Timestamp

Idle == "idle"

Init ==
    \/ /\ DecimalInit
       /\ seconds = 0 /\ digits = <<>> /\ fraction = 0 /\ count = 0 /\ stamp = 0 /\ answer = Idle
    \/ /\ StampInit
       /\ token = NoToken /\ text = <<>> /\ scale = 0 /\ raw = 0 /\ next = 1 /\ zeros = 0
       /\ outcome = Idle

Returned ==
    /\ {outcome, answer} \subseteq {Idle, "done", "invalid", "unsupported_scale", "overflow"}
    /\ UNCHANGED <<decimalVars, stampVars>>

Next ==
    \/ DecimalNext /\ UNCHANGED stampVars
    \/ StampNext /\ UNCHANGED decimalVars
    \/ Returned

Spec == Init /\ [][Next]_<<decimalVars, stampVars>>
=============================================================================
