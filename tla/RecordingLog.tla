---------------------------- MODULE RecordingLog ----------------------------
(***************************************************************************)
(* What a recorded run promises, without threads or queues: envelopes are  *)
(* accepted in order, become durable in that same order, and the run ends  *)
(* with one verdict, "complete" only when everything accepted is durable.  *)
(***************************************************************************)
EXTENDS Naturals

VARIABLES accepted,  \* how many envelopes have been accepted
          durable,   \* how many of them, from the first on, are on disk
          verdict    \* "open", then "complete" or "failed"

vars == <<accepted, durable, verdict>>

Init == accepted = 0 /\ durable = 0 /\ verdict = "open"

Accept ==
    /\ verdict = "open"
    /\ accepted' = accepted + 1
    /\ UNCHANGED <<durable, verdict>>

Persist ==
    /\ verdict = "open" /\ durable < accepted
    /\ durable' = durable + 1
    /\ UNCHANGED <<accepted, verdict>>

Complete ==
    /\ verdict = "open" /\ durable = accepted
    /\ verdict' = "complete"
    /\ UNCHANGED <<accepted, durable>>

Fail ==
    /\ verdict = "open"
    /\ verdict' = "failed"
    /\ UNCHANGED <<accepted, durable>>

Next == Accept \/ Persist \/ Complete \/ Fail

Spec == Init /\ [][Next]_vars
=============================================================================
