---------------------------- MODULE EffectLedger ----------------------------
(***************************************************************************)
(* What a PR delivery promises of its external effects, whatever crashes   *)
(* or fails on the way: they happen once each, one after the other, and    *)
(* the next one begins only when the record shows the one before it.       *)
(***************************************************************************)
EXTENDS Naturals

CONSTANT Total  \* how many effects the delivery is authorized for

VARIABLES
    done,    \* effects that took place
    noted,   \* effects the durable record shows as succeeded
    outcome  \* "open", or how the delivery ended

Init == done = 0 /\ noted = 0 /\ outcome = "open"

\* A new effect needs every earlier one on record.
Perform ==
    /\ outcome = "open" /\ noted = done /\ done < Total
    /\ done' = done + 1
    /\ UNCHANGED <<noted, outcome>>

\* The record catches up, by observation or by reconciliation after a crash.
Note ==
    /\ outcome = "open" /\ noted < done
    /\ noted' = done
    /\ UNCHANGED <<done, outcome>>

\* Complete only with everything done and on record; a delivery that is
\* blocked keeps what it has.
Finish ==
    /\ outcome = "open"
    /\ outcome' \in IF noted = Total THEN {"complete", "stopped"} ELSE {"stopped"}
    /\ UNCHANGED <<done, noted>>

Next == Perform \/ Note \/ Finish

Spec == Init /\ [][Next]_<<done, noted, outcome>>
=============================================================================
