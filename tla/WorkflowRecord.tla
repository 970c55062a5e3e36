--------------------------- MODULE WorkflowRecord ---------------------------
(***************************************************************************)
(* One workflow record of the shared store                                 *)
(* (src/workflow_authority/record.py), and what the two processes that     *)
(* write it share: the store with its lock, and the outside events a run   *)
(* of the system may meet.                                                 *)
(*                                                                         *)
(* Data abstraction.  Turns and receipts are counted; of the turns the     *)
(* record keeps only whether the latest standing request of a role is      *)
(* still inside its validity window.  Digests, texts, owners and times     *)
(* that never change after the record is armed are left out.               *)
(***************************************************************************)
EXTENDS Naturals

CONSTANTS
    MaxTurns,        \* codex_turns a record may hold (MAX_CODEX_TURNS)
    MaxReceipts,     \* receipts a record may hold (MAX_RECEIPTS)
    MaxFollowUps,    \* corrective dispatches (MAX_FOLLOW_UP_DISPATCHES)
    MaxCapabilities, \* live capabilities of the store (MAX_CAPABILITIES)
    Disturbances,    \* the kinds of outside event that may happen
    MaxDisturbed     \* bound: how many of them may happen in one behaviour

ASSUME TurnsAssumption == MaxTurns \in Nat \ {0}
ASSUME ReceiptsAssumption == MaxReceipts \in Nat \ {0}
ASSUME FollowUpsAssumption == MaxFollowUps \in Nat
ASSUME CapabilitiesAssumption == MaxCapabilities \in Nat \ {0}
ASSUME DisturbedAssumption == MaxDisturbed \in Nat

VARIABLES
    wf,    \* the record in the store
    lock,  \* exclusive_store_lock: "held" by a broker action, or "free"
    budget \* outside events left

Phases == {"PLANNED", "AUTHORIZED", "WORKSPACE_READY", "PREPARED",
           "VALIDATED", "DISPATCHED", "VERIFIED", "COMPLETED", "BLOCKED",
           "NEEDS_REAUTHORIZATION"}

Terminal == {"COMPLETED", "BLOCKED"}

\* The forward move of every phase that has one.
Forward ==
    {<<"PLANNED", "AUTHORIZED">>, <<"AUTHORIZED", "WORKSPACE_READY">>,
     <<"WORKSPACE_READY", "PREPARED">>, <<"PREPARED", "VALIDATED">>,
     <<"VALIDATED", "DISPATCHED">>, <<"DISPATCHED", "VERIFIED">>,
     <<"VERIFIED", "COMPLETED">>,
     <<"NEEDS_REAUTHORIZATION", "AUTHORIZED">>}

AllowedTransitions ==
    Forward
    \cup ((Phases \ Terminal) \X {"BLOCKED"})
    \cup ({"AUTHORIZED", "WORKSPACE_READY", "PREPARED", "VALIDATED",
           "DISPATCHED"} \X {"NEEDS_REAUTHORIZATION"})

Freshness == {"none", "fresh", "stale"}

PlaceholderStates ==
    {"none", "required", "sending", "failed_unsent", "bound", "indefinite"}

\* "reserved", "delivered" and "partial" belong to the legacy lane.
DeliveryStates ==
    {"none", "edit_pending", "delivered_by_edit", "edit_indefinite",
     "degraded_unbindable", "degraded_unrenderable",
     "reserved", "delivered", "partial"}

ReadinessStates == {"waiting", "unobservable", "ready", "failed"}

Record ==
    [phase       : Phases,
     request     : Freshness,  \* the latest handoff_validation turn
     recovery    : Freshness,  \* the latest status_recovery turn
     turns       : Nat,        \* codex_turns recorded
     receipts    : Nat,        \* receipts recorded
     dispatches  : Nat,        \* dispatch receipts among them
     readiness   : ReadinessStates \cup {"none"},
     engine      : {"none", "unknown", "bound"},
     lease       : {"none", "held", "released"},
     verified    : {"none", "fits", "oversize"},
     ambiguous   : BOOLEAN,
     placeholder : PlaceholderStates,
     delivery    : DeliveryStates]

\* A record one planning turn has filled, in the given phase.
NewRecord(phase) ==
    [phase |-> phase, request |-> "none", recovery |-> "none",
     turns |-> 1, receipts |-> 0, dispatches |-> 0, readiness |-> "none",
     engine |-> "none", lease |-> "none", verified |-> "none",
     ambiguous |-> FALSE, placeholder |-> "none", delivery |-> "none"]

-----------------------------------------------------------------------------
(* Changes of a record, each a working copy until it is saved *)

Moved(r, phase) == [r EXCEPT !.phase = phase]
WithTurn(r) == [r EXCEPT !.turns = @ + 1]
WithReceipts(r, n) == [r EXCEPT !.receipts = @ + n]

\* The hard bounds the validator puts on every save.
Fits(r) == r.turns <= MaxTurns /\ r.receipts <= MaxReceipts

\* dispatch_identity_unresolved: a dispatch happened and no exact target
\* was ever bound to it.
Unresolved(r) ==
    r.phase = "DISPATCHED" /\ r.dispatches >= 1 /\ r.engine # "bound"

Disturb(kind) ==
    /\ kind \in Disturbances /\ budget > 0
    /\ budget' = budget - 1
=============================================================================
