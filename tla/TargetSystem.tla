---------------------------- MODULE TargetSystem ----------------------------
(***************************************************************************)
(* One workflow between the two processes that write its record: the       *)
(* target runtime with its broker, and the Telegram adapter.  They share   *)
(* the store and its lock and nothing else.                                *)
(***************************************************************************)
EXTENDS TargetBroker, ResultLane

vars == <<wf, lock, budget, rtVars, laneVars>>

\* A new plan waits for the human's decision; a record armed before there
\* were placeholders is delivered by the legacy lane.
Init ==
    /\ wf \in {NewRecord("PLANNED"), NewRecord("AUTHORIZED")}
    /\ lock = "free"
    /\ budget = MaxDisturbed
    /\ RuntimeInit /\ LaneInit

Next ==
    \/ RuntimeNext /\ UNCHANGED laneVars
    \/ LaneNext /\ UNCHANGED rtVars

Spec == Init /\ [][Next]_vars

\* The runtime polls, the adapter loops and is started again after a crash;
\* a validity window and a capability end with time.  The adapter waits in a
\* blocking lock that the runtime leaves between its passes, so a step that
\* is possible again and again is taken: strong fairness.
FairSpec ==
    /\ Spec
    /\ WF_vars(RuntimeStep /\ UNCHANGED laneVars)
    /\ SF_vars(LaneStep /\ UNCHANGED rtVars)
    /\ WF_vars(RequestAges /\ UNCHANGED laneVars)
    /\ WF_vars(CapabilityExpires /\ UNCHANGED laneVars)

TypeOK ==
    /\ wf \in Record
    /\ lock \in {"free", "held"}
    /\ budget \in Nat
    /\ RuntimeTypeOK
    /\ LaneTypeOK

-----------------------------------------------------------------------------
(* Safety *)

\* Targets are launched at most once for every dispatch receipt that was
\* durable before the launch, across crashes and follow-ups, and never more
\* often than the authorization allows (_dispatch: marker before spawn).
SpawnsWithinReceipts ==
    /\ spawns <= wf.dispatches
    /\ wf.dispatches <= 1 + MaxFollowUps

\* A workflow that was given a placeholder has its target launched only once
\* the placeholder is bound, and the binding is never lost afterwards
\* (_placeholder_dispatch_refusal; adapter: bound is terminal).
SpawnNeedsBound == spawns > 0 => wf.placeholder \in {"none", "bound"}

\* A result is verified, and later completed, only for a dispatch whose exact
\* target was bound (dispatch_identity_unresolved is asked before verify).
VerifiedOnlyResolved ==
    wf.phase \in {"VERIFIED", "COMPLETED"} =>
        wf.engine = "bound" /\ wf.verified # "none"

\* A bound identity is that of a target really launched and recorded as such
\* (_reconcile: never a probable guess).
BoundIsReal == wf.engine = "bound" => childRecord = "good" /\ spawns > 0

\* Whatever is lost, repeated or interrupted, a workflow with a placeholder
\* never has more than one result object in the chat (R-5: send intent saved
\* first, one transport call, an unknown outcome never retried).
OneResultObject == wf.placeholder # "none" => messages <= 1

\* A result recorded as delivered by edit was really shown in the bound
\* message (_classify_edit_outcome: an ambiguous edit is no proof).
DeliveredWasShown == wf.delivery = "delivered_by_edit" => shown

\* Between passes the store holds no live capability but those a crash of
\* the runtime left behind: no refusal leaks one (perform: R-01).
NoLeak == pc = "idle" => live["forward"] + live["cleanup"] <= crashes

\* Every phase change of either process, containment and stops included, is
\* one the record's table lists, so apply_transition never raises.
PhaseFollowsTable ==
    [][wf'.phase # wf.phase => <<wf.phase, wf'.phase>> \in AllowedTransitions]_vars

\* The step that records a verified result finds the authorized policy and a
\* stopped target at that step, whatever moved while the turn ran (_verify:
\* gates against a fresh collection).
VerifiedAgainstFresh ==
    [][wf'.phase = "VERIFIED" /\ wf.phase # "VERIFIED" =>
          policy = "same" /\ child = "stopped"]_vars

\* The workspace of a launched target is removed only after its evidence was
\* archived (_release: preservation is a proven precondition).
ArchivedBeforeRemoval ==
    [][dir /\ ~dir' /\ spawns > 0 => archived]_vars

\* The managed directory is removed only when no live target session works
\* in it (_domain_b_nothing_to_close: "positive evidence in which no session
\* remains").
NoSessionInRemoved == [][dir /\ ~dir' => session = 0]_vars

-----------------------------------------------------------------------------
(* Liveness *)

\* A dispatch whose target was never bound does not stay unresolved: it is
\* bound or stopped, even when every capability it needs is refused
\* (_handle_dispatch_recovery: capacity before spawn).
UnresolvedSettles == Unresolved(wf) ~> ~Unresolved(wf)

\* The result of a completed workflow with a bound placeholder is shown, or
\* the failure to show it is on record (deliver_result_edits).
ResultPresented ==
    wf.phase = "COMPLETED" /\ wf.placeholder = "bound" ~>
        wf.delivery \in {"delivered_by_edit", "degraded_unbindable",
                         "degraded_unrenderable"}
=============================================================================
