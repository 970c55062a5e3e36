---------------------------- MODULE MissionRun ----------------------------
(***************************************************************************)
(* The run half of the registry: what is recorded of the one run of an     *)
(* authorized mission.  Each operator gives the documents the operation    *)
(* may save: none when it refuses.  Every write is made inside the store's *)
(* lock, and only by an authenticated caller.                              *)
(***************************************************************************)
EXTENDS MissionCore

CONSTANTS
    MaxPauses,            \* pauses one run may record
    MaxReconcileAttempts, \* reconciles of one run that may see nothing yet
    MaxVerifications      \* verifications of one run that may stay blocked

RunBounds == {MaxPauses, MaxReconcileAttempts, MaxVerifications}

ASSUME RunBoundsAssumption == RunBounds \subseteq Nat \ {0}

Saved(guard, d) == IF guard THEN {d} ELSE {}

MoveIn(d, m, target, reason) ==
    [d EXCEPT !.missions[m].state = target,
              !.missions[m].lifecycle = Append(@, [to |-> target, reason |-> reason])]

MayMove(mission, target) == <<mission.state, target>> \in RunTransitions

WithRun(d, m, run) == [d EXCEPT !.missions[m].run = run]

\* Pause, resume and cancel name the authorization of the run, or the latest
\* one issued when no run was recorded.
BoundAuthorization(mission) ==
    IF IntentOf(mission) # None THEN IntentOf(mission)
    ELSE IF mission.authorizations = <<>> THEN None
    ELSE Last(mission.authorizations)

TargetOf(mission) == RunOf(mission).task

-----------------------------------------------------------------------------
(* The workspace, bound and prepared before any intent.                    *)

BeforeIntent(mission) == mission.state = "AUTHORIZED" /\ IntentOf(mission) = None

HoldsPath(mission, path) == HasRun(mission) /\ mission.run.path = path

PathFree(d, m, path) ==
    \A other \in DOMAIN d.missions \ {m} : ~HoldsPath(d.missions[other], path)

RecordWorkspaceBinding(d, m, path) ==
    LET mission == d.missions[m]
        run == RunOf(mission)
    IN  IF run.workspace = "none"
        THEN Saved(/\ BeforeIntent(mission) /\ ~Paused(mission)
                   /\ PathFree(d, m, path),
                   WithRun(d, m, [run EXCEPT !.workspace = "PREPARING", !.path = path]))
        ELSE Saved(/\ BeforeIntent(mission) /\ ~Paused(mission)
                   /\ PathFree(d, m, path) /\ run.path = path, d)

RecordWorkspacePrepared(d, m) ==
    LET mission == d.missions[m] IN
    Saved(/\ BeforeIntent(mission) /\ ~Paused(mission)
          /\ RunOf(mission).workspace # "none",
          [d EXCEPT !.missions[m].run.workspace = "PREPARED"])

RecordWorkspaceRefusal(d, m) ==
    LET mission == d.missions[m] IN
    Saved(BeforeIntent(mission),
          WithRun(d, m, [RunOf(mission) EXCEPT !.refused = TRUE]))

-----------------------------------------------------------------------------
(* The intent, the receipt and the observed run.                           *)

OtherLiveRunOn(d, m, path) ==
    \E other \in DOMAIN d.missions \ {m} :
        /\ HoldsPath(d.missions[other], path)
        /\ IntentOf(d.missions[other]) # None
        /\ ~Terminal(d.missions[other])

\* Faulty variant: an intent that is already recorded does not refuse.
RecordRunIntentAgain(d, m, authorization, revision, path, t) ==
    LET mission == d.missions[m] IN
    Saved(/\ mission.state = "AUTHORIZED"
          /\ ~Paused(mission)
          /\ PermitsUse(d, authorization, m, revision, t)
          /\ PermitsRun(d.authorizations[authorization].scope)
          /\ ~OtherLiveRunOn(d, m, path)
          /\ RunOf(mission).workspace = "PREPARED"
          /\ RunOf(mission).path = path,
          [d EXCEPT !.missions[m].run.intent = authorization])

RecordRunIntent(d, m, authorization, revision, path, t) ==
    LET mission == d.missions[m] IN
    Saved(/\ BeforeIntent(mission)
          /\ ~Paused(mission)
          /\ PermitsUse(d, authorization, m, revision, t)
          /\ PermitsRun(d.authorizations[authorization].scope)
          /\ ~OtherLiveRunOn(d, m, path)
          /\ RunOf(mission).workspace = "PREPARED"
          /\ RunOf(mission).path = path,
          [d EXCEPT !.missions[m].run.intent = authorization])

\* A spawn that returned names its target or does not; a reconciliation later
\* binds the target of a receipt that has none.  A pause refuses only the latter.
RecordRunReceipt(d, m, task, source) ==
    LET mission == d.missions[m] IN
    Saved(/\ IntentOf(mission) # None
          /\ mission.state = "AUTHORIZED"
          /\ source = "reconciliation" => ~Paused(mission) /\ task # None
          /\ \/ mission.run.receipt = "none"
             \/ TargetOf(mission) = None /\ source = "reconciliation",
          [d EXCEPT !.missions[m].run.receipt = source, !.missions[m].run.task = task])

RecordObservedRunning(d, m, task, stopped) ==
    LET mission == d.missions[m] IN
    Saved(/\ ~Paused(mission)
          /\ task # None /\ TargetOf(mission) = task
          /\ MayMove(mission, "RUNNING"),
          MoveIn(d, m, "RUNNING",
                 IF stopped THEN "observed_after_stop" ELSE "observed_running"))

-----------------------------------------------------------------------------
(* Reconciliation of a run whose target is not bound.                      *)

ReconcileStops ==
    {"reconcile_no_match", "reconcile_degraded", "reconcile_not_observable",
     "reconcile_late_child_aborted"}
LateStops == {"reconcile_degraded", "reconcile_not_observable"}

\* The stop of a child found already aborted binds it in the same write.
RecordRunStop(d, m, reason, task) ==
    LET mission == d.missions[m]
        bound == IF task = None THEN d
                 ELSE [d EXCEPT !.missions[m].run.task = task,
                                !.missions[m].run.receipt = "reconciliation"]
    IN
    Saved(/\ ~Paused(mission)
          /\ IntentOf(mission) # None
          /\ (task # None) = (reason = "reconcile_late_child_aborted")
          /\ task # None => TargetOf(mission) = None
          /\ MayMove(mission, "BLOCKED"),
          MoveIn(bound, m, "BLOCKED", reason))

HeldRun(mission) ==
    /\ mission.state = "AUTHORIZED"
    /\ IntentOf(mission) # None
    /\ TargetOf(mission) = None

\* Faulty variants: one attempt too many; a pause that came after the read.
RecordReconcileUnobservedLate(d, m) ==
    LET mission == d.missions[m]
        counted == [d EXCEPT !.missions[m].run.unobserved = @ + 1]
    IN
    Saved(~Paused(mission) /\ HeldRun(mission),
          IF mission.run.unobserved >= MaxReconcileAttempts
          THEN MoveIn(counted, m, "BLOCKED", "reconcile_not_observable")
          ELSE counted)

RecordReconcileUnobservedPaused(d, m) ==
    LET mission == d.missions[m]
        counted == [d EXCEPT !.missions[m].run.unobserved = @ + 1]
    IN
    Saved(HeldRun(mission),
          IF mission.run.unobserved + 1 >= MaxReconcileAttempts
          THEN MoveIn(counted, m, "BLOCKED", "reconcile_not_observable")
          ELSE counted)

\* The attempt that reaches the bound stops the run in the same write.
RecordReconcileUnobserved(d, m) ==
    LET mission == d.missions[m]
        counted == [d EXCEPT !.missions[m].run.unobserved = @ + 1]
    IN
    Saved(~Paused(mission) /\ HeldRun(mission),
          IF mission.run.unobserved + 1 >= MaxReconcileAttempts
          THEN MoveIn(counted, m, "BLOCKED", "reconcile_not_observable")
          ELSE counted)

StoppedUnobserved(mission) ==
    /\ mission.state = "BLOCKED"
    /\ Len(mission.lifecycle) = 1
    /\ mission.lifecycle[1].reason \in LateStops
    /\ TargetOf(mission) = None

RecordLateResolution(d, m, task) ==
    LET mission == d.missions[m] IN
    Saved(StoppedUnobserved(mission) /\ mission.run.late = None,
          [d EXCEPT !.missions[m].run.late = task])

-----------------------------------------------------------------------------
(* Verification.                                                           *)

\* The conjuncts of a verification that a read can fail.
Failures == {"target_stopped", "target_succeeded", "review_approve", "evidence_complete"}

\* Faulty variant: obligations that are still open do not hold it back.
RecordVerificationUnproven(d, m, failed, proof) ==
    LET mission == d.missions[m]
        decided(outcome) == [d EXCEPT !.missions[m].run.verification = outcome]
    IN
    IF Paused(mission) \/ mission.state # "RUNNING" THEN {}
    ELSE IF failed # "none" THEN {MoveIn(decided(failed), m, "BLOCKED", failed)}
    ELSE IF ~proof.accepted THEN {}
    ELSE {MoveIn(decided("verified"), m, "COMPLETED", "verified_completion")}

\* failed is the first conjunct that does not hold, or "none"; proof says what
\* Mission State holds of the approved contract.
RecordVerification(d, m, failed, proof) ==
    LET mission == d.missions[m]
        decided(outcome) == [d EXCEPT !.missions[m].run.verification = outcome]
    IN
    IF Paused(mission) \/ mission.state # "RUNNING" THEN {}
    ELSE IF failed # "none" THEN {MoveIn(decided(failed), m, "BLOCKED", failed)}
    ELSE IF ~proof.accepted \/ ~proof.active THEN {}
    ELSE IF proof.open
    THEN Saved(mission.run.pending < MaxVerifications,
               [d EXCEPT !.missions[m].run.pending = @ + 1])
    ELSE {MoveIn(decided("verified"), m, "COMPLETED", "verified_completion")}

-----------------------------------------------------------------------------
(* Pause, resume and cancel.                                               *)

RecordPause(d, m, authorization) ==
    LET mission == d.missions[m]
        run == RunOf(mission)
    IN
    Saved(/\ mission.state \in {"AUTHORIZED", "RUNNING"}
          /\ authorization # None /\ authorization = BoundAuthorization(mission)
          /\ ~Paused(mission)
          /\ run.pauses < MaxPauses,
          WithRun(d, m, [run EXCEPT !.pauses = @ + 1, !.paused = TRUE]))

RecordResume(d, m, authorization) ==
    LET mission == d.missions[m] IN
    Saved(/\ ~Terminal(mission)
          /\ authorization # None /\ authorization = BoundAuthorization(mission)
          /\ Paused(mission),
          [d EXCEPT !.missions[m].run.paused = FALSE])

\* What a cancel may say it interrupted, by the durable facts.
Achievable(mission) ==
    CASE mission.state = "AUTHORIZED" ->
            {IF IntentOf(mission) = None THEN "cancelled_before_intent"
             ELSE "cancelled_after_intent_target_unknown"}
      [] mission.state = "RUNNING" ->
            {"cancelled_after_observed_running", "cancelled_after_target_terminated"}
      [] OTHER -> {}

RecordCancel(d, m, achieved, authorization) ==
    LET mission == d.missions[m] IN
    Saved(/\ ~Terminal(mission)
          /\ authorization # None /\ authorization = BoundAuthorization(mission)
          /\ achieved \in Achievable(mission),
          MoveIn(WithRun(d, m, [RunOf(mission) EXCEPT !.cancel = achieved]),
                 m, "CANCELLED", achieved))

CompleteCancel(d, m, quiescence, authorization) ==
    LET mission == d.missions[m] IN
    Saved(/\ authorization = BoundAuthorization(mission)
          /\ mission.state = "CANCELLED"
          /\ mission.run.cancel # "none" /\ mission.run.quiescence = "none",
          [d EXCEPT !.missions[m].run.quiescence = quiescence])

-----------------------------------------------------------------------------
(* What a load checks of a run against the state and the lifecycle.        *)

Chain(mission) ==
    [n \in 0 .. Len(mission.lifecycle) |->
        IF n = 0 THEN "AUTHORIZED" ELSE mission.lifecycle[n].to]

LastReason(mission) ==
    IF mission.lifecycle = <<>> THEN "none" ELSE Last(mission.lifecycle).reason

ReachedRunning(mission) ==
    mission.lifecycle # <<>> /\ mission.lifecycle[1].to = "RUNNING"

RunStates == {"RUNNING", "COMPLETED", "BLOCKED", "CANCELLED"}

LifecycleValid(mission) ==
    /\ mission.state \in RunStates <=> mission.lifecycle # <<>>
    /\ HasRun(mission) => mission.state \in RunStates \cup {"AUTHORIZED"}
    /\ mission.lifecycle # <<>> => HasRun(mission)
    /\ \A n \in 1 .. Len(mission.lifecycle) :
          <<Chain(mission)[n - 1], Chain(mission)[n]>> \in RunTransitions
    /\ mission.lifecycle # <<>> => Chain(mission)[Len(mission.lifecycle)] = mission.state

RunValid(mission) ==
    LET run == mission.run
        aborted == LastReason(mission) = "reconcile_late_child_aborted"
        exhausted == LastReason(mission) = "reconcile_not_observable"
    IN
    HasRun(mission) =>
    /\ run.intent # None => run.workspace = "PREPARED"
    /\ run.receipt # "none" => run.intent # None
    /\ ReachedRunning(mission) => run.receipt # "none" /\ run.task # None
    /\ run.verification # "none" =>
          /\ Len(mission.lifecycle) = 2
          /\ LastReason(mission) = IF run.verification = "verified"
                                   THEN "verified_completion" ELSE run.verification
    /\ run.verification = "none" =>
          /\ mission.state # "COMPLETED"
          /\ \A n \in DOMAIN mission.lifecycle : mission.lifecycle[n].reason \notin Failures
    /\ run.pending > 0 => ReachedRunning(mission) /\ run.pending <= MaxVerifications
    /\ (run.cancel # "none") = (mission.state = "CANCELLED")
    /\ run.unobserved > 0 => run.intent # None
    /\ (run.unobserved = MaxReconcileAttempts) = exhausted
    /\ aborted => run.task # None /\ run.receipt = "reconciliation"
    /\ run.late # None => StoppedUnobserved(mission)
    /\ run.intent = None => mission.state \notin {"RUNNING", "COMPLETED", "BLOCKED"}

\* Quiescence is never claimed beyond what the interrupted state allows.
QuiescenceFor(achieved) ==
    CASE achieved = "cancelled_before_intent" -> {"nothing_started"}
      [] achieved = "cancelled_after_target_terminated" ->
            {"task_observed_stopped", "owned_group_reaped", "unproven"}
      [] OTHER -> {"owned_group_reaped", "unproven"}

\* What interrupted a run that was observed running, and no other.
CancelsObserved == {"cancelled_after_observed_running", "cancelled_after_target_terminated"}

\* Only the receipt of an owned process group supports one that was reaped, and
\* no receipt of a production run names one.
CancelValid(mission) ==
    (HasRun(mission) /\ mission.run.cancel # "none") =>
    /\ LastReason(mission) = mission.run.cancel
    /\ (mission.run.cancel = "cancelled_before_intent") = (mission.run.intent = None)
    /\ ReachedRunning(mission) <=> mission.run.cancel \in CancelsObserved
    /\ mission.run.quiescence # "owned_group_reaped"
    /\ mission.run.quiescence \in
          {"none"} \cup QuiescenceFor(mission.run.cancel)

Accepted(d, m) ==
    /\ Reconciles(d, m)
    /\ LifecycleValid(d.missions[m])
    /\ RunValid(d.missions[m])
    /\ CancelValid(d.missions[m])
=============================================================================
