---------------------------- MODULE TargetBroker ----------------------------
(***************************************************************************)
(* The handlers of the broker (src/target_runtime/broker.py), run with the *)
(* store lock held and the gate passed, and the world they act on: the     *)
(* leased workspace, the target herd that is launched into it, the target's *)
(* task and the archive of its evidence.                                   *)
(***************************************************************************)
EXTENDS TargetRuntime

\* The handler of action is at its first step.
At(action) == pc = "act" /\ act = action

Quiet == UNCHANGED <<live, crashes>>

\* A check on the workspace, on git or on a file fails: the action refuses
\* and nothing is written.
Refusable ==
    {"materialize", "prepare", "validate_handoff", "dispatch", "follow_up",
     "reconcile"}

CheckFails ==
    /\ pc = "act" /\ act \in Refusable
    /\ Disturb("fault")
    /\ Refuse /\ UNCHANGED world /\ Quiet

-----------------------------------------------------------------------------
(* Preparation *)

\* _materialize: a directory that is already there is never adopted.
Materialize ==
    /\ At("materialize")
    /\ IF dir
       THEN /\ SaveReturn([wf EXCEPT !.ambiguous = TRUE, !.phase = "BLOCKED"],
                          AfterRefusal, "none")
            /\ UNCHANGED dir
       ELSE dir' = TRUE /\ Within("trust")
    /\ UNCHANGED <<budget, child, session, childRecord, archived, spawns,
                   policy>>
    /\ Quiet

\* The clone is there and leased in memory; trust is established before the
\* one save that makes the workspace ready.
Trust ==
    /\ pc = "trust"
    /\ LET leased == [wf EXCEPT !.lease = "held"]
       IN  \/ /\ SaveReturn(Moved(leased, "WORKSPACE_READY"), "mint", "prepare")
              /\ UNCHANGED budget
           \/ /\ SaveReturn(Moved(WithReceipts(leased, 1), "BLOCKED"),
                            "cleanup", "none")
              /\ Disturb("fault")
    /\ UNCHANGED world /\ Quiet

\* _prepare: a receipt for every instruction file there is.
Prepare ==
    /\ At("prepare")
    /\ \E files \in {0, 1} :
          SaveReturn(Moved(WithReceipts(wf, files), "PREPARED"), "load", "none")
    /\ UNCHANGED <<budget, world>> /\ Quiet

\* _validate_handoff: the turn's proposal selects the phase.
ValidateHandoff ==
    /\ At("validate_handoff")
    /\ \E phase \in {"VALIDATED", "NEEDS_REAUTHORIZATION", "BLOCKED"} :
          SaveReturn([Moved(WithTurn(wf), phase) EXCEPT !.request = "fresh"],
                     "load", "none")
    /\ UNCHANGED <<budget, world>> /\ Quiet

-----------------------------------------------------------------------------
(* Dispatch *)

\* _placeholder_dispatch_refusal: a placeholder, once requested, is bound
\* before the initial dispatch; a record without one is the legacy lane.
PlaceholderRefuses == act = "dispatch" /\ wf.placeholder \notin {"none", "bound"}

\* The durable marker: the count, the baseline of the initial dispatch, and
\* its phase.
Marked ==
    IF act = "dispatch"
    THEN [Moved(WithReceipts(wf, 2), "DISPATCHED") EXCEPT !.dispatches = @ + 1]
    ELSE [WithReceipts(wf, 1) EXCEPT !.dispatches = @ + 1]

FollowUpsUsedUp == act = "follow_up" /\ wf.dispatches - 1 >= MaxFollowUps

\* Faulty variant: the placeholder is not looked at.
DispatchUngated ==
    /\ pc = "act" /\ act \in {"dispatch", "follow_up"}
    /\ IF FollowUpsUsedUp
       THEN SaveReturn(Moved(wf, "NEEDS_REAUTHORIZATION"), "cleanup", "none")
       ELSE IF Fits(Marked) THEN
            /\ wf' = Marked /\ pc' = "spawn"
            /\ UNCHANGED <<act, token, growth, snapshot, lock>>
       ELSE SaveReturn(Marked, "cleanup", "none")
    /\ UNCHANGED <<budget, world>> /\ Quiet

\* Faulty variant: the target is launched before the marker is saved.
DispatchUnmarked ==
    /\ pc = "act" /\ act \in {"dispatch", "follow_up"}
    /\ IF FollowUpsUsedUp
       THEN SaveReturn(Moved(wf, "NEEDS_REAUTHORIZATION"), "cleanup", "none")
       ELSE IF PlaceholderRefuses THEN Refuse
       ELSE Within("spawn")
    /\ UNCHANGED <<budget, world>> /\ Quiet

\* _dispatch up to the save that precedes the launch.
Dispatch ==
    /\ pc = "act" /\ act \in {"dispatch", "follow_up"}
    /\ IF FollowUpsUsedUp
       THEN SaveReturn(Moved(wf, "NEEDS_REAUTHORIZATION"), "cleanup", "none")
       ELSE IF PlaceholderRefuses THEN Refuse
       ELSE IF Fits(Marked) THEN
            /\ wf' = Marked /\ pc' = "spawn"
            /\ UNCHANGED <<act, token, growth, snapshot, lock>>
       ELSE SaveReturn(Marked, "cleanup", "none")
    /\ UNCHANGED <<budget, world>> /\ Quiet

\* Trust is no longer consumable where the target would read it.
DispatchUntrusted ==
    /\ pc = "act" /\ act \in {"dispatch", "follow_up"} /\ ~FollowUpsUsedUp
    /\ Disturb("fault")
    /\ SaveReturn(Moved(WithReceipts(wf, 1), "BLOCKED"), "cleanup", "none")
    /\ UNCHANGED world /\ Quiet

\* The launch: a herd that is still live in the workspace refuses a second
\* one, since none of the four request fields forces it.
Launch ==
    /\ pc = "spawn" /\ session = 0
    /\ session' = wf.dispatches /\ spawns' = spawns + 1
    /\ child' = "running"
    /\ Within("record")
    /\ UNCHANGED <<budget, dir, childRecord, archived, policy>> /\ Quiet

\* spawn_child appends its record; only the first launch's is ever matched.
RecordLaunch ==
    /\ pc = "record"
    /\ IF act = "dispatch"
       THEN \/ childRecord' = "good" /\ UNCHANGED budget
            \/ childRecord' = "bad" /\ Disturb("fault")
       ELSE UNCHANGED <<childRecord, budget>>
    /\ Within("bind")
    /\ UNCHANGED <<dir, child, session, archived, spawns, policy>> /\ Quiet

\* The bridge raises, before or after it launched the target.
LaunchRaises ==
    /\ pc \in {"spawn", "record"}
    /\ IF pc = "spawn" /\ session # 0 THEN UNCHANGED budget
       ELSE Disturb("fault")
    /\ SaveReturn(Moved(wf, "BLOCKED"), "cleanup", "none")
    /\ UNCHANGED world /\ Quiet

\* target_identity_from_spawn: a follow-up keeps the identity of the first.
Bind ==
    /\ pc = "bind"
    /\ LET engine == IF childRecord = "good" THEN "bound" ELSE "unknown"
           next == IF act = "dispatch" THEN "load" ELSE "cleanup"
       IN  IF wf.engine = "none"
           THEN SaveReturn([wf EXCEPT !.engine = engine], next, "none")
           ELSE Return(next, "none") /\ UNCHANGED wf
    /\ UNCHANGED <<budget, world>> /\ Quiet

-----------------------------------------------------------------------------
(* Verification *)

\* _verification_block: the reason is a receipt.
VerificationBlock(r) ==
    SaveReturn(Moved(WithReceipts(r, 1), "BLOCKED"), "cleanup", "none")

\* The workspace, the evidence or the turn is broken.
VerifyBroken ==
    /\ At("verify")
    /\ Disturb("fault")
    /\ VerificationBlock(wf)
    /\ UNCHANGED world /\ Quiet

\* A receipt for every change of the readiness that is observed.
Noted(state) ==
    IF state = wf.readiness THEN wf
    ELSE [WithReceipts(wf, 1) EXCEPT !.readiness = state]

\* _readiness_gate while the target is not seen to have stopped; readiness
\* evidenced once ends it.
VerifyWaits ==
    /\ At("verify")
    /\ IF child = "stopped" THEN Disturb("fault") ELSE UNCHANGED budget
    /\ IF wf.readiness = "ready" THEN Return("cleanup", "none") /\ UNCHANGED wf
       ELSE \/ SaveReturn(Moved(Noted("failed"), "BLOCKED"), "cleanup", "none")
            \/ \E state \in ReadinessStates \ {"failed"} :
                  SaveReturn(Noted(state), "cleanup", "none")
    /\ UNCHANGED world /\ Quiet

\* The target stopped: the policy is compared before a turn is spent, then
\* the turn proposes.
VerifyStopped ==
    /\ At("verify") /\ child = "stopped"
    /\ IF policy # "same" THEN VerificationBlock(wf)
       ELSE \/ Within("gates")
            \/ LET r == WithReceipts(WithTurn(wf), 1)
               IN  IF Fits(r) THEN SaveReturn(r, "mint", "follow_up")
                   ELSE SaveReturn(r, "cleanup", "none")
            \/ \E phase \in {"NEEDS_REAUTHORIZATION", "BLOCKED"} :
                  SaveReturn(Moved(WithTurn(wf), phase), "cleanup", "none")
    /\ UNCHANGED <<budget, world>> /\ Quiet

\* Faulty variant: the first collection is taken for the fresh one.
GatesSkipped ==
    /\ pc = "gates"
    /\ \E verified \in {"fits", "oversize"} :
          SaveReturn([Moved(WithTurn(wf), "VERIFIED") EXCEPT
                         !.verified = verified], "load", "none")
    /\ UNCHANGED <<budget, world>> /\ Quiet

\* _VERIFICATION_GATES against a second, fresh collection: the turn's word
\* is necessary, never sufficient.
Gates ==
    /\ pc = "gates"
    /\ \/ /\ policy = "same" /\ child = "stopped"
          /\ \E verified \in {"fits", "oversize"} :
                SaveReturn([Moved(WithTurn(wf), "VERIFIED") EXCEPT
                               !.verified = verified], "load", "none")
          /\ UNCHANGED budget
       \/ /\ IF policy = "same" /\ child = "stopped" THEN Disturb("fault")
             ELSE UNCHANGED budget
          /\ VerificationBlock(WithTurn(wf))
    /\ UNCHANGED world /\ Quiet

\* _complete
Complete ==
    /\ At("complete")
    /\ SaveReturn(Moved(wf, "COMPLETED"), "cleanup", "none")
    /\ UNCHANGED <<budget, world>> /\ Quiet

-----------------------------------------------------------------------------
(* Reconciliation of an unresolved dispatch *)

\* Faulty variant: a record of the launch is enough, whatever it says.
ReconcileAnyRecord ==
    /\ At("reconcile")
    /\ IF childRecord # "none"
       THEN SaveReturn([wf EXCEPT !.engine = "bound"], "cleanup", "none")
       ELSE SaveReturn(Moved(WithReceipts(wf, 1), "BLOCKED"), "cleanup", "none")
    /\ UNCHANGED <<budget, world>> /\ Quiet

\* _reconcile: the one child whose record and whose own task agree is bound;
\* anything less stops the workflow.
Reconcile ==
    /\ At("reconcile")
    /\ IF childRecord = "good"
       THEN SaveReturn([wf EXCEPT !.engine = "bound"], "cleanup", "none")
       ELSE SaveReturn(Moved(WithReceipts(wf, 1), "BLOCKED"), "cleanup", "none")
    /\ UNCHANGED <<budget, world>> /\ Quiet

\* A projection on either side is degraded: never a binding proof.
ReconcileDegraded ==
    /\ At("reconcile")
    /\ Disturb("fault")
    /\ SaveReturn(Moved(WithReceipts(wf, 1), "BLOCKED"), "cleanup", "none")
    /\ UNCHANGED world /\ Quiet

-----------------------------------------------------------------------------
(* Release of a terminal workflow's resources *)

\* prove_ownership: the bound first launch, its record and its live sessions.
Owned == wf.engine = "bound" /\ session = 1

\* _domain_b_proof: a snapshot exists only for an OWNED verdict.
Proof == IF Owned THEN "owned" ELSE "none"

\* The release returns with its receipt, r the copy it saves.
Released(r) ==
    SaveReturn(WithReceipts(r, growth + 1), "idle", "none")

\* Faulty variant: the sessions are closed although nothing was preserved.
ReleaseUnpreserved ==
    /\ At("release")
    /\ snapshot' = Proof
    /\ UNCHANGED <<growth, archived>>
    /\ pc' = "close" /\ UNCHANGED <<act, token, lock, wf>>
    /\ UNCHANGED <<budget, dir, child, session, childRecord, spawns, policy>>
    /\ Quiet

\* _release up to the close: the evidence of a directory that is still there
\* is preserved, and without its required artifacts the chain halts here.
Release ==
    /\ At("release")
    /\ \/ /\ child # "none" \/ ~dir
          /\ snapshot' = Proof
          /\ growth' = IF dir THEN 1 ELSE 0
          /\ archived' = (archived \/ dir)
          /\ pc' = "close" /\ UNCHANGED <<act, token, lock, wf>>
       \/ dir /\ Return("idle", "none") /\ UNCHANGED <<wf, archived>>
    /\ UNCHANGED <<budget, dir, child, session, childRecord, spawns, policy>>
    /\ Quiet

\* Trust could not be revoked: a receipt, and the chain goes on as before.
ReleaseTrustKept ==
    /\ At("release")
    /\ Disturb("fault")
    /\ \/ /\ child # "none" \/ ~dir
          /\ snapshot' = Proof
          /\ growth' = IF dir THEN 2 ELSE 1
          /\ archived' = (archived \/ dir)
          /\ pc' = "close" /\ UNCHANGED <<act, token, lock, wf>>
       \/ /\ dir /\ SaveReturn(WithReceipts(wf, 1), "idle", "none")
          /\ UNCHANGED archived
    /\ UNCHANGED <<dir, child, session, childRecord, spawns, policy>>
    /\ Quiet

\* close_proven_workspace: the proof is compared with live state once more;
\* without a proof, no live session of the recorded launch counts as closed.
Close ==
    /\ pc = "close"
    /\ IF snapshot = "owned" /\ Owned THEN session' = 0 /\ Within("remove")
       ELSE /\ UNCHANGED session
            /\ IF snapshot = "none" /\ wf.engine = "bound" /\ session # 1
               THEN Within("remove") ELSE Released(wf)
    /\ UNCHANGED <<budget, dir, child, childRecord, archived, spawns, policy>>
    /\ Quiet

\* Live state cannot be read: the workspace is retained.
CloseBlind ==
    /\ pc = "close"
    /\ Disturb("fault")
    /\ Released(wf)
    /\ UNCHANGED world /\ Quiet

\* relinquish_workspace: the directory goes, then the lease is saved as
\* released.
Remove ==
    /\ pc = "remove"
    /\ IF dir THEN dir' = FALSE /\ Within("remove")
       ELSE /\ Released([wf EXCEPT !.lease = "released"])
            /\ UNCHANGED dir
    /\ UNCHANGED <<budget, child, session, childRecord, archived, spawns,
                   policy>>
    /\ Quiet

-----------------------------------------------------------------------------
(* The process and its surroundings *)

Crash ==
    /\ pc # "idle"
    /\ Disturb("crash")
    /\ pc' = "idle" /\ act' = "none" /\ token' = "none"
    /\ growth' = 0 /\ snapshot' = "none" /\ lock' = "free"
    /\ crashes' = crashes + 1
    /\ UNCHANGED <<wf, live, world>>

TargetStops ==
    /\ child = "running" /\ child' = "stopped"
    /\ UNCHANGED <<wf, lock, budget, control, live, crashes, dir, session,
                   childRecord, archived, spawns, policy>>

TargetResumes ==
    /\ child = "stopped" /\ session # 0 /\ Disturb("resume")
    /\ child' = "running"
    /\ UNCHANGED <<wf, lock, control, live, crashes, dir, session,
                   childRecord, archived, spawns, policy>>

SessionEnds ==
    /\ session # 0 /\ Disturb("session")
    /\ session' = 0
    /\ UNCHANGED <<wf, lock, control, live, crashes, dir, child,
                   childRecord, archived, spawns, policy>>

PolicyMoves ==
    /\ \/ policy = "same" /\ policy' \in {"drifted", "unreadable"}
          /\ Disturb("policy")
       \/ policy # "same" /\ policy' = "same" /\ UNCHANGED budget
    /\ UNCHANGED <<wf, lock, control, live, crashes, dir, child, session,
                   childRecord, archived, spawns>>

\* A standing request leaves its validity window.  Its age is read only in
\* the phase that rests on it, so it ages only there.
RequestAges ==
    /\ \/ /\ wf.phase = "VALIDATED" /\ wf.request = "fresh"
          /\ wf' = [wf EXCEPT !.request = "stale"]
       \/ /\ Unresolved(wf) /\ wf.recovery = "fresh"
          /\ wf' = [wf EXCEPT !.recovery = "stale"]
    /\ UNCHANGED <<lock, budget, rtVars>>

\* A capability expires: the one in hand, or one a crash left behind.
CapabilityExpires ==
    /\ \E k \in Kinds :
          LET inHand == token = "live" /\ k = Kind(act)
          IN  /\ live[k] > 0
              /\ live' = [live EXCEPT ![k] = @ - 1]
              /\ \/ inHand /\ token' = "expired"
                 \/ live[k] > (IF inHand THEN 1 ELSE 0) /\ UNCHANGED token
    /\ UNCHANGED <<wf, lock, budget, pc, act, growth, snapshot, world, crashes>>

RuntimeStep ==
    \/ StartPass \/ Cleanup \/ RequestTurn \/ ProposedStop
    \/ StandingRequest \/ Advance \/ Recover \/ RecoveryStop
    \/ Mint \/ Consume \/ ConsumeExpired
    \/ Materialize \/ Trust \/ Prepare \/ ValidateHandoff
    \/ Dispatch \/ Launch \/ RecordLaunch \/ LaunchRaises \/ Bind
    \/ VerifyWaits \/ VerifyStopped \/ Gates \/ Complete \/ Reconcile
    \/ Release \/ Close \/ Remove

RuntimeFault ==
    \/ TurnFails \/ ConsumeBlind \/ CheckFails \/ DispatchUntrusted
    \/ VerifyBroken \/ ReconcileDegraded \/ ReleaseTrustKept \/ CloseBlind

Surroundings ==
    \/ Crash \/ TargetStops \/ TargetResumes \/ SessionEnds \/ PolicyMoves
    \/ RequestAges \/ CapabilityExpires

RuntimeNext == RuntimeStep \/ RuntimeFault \/ Surroundings
=============================================================================
