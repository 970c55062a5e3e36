---------------------------- MODULE MissionBridge ----------------------------
(***************************************************************************)
(* The bridge from an approved mission to the one run it permits.  Several *)
(* processes act on the mission: the panel, the progression runtime and    *)
(* the command line.  Whoever holds the mission's run guard dispatches,    *)
(* reconciles, observes or verifies; pause, resume, cancel and the proof   *)
(* operations take no guard.                                               *)
(*                                                                         *)
(* An operation reads first and writes afterwards, each write a step of    *)
(* its own; `proc` is what a process still has to do.  A process may die   *)
(* between two steps, and the system then frees the guard it held.         *)
(***************************************************************************)
EXTENDS MissionRun

CONSTANTS
    Caller,     \* processes that act on the mission
    Guarded,    \* those whose bridge was given the run guard
    Does,       \* the commands each process issues
    MaxTime,    \* bound on the clock
    MaxFaults   \* deaths, failed calls and unreadable evidence together

Commands == {"dispatch", "reconcile", "advance", "readiness", "verify", "prove",
             "pause", "resume", "cancel"}

Nobody == "nobody"

ASSUME BridgeAssumption ==
    /\ Guarded \subseteq Caller
    /\ Does \in [Caller -> SUBSET Commands]
    /\ Nobody \notin Caller
    /\ MaxTime \in Nat /\ MaxFaults \in Nat

VARIABLES
    proc,       \* what each process still has to do
    holder,     \* the process that holds the run guard, or Nobody
    worktree,   \* what is at the mission's own path
    child,      \* the target: its own task record, and whether it is listed
    spawns,     \* spawn calls made
    proof,      \* Mission State: the activated revision, the accepted result
    rested,     \* the spacing since the last unobserved reconcile has passed
    faults

vars == <<doc, now, proc, holder, worktree, child, spawns, proof, rested, faults>>

Mission == 1
Path == 1
Task == 1
Idle == [at |-> "idle"]

It == doc.missions[Mission]
Can(c, command) == command \in Does[c] /\ proc[c] = Idle

-----------------------------------------------------------------------------
(* The run guard and the steps of one operation.                           *)

\* Faulty variant: nobody waits for the guard.
FreeAnyway(c) == c \in Caller
Free(c) == c \in Guarded => holder = Nobody

\* A process that finds the guard held waits, is refused as busy or skips the
\* mission until its next pass: nothing changes.
Enter(c, local) ==
    /\ Free(c)
    /\ proc' = [proc EXCEPT ![c] = local]
    /\ holder' = IF c \in Guarded THEN c ELSE holder

Leave(c) ==
    /\ proc' = [proc EXCEPT ![c] = Idle]
    /\ holder' = IF holder = c THEN Nobody ELSE holder

Goes(c, local) ==
    IF local = Idle THEN Leave(c)
    ELSE proc' = [proc EXCEPT ![c] = local] /\ holder' = holder

\* Save a document Mission Core accepts and go on, or be refused and return.
Record(c, documents, local) ==
    IF documents = {} THEN doc' = doc /\ Leave(c)
    ELSE doc' \in documents /\ Goes(c, local)

Fault == faults < MaxFaults /\ faults' = faults + 1
NoFault == faults' = faults

-----------------------------------------------------------------------------
(* Dispatch.                                                               *)

Live(authorization) ==
    PermitsUse(doc, authorization, Mission, Revision(It), now)

\* A recorded intent is never dispatched again, whatever became of it.
Dispatch(c) ==
    /\ Can(c, "dispatch")
    /\ IntentOf(It) = None
    /\ ~Paused(It)
    /\ \E a \in DOMAIN doc.authorizations :
          /\ Live(a)
          /\ PermitsRun(doc.authorizations[a].scope)
          /\ Enter(c, [at |-> "plan", authorization |-> a, revision |-> Revision(It),
                       binding |-> RunOf(It).workspace])
    /\ UNCHANGED <<doc, now, worktree, child, spawns, proof, rested, faults>>

\* A worktree is adopted only under the mission's own durable binding, and a
\* prepared one that is gone is never made again.  The process may also have no
\* repository, root or trust configured, or another one than was bound.
Plan(c) ==
    LET binding == proc[c].binding
        usable == /\ worktree # "partial"
                  /\ worktree = "exact" => binding # "none"
                  /\ worktree = "absent" => binding # "PREPARED"
    IN
    /\ proc[c].at = "plan"
    /\ \/ Goes(c, [proc[c] EXCEPT !.at = IF usable THEN "bind" ELSE "refuse"]) /\ NoFault
       \/ Goes(c, [proc[c] EXCEPT !.at = "refuse"]) /\ Fault
    /\ UNCHANGED <<doc, now, worktree, child, spawns, proof, rested>>

\* A binding made since it was read may be of another baseline.
Bind(c) ==
    /\ proc[c].at = "bind"
    /\ \/ /\ Record(c, RecordWorkspaceBinding(doc, Mission, Path),
                    [proc[c] EXCEPT !.at = IF proc[c].revision = Revision(It)
                                           THEN "create" ELSE "refuse"])
          /\ NoFault
       \/ /\ proc[c].binding = "none" /\ RunOf(It).workspace # "none"
          /\ doc' = doc /\ Goes(c, [proc[c] EXCEPT !.at = "refuse"])
          /\ Fault
    /\ UNCHANGED <<now, worktree, child, spawns, proof, rested>>

\* Create the worktree if it is absent; an interrupted creation may leave any
\* state behind.  Trust of the workspace may be refused as well.
Create(c) ==
    /\ proc[c].at = "create"
    /\ \/ /\ worktree # "partial"
          /\ worktree' = "exact"
          /\ \/ Goes(c, [proc[c] EXCEPT !.at = "prepared"]) /\ NoFault
             \/ Goes(c, [proc[c] EXCEPT !.at = "refuse"]) /\ Fault
       \/ /\ worktree = "absent"
          /\ worktree' \in {"absent", "partial"}
          /\ Goes(c, [proc[c] EXCEPT !.at = "refuse"])
          /\ Fault
       \/ /\ worktree = "partial"
          /\ worktree' = worktree
          /\ Goes(c, [proc[c] EXCEPT !.at = "refuse"]) /\ NoFault
    /\ UNCHANGED <<doc, now, child, spawns, proof, rested>>

Prepared(c) ==
    /\ proc[c].at = "prepared"
    /\ Record(c, RecordWorkspacePrepared(doc, Mission), [proc[c] EXCEPT !.at = "derive"])
    /\ UNCHANGED <<now, worktree, child, spawns, proof, rested, faults>>

\* The last look at the workspace: clean, at its baseline, trusted, and
\* without any task or runtime record of another herd.
Derive(c) ==
    /\ proc[c].at = "derive"
    /\ \/ child.state = "none" /\ Goes(c, [proc[c] EXCEPT !.at = "activate"]) /\ NoFault
       \/ child.state # "none" /\ Goes(c, [proc[c] EXCEPT !.at = "refuse"]) /\ NoFault
       \/ Goes(c, [proc[c] EXCEPT !.at = "refuse"]) /\ Fault
    /\ UNCHANGED <<doc, now, worktree, child, spawns, proof, rested>>

\* Every refusal of the workspace is recorded before it is raised.
Refuse(c) ==
    /\ proc[c].at = "refuse"
    /\ Record(c, RecordWorkspaceRefusal(doc, Mission), Idle)
    /\ UNCHANGED <<now, worktree, child, spawns, proof, rested, faults>>

\* Faulty variant: progress that is over does not refuse.
ActivateWhenClosed(c) ==
    LET allowed == \E a \in DOMAIN doc.authorizations : Live(a) IN
    /\ proc[c].at = "activate"
    /\ IF proof.active = proc[c].revision \/ allowed
       THEN /\ proof' = [proof EXCEPT !.active = Revision(It)]
            /\ Goes(c, [proc[c] EXCEPT !.at = "intent"])
       ELSE proof' = proof /\ Leave(c)
    /\ UNCHANGED <<doc, now, worktree, child, spawns, rested, faults>>

\* The contract of the current revision, activated while its authorization
\* lives; terminal progress refuses it.
Activate(c) ==
    LET allowed == ~proof.closed /\ \E a \in DOMAIN doc.authorizations : Live(a) IN
    /\ proc[c].at = "activate"
    /\ IF proof.active = proc[c].revision \/ allowed
       THEN /\ proof' = [proof EXCEPT !.active = IF @ = proc[c].revision THEN @
                                                 ELSE Revision(It)]
            /\ Goes(c, [proc[c] EXCEPT !.at = "intent"])
       ELSE proof' = proof /\ Leave(c)
    /\ UNCHANGED <<doc, now, worktree, child, spawns, rested, faults>>

Intent(c) ==
    /\ proc[c].at = "intent"
    /\ Record(c, RecordRunIntent(doc, Mission, proc[c].authorization,
                                 proc[c].revision, Path, now),
              [at |-> "spawn"])
    /\ UNCHANGED <<now, worktree, child, spawns, proof, rested, faults>>

\* The intent is durable.  The call starts a child or none, and returns its
\* name, returns without it, or raises; what is not known is held.
Spawn(c) ==
    /\ proc[c].at = "spawn"
    /\ spawns' = spawns + 1
    /\ \/ /\ child' = [child EXCEPT !.state = "starting", !.listed = TRUE]
          /\ Goes(c, [at |-> "receipt", task |-> Task]) /\ NoFault
       \/ /\ child' \in {child, [child EXCEPT !.state = "starting"]}
          /\ Goes(c, [at |-> "receipt", task |-> None]) /\ NoFault
       \/ /\ child' \in {child, [child EXCEPT !.state = "starting"]}
          /\ Leave(c) /\ Fault
    /\ UNCHANGED <<doc, now, worktree, proof, rested>>

Receipt(c) ==
    /\ proc[c].at = "receipt"
    /\ Record(c, RecordRunReceipt(doc, Mission, proc[c].task, "start_result"), Idle)
    /\ UNCHANGED <<now, worktree, child, spawns, proof, rested, faults>>

-----------------------------------------------------------------------------
(* Reconciling a held run, and observing a bound one.                      *)

\* What the two records of the child show together.
Verdict ==
    CASE child.state \in {"none", "starting"} -> "unobserved"
      [] child.state \notin {"none", "starting"} /\ ~child.listed -> "reconcile_no_match"
      [] child.state = "ABORTED" /\ child.listed -> "reconcile_late_child_aborted"
      [] OTHER -> "proven"

Evidence(c, at) ==
    \/ Enter(c, [at |-> at, verdict |-> Verdict]) /\ NoFault
    \/ Enter(c, [at |-> at, verdict |-> "reconcile_degraded"]) /\ Fault

\* Faulty variant: a runtime's pass looks once only.
ReconcileReadsOnce(c) ==
    /\ HeldRun(It)
    /\ ~Paused(It)
    /\ \/ Can(c, "reconcile")
       \/ Can(c, "advance") /\ It.run.unobserved = 0
    /\ Evidence(c, "judge")
    /\ UNCHANGED <<doc, now, worktree, child, spawns, proof, rested>>

\* A runtime's pass keeps a distance from the last attempt; the command does not.
ReconcileReads(c) ==
    /\ HeldRun(It)
    /\ ~Paused(It)
    /\ \/ Can(c, "reconcile")
       \/ Can(c, "advance") /\ (It.run.unobserved = 0 \/ rested)
    /\ Evidence(c, "judge")
    /\ UNCHANGED <<doc, now, worktree, child, spawns, proof, rested>>

Judge(c) ==
    LET verdict == proc[c].verdict IN
    /\ proc[c].at = "judge"
    /\ Record(c,
          CASE verdict = "unobserved" -> RecordReconcileUnobserved(doc, Mission)
            [] verdict = "proven" -> RecordRunReceipt(doc, Mission, Task, "reconciliation")
            [] verdict = "reconcile_late_child_aborted" ->
                  RecordRunStop(doc, Mission, verdict, Task)
            [] OTHER -> RecordRunStop(doc, Mission, verdict, None),
          Idle)
    /\ rested' = IF verdict = "unobserved" THEN FALSE ELSE rested
    /\ UNCHANGED <<now, worktree, child, spawns, proof, faults>>

\* A run stopped because nothing could be observed takes one late answer, as
\* evidence only.
LateReads(c) ==
    /\ Can(c, "reconcile")
    /\ StoppedUnobserved(It) /\ It.run.late = None
    /\ Verdict \in {"proven", "reconcile_late_child_aborted"}
    /\ Enter(c, [at |-> "late"])
    /\ UNCHANGED <<doc, now, worktree, child, spawns, proof, rested, faults>>

LateWrites(c) ==
    /\ proc[c].at = "late"
    /\ Record(c, RecordLateResolution(doc, Mission, Task), Idle)
    /\ UNCHANGED <<now, worktree, child, spawns, proof, rested, faults>>

Stopped == child.state \in {"COMPLETE", "ERROR", "ABORTED"}

ObserveReads(c) ==
    /\ Can(c, "advance")
    /\ It.state = "AUTHORIZED" /\ TargetOf(It) # None /\ ~Paused(It)
    /\ Stopped \/ child.state = "working"
    /\ Enter(c, [at |-> "observe", stopped |-> Stopped])
    /\ UNCHANGED <<doc, now, worktree, child, spawns, proof, rested, faults>>

ObserveWrites(c) ==
    /\ proc[c].at = "observe"
    /\ Record(c, RecordObservedRunning(doc, Mission, Task, proc[c].stopped), Idle)
    /\ UNCHANGED <<now, worktree, child, spawns, proof, rested, faults>>

-----------------------------------------------------------------------------
(* Verification.                                                           *)

\* The first conjunct one fresh read of the target fails, or "none".
Failed ==
    CASE ~Stopped -> "target_stopped"
      [] child.state \in {"ERROR", "ABORTED"} -> "target_succeeded"
      [] child.state = "COMPLETE" /\ ~child.sound -> "review_approve"
      [] OTHER -> "none"

Running == It.state = "RUNNING" /\ ~Paused(It)

\* The panel asks whether verification would be decided, without the guard and
\* without recording anything, and verifies after that.
ReadinessReads(c) ==
    /\ Can(c, "readiness")
    /\ Running
    /\ Stopped
    /\ proc' = [proc EXCEPT ![c] = [at |-> "ready"]]
    /\ UNCHANGED <<doc, now, holder, worktree, child, spawns, proof, rested, faults>>

\* The verification reads by itself: another mission state refuses it, and a read
\* that is not exact fails a conjunct like any other.
Verifies(c) ==
    /\ IF ~Running THEN Leave(c) /\ NoFault
       ELSE \/ Enter(c, [at |-> "decide", failed |-> Failed]) /\ NoFault
            \/ Enter(c, [at |-> "decide", failed |-> "evidence_complete"]) /\ Fault
    /\ UNCHANGED <<doc, now, worktree, child, spawns, proof, rested>>

VerifyReads(c) == proc[c].at = "ready" /\ Free(c) /\ Verifies(c)

\* The command asks for no readiness: a target that still works fails it.
VerifyBegins(c) == Can(c, "verify") /\ Running /\ Verifies(c)

\* A pass of the runtime decides only when every conjunct held in one read, and
\* leaves a run that waits for proof to the person.
AdvanceReads(c) ==
    /\ Can(c, "advance")
    /\ Running
    /\ It.run.pending = 0
    /\ Failed = "none"
    /\ Enter(c, [at |-> "decide", failed |-> "none"])
    /\ UNCHANGED <<doc, now, worktree, child, spawns, proof, rested, faults>>

\* Faulty variant: the held authorization of a running run does not count.
ProofBoundLive ==
    /\ ~Terminal(It)
    /\ ~proof.closed
    /\ proof.active = Revision(It)
    /\ \E a \in DOMAIN doc.authorizations : Live(a)

\* Mission State takes a write under the contract while progress is open and the
\* contract's authorization lives, or is held by the running run.  A revision is
\* approved once, so its live authorization is the one it was activated under.
ProofBound ==
    /\ ~Terminal(It)
    /\ ~proof.closed
    /\ proof.active = Revision(It)
    /\ \/ It.state = "RUNNING"
       \/ \E a \in DOMAIN doc.authorizations : Live(a)

ContractProof == [active |-> proof.active = Revision(It),
                  accepted |-> proof.accepted, open |-> proof.open]

\* The bound result is accepted as evidence before a success is recorded, and
\* is taken again by a retry.
AcceptResult(c) ==
    /\ proc[c].at = "decide" /\ proc[c].failed = "none"
    /\ ~proof.accepted
    /\ IF ProofBound
       THEN proof' = [proof EXCEPT !.accepted = TRUE] /\ Goes(c, proc[c])
       ELSE proof' = proof /\ Leave(c)
    /\ UNCHANGED <<doc, now, worktree, child, spawns, rested, faults>>

Decide(c) ==
    /\ proc[c].at = "decide"
    /\ proc[c].failed = "none" => proof.accepted
    /\ Record(c, RecordVerification(doc, Mission, proc[c].failed, ContractProof), Idle)
    /\ UNCHANGED <<now, worktree, child, spawns, proof, rested, faults>>

\* A person meets the approved obligations that were still open.
Prove(c) ==
    /\ Can(c, "prove")
    /\ ~Paused(It)
    /\ proof.open
    /\ ProofBound
    /\ proof' = [proof EXCEPT !.open = FALSE]
    /\ UNCHANGED <<doc, now, proc, holder, worktree, child, spawns, rested, faults>>

\* An authenticated caller may close the progress at any time, with a contract
\* or without.
Abandon ==
    /\ ~Terminal(It)
    /\ ~proof.closed
    /\ proof' = [proof EXCEPT !.closed = TRUE]
    /\ UNCHANGED <<doc, now, proc, holder, worktree, child, spawns, rested, faults>>

-----------------------------------------------------------------------------
(* Pause, resume, cancel.                                                  *)

\* The authorization is read before the write, which is refused unless it is still
\* the bound one: a stale read changes nothing, so one step has every effect.
Control(c) ==
    LET bound == BoundAuthorization(It) IN
    /\ \/ Can(c, "pause") /\ doc' \in RecordPause(doc, Mission, bound)
       \/ Can(c, "resume") /\ doc' \in RecordResume(doc, Mission, bound)
    /\ UNCHANGED <<now, proc, holder, worktree, child, spawns, proof, rested, faults>>

\* What a cancel interrupts, by what was read of the mission and of its target.
Interrupted(stopped) ==
    CASE It.state = "AUTHORIZED" /\ IntentOf(It) = None -> "cancelled_before_intent"
      [] It.state = "AUTHORIZED" /\ IntentOf(It) # None ->
            "cancelled_after_intent_target_unknown"
      [] It.state = "RUNNING" /\ stopped -> "cancelled_after_target_terminated"
      [] OTHER -> "cancelled_after_observed_running"

\* What the cancel interrupts is read first, and a target that cannot be read is
\* taken to run; a cancel that died before its record was complete is completed,
\* and claims nothing about the target.
CancelReads(c) ==
    LET cancels(stopped) ==
            proc' = [proc EXCEPT ![c] = [at |-> "cancel", achieved |-> Interrupted(stopped),
                                         authorization |-> BoundAuthorization(It)]]
    IN
    /\ Can(c, "cancel")
    /\ \/ /\ It.state \in {"AUTHORIZED", "RUNNING"}
          /\ \/ cancels(Stopped) /\ NoFault
             \/ It.state = "RUNNING" /\ Stopped /\ cancels(FALSE) /\ Fault
       \/ /\ It.state = "CANCELLED" /\ It.run.quiescence = "none"
          /\ proc' = [proc EXCEPT ![c] = [at |-> "complete", resumed |-> TRUE]]
          /\ NoFault
    /\ UNCHANGED <<doc, now, holder, worktree, child, spawns, proof, rested>>

CancelRecords(c) ==
    /\ proc[c].at = "cancel"
    /\ Record(c, RecordCancel(doc, Mission, proc[c].achieved, proc[c].authorization),
              [at |-> "complete", resumed |-> FALSE])
    /\ UNCHANGED <<now, worktree, child, spawns, proof, rested, faults>>

\* The receipt of a production run names no process group, so nothing is killed.
Quiescence(resumed) ==
    CASE It.run.cancel = "cancelled_before_intent" -> "nothing_started"
      [] It.run.cancel = "cancelled_after_target_terminated" /\ ~resumed ->
            "task_observed_stopped"
      [] OTHER -> "unproven"

CancelCompletes(c) ==
    /\ proc[c].at = "complete"
    /\ Record(c, CompleteCancel(doc, Mission, Quiescence(proc[c].resumed),
                                BoundAuthorization(It)), Idle)
    /\ UNCHANGED <<now, worktree, child, spawns, proof, rested, faults>>

-----------------------------------------------------------------------------
(* The processes, and what happens around them.                            *)

\* What a process does once its operation has begun.
Proceeds(c) ==
    \/ Plan(c) \/ Bind(c) \/ Create(c) \/ Prepared(c) \/ Derive(c) \/ Refuse(c)
    \/ Activate(c) \/ Intent(c) \/ Spawn(c) \/ Receipt(c)
    \/ Judge(c) \/ LateWrites(c) \/ ObserveWrites(c)
    \/ VerifyReads(c) \/ AcceptResult(c) \/ Decide(c)
    \/ CancelRecords(c) \/ CancelCompletes(c)

\* One pass of the progression runtime over the mission.
Advance(c) ==
    "advance" \in Does[c] /\ (ReconcileReads(c) \/ ObserveReads(c) \/ AdvanceReads(c))

Begins(c) ==
    \/ Dispatch(c) \/ ReconcileReads(c) \/ LateReads(c) \/ ObserveReads(c)
    \/ ReadinessReads(c) \/ VerifyBegins(c) \/ AdvanceReads(c) \/ Prove(c)
    \/ Control(c) \/ CancelReads(c)

Dies(c) ==
    /\ proc[c] # Idle
    /\ Fault
    /\ Leave(c)
    /\ UNCHANGED <<doc, now, worktree, child, spawns, proof, rested>>

\* A person edits or approves again before anything of a run is recorded.
Redecides ==
    \E kind \in {"EDIT", "APPROVE"}, content \in Content :
        LET reserved == ReserveIn(doc, "decision", Authenticated)
            ask == [id |-> NextId(doc), by |-> Authenticated, kind |-> kind,
                    revision |-> Revision(It), shown |-> None, content |-> content,
                    scope |-> "requested", expires |-> None]
        IN
        /\ CanReserve(doc, "decision", Authenticated)
        /\ CanDecideAndSave(reserved, Mission, ask, now)
        /\ doc' = DecideIn(reserved, Mission, ask, now)
        /\ UNCHANGED <<now, proc, holder, worktree, child, spawns, proof, rested, faults>>

\* A child may finish before its report is in place.
ChildGoes ==
    /\ \/ child.state = "starting"
          /\ child' \in {[child EXCEPT !.state = s] : s \in {"working", "none"}}
       \/ child.state = "working"
          /\ child' \in {[child EXCEPT !.state = s] : s \in {"ERROR", "ABORTED"}}
                        \cup {[child EXCEPT !.state = "COMPLETE", !.sound = sound]
                              : sound \in BOOLEAN}
    /\ UNCHANGED <<doc, now, proc, holder, worktree, spawns, proof, rested, faults>>

\* The report arrives late, and so does the control side's record of the child,
\* which is read only while the run is not bound.
ChildShows ==
    /\ \/ /\ child.state # "none" /\ ~child.listed /\ TargetOf(It) = None
          /\ child' = [child EXCEPT !.listed = TRUE]
       \/ /\ child.state = "COMPLETE" /\ ~child.sound
          /\ child' = [child EXCEPT !.sound = TRUE]
    /\ UNCHANGED <<doc, now, proc, holder, worktree, spawns, proof, rested, faults>>

Rest ==
    /\ ~rested
    /\ rested' = TRUE
    /\ UNCHANGED <<doc, now, proc, holder, worktree, child, spawns, proof, faults>>

\* Nothing of a run that was started reads the clock.
Tick ==
    /\ now < MaxTime
    /\ IntentOf(It) = None
    /\ now' = now + 1
    /\ UNCHANGED <<doc, proc, holder, worktree, child, spawns, proof, rested, faults>>

-----------------------------------------------------------------------------
(* A proposal of a local caller, approved by an attested answer or by an    *)
(* authenticated caller who granted less.                                   *)

Approved(content, by, scope, expires) ==
    LET proposed == ProposeIn(ReserveIn(EmptyDoc, "request", LocalCaller), 1,
                              LocalCaller, content, 2)
        reserved == ReserveIn(proposed, "decision", by)
    IN  DecideIn(reserved, Mission,
                 [id |-> 2, by |-> by, kind |-> "APPROVE", revision |-> 1,
                  shown |-> IF by = Relay THEN content ELSE None, content |-> None,
                  scope |-> scope, expires |-> expires], 1)

Init ==
    /\ \E content \in Content :
          doc \in {Approved(content, Relay, "requested", 1 + AttestedValidity),
                   Approved(content, Authenticated, "narrower", None)}
    /\ now = 1
    /\ proc = [c \in Caller |-> Idle]
    /\ holder = Nobody
    /\ worktree = "absent"
    /\ child = [state |-> "none", listed |-> FALSE, sound |-> FALSE]
    /\ spawns = 0
    /\ proof = [active |-> None, accepted |-> FALSE, open |-> TRUE, closed |-> FALSE]
    /\ rested = TRUE
    /\ faults = 0

Next ==
    \/ \E c \in Caller : Begins(c) \/ Proceeds(c) \/ Dies(c)
    \/ Redecides
    \/ Abandon
    \/ ChildGoes
    \/ ChildShows
    \/ Rest
    \/ Tick

Spec == Init /\ [][Next]_vars

\* The runtime passes again and again, an operation that began goes on unless its
\* process dies, a child that started gets somewhere, and time goes by.  Others
\* hold the guard only while they act, so a pass finds it free again and again.
FairSpec ==
    /\ Spec
    /\ \A c \in Caller : SF_vars(Advance(c)) /\ WF_vars(Proceeds(c))
    /\ WF_vars(ChildGoes)
    /\ WF_vars(Rest)

-----------------------------------------------------------------------------

\* Whatever interleaves, dies or is lost, a later load accepts the document: the
\* run block, the lifecycle and the cancel agree with each other.
RunAccepted == IdsAgree(doc) /\ Accepted(doc, Mission)

\* At most one child is ever asked for, under a recorded intent, and only for the
\* proposal and the scope its authorization names.
StartsOnce ==
    /\ spawns <= 1
    /\ spawns = 1 =>
          LET a == IntentOf(It) IN
          /\ a # None
          /\ doc.authorizations[a].revision = Revision(It)
          /\ PermitsRun(doc.authorizations[a].scope)

\* No process with the run guard counts an attempt, or stops the run for want of
\* evidence, while the dispatch of another one with it stands between its intent
\* and its receipt, whatever processes without the guard do meanwhile.
AttemptsAlone ==
    [][\A b, c \in Guarded :
         /\ proc'[b] # proc[b]
         /\ \/ RunOf(It').unobserved > RunOf(It).unobserved
            \/ It'.lifecycle # It.lifecycle /\ LastReason(It') \in ReconcileStops
         => proc[c].at \notin {"spawn", "receipt"}]_vars

\* A completed mission's child finished with a report that holds, and every
\* obligation of the contract it was started under is met.
CompletedIsProven ==
    It.state = "COMPLETED" =>
        /\ child.state = "COMPLETE" /\ child.sound
        /\ proof.accepted /\ ~proof.open
        /\ proof.active = doc.authorizations[IntentOf(It)].revision

\* While a run is paused nothing of it is recorded but the answer of a start that
\* was already made, a cancel, and a refused workspace.
PausedQuiet ==
    [][Paused(It) =>
          /\ It'.state \in {It.state, "CANCELLED"}
          /\ It'.run.intent = It.run.intent
          /\ It'.run.unobserved = It.run.unobserved
          /\ It'.run.pending = It.run.pending
          /\ It'.run.workspace = It.run.workspace
          /\ It'.run.receipt # It.run.receipt => It'.run.receipt = "start_result"]_vars

(***************************************************************************)
(* Retention may drop the words of a mission whose record says that nothing *)
(* of it runs, or ever will.                                               *)
(***************************************************************************)
QuiescentCancels == {"nothing_started", "owned_group_reaped", "task_observed_stopped"}

Eligible ==
    \/ It.state = "COMPLETED"
    \/ It.state = "CANCELLED" /\ It.run.quiescence \in QuiescentCancels
    \/ Terminal(It) /\ IntentOf(It) = None
    \/ /\ ~Terminal(It)
       /\ proof.closed
       /\ proof.active # Revision(It)
       /\ IntentOf(It) = None

\* A record retention calls eligible has no child at work and never starts one,
\* although a dispatch may be half way and progress may close under it.
EligibleIsQuiet ==
    [][Eligible => /\ child.state \notin {"starting", "working"}
                   /\ spawns' = spawns
                   /\ Eligible']_vars

\* A run whose child is not known does not stay so: it is bound, stopped, or
\* waits for the person who paused it.
HeldSettles == HeldRun(It) ~> ~HeldRun(It) \/ Paused(It)

\* A run whose child finished well completes by itself, unless it is stopped,
\* paused, or waits for proof only a person can give.
VerifiesItself ==
    (/\ It.state = "RUNNING"
     /\ child.state = "COMPLETE" /\ child.sound)
    ~> Terminal(It) \/ Paused(It) \/ RunOf(It).pending > 0 \/ proof.closed
=============================================================================
