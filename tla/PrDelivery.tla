----------------------------- MODULE PrDelivery -----------------------------
(***************************************************************************)
(* The PR delivery machine (src/pr_delivery/machine.py): processes that    *)
(* drive one durable record through its steps against a git work tree, a   *)
(* remote and GitHub, the git hook that gates the ref moves                *)
(* (receipts.guard_decision), a human who may revoke, and the crashes,     *)
(* failures and outside changes a delivery has to survive.                 *)
(*                                                                         *)
(* A driver works on a copy of the record.  What other processes can get   *)
(* between is a boundary of an action: the load, each save, the re-read    *)
(* before an effect, the effect (with the hook git runs under the ref      *)
(* lock) and what is observed after it.  The live reads between two        *)
(* boundaries are one step.                                                *)
(***************************************************************************)
EXTENDS DeliveryRecord

CONSTANTS
    Drivers,       \* processes that may call advance on this delivery
    OfficeDrivers, \* those of them that perform one step a human confirmed
    Disturbances,  \* the kinds of outside event that may happen
    MaxDisturbed   \* bound: how many of them may happen in one behaviour

ASSUME OfficeAssumption == OfficeDrivers \subseteq Drivers
ASSUME DisturbedAssumption == MaxDisturbed \in Nat

VARIABLES
    disk,     \* the record in the store
    expired,  \* the clock has passed the record's expiry
    pc,       \* where each driver is
    rec,      \* each driver's working copy of the record
    cont,     \* where each driver goes once the save it is at is done
    confirmed,\* the step an office driver holds a confirmation for
    head,     \* the work tree's branch
    index,    \* the base the staged candidate sits on
    base,     \* the remote's target base
    remote,   \* the remote's source branch, NoOid when it does not exist
    openPr,   \* head of the open pull request as GitHub shows it, or NoOid
    closedPrs,\* heads of closed pull requests for the same branches
    clash,    \* the base advance overlaps, is no fast-forward, or is red
    landed,   \* how often the drivers' own effect of each step took place
    recalled, \* revoke has returned to the human who called it
    budget    \* outside events left

world == <<head, index, base, remote, openPr, closedPrs, clash, landed>>
control == <<pc, rec, cont, confirmed>>
human == <<expired, recalled, budget>>
vars == <<disk, control, world, human>>

Pcs == {"idle", "dispatch", "tail", "save", "refresh", "readtree", "effect",
        "observe", "lookup", "create", "relook", "adopt", "complete", "view",
        "revoke", "expire"}

\* Between the re-read that clears an effect and the effect itself.
EffectPcs == {"readtree", "effect", "lookup", "create"}

Disturbs == {"crash", "fault", "base", "clash", "foreign", "close",
             "openpr", "expire", "revoke"}

TypeOK ==
    /\ disk \in Record
    /\ expired \in BOOLEAN
    /\ pc \in [Drivers -> Pcs]
    /\ rec \in [Drivers -> Record]
    /\ cont \in [Drivers -> Pcs]
    /\ confirmed \in [Drivers -> Steps \cup {"none"}]
    /\ head \in Oid /\ remote \in Oid /\ openPr \in Oid
    /\ index \in Bases /\ base \in Bases
    /\ closedPrs \subseteq Oid
    /\ clash \in BOOLEAN
    /\ landed \in [Steps -> Nat]
    /\ recalled \in BOOLEAN
    /\ budget \in Nat

\* A pull_request starts on the base with no remote branch; a pr_update on
\* the approved head, Base(0), of an existing branch and pull request.
Init ==
    /\ disk = NewRecord
    /\ expired = FALSE
    /\ pc = [d \in Drivers |-> "idle"]
    /\ rec = [d \in Drivers |-> NewRecord]
    /\ cont = [d \in Drivers |-> "idle"]
    /\ confirmed = [d \in Drivers |-> "none"]
    /\ head = Base(0) /\ index = 0 /\ base = 0
    /\ remote = IF Mode = "pr_update" THEN Base(0) ELSE NoOid
    /\ openPr = remote
    /\ closedPrs = {}
    /\ clash = FALSE
    /\ landed = [s \in Steps |-> 0]
    /\ recalled = FALSE
    /\ budget = MaxDisturbed

Disturb(kind) ==
    /\ kind \in Disturbances /\ budget > 0
    /\ budget' = budget - 1

-----------------------------------------------------------------------------
(* Moves of one driver's control *)

StepOf(d) == StepForPhase(rec[d].phase)
EntryOf(d) == rec[d].steps[StepOf(d)]

\* The commit this delivery recorded (_commit_oid).
Delivered(r) == r.steps["COMMIT"].receipt.to

GoWith(d, r, to) ==
    /\ rec' = [rec EXCEPT ![d] = r]
    /\ pc' = [pc EXCEPT ![d] = to]
    /\ UNCHANGED <<cont, confirmed>>

Go(d, to) == GoWith(d, rec[d], to)

\* advance_once ends and drops its working copy.
Drop(d) ==
    /\ rec' = [rec EXCEPT ![d] = NewRecord]
    /\ pc' = [pc EXCEPT ![d] = "idle"]
    /\ cont' = [cont EXCEPT ![d] = "idle"]
    /\ confirmed' = [confirmed EXCEPT ![d] = "none"]

\* Next comes _persist of working copy r, and after it the control point to.
SaveThen(d, r, to) ==
    /\ rec' = [rec EXCEPT ![d] = r]
    /\ pc' = [pc EXCEPT ![d] = "save"]
    /\ cont' = [cont EXCEPT ![d] = to]
    /\ UNCHANGED confirmed

Block(d, r) == SaveThen(d, BlockedRecord(r), "idle")
Retry(d, r) == SaveThen(d, Retried(r), "idle")

\* Faulty variant: the attempts are not counted.
StartUncounted(d, r, step, from, to) ==
    IF expired THEN Block(d, r)
    ELSE SaveThen(d, Started(r, step, from, to), "refresh")

\* _start: the preconditions of a receipt, then the executing receipt saved
\* before the re-read that clears its effect.
Start(d, r, step, from, to) ==
    IF expired \/ Attempts(r.steps[step]) >= MaxAttempts
    THEN Block(d, r)
    ELSE SaveThen(d, Started(r, step, from, to), "refresh")

\* The re-read lets the step's effect begin; a push of what the remote
\* already holds is settled without one.
EffectPc(r) ==
    LET step == StepForPhase(r.phase) IN
      CASE step = "BASE_REFRESH" -> "readtree"
        [] step = "COMMIT"       -> "effect"
        [] step = "PUSH"         -> "effect"
        [] step = "PR_CREATE"    -> "lookup"

-----------------------------------------------------------------------------
(* The drive: load, save, re-read *)

\* The office performs these steps and no other (OFFICE_ACTION_STEPS).
OfficeSteps == {"COMMIT", "PUSH", "PR_CREATE"}

\* The human confirms the step the status shows as next, and the office's
\* check of the confirmation finds it pending in the record it loads.
Confirm(d) ==
    /\ d \in OfficeDrivers /\ pc[d] = "idle" /\ confirmed[d] = "none"
    /\ disk.phase \notin Terminal /\ ~disk.revoked /\ ~expired
    /\ LET step == StepForPhase(disk.phase) IN
         /\ step \in OfficeSteps /\ disk.steps[step].state = "pending"
         /\ confirmed' = [confirmed EXCEPT ![d] = step]
    /\ UNCHANGED <<disk, pc, rec, cont, world, human>>

\* Faulty variant: a confirmation is asked for, whatever step it names.
ExpectedAny(d) == d \in OfficeDrivers => confirmed[d] # "none"

\* _require_expected_step: the record an office call loads, which may be a
\* later one, still selects the confirmed step.
Expected(d) ==
    d \in OfficeDrivers =>
        confirmed[d] # "none" /\ StepForPhase(disk.phase) = confirmed[d]

\* The guard refuses: nothing runs and the confirmation is used up.
Withdraw(d) ==
    /\ pc[d] = "idle" /\ confirmed[d] # "none" /\ ~Expected(d)
    /\ confirmed' = [confirmed EXCEPT ![d] = "none"]
    /\ UNCHANGED <<disk, pc, rec, cont, world, human>>

\* advance_once up to the choice of the handler.
Load(d) ==
    /\ pc[d] = "idle" /\ Expected(d)
    /\ disk.phase \notin Terminal
    /\ \/ /\ disk.revoked
          /\ SaveThen(d, Revoked(disk), "idle")
       \/ /\ ~disk.revoked /\ expired
          /\ Block(d, disk)
       \/ /\ ~disk.revoked /\ ~expired
          /\ GoWith(d, disk, IF StepForPhase(disk.phase) = "none"
                             THEN "view" ELSE "dispatch")
    /\ UNCHANGED <<disk, world, human>>

\* _persist: the whole record in the store becomes the working copy.
Save(d) ==
    /\ pc[d] = "save"
    /\ disk' = rec[d]
    /\ IF cont[d] = "idle" THEN Drop(d)
       ELSE /\ pc' = [pc EXCEPT ![d] = cont[d]]
            /\ cont' = [cont EXCEPT ![d] = "idle"]
            /\ UNCHANGED <<rec, confirmed>>
    /\ UNCHANGED <<world, human>>

\* _refresh after the save of an executing receipt: only the revocation is
\* folded in.  Revoked or expired voids the receipt before any effect.
Refresh(d) ==
    /\ pc[d] = "refresh"
    /\ LET r == [rec[d] EXCEPT !.revoked = disk.revoked]
           receipt == EntryOf(d).receipt
       IN  IF r.revoked \/ expired
           THEN SaveThen(d, Voided(r, StepOf(d)),
                         IF r.revoked THEN "revoke" ELSE "expire")
           ELSE IF StepOf(d) = "PUSH" /\ receipt.from = receipt.to
           THEN SaveThen(d, Succeeded(r, "PUSH"), "idle")
           ELSE GoWith(d, r, EffectPc(r))
    /\ UNCHANGED <<disk, world, human>>

\* The refusal of _start reaches advance_once, which records it.
Refused(d) ==
    /\ \/ pc[d] = "revoke" /\ SaveThen(d, Revoked(rec[d]), "idle")
       \/ pc[d] = "expire" /\ Block(d, rec[d])
    /\ UNCHANGED <<disk, world, human>>

-----------------------------------------------------------------------------
(* The git hook (guard_decision), read from the store at the moment of the *)
(* ref update *)

\* The one executing receipt of the step in the store, still authorized.
ReceiptInForce(step) ==
    /\ disk.phase \notin Terminal /\ ~disk.revoked /\ ~expired
    /\ disk.steps[step].state = "executing"
    /\ disk.steps[step].receipt.state = "executing"

\* Faulty variants: the receipt's branch, or its staged diff, is not compared.
CommitAllowedAnyHead ==
    ReceiptInForce("COMMIT") /\ disk.steps["COMMIT"].receipt.to.tree = index
CommitAllowedAnyIndex ==
    ReceiptInForce("COMMIT") /\ disk.steps["COMMIT"].receipt.from = head

\* A COMMIT receipt binds the branch it starts from and the staged diff.
CommitAllowed ==
    LET receipt == disk.steps["COMMIT"].receipt IN
      ReceiptInForce("COMMIT") /\ receipt.from = head /\ receipt.to.tree = index

\* A branch update passes under a fitting COMMIT receipt, else under a
\* BASE_REFRESH receipt for exactly this update.
RefreshAllowed(from, to) ==
    \/ CommitAllowed
    \/ LET receipt == disk.steps["BASE_REFRESH"].receipt IN
         ReceiptInForce("BASE_REFRESH") /\ receipt.from = from /\ receipt.to = to

\* Faulty variant: the old value of the remote branch is not compared.
PushAllowedAnyOld ==
    /\ ReceiptInForce("PUSH") /\ disk.steps["PUSH"].receipt.to = head
    /\ remote # head

\* A push that would move nothing names no update and is refused.
PushAllowed ==
    LET receipt == disk.steps["PUSH"].receipt IN
      /\ ReceiptInForce("PUSH") /\ receipt.to = head /\ receipt.from = remote
      /\ remote # head

Landed(step) == landed' = [landed EXCEPT ![step] = @ + 1]

\* The effect of the driver's step takes place: a compare-and-swap of the
\* branch, a commit on it, or a fast-forward of the remote branch.
EffectLands(d) ==
    LET receipt == EntryOf(d).receipt IN
    /\ \/ /\ StepOf(d) = "BASE_REFRESH"
          /\ RefreshAllowed(receipt.from, receipt.to) /\ head = receipt.from
          /\ head' = receipt.to /\ UNCHANGED remote
       \/ /\ StepOf(d) = "COMMIT"
          /\ CommitAllowed
          /\ head' = Commit(head.parent, index) /\ UNCHANGED remote
       \/ /\ StepOf(d) = "PUSH"
          /\ PushAllowed
          /\ remote' = head /\ UNCHANGED head
    /\ Landed(StepOf(d))
    /\ UNCHANGED <<index, base, openPr, closedPrs, clash>>

EffectRefused(d) ==
    LET receipt == EntryOf(d).receipt IN
    CASE StepOf(d) = "BASE_REFRESH" ->
           ~RefreshAllowed(receipt.from, receipt.to) \/ head # receipt.from
      [] StepOf(d) = "COMMIT" -> ~CommitAllowed
      [] StepOf(d) = "PUSH"   -> ~PushAllowed

\* git returns; a fault is a call that fails whatever became of its effect.
Effect(d) ==
    /\ pc[d] = "effect"
    /\ \/ EffectLands(d) /\ Go(d, "observe") /\ UNCHANGED budget
       \/ EffectRefused(d) /\ Retry(d, rec[d]) /\ UNCHANGED <<world, budget>>
       \/ EffectLands(d) /\ Disturb("fault") /\ Retry(d, rec[d])
       \/ UNCHANGED world /\ Disturb("fault") /\ Retry(d, rec[d])
    /\ UNCHANGED <<disk, expired, recalled>>

-----------------------------------------------------------------------------
(* BASE_REFRESH *)

\* The source branch is behind the target base: prove the advance disjoint
\* and derive, or find nothing to do.
ExamineBaseRefresh(d) ==
    LET r == rec[d]
        current == Base(r.base)
    IN  IF head # current \/ index # r.base THEN Block(d, r)
        ELSE IF base = r.base
        THEN SaveThen(d, NotNeeded(r), "idle")
        ELSE IF clash THEN Block(d, r)
        ELSE Start(d, r, "BASE_REFRESH", current, Base(base))

\* Ref moved: finish.  Index moved but not the ref: redo the ref move.
\* Neither: nothing happened, void.
ReconcileBaseRefresh(d) ==
    LET r == rec[d]
        receipt == EntryOf(d).receipt
    IN  IF head = receipt.to
        THEN GoWith(d, Reopened(r, "BASE_REFRESH"), "observe")
        ELSE IF head = receipt.from /\ index = receipt.to.tree
        THEN GoWith(d, Reopened(r, "BASE_REFRESH"), "effect")
        ELSE IF head = receipt.from /\ index = receipt.from.tree
        THEN SaveThen(d, Voided(r, "BASE_REFRESH"), "idle")
        ELSE Block(d, r)

StepBaseRefresh(d) ==
    /\ pc[d] = "dispatch" /\ StepOf(d) = "BASE_REFRESH"
    /\ IF Unsettled(EntryOf(d).receipt) THEN ReconcileBaseRefresh(d)
                                       ELSE ExamineBaseRefresh(d)
    /\ UNCHANGED <<disk, world, human>>

\* read-tree -m -u carries the staged candidate over to the new base; it
\* refuses an index that sits on neither end.
ReadTree(d) ==
    /\ pc[d] = "readtree"
    /\ LET receipt == EntryOf(d).receipt IN
         \/ /\ index \in {receipt.from.tree, receipt.to.tree}
            /\ index' = receipt.to.tree
            /\ Go(d, "effect") /\ UNCHANGED budget
         \/ /\ index \notin {receipt.from.tree, receipt.to.tree}
            /\ Retry(d, rec[d]) /\ UNCHANGED <<index, budget>>
         \/ Disturb("fault") /\ Retry(d, rec[d]) /\ UNCHANGED index
    /\ UNCHANGED <<disk, expired, recalled, head, base, remote, openPr,
                   closedPrs, clash, landed>>

\* _finish_base_refresh, _observe_commit and _observe_push: what the effect
\* left behind is exactly what the receipt authorized, or the step blocks.
\* A red check or a failed reverification blocks a base refresh.
Observe(d) ==
    /\ pc[d] = "observe"
    /\ LET step == StepOf(d)
           receipt == EntryOf(d).receipt
           exact == CASE step = "BASE_REFRESH" -> index = receipt.to.tree
                      [] step = "COMMIT"       -> head = receipt.to
                      [] step = "PUSH"         -> remote = receipt.to
           settled == Succeeded(rec[d], step)
       IN \/ /\ IF ~exact THEN Block(d, rec[d])
               ELSE IF step = "BASE_REFRESH"
               THEN SaveThen(d, [settled EXCEPT !.base = receipt.to.tree], "idle")
               ELSE SaveThen(d, settled, "idle")
             /\ UNCHANGED budget
          \/ /\ step = "BASE_REFRESH" /\ exact
             /\ Disturb("clash") /\ Block(d, rec[d])
    /\ UNCHANGED <<disk, world, expired, recalled>>

-----------------------------------------------------------------------------
(* COMMIT *)

\* pr_update, before each effect: GitHub and the remote both show the
\* approved head.
UpdateIdentity == openPr = Base(0) /\ remote = Base(0)

ExamineCommit(d) ==
    LET r == rec[d]
        current == Base(r.base)
    IN  IF \/ head # current \/ index # r.base
           \/ Mode = "pr_update" /\ ~UpdateIdentity
        THEN Block(d, r)
        ELSE Start(d, r, "COMMIT", current, Commit(r.base, index))

\* Faulty variants: any moved head is adopted; the phase moves on and the step
\* is not settled.
ReconcileCommitAny(d) ==
    IF head = EntryOf(d).receipt.from
    THEN SaveThen(d, Voided(rec[d], "COMMIT"), "dispatch")
    ELSE SaveThen(d, Succeeded(Reopened(rec[d], "COMMIT"), "COMMIT"), "idle")
ReconcileCommitPhase(d) ==
    IF head = EntryOf(d).receipt.from
    THEN SaveThen(d, Voided(rec[d], "COMMIT"), "dispatch")
    ELSE IF head = EntryOf(d).receipt.to
    THEN SaveThen(d, [rec[d] EXCEPT !.phase = "COMMITTED"], "idle")
    ELSE Block(d, rec[d])

\* Branch unmoved: void, save, and go on with a fresh receipt.  The exact
\* expected commit is adopted; any other head blocks.
ReconcileCommit(d) ==
    LET r == rec[d]
        receipt == EntryOf(d).receipt
    IN  IF head = receipt.from THEN SaveThen(d, Voided(r, "COMMIT"), "dispatch")
        ELSE IF head = receipt.to
        THEN SaveThen(d, Succeeded(Reopened(r, "COMMIT"), "COMMIT"), "idle")
        ELSE Block(d, r)

StepCommit(d) ==
    /\ pc[d] = "dispatch" /\ StepOf(d) = "COMMIT"
    /\ IF Unsettled(EntryOf(d).receipt) THEN ReconcileCommit(d)
                                       ELSE ExamineCommit(d)
    /\ UNCHANGED <<disk, world, human>>

-----------------------------------------------------------------------------
(* PUSH and PR_CREATE *)

\* Faulty variant: the delivery starts over on the advanced base.
AfterBaseAdvanceOver(d, step) ==
    IF base = rec[d].base THEN step
    ELSE SaveThen(d, [Voided(rec[d], "COMMIT") EXCEPT !.phase = "BASE_CURRENT"],
                  "idle")

\* _handle_post_commit_advance: the branch can no longer move, so a disjoint
\* advance of the base is recorded and saved before the step goes on.  The
\* candidate is compared between the recorded base and the commit, which is
\* the candidate alone only while that base is the commit's parent.
AfterBaseAdvance(d, step) ==
    LET r == rec[d] IN
      IF base = r.base THEN step
      ELSE IF clash \/ r.base # Delivered(r).parent THEN Block(d, r)
      ELSE SaveThen(d, [r EXCEPT !.base = base], "tail")

\* Faulty variant: the push binds whatever the remote branch holds.
DerivePushAny(d) == Start(d, rec[d], "PUSH", remote, Delivered(rec[d]))

\* The push may only extend what the remote branch holds; a pr_update binds
\* the approved head and never a live value.
DerivePush(d) ==
    LET r == rec[d]
        commit == Delivered(r)
        fastForward == \/ remote \in {NoOid, commit}
                       \/ remote.kind = "base" /\ remote.parent <= commit.parent
    IN  IF IF Mode = "pr_update" THEN ~UpdateIdentity ELSE ~fastForward
        THEN Block(d, r)
        ELSE Start(d, r, "PUSH", remote, commit)

ReconcilePush(d) ==
    LET r == rec[d]
        receipt == EntryOf(d).receipt
    IN  IF remote = receipt.to
        THEN SaveThen(d, Succeeded(Reopened(r, "PUSH"), "PUSH"), "idle")
        ELSE IF remote = receipt.from
        THEN SaveThen(d, Voided(r, "PUSH"), "dispatch")
        ELSE Block(d, r)

StepPush(d) ==
    /\ pc[d] = "dispatch" /\ StepOf(d) = "PUSH"
    /\ IF Unsettled(EntryOf(d).receipt) THEN ReconcilePush(d)
       ELSE IF head # Delivered(rec[d]) THEN Block(d, rec[d])
       ELSE IF Mode = "pr_update" THEN DerivePush(d)
       ELSE AfterBaseAdvance(d, DerivePush(d))
    /\ UNCHANGED <<disk, world, human>>

DerivePrCreate(d) ==
    LET commit == Delivered(rec[d]) IN
      IF remote # commit THEN Block(d, rec[d])
      ELSE Start(d, rec[d], "PR_CREATE", NoOid, commit)

\* The step goes on after the save of a recorded base advance.
Tail(d) ==
    /\ pc[d] = "tail"
    /\ IF StepOf(d) = "PUSH" THEN DerivePush(d) ELSE DerivePrCreate(d)
    /\ UNCHANGED <<disk, world, human>>

\* _pr_disposition: an exact pull request that is closed stops the delivery,
\* the one exact open one is adopted, any other open one is ambiguous.
Disposition(commit) ==
    CASE commit \in closedPrs -> "stop"
      [] commit \notin closedPrs /\ openPr = commit -> "adopt"
      [] commit \notin closedPrs /\ openPr \notin {commit, NoOid} -> "stop"
      [] OTHER -> "absent"

\* Faulty variant: the pull requests are not looked up again.
ReconcilePrCreateBlind(d) == SaveThen(d, Voided(rec[d], "PR_CREATE"), "dispatch")

ReconcilePrCreate(d) ==
    LET r == rec[d]
        found == Disposition(EntryOf(d).receipt.to)
    IN  CASE found = "adopt"  -> GoWith(d, Reopened(r, "PR_CREATE"), "adopt")
          [] found = "absent" -> SaveThen(d, Voided(r, "PR_CREATE"), "dispatch")
          [] found = "stop"   -> Block(d, r)

StepPrCreate(d) ==
    /\ pc[d] = "dispatch" /\ StepOf(d) = "PR_CREATE"
    /\ IF Unsettled(EntryOf(d).receipt) THEN ReconcilePrCreate(d)
                                       ELSE AfterBaseAdvance(d, DerivePrCreate(d))
    /\ UNCHANGED <<disk, world, human>>

\* The pull requests are listed before the creation, which only an absent
\* one allows, and again after it.
LookUp(d) ==
    /\ pc[d] \in {"lookup", "relook"}
    /\ LET found == Disposition(EntryOf(d).receipt.to) IN
         CASE found = "adopt" -> Go(d, "adopt")
           [] found = "absent" /\ pc[d] = "lookup" -> Go(d, "create")
           [] OTHER -> Block(d, rec[d])
    /\ UNCHANGED <<disk, world, human>>

\* GitHub opens a pull request unless one is open for the same branches.
PrLands ==
    /\ openPr = NoOid
    /\ openPr' = remote
    /\ Landed("PR_CREATE")
    /\ UNCHANGED <<head, index, base, remote, closedPrs, clash>>

CreatePr(d) ==
    /\ pc[d] = "create"
    /\ \/ PrLands /\ Go(d, "relook") /\ UNCHANGED budget
       \/ openPr # NoOid /\ Retry(d, rec[d]) /\ UNCHANGED <<world, budget>>
       \/ PrLands /\ Disturb("fault") /\ Retry(d, rec[d])
       \/ UNCHANGED world /\ Disturb("fault") /\ Retry(d, rec[d])
    /\ UNCHANGED <<disk, expired, recalled>>

\* _adopt_pr views the listed pull request, open or closed since, and saves
\* PR_OPENED and then, separately, COMPLETE.
AdoptPr(d) ==
    /\ pc[d] = "adopt"
    /\ LET commit == EntryOf(d).receipt.to IN
         IF openPr = commit \/ commit \in closedPrs
         THEN SaveThen(d, Succeeded(rec[d], "PR_CREATE"), "complete")
         ELSE Block(d, rec[d])
    /\ UNCHANGED <<disk, world, human>>

Complete(d) ==
    /\ pc[d] = "complete"
    /\ SaveThen(d, [rec[d] EXCEPT !.phase = "COMPLETE"], "idle")
    /\ UNCHANGED <<disk, world, human>>

\* Faulty variant: a pull request that shows another head is waited for.
ViewPrWaits(d) ==
    /\ pc[d] = "view"
    /\ IF openPr = Delivered(rec[d])
       THEN SaveThen(d, [rec[d] EXCEPT !.phase = "COMPLETE"], "idle")
       ELSE Retry(d, rec[d])
    /\ UNCHANGED <<disk, world, human>>

\* _observe_pr_update, for every phase without a step.  A pull_request
\* record has no pull_request_number: once the remote is found right, the
\* lookup of that key ends the process with nothing saved.
ViewPr(d) ==
    /\ pc[d] = "view"
    /\ LET r == rec[d]
           commit == Delivered(r)
       IN  IF remote # commit THEN Block(d, r)
           ELSE IF Mode = "pull_request" THEN Drop(d)
           ELSE IF openPr = commit
           THEN SaveThen(d, [r EXCEPT !.phase = "COMPLETE"], "idle")
           ELSE IF openPr = Base(0) THEN Retry(d, r)
           ELSE Block(d, r)
    /\ UNCHANGED <<disk, world, human>>

\* A live read fails: a transport error wherever the handler reads.
ReadFault(d) ==
    /\ pc[d] \in {"dispatch", "tail", "observe", "lookup", "relook", "adopt",
                  "view"}
    /\ Disturb("fault")
    /\ Retry(d, rec[d])
    /\ UNCHANGED <<disk, world, expired, recalled>>

-----------------------------------------------------------------------------
(* Everything that is not a driver *)

\* revoke: a load-modify-save under the store lock.
Revoke ==
    /\ Disturb("revoke")
    /\ disk' = Revoked(disk)
    /\ recalled' = TRUE
    /\ UNCHANGED <<control, world, expired>>

Expire ==
    /\ ~expired /\ Disturb("expire")
    /\ expired' = TRUE
    /\ UNCHANGED <<disk, control, world, recalled>>

\* The process dies; what it had not saved is gone.
Crash(d) ==
    /\ pc[d] # "idle" /\ Disturb("crash")
    /\ Drop(d)
    /\ UNCHANGED <<disk, world, expired, recalled>>

\* The target base moves, disjointly or not.
MoveBase ==
    /\ base < MaxBase
    /\ base' = base + 1
    /\ \/ Disturb("base") /\ UNCHANGED clash
       \/ Disturb("clash") /\ clash' = TRUE
    /\ UNCHANGED <<disk, control, expired, recalled, head, index, remote,
                   openPr, closedPrs, landed>>

\* Somebody else moves the local or the remote branch.
MoveRef ==
    /\ Disturb("foreign")
    /\ \/ head' = Foreign /\ UNCHANGED remote
       \/ remote' = Foreign /\ UNCHANGED head
    /\ UNCHANGED <<disk, control, expired, recalled, index, base, openPr,
                   closedPrs, clash, landed>>

\* A human opens the pull request by hand, or closes or merges it.
MovePr ==
    /\ \/ /\ Disturb("openpr")
          /\ openPr = NoOid /\ remote # NoOid
          /\ openPr' = remote /\ UNCHANGED closedPrs
       \/ /\ Disturb("close")
          /\ openPr # NoOid
          /\ openPr' = NoOid /\ closedPrs' = closedPrs \cup {openPr}
    /\ UNCHANGED <<disk, control, expired, recalled, head, index, base,
                   remote, clash, landed>>

\* An open pull request comes to show the head of its branch.
GithubCatchesUp ==
    /\ openPr # NoOid /\ openPr # remote
    /\ openPr' = remote
    /\ UNCHANGED <<disk, control, human, head, index, base, remote, closedPrs,
                   clash, landed>>

-----------------------------------------------------------------------------
Drive(d) ==
    \/ Withdraw(d) \/ Load(d) \/ Save(d) \/ Refresh(d) \/ Refused(d)
    \/ StepBaseRefresh(d) \/ ReadTree(d) \/ Effect(d) \/ Observe(d)
    \/ StepCommit(d) \/ StepPush(d) \/ Tail(d)
    \/ StepPrCreate(d) \/ LookUp(d) \/ CreatePr(d) \/ AdoptPr(d)
    \/ Complete(d) \/ ViewPr(d)

Outside ==
    \/ Revoke \/ Expire \/ MoveBase \/ MoveRef \/ MovePr \/ GithubCatchesUp

Next ==
    \/ \E d \in Drivers : Confirm(d) \/ Drive(d) \/ ReadFault(d) \/ Crash(d)
    \/ Outside

Spec == Init /\ [][Next]_vars

\* Somebody keeps advancing the delivery until it stops, a process that is
\* not killed runs on, and GitHub eventually shows a pushed head.
FairSpec ==
    /\ Spec
    /\ \A d \in Drivers : WF_vars(Drive(d))
    /\ WF_vars(GithubCatchesUp)

-----------------------------------------------------------------------------
(* Safety *)

\* Every save passes the validator: no path of the machine builds a record
\* that validate_authorization, run inside _persist, would refuse.
SavesAreValid == \A d \in Drivers : pc[d] = "save" => ValidRecord(rec[d])

\* "It refuses the SELECTION of an unconfirmed step" (machine.py:150-154):
\* whatever other drivers do meanwhile, an office call is only ever on the way
\* to the effect of the step that was confirmed, and never to a base refresh.
OneConfirmedStep ==
    \A d \in OfficeDrivers :
        pc[d] \in EffectPcs =>
            StepOf(d) = confirmed[d] /\ StepOf(d) # "BASE_REFRESH"

\* Whoever else drives the delivery or moves its pull requests: one commit,
\* one push.
OneCommitOnePush == landed["COMMIT"] <= 1 /\ landed["PUSH"] <= 1

\* A step recorded as succeeded did take place; a pull request may be one a
\* human opened and the machine adopted.
RecordedIsReal ==
    \A s \in Steps : disk.steps[s].state = "succeeded" =>
        \/ landed[s] >= 1
        \/ s = "PR_CREATE" /\ (openPr # NoOid \/ closedPrs # {})

\* An interrupted or repeated base refresh never lets a commit through whose
\* tree carries the candidate on another base than its parent.
CandidateOnItsBase == head.kind = "commit" => head.parent = head.tree

\* A receipt is voided only when its effect did not take place.
VoidsOnlyAbsent ==
    [][\A s \in Steps :
         disk'.steps[s].voided > disk.steps[s].voided => landed[s] = 0]_vars

\* What the record shows as succeeded stays on record: "every effect already
\* proven stays recorded" (machine.py:20); and no step, retry or void takes the
\* phase in the store off the kind's transition table.
ProvenStays ==
    [][/\ \A s \in Steps :
            disk.steps[s].state = "succeeded" => disk'.steps[s] = disk.steps[s]
       /\ disk'.phase # disk.phase =>
            <<disk.phase, disk'.phase>> \in AllowedTransitions]_vars

\* A push never replaces what somebody else put on the remote branch.
PushNeverOverwrites ==
    [][landed'["PUSH"] > landed["PUSH"] => remote # Foreign]_vars

\* A pr_update adds exactly one commit, on the approved head, to the remote
\* branch (machine.py:61-66).
UpdateExtendsApprovedHead ==
    [][landed'["PUSH"] > landed["PUSH"] =>
         remote = Base(0) /\ remote' = Commit(0, 0)]_vars

\* "a revocation always stops the NEXT effect" (machine.py:18-20): once
\* revoke has returned, no re-read clears another effect.
RevocationStopsNextEffect ==
    [][\A d \in Drivers :
         pc[d] = "refresh" /\ pc'[d] \in EffectPcs => ~recalled]_vars

-----------------------------------------------------------------------------
(* Refinement and liveness *)

OnRecord(s) == IF disk.steps[s].state = "succeeded" THEN 1 ELSE 0
\* The delivery implements the ledger of its effects.
Ledger == INSTANCE EffectLedger WITH
    Total   <- IF Mode = "pr_update" THEN 2 ELSE 3,
    done    <- landed["COMMIT"] + landed["PUSH"] + landed["PR_CREATE"],
    noted   <- OnRecord("COMMIT") + OnRecord("PUSH") + OnRecord("PR_CREATE"),
    outcome <- CASE disk.phase = "COMPLETE" -> "complete"
                 [] disk.phase \in {"BLOCKED", "REVOKED"} -> "stopped"
                 [] OTHER -> "open"

LedgerSpec == Ledger!Spec

\* A delivery that is kept being advanced reaches a terminal phase.
Stops == <>(disk.phase \in Terminal)

\* "a crash at any point reconciles forward from durable state"
\* (machine.py:6-7): a recorded pull request is completed.
OpenedCompletes == disk.phase = "PR_OPENED" ~> disk.phase \in Terminal
=============================================================================
