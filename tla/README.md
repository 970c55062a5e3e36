# Verification of dodging-infinity

This directory holds TLA+ models of the parts of dodging-infinity that keep durable state and
act on the world, the TLC configurations that check them on small instances, and theorems about
them that the TLAPS proof system checks for every instance. The models are written from the
Python source; `PROJECT.json` maps every definition to the lines it stands for.

Contents: 1 inventory of the system, 2 plan, 3 PR delivery, 4 target runtime and result lane,
5 missions, 6 the panel's journal and retention, 7 what each run checks, 8 what is proved,
9 disagreements found, 10 limits and what is not modelled.

## 1. The system

A human asks for work on a repository. The request becomes a proposal, a human decision turns
the proposal into an authorization, a runtime drives engineering (Herdr) in a leased workspace,
the verified result is shown to the human, and a separate ceremony delivers it as a commit, a
push and a pull request. No component trusts another's claim: each keeps one durable JSON
document behind a lock file, saves an intent before it acts, and reconciles from the document
after a crash.

```
 Grok Bot, Telegram, panel, local CLI
        | request, decision
        v
 local_request -> Mission Core ----------> MissionBridge (run guard) --+
        |                                                              v
 Telegram -> workflow_authority <--lock--> target runtime + broker -> Herdr (herd, tasks, turns)
        ^                                        |                     |
        +------ result: placeholder, edit -------+<--- observations ---+
                                                 |
 human -> PR delivery ceremony -> delivery store -> machine -> git hooks, git, GitHub
```

### Inventory

For each component: the state it keeps, its operations, its neighbours, what is hard about it,
and what makes it correct.

**PR delivery** (`pr_delivery/`, `office_delivery/`, the receipt checks of `herdr/guards.py`).
State: one record per authorized delivery (phase, one entry per step, a receipt per entry) in
one store document; the repository's branch, index, remote branch and pull requests.
Operations: present, attest, authorize, advance (one step a call), revoke, status. Several
processes may advance the same record: the command line, the office adapter and a human loop.
Hard: no lock is held across a step; a process dies between a save and an effect; the answer of
a push or a `gh pr create` is lost; the base, the branches and the pull requests move; a save
writes a whole stale record; the store forgets records at its bound. Correct when every effect
takes place at most once, only as authorized and only after the effect before it is on record,
when a crash never loses track of it, and when a presented proposal authorizes once.

**Target runtime and broker** (`target_runtime/runtime.py`, `broker.py`, `capability.py`, ...).
State: a workflow record (phase, turns, receipts, dispatch identity, lease, result), a store of
one-shot capabilities, the leased directory, the spawned target and its sessions. Operations: a
pass loads a record, asks a role turn what to do, mints a capability, and the broker consumes it,
gates and performs one of nine actions. Hard: a crash between the durable dispatch marker, the
launch and the record of who was launched; the policy, the target or the clock moving while a
turn runs; capabilities that leak until none can be minted; a record that reaches its hard bounds
in the middle of an action; release deleting what is still needed. Correct when a target is
launched at most as often as recorded and authorized, a result is verified only for the target
that was bound and against the state of that moment, and nothing is removed before it is kept.

**Telegram operator** (`telegram_operator/`). State: the workflow record it shares with the
runtime through the store lock, its own approval file, Telegram's messages. Operations: offer and
consume a mission decision, send the result placeholder, edit it with the verified result, the
legacy send, startup recovery; beside them a relay of Herdr approvals. Hard: an unknown outcome
of a call that may have taken effect, a crash between intent and outcome, a deleted message.
Correct when the human gets one result object, and what the record says was shown was shown.

**Workflow authority** (`workflow_authority/`). State: the store of workflow records, planning
sessions and grants. Operations: intake, plan, arm, transition, eviction at capacity. Hard:
eviction of what is still owed, a record at its bounds. Correct when phases follow the table and
an authorization is bound to the exact plan.

**Mission Core** (`mission/`). State: missions with revisioned proposals, authorizations, an
append-only authority ledger, id reservations and, per mission, a run block with its lifecycle, all
in one document; Mission State (activated contract, accepted result, obligations) beside it.
Operations: reserve an id, propose, decide (APPROVE, EDIT, DENY, the attested answers), withdraw,
expire, bind and prepare a workspace, record intent, receipt, observation, reconciliation,
verification, pause, resume and cancel. Hard: every load replays the decisions and refuses a
document that does not follow from them, so a sequence of legal calls that saves one nobody can
load again loses the registry; replays of ids; a decision against a revision that has moved.
Correct when each saved document is accepted by the next load, authority stands only for the
proposal of now, and what was decided is only added to.

**Mission bridge and run guard** (`target_runtime/mission_bridge.py`, `mission_run_guard.py`).
State: the run block, the mission's worktree, the target, a per-mission `flock`. Operations:
dispatch, observe, reconcile, verify, prove, pause, resume, cancel, by the panel, the progression
process and the command line. Hard: read-then-act sequences that interleave, a spawn whose answer is
lost, a process that dies between two writes, authority that ends under an operation. Correct when
one child at most is asked for, an attempt is never counted against a child about to be bound, a
completed mission is proven, a pause is kept, and no run stays unknown or unverified for ever.

**Local request surface** (`local_request/`). State: requests, one-shot control capabilities and
attestations in a document of its own. Operations: submit, attest an approval, decline, rejection
or change request, refuse, cancel, reconcile. Hard: a crash or a lost answer between Mission Core's
commit and the surface's own; an edit between the reply and its application. Correct when what it
says became of an answer is what Mission Core holds, and an answer is relayed once.

**Grok bot** (`grok_bot/`). State: an index of requests and the receipts of what was last
displayed; armed commitments. Operations: request, present, arm, approve, deliver. Hard: an
approval fired for what is no longer displayed, duplicate tool calls. Correct when an approval
reaches exactly the displayed binding, once.

**Herdr engineering** (`herdr/`, `herdctl.py`). State: tasks, turns, the child records of a parent
herd, the approval ledger of the git guards, sessions. Operations: start, dispatch, turn outcomes,
follow-on dispatch, dependency tracking, approve and consume a commit, push or merge, shut down.
Hard: an interrupted turn read as finished, a second task on a herd still at work, an approval
spent twice. Correct when an outcome is recorded where it happened and an approval authorizes once.

**Coordination** (`coordination/`). State: bindings, routes, attention, handoffs and participants
in one document with a store sequence. Hard: two parties accepting one handoff, attention resolved
against a stale mission fact.

**Mission panel** (`mission_panel/`). State: a journal of turns (reserved, completed, failed,
refused, uncertain), drafts, submissions and frozen decision offers. Operations: send, finish,
submit a draft (perhaps in place of an earlier request), settle what is in flight and not known to
run, reduce a conversation. Hard: threads that interleave between the saves, a turn whose outcome is
unknown after a crash, a submission that is settled while it runs. Correct when a draft becomes one
request at most.

**Mission retention** (`mission_retention/`). State: one retention record per mission. Operations: a
sweep that observes what is over and reclaims what is due, the owner's deletion. Both reduce three
stores of other components (journal, requests, run diagnostics), each under its own lock. Hard: a
reduction interrupted between stores, a conversation that several missions share and that is used
while it is judged. Correct when no words go that a mission needs, the record tells what was done,
and what is due goes in the end.

**Process ownership, spawn stamp, tunnel control, operator session, Codex gateway.** They start,
observe and end processes. Hard: a recycled process id, a group that outlives its leader.

**Mission sources, evidence, catalog.** Read-only projections of the other components' stores.

**Neutral contracts** (`capability/`, `durable_execution/`, `human_interaction/`, `worker/`).
Interfaces without state.

**Pixel Agents integration** (`integrations/pixel-agents/`). A fork of a separate program with its
own build and tests; it displays what the system records.

## 2. Plan

In order of what the system can least afford to get wrong:

| # | component | modules | state |
|---|---|---|---|
| 1 | PR delivery machine | DeliveryRecord, PrDelivery, EffectLedger, MCPrDelivery, PrDelivery_proofs, PrLedger_proofs | built |
| 2 | PR delivery store | DeliveryStore, MCDeliveryStore, DeliveryStore_proofs | built |
| 3 | runtime, broker, result lane | WorkflowRecord, TargetRuntime, TargetBroker, ResultLane, TargetSystem, MCTargetSystem, TargetSystem_proofs | built |
| 4 | Mission Core, local request surface | MissionRecord, MissionCore, MissionRun, LocalRequest, MissionRequest (their composition), MCMission, MissionRun_proofs, MissionRequest_proofs | built |
| 5 | bridge and run guard, with the panel's and the runtime's passes and retention's verdict | MissionRun, MissionBridge, MCBridge, MissionRun_proofs, MissionBridge_proofs | built |
| 6 | the panel's journal and retention's reductions | PanelJournal, Retention, Retention_proofs | built |
| 7 | Herdr: turns, approval ledger, follow-on work | | left out |
| 8 | coordination; grok arming | | left out |
| 9 | workflow store of several workflows and its retention | | left out |

Rows 7 to 9 are separate documents with operations of their own. The modelled components see them
only from outside: what a target does inside its workspace is the world of rows 3 and 5, a front end
is a caller of row 4. What retention may reclaim is judged by row 5's `Eligible`, how it reduces is
row 6.

The abstract specification is the effect ledger of a delivery, which PrDelivery is shown to
implement. The runs are the smallest in which the hazards occur: two or three processes, two
decisions and an edit, one or two crashes or lost answers.

## 3. PR delivery

**DeliveryRecord** is a record and the pure changes made to a working copy: derive a receipt, void
it, settle it, retry, block. A commit is abstracted to what the machine compares: its parent and
the base its tree carries the candidate on.

**PrDelivery** is the machine. `disk` is the record in the store, `rec[d]` the working copy of
driver `d`, `pc[d]` where it is. One call of `advance_once` is Load, a handler (StepBaseRefresh,
StepCommit, StepPush, StepPrCreate, ViewPr), and the boundaries inside it at which another process,
a crash or an outside change matters: each `Save` (whole record, no lock across the step), the
re-read that folds in a revocation (`Refresh`), the effect, and the observation after it. `head`,
`index`, `remote`, `openPr`, `closedPrs` and `base` are the world; `landed` counts effects and is
read by no action. The git hook that admits an effect (`guards.py`) is part of the effect's
guard. The office driver confirms one step and may only take that step.

**EffectLedger** is the abstract promise: effects happen once each, in order, and a next one begins
only when the record shows the one before. `PrDelivery!Ledger` is the refinement mapping.

**DeliveryStore** is the store with the ceremonies that mint records: the record that was minted
is also the only history that refuses a replay, so capacity eviction and one-shot use interact.
Each load-modify-save is under the store lock and is one action; a ceremony reads the time at its
start and again at its mint.

*Fairness* (`PdUpdate`): weak fairness of each driver's next step, since somebody keeps
calling advance and a process that is not killed runs on; weak fairness of GitHub showing a pushed
head. Faults, crashes and outside changes are never fair and are limited by `MaxDisturbed`.

*Bounds.* `MaxDisturbed` limits how many outside events one behaviour meets; `MaxAttempts` is
MAX_STEP_ATTEMPTS (8 in the code; 2 or 3 in the runs, so that the last attempt and its refusal are
reached); `MaxBase` the number of
base advances. Two drivers and two events already give every race of load, save, re-read and
effect. `DsOneShot` has a store of one record (64 in the code), which makes every mint an
eviction, one proposal, two overlapping ceremonies, three ids, and a clock past every deadline.

## 4. Target runtime, broker and result lane

**WorkflowRecord** is the record, its phase table, the hard bounds every save is validated against
(`Fits`), and what both writers share: the store lock and the budget of outside events. Turns and
receipts are counted; texts, digests, owners and times are left out.

**TargetRuntime** is a pass: StartPass (compaction), what a phase asks before it mints (RequestTurn,
ProposedStop, StandingRequest, Advance), the recovery of a dispatch whose target is unknown
(Recover), the capability (Mint, Consume before the gate is asked, expiry), and terminal cleanup.
`Persisted` is `_contain_unsavable_record`: a save past the bounds stops the last saved record.

**TargetBroker** is the nine actions under the store lock, cut where a crash matters: `Dispatch`
saves the marker, `Launch` starts the target, `RecordLaunch` is the child record of the control
repository, `Bind` saves the identity; `VerifyStopped` spends a turn and `Gates` decides against a
fresh collection; `Release`, `Close` and `Remove` are the release chain. The world is `dir`,
`child`, `session` (which launch the live sessions belong to), `childRecord`, `archived`, `policy`.
`spawns` and `crashes` count and are read by no action.

**ResultLane** is the adapter: the decision, the placeholder (intent saved, one call, outcome
saved), the edit of the bound message, the legacy lane, startup recovery. `messages` and `shown`
are what the chat really holds.

**TargetSystem** composes the two processes. They share `wf` and `lock` and nothing else. A broker
action holds the lock over its loads and saves; the adapter holds it for one transaction, never
over a Telegram call.

*Fairness* (`RtPass`): weak fairness of the runtime's steps (it polls); strong fairness of the
adapter's, because it waits in a blocking `flock` which the runtime takes and leaves again and
again, and it is restarted after a crash; weak fairness of a validity window and of a capability
ending, which is time passing. A human decision, a turn's choice, a fault, a crash and the
target's own progress are not fair: a target may run for ever, and a plan may never be decided.

*Bounds.* The code has 256 turns, 256 receipts and 2 follow-ups. `RtPass` has 5, 4 and 1: enough for
a verified follow-up after a fault, and small enough that containment at the bound happens in
the middle of every action that adds a turn or a receipt. Two capabilities (256 in the code) make the
store full after two crashes. `Disturbances` and `MaxDisturbed = 2`: any two of a crash of either
process, a failing check or store, a lost or refused Telegram answer, a deleted message, a policy that
moves, a session that ends, a target that resumes.

## 5. Missions

**MissionRecord** names the states, kinds of decision and scopes and the shape of a mission, an
authorization and a run block. Contents are numbers, ids are positions; digests are the contents
they bind.

**MissionCore** is the registry `doc` and the clock. An operation of `mission/service.py` is one load,
change and save under the store lock, so it is a condition (`Can...`) and the document it saves
(`...In`). `Accepted` and `IdsAgree` are what every load checks: the decisions of a mission are
replayed, in order, to a state, authorizations and ledger entries that must be the ones saved, and the
run block must agree with the lifecycle.

**MissionRun** is the run half of the service: each `Record...` operator gives the documents that
operation may save, none when it refuses. MissionCore and MissionRun have no actions of their own;
their callers give them.

**LocalRequest** is the surface. Its store is `requests`; `call` is what the process inside its lock
still has to do, so that one call is SubmitMint, SubmitSave, BindPropose, BindSave, or AttestMint,
AttestReserve, AttestApply, AttestSettle, or CancelBegin, CancelWithdraw, CancelSave. Between any two
of them Mission Core may be changed by others and the process may die. AttestApply commits, is
refused, or answers nothing, committed or not. A later call reads an unsettled attestation
(`Reconcile`) and never applies it again.

**MissionRequest** composes the surface with an authenticated caller, who reserves, decides and edits,
and with the panel's pause, resume and cancel of a mission whose run was not started.

**MissionBridge** is the bridge for one mission. `proc[c]` is the next step of process `c`, with what
it has read: a dispatch is Plan, Bind, Create, Prepared, Derive, Activate, Intent, Spawn, Receipt, or
Refuse; a reconciliation, an observation, a verification and a cancel are a read and a write. `holder`
is the run guard, taken by the processes in `Guarded` around everything but pause, resume, cancel and
the proof operations, and freed by the system when its holder dies. The world is `worktree` (what git
finds at the mission's path), `child` (the target's own record, its report, and whether the
control side lists it) and `proof` (Mission State). `spawns` counts and is read by no action.
The panel's readiness check, which takes no guard and is followed by a verification that reads
again, is ReadinessReads and VerifyReads; a verification asked for by itself (`local_request/cli.py`,
the command `verify`), which may find the target still at work, is VerifyBegins. The runtime's pass is
Advance. A refused plan or binding reaches Refuse with nothing else recorded; a cancel whose look at
the target fails records that it was running (`Interrupted`). `Eligible` is retention's verdict from
the record alone.

*Fairness* (`MnRun`): strong fairness of the runtime's pass, which polls and skips a mission whose
guard is held, while every holder gives the guard back; weak fairness of the steps an operation has
left (it ends or its process dies), of a child that started getting somewhere, and of the spacing
between attempts running out. Dispatching, verifying, pausing and resuming are a person's choices
and are not fair.

*Bounds.* `MnRequest`: one request, three decision ids, two authorizations, two revisions, a ledger of
three, all below what the calls could use, so that each limit refuses; contents 1 and 2, for an edit
that changes the words and one that does not; a crash; a clock that passes the capability's, the
proposal's and the authorization's end. `MnStart`: the panel and the runtime, with the guard, and a
command line, without it, dispatch, reconcile, advance and cancel at once (`MCStarts`), while a person
edits or approves again, the progress is closed, time ends the authorization, and a process dies.
`MnRun`: panel, runtime and command line (`MCDoes`; the command line verifies, proves, pauses, resumes
and cancels), two faults, two attempts, so that both the counted and the last attempt occur. The code's
numbers are larger and only bound lists.

## 6. The panel's journal and retention

**PanelJournal** is the panel's journal and the surface's requests, as far as a draft's way to a
request needs them. `turns` is the journal, `registry` the turns the panel is known to run
(`InFlight`). Each write of the journal is a locked load-modify-save and one action; the threads of
the panel interleave between them: SendReads takes the registry before SendReserves settles whatever
is not in it; a submission is SubmitReserves, SubmitRegisters, SubmitWithdraws (of the request it
replaces), SubmitAsks, SubmitBinds and SubmitFinishes, so that it is in flight and not yet
registered for a while. A call may fail with its effect or without it, the panel may die with all
threads (PanelDies), and PanelStarts settles what was left.

**Retention** adds the retention record, the run diagnostics and `keeper`, the sweep or the deletion
that holds retention's own lock: SweepStarts, SweepTakes (with the bound of a sweep), Reads,
SweepJudges or DeleteJudges, ReduceJournal, ReduceRequests, ReduceTexts, Close, and Withdraw of a
refused deletion. What it loaded of missions and journal is in `keeper` and may be stale; only
ReduceJournal compares it, under the journal's lock. KeeperFails is a write that fails or a process
that dies at any of these points. `mission` says only how far each mission is: over, and over for so
long that it is due (thirty days in the code, during which the thread that submitted it has ended).

*Fairness* (`PnRetain`): strong fairness of a sweep's start, since the runtime and the panel's start
call it again and again while deletions take the lock in between; weak fairness of the steps a sweep
or a deletion has left, of the steps of each thread that began, and of the panel being started
again. Sending, submitting, deleting and a mission's end are not fair.

*Bounds.* One conversation with two turns and two requests is the smallest in which a mission shares
its conversation with another one; one death or failed call at any point; one reclamation a
sweep (8 in the code), so that the bound is met by the second mission.

## 7. The runs

| run | distinct states | asks | shows |
|---|---|---|---|
| PdCrash | 20 448 | one driver, 4 crashes, failing calls, base changes | saves are valid, a receipt is voided only if its effect did not happen, what is proven stays, the phase table, the effect ledger is implemented |
| PdTwoDrivers | 4 267 771 | two drivers, 2 outside events of 8 kinds | one commit, one push, each on its own base, never over foreign work, nothing recorded that did not happen |
| PdUpdate | 622 721 | a pr_update with a drive and the office, two outside events, fair | only the confirmed step is on the way to its effect; exactly the approved head is extended; every delivery stops |
| DsOneShot | 39 161 | overlapping ceremonies at capacity | a proposal authorizes once; eviction keeps its record and active records |
| RtPass | about 1.3 million | runtime and adapter, any two disturbances, fair | eight safety and action properties of section 8; an unresolved dispatch settles; a completed result is shown or its failure is recorded |
| MnRequest | 845 178 | surface, authenticated caller and panel on one registry, a crash | every saved document is accepted by the next load; authority is of the proposal of now; the surface tells what Mission Core holds, and relays an answer once; what was decided is only added to |
| MnStart | 1 389 509 | panel, runtime and an unguarded command line, decisions, expiry, cancel, closed progress, a death | one child at most, as authorized; what retention calls eligible never starts; a guarded process counts no attempt into another's dispatch |
| MnRun | 426 396 | panel, runtime, command line and two faults, fair | the run block is accepted by the next load; a completed mission is proven; a pause is kept; a held run settles; a finished one completes by itself |
| PnRetain | 909 194 | a panel's threads, sweeps and deletions, a death or failure, fair | a draft becomes one request; no words go that a named mission needs; the retention record tells what was done; what is due, or was interrupted, is reduced in the end |
| PdRevoke, PdOpened, RtRemovedLive | | expected violations | the disagreements of section 9 |

Deadlock is checked in RtPass and RtRemovedLive. A delivery, a cancelled request and a finished
mission take no further step, so the Pd and Mn runs do not check it; DsOneShot stops at the bound of
its clock, and a panel with a full journal may have nothing to do. Every property of a passing run has a mutant in
`PROJECT.json`, a plausible bug of one definition (the operators marked "Faulty variant" in the
modules), under which TLC finds the property violated.

Symmetry is used for interchangeable drivers, ids, proposals and callers, and only in runs without
liveness properties.

## 8. What is proved

All theorems hold for every value of the constants that satisfies the named assumptions of the
modules (naturals where the code has counters, a nonzero number of attempts, turns, receipts and
capabilities, the office among the drivers).
No bound on crashes, faults or outside changes is used: `MaxDisturbed` is any natural number.

**DeliveryStore_proofs.** `OneShotHolds` and `EvictionKeepsHolds`. The one-shot check reads only
what the store still holds, so the invariant is about history: until its deadline the record a
proposal was minted into is present. Eviction keeps that because it compares the same deadline with
a time no later than now (lemma EvictsSafely).

**PrDelivery_proofs.** `Invariance` of IInv, and from it `TypeCorrect`, `CandidateSafe`, `EffectsOnce`,
`RecordTruthful`, `PushSafe`. None is inductive alone. A stale copy may be saved at any time, so IInv
says of every copy, not only of the record in the store, what makes its receipts safe to act on
(GoodRecord), what each control point guarantees (GoodAt), and how the branches relate to the effects
that landed (WorldGood). The number of drivers is arbitrary.

**TargetSystem_proofs.** `Invariance` of IInv, and from it

| theorem | property |
|---|---|
| TypeCorrect | TypeOK, which no run needs to check |
| LaunchesCounted | SpawnsWithinReceipts: no launch without its own durable receipt |
| LaunchNeedsBound | SpawnNeedsBound: no launch before the placeholder is bound |
| VerifiedResolved, BindingReal | only a bound target is verified, only a real one is bound |
| ResultOnce, DeliveredShown | one result object; a recorded delivery was shown |
| CapabilitiesReturned | NoLeak: only crashes leave capabilities behind |
| PhasesFollow | every phase change is in ALLOWED_TRANSITIONS |
| ArchivedFirst | no removal before the archive |
| VerifiedFresh | the verifying step sees the authorized policy and a stopped target |

IInv is TokenGood (where a capability may be), ControlGood (what each control point knows of the
phase and the lock), DispatchGood and TargetGood (how the record relates to launches, binding and
archive) and LaneGood (what each point of the adapter knows of the chat). The two processes are
proved apart: RuntimeStepKeeps and LaneStepKeeps say which part of the record each may change, so
each conjunct needs one lemma with a step per action of its own process, and one short frame lemma for
the other.

**PrLedger_proofs.** What a delivery's record tells.

| theorem | property | for |
|---|---|---|
| SavesValid | SavesAreValid | any drivers |
| OfficeStep | OneConfirmedStep | any drivers |
| UpdateSafe | UpdateExtendsApprovedHead | any drivers, a `pr_update` |
| VoidsSafe, ProvenSafe | VoidsOnlyAbsent, ProvenStays | one driver |
| LedgerImplemented | LedgerSpec: PrDelivery implements EffectLedger | one driver |

The handlers are first reduced to the edges of a driver's control (GoEdge, SaveEdge): from which point
to which, with what change of the copy, and what the handler found out before (Absent, Present). The
invariants are then proved edge by edge. CopyInv says of every driver's copy, not only of the stored
record, that it is one the validator accepts wherever it may be saved, and which step an office call
was confirmed for. LoneInv says of the record and the world together what each receipt's state means
(Tells): a step proven has landed, one that was never begun has not. The refinement maps a landing to
`Perform`, a save to `Note`, `Finish` or a stutter (LandsPerforms, SaveNotes), every other step to a
stutter.

The last three theorems assume `Alone`: the drivers are one process, which may crash at any point and
any number of times, and nobody revokes the delivery, opens its pull request by hand or closes it
(foreign commits and base advances are allowed). This is not for want of a proof. With a second driver
a late save puts an older record back, so ProvenStays fails, and the effects are nevertheless single
(EffectsOnce, PushSafe, which assume nothing of the kind). TLC also refutes one of the three under each
exclusion that is lifted from PdCrash: ProvenStays when the delivery is revoked, LedgerSpec when somebody
opens the pull request, which is then adopted without a landing, and VoidsOnlyAbsent when somebody
pushes to the branch and closes its pull request, which the lookup no longer recognizes.

**MissionRun_proofs.** Lemmas about the registry's operations, on which the next two rest. First, for
the one mission of the bridge: what each operation on the run block keeps (`Keeps`, `KeepsPaused`,
`Uncounted`, `Unfinished`), and that the run it leaves is one a load accepts (RunGood: how the state
and the lifecycle go together, and what the block must hold at each of them). Then, for any number of
missions, two invariants of the document alone.

* RegistryGood: what a mission's state, revisions, decisions and authorizations say of each other, and
  whose reservation each id is. Every operation keeps it and only adds to the record (Grows).
* StoreGood: the ledger is about the missions there are (LedgerGood), every id marked as used was used
  once (IdsGood), and replaying a mission's decisions comes to what is saved of it (ReplayGood). That a
  load then accepts the document is StoreAcceptable.

A replay is a recursive function over the decisions. Two facts make it tractable: a replay of the same
decisions over a document that only grew is the same (HistorySame), and with one decision more it is
the old replay and one step (HistoryExtended). So a decision needs to be compared with its own replay
only as it is taken (DecideReplays): what it made of the document, with the expiries noted before it,
is what the replay's one step makes of the history. Both facts, and those about the recursive `Among`,
are inductions; they are done over a set of naturals, whose least member exists because the order is
well-founded (lemmas Least and Inductive), since the library's induction theorems take an operator
that the installed provers cannot instantiate.

**MissionRequest_proofs.** `Invariance` of IInv, and from it, with StoreGood,

| theorem | property |
|---|---|
| AuthorityHolds | AuthorityIsCurrent |
| RecordGrows | RecordOnlyGrows |
| SurfaceTruthful | SurfaceTells |
| StoreIsAccepted | StoreAccepted |

for any number of missions, requests, ids and crashes. RecordsGood says of each of the surface's
records how it relates to the document: the mission it is bound to was made of its request
(BindingGood), and what its attestation says of the answer is what was decided under its id
(AttestationGood); two records never share an id, and every decision of the relay is one of theirs.
CallGood says what the call inside the surface's lock may rely on between two of its steps. Steps of
others keep both because they only add and never decide as the relay (Follows, NoneRelayed); the
surface's own steps have a lemma each.

**MissionBridge_proofs.** `Invariance` of Inv, `QuietInvariance` of QuietInv, and from them

| theorem | property |
|---|---|
| StartsAtMostOnce | StartsOnce: one spawn at most, under an intent for the authorized revision and scope |
| CompletionIsProven | CompletedIsProven |
| PauseIsQuiet | PausedQuiet |
| AttemptsAreAlone | AttemptsAlone, of the processes in Guarded, whatever the others do |
| EligibleStaysQuiet | EligibleIsQuiet |
| RunIsAccepted | RunAccepted |

Inv is TypeGood, SpawnGood (before the intent nothing was spawned, and who recorded it is the only one
about to spawn), IntentGood (the intent's revision is still the current one) and ResultGood (a decision
to complete rests on a child that stays finished). None is inductive alone: one spawn needs one intent,
which needs that no decision follows an intent. Most steps are `Plain`: they keep all of it for one
reason (PlainKeeps). Three are not and have a lemma each: the intent, the spawn, and a decision taken
again. Neither the run guard, nor any bound on faults or time, is used, except in AttemptsAreAlone,
whose further invariant GuardGood says that a process of Guarded acting on an unbound run holds the
guard. Nothing is assumed of who is in Guarded. Number of processes and their commands are arbitrary.

QuietInv adds RunGood of the run; CancelGood, that a run cancelled as terminated has a child that
ended; and LocalGood, that the revision a dispatch carries was current once, and is the activated one
when an intent is about to be recorded for it. A closed progress keeps the activated revision where it
is, so a dispatch that read the mission before it became eligible is refused at its intent
(EligibleStaysQuiet).

For RunAccepted the document is taken apart. Without what is recorded of the run (Bare) it is one that
reservations, proposals and decisions alone wrote, so RegistryGood and StoreGood hold of it. A step of
the run leaves it as it is (BareKept); a decision is made while there is no run, when Bare is the
document itself. The replay reads nothing of the run (BareHistory), so it gives the same for the whole
document, and the run agrees with it because the intent names an authorization that stands
(BareReconciled) and RunGood holds.

**Retention_proofs.** `InvariantHolds` of Inv, and from it `OneRequestPerDraft` (DraftOnce) and
`WordsAreKept` (NamedWordsKept), for any number of conversations, turns, requests and failures. Inv is
Typed and Runs; DraftGood: once a request was asked for, the submission is in flight, submitted or
uncertain, and a refusal is reported only when none was; JournalGood: a conversation is
reduced as a whole, and nothing of it is in flight then; KeeperGood: what a keeper loaded of a
mission is still so or more so (Ahead), and at the reduction no mission that its copy of the
conversation names is in need. That copy may be stale: the reduction is safe because it is
compared with the journal under the journal's own lock, where nothing can come between. A refused
deletion gives the old record back, which is safe only because nothing was reduced for it
(Withdrawable).

`TellingHolds` adds TellInv, and from it `RecordIsTrue` (RecordTells). The retention record relates
three stores, which a keeper reduces one after the other and may leave at any point. NamesGood says that
no turn comes to name a mission that is being reduced; RecordGood, what each phase of a record says of
the journal, the requests and the run's texts; ClaimGood, how far the keeper is at each of its points,
with the copy of the record it would put back when a deletion is refused, which must still be true then.

Only model-checked: liveness under fairness (Stops, UnresolvedSettles, ResultPresented, HeldSettles,
VerifiesItself, ReductionEnds), which is out of this prover's reach. Every other property of a passing
run is the statement of one of the theorems above.

## 9. Disagreements between the code and what it says

* `PdRevoke`: "a revocation always stops the NEXT effect". A working copy loaded before the
  revocation and saved after it erases it, and the re-read then clears the effect.
* `PdOpened`: "a crash at any point reconciles forward". After a crash between the saves of PR_OPENED
  and COMPLETE, a pull_request delivery looks for a key its record does not have, and stays there.
* `RtRemovedLive`: a workspace is reclaimed only on "positive evidence in which no session remains".
  The proof looks only for the first launch's workspace; once that has ended, a follow-up's live
  session is not seen and its directory is removed.

Without a run of their own:

* a retryable base refresh "may be safely retried" (machine.py:208-209). When update-ref
  failed once, the retry marks the receipt executing in the working copy only (machine.py:824); the git
  hook reads the store, finds no receipt in force and refuses, and every later retry fails the same way;
* "the owner's request never takes words another Mission still needs" (reclaim.py:499-502). A
  submission is registered as running only after it was reserved (`mission_panel/service.py:615-620`).
  A send in between settles it as uncertain, its end is then refused, and the request it made is
  named nowhere in the journal. The mission of such a request, or of one whose submission ended
  uncertain with its panel, is not among those the conversation is judged by, so its words can go
  while it is still open. NamedWordsKept therefore speaks of the missions the journal names;
* a sweep reclaims a bounded number and "the rest are taken on the next pass" (reclaim.py:58-59). Missions whose
  conversation is kept for others are taken up on every pass and count against the bound
  (reclaim.py:461-470), so as many of them as the bound, earlier in the order of keys, keep a due
  mission from ever being reclaimed. ReductionEnds assumes fewer;
* a disjoint base advance "is RECORDED and delivery continues" (machine.py:38-40), but at the second the
  candidate is compared with the diff from the recorded base, which is no longer the commit's parent;
  the diff then also holds the base's own changes and the delivery blocks;
* "Operations on one Mission are serialized across processes by a per-Mission file lock"
  (SECURITY.md:64-65; likewise CHANGELOG.md:148-149 and `mission_run_guard.py:3-10`, where the lock is
  the panel's and the runtime's). The command line builds its bridge without the lock
  (`local_request/cli.py:262-275`) and offers dispatch, reconcile, verify and prove, so its
  reconciliation can count an attempt against a dispatch of the panel still under way, and the panel's
  or the runtime's against one of the command line. AttemptsAlone is checked and proved of the
  processes that take the lock, with the command line beside them; the mutant of `Free`, a process that
  does not wait for the lock, shows what happens between it and another. StartsOnce
  and the other theorems of MissionBridge_proofs depend on no lock;
* the legacy lane sends again after a fired deadline (telegram_api.py:616), so a result may be shown
  twice, and a workflow whose placeholder has an unknown outcome waits for ever (runtime.py:443), by
  the placeholder's design; a release that fails 256 times can never be saved (broker.py:2276).
  These are modelled, and no property promises otherwise.

## 10. Limits and what is not modelled

* Texts, digests, signatures, owners and rendering are abstracted; that a digest binds what it should
  is not shown. Times are an order of events (a window ends, a capability expires), except in
  DeliveryStore and the mission modules, which have a clock.
* One delivery, one workflow and one mission's run at a time, apart from DeliveryStore and the registry
  operators and section 6, which allow several. Capacity of the workflow store (where making room may
  evict a completed record that was not delivered, store.py:453), planning, grants and the expiry of a
  workflow's authorization are left out of section 4.
* In Retention every mission is taken to have diagnostic texts; a retention record whose save fails is
  taken as lost, though the sweep that failed keeps it in memory until it ends; the sweep is a process
  of its own, as in the runtime (`target_runtime/cli.py`), while the panel also runs one when
  it starts. A conversation that produced a request without a mission is never judged: the journal
  names a request only once it is bound.
* Of Mission State the bridge's part is modelled: the activated contract, the accepted result, whether
  obligations are open, the closure. Single claims, dependencies, checkpoints and the journal are not.
* A git operation or an atomic file replacement is one step; a torn file is not modelled, since every
  store writes through `os.replace`.
* Some steps of the code are one action where they are several writes, or leave out a branch. No
  property is about what lies between or behind them:
  - PrDelivery.Effect leaves out a merge pending at a commit (machine.py:881, 922-936), which blocks
    the delivery before or instead of voiding the receipt; others move refs to foreign commits only;
  - TargetBroker.Dispatch makes the readiness receipt's save and that of BLOCKED one step
    (broker.py:1463-1477);
  - MissionBridge.AcceptResult makes the four writes of `_record_result` one step; a death between
    them is followed by a retry that writes all four again under fresh ids;
  - MissionBridge.Control makes the read and the locked write of pause and resume one step: the write
    checks again all that was read, so a read that went stale ends in a refusal;
  - ReconcileStops lacks `reconcile_multiple_matches`, `reconcile_conflicting_identity` and
    `reconcile_unproven_association` (record.py:324-331): they need children of other missions in the
    same place, and none is modelled. They stop the run as `reconcile_no_match` does;
  - RunValid and CancelValid leave out the order of the timestamps, which MissionRun does not keep;
  - `MnRun` gives the command line neither dispatch nor reconcile, whose interleavings are those of
    `MnStart`, since all of them at once do not end in a reasonable time. The theorems of section 8 have
    no such limit.
* PLACEHOLDER "unbindable" and the way back from NEEDS_REAUTHORIZATION are in the record's tables but no
  modelled code writes them.
* Not modelled at all, with the reason at each component of `PROJECT.json`: Herdr's own engineering,
  coordination, the grok bot and the Codex gateway, which keep documents of their own beside the
  modelled core; process ownership, the operator session and the tunnel, whose state is the
  operating system's; the read-only projections (mission sources, evidence, catalog, delivery
  projection); interfaces without state; the fork of Pixel Agents.

To repeat the checks: `tlc -config MnRun.cfg MCBridge` (and likewise each run of
`PROJECT.json`), `tlapm MissionBridge_proofs.tla` (and likewise each `_proofs` module).
