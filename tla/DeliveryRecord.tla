--------------------------- MODULE DeliveryRecord ---------------------------
(***************************************************************************)
(* One PR delivery record (src/pr_delivery/authorization.py) and the pure  *)
(* changes the machine makes to a working copy of it before it saves it:   *)
(* derive a receipt, void it, settle it, block or retry the step.          *)
(*                                                                         *)
(* Data abstraction.  A commit is known by what the machine compares it    *)
(* with: its first parent and the base its tree puts the candidate on.  A  *)
(* receipt keeps its state and the two ends of the ref move it authorizes. *)
(* Identities, digests, texts and timestamps are fixed when the record is  *)
(* minted and are left out.                                                *)
(***************************************************************************)
EXTENDS Naturals

CONSTANTS
    Mode,         \* the delivery kind: "pull_request" or "pr_update"
    MaxAttempts,  \* receipts one step may ever derive (MAX_STEP_ATTEMPTS)
    MaxBase       \* the bases are numbered 0 .. MaxBase in fast-forward order

ASSUME ModeAssumption == Mode \in {"pull_request", "pr_update"}
ASSUME AttemptsAssumption == MaxAttempts \in Nat \ {0}
ASSUME BaseAssumption == MaxBase \in Nat

Bases == 0 .. MaxBase

-----------------------------------------------------------------------------
(* Commits a ref may point at *)

Oid == [kind : {"none", "base", "commit", "foreign"},
        parent : Bases, tree : Bases]

NoOid == [kind |-> "none", parent |-> 0, tree |-> 0]
Foreign == [kind |-> "foreign", parent |-> 0, tree |-> 0]
Base(b) == [kind |-> "base", parent |-> b, tree |-> b]

\* The commit that has base p as parent and the candidate staged on base t.
Commit(p, t) == [kind |-> "commit", parent |-> p, tree |-> t]

-----------------------------------------------------------------------------
(* The kind's tables *)

Steps == {"BASE_REFRESH", "COMMIT", "PUSH", "PR_CREATE"}

ExcludedSteps ==
    IF Mode = "pr_update" THEN {"BASE_REFRESH", "PR_CREATE"} ELSE {}

Terminal == {"COMPLETE", "BLOCKED", "REVOKED"}

Phases ==
    {"AUTHORIZED", "BASE_CURRENT", "COMMITTED", "PUSHED", "PR_OPENED"}
        \cup Terminal

\* The step a phase permits next; "none" for a terminal phase, for PUSHED of
\* a pr_update (an observation follows) and for PR_OPENED.
StepForPhase(phase) ==
    CASE Mode = "pull_request" /\ phase = "AUTHORIZED"   -> "BASE_REFRESH"
      [] Mode = "pull_request" /\ phase = "BASE_CURRENT" -> "COMMIT"
      [] Mode = "pull_request" /\ phase = "PUSHED"       -> "PR_CREATE"
      [] Mode = "pr_update" /\ phase = "AUTHORIZED"      -> "COMMIT"
      [] phase = "COMMITTED"                             -> "PUSH"
      [] OTHER                                           -> "none"

\* The phase a settled step leads to.
PhaseAfter(step) ==
    CASE step = "BASE_REFRESH" -> "BASE_CURRENT"
      [] step = "COMMIT"       -> "COMMITTED"
      [] step = "PUSH"         -> "PUSHED"
      [] step = "PR_CREATE"    -> "PR_OPENED"

\* Every phase change the kind's transition table lists.
AllowedTransitions ==
    {t \in (Phases \ Terminal) \X {"BLOCKED", "REVOKED"} :
        Mode = "pull_request" \/ t[1] \notin {"BASE_CURRENT", "PR_OPENED"}}
    \cup {t \in Phases \X Phases :
            LET step == StepForPhase(t[1])
            IN  step # "none" /\ t[2] = PhaseAfter(step)}
    \cup (IF Mode = "pull_request" THEN {<<"PR_OPENED", "COMPLETE">>}
                                   ELSE {<<"PUSHED", "COMPLETE">>})

-----------------------------------------------------------------------------
(* Receipts, step entries and the record *)

ReceiptStates == {"none", "executing", "succeeded", "failed_retryable"}

StepStates ==
    {"pending", "not_needed", "executing", "succeeded", "failed_retryable",
     "blocked"}

\* from and to are the two ends of the ref move: old and new base, head
\* before and expected commit, remote old value and pushed commit.
Receipt == [state : ReceiptStates, from : Oid, to : Oid]
NoReceipt == [state |-> "none", from |-> NoOid, to |-> NoOid]

Entry == [state : StepStates, receipt : Receipt, voided : 0 .. MaxAttempts]

Record == [phase : Phases, revoked : BOOLEAN, base : Bases,
           steps : [Steps -> Entry]]

NewEntry(step) ==
    [state   |-> IF step \in ExcludedSteps THEN "not_needed" ELSE "pending",
     receipt |-> NoReceipt,
     voided  |-> 0]

\* new_authorization: every authorized step pending, the base at the
\* original baseline.
NewRecord ==
    [phase |-> "AUTHORIZED", revoked |-> FALSE, base |-> 0,
     steps |-> [s \in Steps |-> NewEntry(s)]]

\* A receipt whose effect is not settled yet: reconciled before anything else.
Unsettled(receipt) == receipt.state \in {"executing", "failed_retryable"}

Attempts(entry) ==
    entry.voided + (IF entry.receipt.state = "none" THEN 0 ELSE 1)

\* The validator every save runs, as far as it relates steps, receipts and
\* the revocation.
ValidRecord(r) ==
    /\ \A s \in ExcludedSteps : r.steps[s] = NewEntry(s)
    /\ \A s \in Steps :
         LET e == r.steps[s] IN
           /\ e.voided <= MaxAttempts
           /\ e.state \in {"executing", "succeeded", "failed_retryable"}
                => e.receipt.state = e.state
    /\ r.phase = "REVOKED" => r.revoked
    /\ Mode = "pr_update" => r.phase \notin {"BASE_CURRENT", "PR_OPENED"}

-----------------------------------------------------------------------------
(* Changes to a working copy *)

SetEntry(r, step, entry, phase) ==
    [r EXCEPT !.steps = [@ EXCEPT ![step] = entry], !.phase = phase]

\* The entry with its step and its receipt in the same new state.
Settled(entry, state) ==
    [entry EXCEPT !.state = state, !.receipt = [@ EXCEPT !.state = state]]

\* _start, before its save: the derived receipt, already executing.
Started(r, step, from, to) ==
    SetEntry(r, step,
             [state   |-> "executing",
              receipt |-> [state |-> "executing", from |-> from, to |-> to],
              voided  |-> r.steps[step].voided], r.phase)

\* Reconciliation takes a proven effect over: the receipt is executing again
\* in the working copy only.
Reopened(r, step) ==
    SetEntry(r, step,
             [r.steps[step] EXCEPT !.receipt = [@ EXCEPT !.state = "executing"]],
             r.phase)

\* _void: the receipt is dropped and counted, the step is pending again.
Voided(r, step) ==
    SetEntry(r, step,
             [state |-> "pending", receipt |-> NoReceipt,
              voided |-> Attempts(r.steps[step])], r.phase)

\* _succeed: receipt, step and phase settle in one save.
Succeeded(r, step) ==
    SetEntry(r, step, Settled(r.steps[step], "succeeded"), PhaseAfter(step))

\* The base did not move: nothing to refresh.
NotNeeded(r) ==
    SetEntry(r, "BASE_REFRESH",
             [r.steps["BASE_REFRESH"] EXCEPT !.state = "not_needed"], "BASE_CURRENT")

\* _block: the step of this phase is blocked unless it has succeeded.
BlockedRecord(r) ==
    LET step == StepForPhase(r.phase) IN
      IF step = "none" \/ r.steps[step].state = "succeeded"
      THEN [r EXCEPT !.phase = "BLOCKED"]
      ELSE SetEntry(r, step, [r.steps[step] EXCEPT !.state = "blocked"], "BLOCKED")

\* Faulty variant: the step becomes retryable and its receipt does not.
RetriedEntryHalf(entry) ==
    IF entry.receipt.state = "executing"
    THEN [entry EXCEPT !.state = "failed_retryable"] ELSE entry

\* _retry: an executing receipt becomes retryable; a failure before any
\* receipt leaves the step pending; an already retryable one is kept.
RetriedEntry(entry) ==
    CASE entry.receipt.state = "executing" -> Settled(entry, "failed_retryable")
      [] entry.receipt.state \in {"none", "succeeded"}
           /\ entry.state \notin {"succeeded", "not_needed"} ->
           [entry EXCEPT !.state = "pending"]
      [] OTHER -> entry

Retried(r) ==
    LET step == StepForPhase(r.phase) IN
      IF step = "none" THEN r
      ELSE SetEntry(r, step, RetriedEntry(r.steps[step]), r.phase)

Revoked(r) ==
    [r EXCEPT !.revoked = TRUE,
              !.phase = IF @ \in Terminal THEN @ ELSE "REVOKED"]
=============================================================================
