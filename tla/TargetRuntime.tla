--------------------------- MODULE TargetRuntime ---------------------------
(***************************************************************************)
(* The target runtime (src/target_runtime/runtime.py and broker.py): one   *)
(* process that carries an authorized workflow through its phases.  Every  *)
(* effect is a broker action behind a one-shot capability: minted by the   *)
(* runtime, consumed under the store lock before the gate looks at the     *)
(* record, and gone whatever the gate says.                                *)
(*                                                                         *)
(* The boundaries of an action are where a crash, a clock or the other     *)
(* process matters: the load, the mint, the consumption, each save and     *)
(* each outside effect.  What happens under the store lock between two     *)
(* boundaries is one step.                                                 *)
(***************************************************************************)
EXTENDS WorkflowRecord

VARIABLES
    pc,          \* where the runtime is
    act,         \* the broker action under way, or "none"
    token,       \* the capability this pass minted and has not presented
    live,        \* unconsumed, unexpired capabilities in the store, by kind
    growth,      \* receipts the action holds in memory only
    snapshot,    \* "owned": release proved it owns a live workspace
    dir,         \* the leased directory exists
    child,       \* the target's task
    session,     \* which launch the live target sessions belong to, or 0
    childRecord, \* the first launch's record in the control repository
    archived,    \* the target's evidence is preserved
    spawns,      \* how many targets were ever launched
    policy,      \* the live control policy against the authorized one
    crashes      \* how often the runtime died

control == <<pc, act, token, growth, snapshot>>
world == <<dir, child, session, childRecord, archived, spawns, policy>>
rtVars == <<control, live, world, crashes>>

Pcs == {"idle", "load", "mint", "consume", "act", "trust", "spawn", "record",
        "bind", "gates", "close", "remove", "cleanup"}

Actions == {"materialize", "prepare", "validate_handoff", "dispatch",
            "verify", "follow_up", "complete", "reconcile", "release"}

\* The capability kinds compaction tells apart: what may still be used in a
\* terminal phase, and what may not.
Kind(action) == IF action = "release" THEN "cleanup" ELSE "forward"
Kinds == {"forward", "cleanup"}

RuntimeInit ==
    /\ pc = "idle" /\ act = "none" /\ token = "none"
    /\ live = [k \in Kinds |-> 0]
    /\ growth = 0 /\ snapshot = "none"
    /\ dir = FALSE /\ child = "none" /\ session = 0
    /\ childRecord = "none" /\ archived = FALSE /\ spawns = 0
    /\ policy = "same" /\ crashes = 0

RuntimeTypeOK ==
    /\ pc \in Pcs /\ act \in Actions \cup {"none"}
    /\ token \in {"none", "live", "expired"}
    /\ live \in [Kinds -> Nat]
    /\ growth \in Nat /\ snapshot \in {"none", "owned"}
    /\ dir \in BOOLEAN
    /\ child \in {"none", "running", "stopped"}
    /\ session \in Nat /\ spawns \in Nat
    /\ childRecord \in {"none", "good", "bad"}
    /\ archived \in BOOLEAN
    /\ policy \in {"same", "drifted", "unreadable"}
    /\ crashes \in Nat

-----------------------------------------------------------------------------
(* Control *)

\* Outside an action: the runtime goes on to the control point to.
Go(to, action) ==
    /\ pc' = to /\ act' = action
    /\ UNCHANGED <<token, growth, snapshot>>

\* After a refusal the pass goes on with terminal cleanup; a release was
\* the last thing of the pass.
AfterRefusal == IF act = "release" THEN "idle" ELSE "cleanup"

\* The action returns and the store lock is dropped.
Return(to, action) ==
    /\ pc' = to /\ act' = action
    /\ growth' = 0 /\ snapshot' = "none"
    /\ lock' = "free"
    /\ UNCHANGED token

Refuse == Return(AfterRefusal, "none") /\ UNCHANGED wf

\* Still inside the action, at its next boundary.
Within(to) ==
    /\ pc' = to
    /\ UNCHANGED <<act, token, growth, snapshot, lock, wf>>

\* The save of an action's working copy; a record past its bounds is stopped
\* from the last one on disk instead (_contain_unsavable_record).
Persisted(r) ==
    IF Fits(r) THEN r
    ELSE IF wf.phase \in Terminal THEN wf ELSE Moved(wf, "BLOCKED")

SaveReturn(r, to, action) == wf' = Persisted(r) /\ Return(to, action)

-----------------------------------------------------------------------------
(* A pass *)

Advanceable == {"AUTHORIZED", "WORKSPACE_READY", "PREPARED", "VALIDATED",
                "DISPATCHED", "VERIFIED"}

\* claimable_workflows
Claimable == wf.phase \in Advanceable /\ ~wf.ambiguous

\* process_once opens with compact_capabilities: in a terminal phase only a
\* release can still be used.
StartPass ==
    /\ pc = "idle"
    /\ Go(IF Claimable THEN "load" ELSE "cleanup", "none")
    /\ live' = IF wf.phase \in Terminal THEN [live EXCEPT !["forward"] = 0]
               ELSE live
    /\ UNCHANGED <<wf, lock, budget, world, crashes>>

\* terminal_cleanup_candidates
Cleanup ==
    /\ pc = "cleanup"
    /\ IF wf.phase \in Terminal /\ wf.lease = "held"
       THEN Go("mint", "release") ELSE Go("idle", "none")
    /\ UNCHANGED <<wf, lock, budget, live, world, crashes>>

-----------------------------------------------------------------------------
(* What the runtime asks of a phase before it mints *)

\* The first action of the steps that need a request of their own.
FirstAction ==
    CASE wf.phase = "AUTHORIZED"      -> "materialize"
      [] wf.phase = "WORKSPACE_READY" -> "prepare"
      [] OTHER                        -> "dispatch"

\* A role turn is due: preparation always asks again, a cleared dispatch
\* only when its standing request is stale or missing.
TurnDue ==
    \/ wf.phase \in {"AUTHORIZED", "WORKSPACE_READY"}
    \/ wf.phase = "VALIDATED" /\ wf.request # "fresh"

\* _append_turn_durably
TurnAppended ==
    IF wf.phase = "VALIDATED" THEN [WithTurn(wf) EXCEPT !.request = "fresh"]
    ELSE WithTurn(wf)

\* The turn proposes this step; validate_transition_request agrees and the
\* turn is recorded, or the pass ends without a change.
RequestTurn ==
    /\ pc = "load" /\ TurnDue
    /\ IF policy = "same" /\ Fits(TurnAppended)
       THEN wf' = TurnAppended /\ Go("mint", FirstAction)
       ELSE UNCHANGED wf /\ Go("cleanup", "none")
    /\ UNCHANGED <<lock, budget, live, world, crashes>>

\* _apply_proposed_stop, outside the broker: what does not fit is refused.
ApplyStop(phase) ==
    /\ wf' = IF Fits(WithTurn(wf)) THEN Moved(WithTurn(wf), phase) ELSE wf
    /\ Go("cleanup", "none")
    /\ UNCHANGED <<lock, budget, live, world, crashes>>

\* The turn proposes to stop instead.
ProposedStop ==
    /\ pc = "load" /\ TurnDue
    /\ \E phase \in {"NEEDS_REAUTHORIZATION", "BLOCKED"} : ApplyStop(phase)

\* A turn that ends without a usable proposal changes nothing.
TurnFails ==
    /\ pc = "load"
    /\ TurnDue \/ (Unresolved(wf) /\ wf.recovery # "fresh")
    /\ Disturb("fault")
    /\ Go("cleanup", "none")
    /\ UNCHANGED <<wf, lock, live, world, crashes>>

\* The standing request of a cleared dispatch is validated once more.
StandingRequest ==
    /\ pc = "load" /\ wf.phase = "VALIDATED" /\ ~TurnDue
    /\ IF policy = "same" THEN Go("mint", "dispatch") ELSE Go("cleanup", "none")
    /\ UNCHANGED <<wf, lock, budget, live, world, crashes>>

\* The phases whose action needs no request turn of the runtime.
Advance ==
    /\ pc = "load"
    /\ CASE wf.phase = "PREPARED"   -> Go("mint", "validate_handoff")
         [] wf.phase = "VERIFIED"   -> Go("mint", "complete")
         [] wf.phase = "DISPATCHED" -> ~Unresolved(wf) /\ Go("mint", "verify")
         [] TurnDue \/ wf.phase = "VALIDATED" -> FALSE
         [] OTHER                   -> Go("cleanup", "none")
    /\ UNCHANGED <<wf, lock, budget, live, world, crashes>>

-----------------------------------------------------------------------------
(* Recovery of a dispatch whose target was never bound *)

\* Faulty variant: the capacity of the record is not looked at first.
RecoverWithoutCapacity ==
    /\ pc = "load" /\ Unresolved(wf)
    /\ IF wf.recovery = "fresh" THEN UNCHANGED wf /\ Go("mint", "reconcile")
       ELSE IF Fits(WithTurn(wf))
       THEN /\ wf' = [WithTurn(wf) EXCEPT !.recovery = "fresh"]
            /\ Go("mint", "reconcile")
       ELSE UNCHANGED wf /\ Go("cleanup", "none")
    /\ UNCHANGED <<lock, budget, live, world, crashes>>

\* _handle_dispatch_recovery: a fresh standing request goes straight to the
\* one action; a record at its capacity is stopped; else one turn is run.
Recover ==
    /\ pc = "load" /\ Unresolved(wf)
    /\ IF wf.recovery = "fresh" THEN UNCHANGED wf /\ Go("mint", "reconcile")
       ELSE IF wf.turns >= MaxTurns
       THEN wf' = Moved(wf, "BLOCKED") /\ Go("cleanup", "none")
       ELSE /\ wf' = [WithTurn(wf) EXCEPT !.recovery = "fresh"]
            /\ Go("mint", "reconcile")
    /\ UNCHANGED <<lock, budget, live, world, crashes>>

RecoveryStop ==
    /\ pc = "load" /\ Unresolved(wf)
    /\ wf.recovery # "fresh" /\ wf.turns < MaxTurns
    /\ ApplyStop("BLOCKED")

-----------------------------------------------------------------------------
(* The capability *)

Full == live["forward"] + live["cleanup"] >= MaxCapabilities

\* mint: a live capability is never evicted to make room.
Mint ==
    /\ pc = "mint"
    /\ IF Full
       THEN Go(AfterRefusal, "none") /\ UNCHANGED live
       ELSE /\ pc' = "consume" /\ token' = "live"
            /\ live' = [live EXCEPT ![Kind(act)] = @ + 1]
            /\ UNCHANGED <<act, growth, snapshot>>
    /\ UNCHANGED <<wf, lock, budget, world, crashes>>

RequiredPhase(action) ==
    CASE action = "materialize"      -> {"AUTHORIZED"}
      [] action = "prepare"          -> {"WORKSPACE_READY"}
      [] action = "validate_handoff" -> {"PREPARED"}
      [] action = "dispatch"         -> {"VALIDATED"}
      [] action = "complete"         -> {"VERIFIED"}
      [] action = "release"          -> Terminal
      [] OTHER                       -> {"DISPATCHED"}

\* _gate: a drifted policy defers verify and release, one that cannot be
\* read only verify; release is not phase-checked here but in its handler.
Gate ==
    /\ \/ policy = "same"
       \/ policy = "drifted" /\ act \in {"verify", "release"}
       \/ policy = "unreadable" /\ act = "verify"
    /\ ~wf.ambiguous
    /\ wf.phase \in RequiredPhase(act)

\* Faulty variant: the gate is asked first, and a refusal keeps the token.
ConsumeBehindGate ==
    /\ pc = "consume" /\ token = "live"
    /\ token' = "none"
    /\ UNCHANGED <<growth, snapshot, wf, budget, world, crashes>>
    /\ IF Gate
       THEN /\ pc' = "act" /\ lock' = "held" /\ UNCHANGED act
            /\ live' = [live EXCEPT ![Kind(act)] = @ - 1]
       ELSE /\ pc' = AfterRefusal /\ act' = "none"
            /\ UNCHANGED <<lock, live>>

\* perform: the token is spent before the store is read and the gate asked.
Consume ==
    /\ pc = "consume" /\ token = "live"
    /\ token' = "none"
    /\ live' = [live EXCEPT ![Kind(act)] = @ - 1]
    /\ UNCHANGED <<growth, snapshot, wf, budget, world, crashes>>
    /\ IF Gate
       THEN pc' = "act" /\ lock' = "held" /\ UNCHANGED act
       ELSE pc' = AfterRefusal /\ act' = "none" /\ UNCHANGED lock

\* The store cannot be read: the token is spent all the same.
ConsumeBlind ==
    /\ pc = "consume" /\ token = "live"
    /\ Disturb("fault")
    /\ token' = "none"
    /\ live' = [live EXCEPT ![Kind(act)] = @ - 1]
    /\ pc' = AfterRefusal /\ act' = "none"
    /\ UNCHANGED <<growth, snapshot, wf, lock, world, crashes>>

\* validate_and_consume refuses what has expired, and writes nothing.
ConsumeExpired ==
    /\ pc = "consume" /\ token = "expired"
    /\ pc' = AfterRefusal /\ act' = "none" /\ token' = "none"
    /\ UNCHANGED <<growth, snapshot, wf, lock, budget, live, world, crashes>>
=============================================================================
