---------------------- MODULE MissionBridge_proofs ----------------------
(***************************************************************************)
(* What holds of one mission between the processes that act on it, for any *)
(* set of processes, guarded or not, any commands, proposals and bounds,   *)
(* and any number of deaths and faults.                                    *)
(*                                                                         *)
(* All but three steps are alike in what they keep: the run's authority,   *)
(* the child's result and the proof.  Those go through one lemma (Plain);  *)
(* the intent, the spawn and a new decision each have their own.  The run  *)
(* guard serves AttemptsAreAlone, which speaks of the processes given it.  *)
(*                                                                         *)
(* Calm says of each step what it leaves of the run: such as a load        *)
(* accepts, and quiet once it is eligible for retention.  The last part    *)
(* takes that to the whole document: without its run it is one the core    *)
(* wrote (Bare), of which the registry lemmas of MissionRun_proofs speak,  *)
(* and the run rests on what stands in it.                                 *)
(***************************************************************************)
EXTENDS MissionBridge, MissionRun_proofs

\* The document every process starts from.
LEMMA ApprovedIs ==
    ASSUME NEW content \in Content, NEW by \in {Relay, Authenticated},
           NEW scope \in Scopes, NEW expires \in Nat
    PROVE  LET e == Approved(content, by, scope, expires) IN
           /\ Shape(e)
           /\ e.missions[1].state \in {"AUTHORIZED", "AWAITING_DECISION"}
           /\ ~HasRun(e.missions[1])
  <1> DEFINE new == NewMission(1, LocalCaller, content, 2)
             proposed == ProposeIn(ReserveIn(EmptyDoc, "request", LocalCaller), 1,
                                   LocalCaller, content, 2)
             ask == [id |-> 2, by |-> by, kind |-> "APPROVE", revision |-> 1,
                     shown |-> IF by = Relay THEN content ELSE None, content |-> None,
                     scope |-> scope, expires |-> expires]
  <1>1. IsMission(new) /\ ~HasRun(new)
    <2>1. <<[content |-> content, by |-> None]>> \in Seq(Revisions)
      BY DEF Revisions, None
    <2>2. NewMission(1, LocalCaller, content, 2).run = NoRun
      BY DEF NewMission
    <2>3. ~HasRun(new)
      BY <2>2 DEF HasRun, NoRun
    <2> QED BY <2>1, <2>3 DEF NewMission, IsMission, RunStates
  <1> HIDE DEF new
  <1> DEFINE q == Append(<<>>, [kind |-> "request", context |-> LocalCaller,
                                consumed |-> None])
             rs == [q EXCEPT ![1] = [q[1] EXCEPT !.consumed = 1]]
             reserved == ReserveIn(EmptyDoc, "request", LocalCaller)
  <1>2. proposed = [missions |-> <<new>>, authorizations |-> <<>>,
                    ledger |-> <<>>, reservations |-> rs]
    <2>1. reserved =
            [missions |-> <<>>, authorizations |-> <<>>, ledger |-> <<>>, reservations |-> q]
      BY DEF ReserveIn, EmptyDoc
    <2> HIDE DEF q
    <2>2. Append(<<>>, new) = <<new>> /\ Len(<<>>) + 1 = 1
      OBVIOUS
    <2>3. proposed = [reserved EXCEPT !.missions = Append(@, new),
                            !.reservations[1].consumed = Len(reserved.missions) + 1]
      BY DEF ProposeIn, new
    <2> HIDE DEF reserved, proposed, new
    <2> QED BY <2>1, <2>2, <2>3
  <1>7. rs \in Seq(Reserved)
    <2>1. [kind |-> "request", context |-> LocalCaller, consumed |-> None] \in Reserved
      BY DEF Reserved, Contexts, None
    <2>2. q \in Seq(Reserved) /\ 1 \in Nat
      BY <2>1, LastAppended
    <2> HIDE DEF q
    <2> QED BY <2>2, ConsumedIs
  <1> HIDE DEF q, rs, reserved
  <1> HIDE DEF proposed
  <1>3. <<new>> \in [{1} -> {new}] /\ <<new>>[1] = new
    OBVIOUS
  <1>4. Shape(proposed) /\ proposed.missions[1] = new
    BY <1>1, <1>2, <1>3, <1>7 DEF Shape
  <1>5. ask \in Ask
    BY DEF Ask, Contexts, None
  <1>6. Approved(content, by, scope, expires) =
          DecideIn(ReserveIn(proposed, "decision", by), 1, ask, 1)
    BY DEF Approved, proposed, Mission
  <1>8. ask.kind = "APPROVE"
    OBVIOUS
  <1> HIDE DEF ask
  <1>9. /\ Shape(ReserveIn(proposed, "decision", by))
        /\ ~HasRun(ReserveIn(proposed, "decision", by).missions[1])
    BY <1>1, <1>4, ReservedIs DEF Contexts
  <1> QED BY <1>5, <1>6, <1>8, <1>9, DecidedIs

-----------------------------------------------------------------------------
(* The invariant                                                           *)

DispatchSteps == {"plan", "bind", "create", "prepared", "derive", "refuse",
                  "activate", "intent"}
Verdicts == {"unobserved", "proven", "reconcile_no_match", "reconcile_degraded",
             "reconcile_late_child_aborted"}

\* What a process remembers at each of its control points.
IsLocal(l) ==
    \/ l \in [at : {"idle", "spawn", "late", "ready"}]
    \/ l \in [at : DispatchSteps, authorization : Nat \ {None}, revision : Nat,
              binding : {l.binding}]
    \/ l \in [at : {"receipt"}, task : Nat]
    \/ l \in [at : {"judge"}, verdict : Verdicts]
    \/ l \in [at : {"observe"}, stopped : BOOLEAN]
    \/ l \in [at : {"decide"}, failed : Failures \cup {"none"}]
    \/ l \in [at : {"cancel"}, achieved : Cancels, authorization : {l.authorization}]
    \/ l \in [at : {"complete"}, resumed : BOOLEAN]

Child == [state : {"none", "starting", "working", "COMPLETE", "ERROR", "ABORTED"},
          listed : BOOLEAN, sound : BOOLEAN]
Proof == [active : Nat, accepted : BOOLEAN, open : BOOLEAN, closed : BOOLEAN]

TypeGood ==
    /\ Shape(doc)
    /\ now \in Nat
    /\ proc = [c \in Caller |-> proc[c]] /\ \A c \in Caller : IsLocal(proc[c])
    /\ child \in Child /\ proof \in Proof
    /\ spawns \in Nat

\* Until an intent is recorded nothing was spawned; whoever recorded it is the one
\* process about to spawn.
SpawnGood ==
    /\ IntentOf(It) = None => spawns = 0
    /\ \A c \in Caller : proc[c].at = "spawn" => spawns = 0 /\ IntentOf(It) # None
    /\ \A b, c \in Caller : proc[b].at = "spawn" /\ proc[c].at = "spawn" => b = c
    /\ spawns <= 1
    /\ spawns = 0 => child.state = "none"

IntentGood ==
    IntentOf(It) # None =>
        /\ doc.authorizations[IntentOf(It)].revision = Revision(It)
        /\ PermitsRun(doc.authorizations[IntentOf(It)].scope)

Done == child.state = "COMPLETE" /\ child.sound

\* A child that finished with a sound report stays so, and a decision to complete
\* is made from such a child only.
ResultGood ==
    /\ \A c \in Caller : proc[c].at = "decide" /\ proc[c].failed = "none" => Done
    /\ It.state = "COMPLETED" =>
          Done /\ proof.accepted /\ ~proof.open /\ proof.active = Revision(It)

Inv == TypeGood /\ SpawnGood /\ IntentGood /\ ResultGood

\* A mission just approved, with no run and nobody at work on it, meets the
\* invariant: that is where the bridge of mission_bridge.py begins.
THEOREM InvStarts == Init => Inv
  <1> SUFFICES ASSUME Init PROVE Inv
    OBVIOUS
  <1>1. /\ 1 + AttestedValidity \in Nat /\ None \in Nat
        /\ "requested" \in Scopes /\ "narrower" \in Scopes
    BY BoundsAssumption DEF Bounds, None, Scopes
  <1>2. PICK content \in Content :
          doc \in {Approved(content, Relay, "requested", 1 + AttestedValidity),
                  Approved(content, Authenticated, "narrower", None)}
    BY DEF Init
  <1>3. /\ Shape(doc) /\ ~HasRun(doc.missions[1])
        /\ doc.missions[1].state \in {"AUTHORIZED", "AWAITING_DECISION"}
    BY <1>1, <1>2, ApprovedIs
  <1>4. IntentOf(It) = None /\ It.state # "COMPLETED"
    BY <1>3 DEF IntentOf, It, Mission
  <1>5. \A c \in Caller : proc[c] = Idle
    BY DEF Init
  <1>6. IsLocal(Idle) /\ Idle.at = "idle"
    BY DEF Idle, IsLocal
  <1>7. TypeGood
    BY <1>3, <1>5, <1>6 DEF TypeGood, Init, Child, Proof, None
  <1>8. SpawnGood
    BY <1>5, <1>6 DEF SpawnGood, Init
  <1>9. IntentGood /\ ResultGood
    BY <1>4, <1>5, <1>6 DEF IntentGood, ResultGood
  <1> QED BY <1>7, <1>8, <1>9 DEF Inv

-----------------------------------------------------------------------------
(* What every step but an intent, a spawn and a new decision does          *)

\* At most one process moves on, not to a spawn, and it comes to complete only
\* from a child that is done.
Turn(c) ==
    /\ proc' = [proc EXCEPT ![c] = proc'[c]]
    /\ IsLocal(proc'[c])
    /\ proc'[c].at # "spawn"
    /\ proc'[c].at = "decide" /\ proc'[c].failed = "none" => Done

Turns == proc' = proc \/ \E c \in Caller : Turn(c)

\* What a child has come to is not undone, and proof that was given stays.
WorldKept ==
    /\ child' \in Child /\ proof' \in Proof
    /\ Done => Done'
    /\ child.state = "none" => child'.state = "none"
    /\ proof.accepted => proof'.accepted
    /\ ~proof.open => ~proof'.open
    /\ proof'.active \in {proof.active, Revision(It)}

Completes ==
    It'.state = "COMPLETED" /\ It.state # "COMPLETED" =>
        Done /\ proof.accepted /\ ~proof.open /\ proof.active = Revision(It)

\* Attempts are counted, and runs stopped for want of evidence, by a judgement.
Counts ==
    \/ Uncounted(doc, doc')
    \/ \E c \in Caller : proc[c].at = "judge" /\ \A b \in Caller \ {c} : proc'[b] = proc[b]

Plain ==
    /\ Keeps(doc, doc') /\ KeepsPaused(doc, doc')
    /\ Turns /\ WorldKept /\ Completes /\ Counts
    /\ spawns' = spawns /\ now' \in Nat

LEMMA PlainKeeps == ASSUME Inv, Plain PROVE Inv'
  <1>1. /\ Shape(doc) /\ Shape(doc')
        /\ doc'.authorizations = doc.authorizations
        /\ Revision(It') = Revision(It)
        /\ IntentOf(It') = IntentOf(It)
    BY RunIs DEF Inv, TypeGood, Plain, Keeps, It, Mission, Revision, Shape
  <1>2. /\ proc' = [c \in Caller |-> proc'[c]]
        /\ \A c \in Caller : IsLocal(proc'[c])
        /\ \A c \in Caller : proc'[c].at = "spawn" => proc'[c] = proc[c]
        /\ \A c \in Caller : proc'[c].at = "decide" /\ proc'[c].failed = "none" => Done
    BY DEF Inv, TypeGood, ResultGood, Plain, Turns, Turn
  <1>3. TypeGood'
    BY <1>1, <1>2 DEF TypeGood, Plain, WorldKept, Inv
  <1>4. SpawnGood'
    BY <1>1, <1>2 DEF SpawnGood, Inv, Plain, WorldKept
  <1>5. IntentGood'
    BY <1>1 DEF IntentGood, Inv
  <1>6. ResultGood'
    <2>1. ASSUME NEW c \in Caller, proc'[c].at = "decide" /\ proc'[c].failed = "none"
          PROVE  Done'
      BY <1>2, <2>1 DEF Plain, WorldKept
    <2>2. It'.state = "COMPLETED" =>
             Done' /\ proof'.accepted /\ ~proof'.open /\ proof'.active = Revision(It')
      BY <1>1 DEF Plain, WorldKept, Completes, Inv, ResultGood
    <2> QED BY <2>1, <2>2 DEF ResultGood
  <1> QED BY <1>3, <1>4, <1>5, <1>6 DEF Inv

\* Most steps leave the document alone, and many leave the world alone.
LEMMA DocumentStays ==
    ASSUME Inv, UNCHANGED doc
    PROVE  Keeps(doc, doc') /\ KeepsPaused(doc, doc') /\ Completes /\ Counts
  <1>1. Ordinary(doc, doc)
    BY SameIsOrdinary DEF Inv, TypeGood
  <1> QED BY <1>1 DEF Ordinary, Completes, It, Counts

LEMMA WorldStays == ASSUME Inv, UNCHANGED <<child, proof>> PROVE WorldKept
  BY DEF Inv, TypeGood, WorldKept, Done

\* The step of a process goes where it says, or back to idle.
LEMMA GoesIs ==
    ASSUME NEW c, NEW l, Goes(c, l)
    PROVE  proc' = [proc EXCEPT ![c] = l]
  BY DEF Goes, Leave

LEMMA RecordIs ==
    ASSUME NEW c, NEW D, NEW l, Record(c, D, l)
    PROVE  \/ doc' = doc /\ proc' = [proc EXCEPT ![c] = Idle]
           \/ doc' \in D /\ proc' = [proc EXCEPT ![c] = l]
  BY GoesIs DEF Record, Leave

LEMMA IdleIs == IsLocal(Idle) /\ Idle.at = "idle"
  BY DEF IsLocal, Idle

LEMMA TurnIs ==
    ASSUME Inv, NEW c \in Caller, NEW l, IsLocal(l), l.at # "spawn",
           l.at = "decide" /\ l.failed = "none" => Done,
           proc' = [proc EXCEPT ![c] = l]
    PROVE  Turns
  <1>1. proc'[c] = l
    BY DEF Inv, TypeGood
  <1> QED BY <1>1 DEF Turns, Turn

\* A step that records one of the documents D and then stands at l.
LEMMA RecordPlain ==
    ASSUME Inv, NEW c \in Caller, NEW D, NEW l, Record(c, D, l),
           \A e \in D : Keeps(doc, e) /\ KeepsPaused(doc, e),
           \A e \in D : \/ Unfinished(doc, e)
                       \/ e.missions[1].state = "RUNNING"
                       \/ /\ Done /\ proof.accepted /\ ~proof.open
                          /\ proof.active = Revision(It),
           \A e \in D : Uncounted(doc, e) \/ proc[c].at = "judge",
           IsLocal(l), l.at \notin {"spawn", "decide"},
           UNCHANGED <<now, child, spawns, proof>>
    PROVE  Plain
  <1>1. Ordinary(doc, doc)
    BY SameIsOrdinary DEF Inv, TypeGood
  <1>2. doc' = doc \/ doc' \in D
    BY RecordIs
  <1>3. Turns
    BY RecordIs, TurnIs, IdleIs
  <1>4. Keeps(doc, doc') /\ KeepsPaused(doc, doc')
    BY <1>1, <1>2 DEF Ordinary
  <1>5. Completes
    BY <1>1, <1>2 DEF Ordinary, Unfinished, Completes, It, Mission
  <1>6. Counts
    <2>1. \A b \in Caller \ {c} : proc'[b] = proc[b]
      BY RecordIs DEF Inv, TypeGood
    <2> QED BY <1>1, <1>2, <2>1 DEF Ordinary, Counts
  <1> QED BY <1>3, <1>4, <1>5, <1>6, WorldStays DEF Plain, Inv, TypeGood

LEMMA OrdinaryPlain ==
    ASSUME Inv, NEW c \in Caller, NEW D, NEW l, Record(c, D, l),
           \A e \in D : Ordinary(doc, e),
           IsLocal(l), l.at \notin {"spawn", "decide"},
           UNCHANGED <<now, child, spawns, proof>>
    PROVE  Plain
  BY RecordPlain DEF Ordinary

\* A step that records nothing.
LEMMA LocalPlain ==
    ASSUME Inv, NEW c \in Caller, NEW l, proc' = [proc EXCEPT ![c] = l],
           IsLocal(l), l.at # "spawn",
           l.at = "decide" /\ l.failed = "none" => Done,
           UNCHANGED <<doc, now, spawns>>, WorldKept
    PROVE  Plain
  BY DocumentStays, TurnIs DEF Plain, Inv, TypeGood

-----------------------------------------------------------------------------
(* Dispatch                                                                *)

\* A process on its way to a spawn keeps what it began with.
LEMMA StepIs ==
    ASSUME Inv, NEW c \in Caller, proc[c].at \in DispatchSteps,
           NEW at \in DispatchSteps
    PROVE  /\ IsLocal([proc[c] EXCEPT !.at = at])
           /\ [proc[c] EXCEPT !.at = at].at = at
           /\ proc[c].authorization \in Nat \ {None}
           /\ [proc[c] EXCEPT !.at = at].at \notin {"spawn", "decide"}
  <1>1. proc[c] \in [at : DispatchSteps, authorization : Nat \ {None}, revision : Nat,
                    binding : {proc[c].binding}]
    BY DEF Inv, TypeGood, IsLocal, DispatchSteps
  <1> QED BY <1>1 DEF IsLocal, DispatchSteps

LEMMA DispatchPlain == ASSUME Inv, NEW c \in Caller, Dispatch(c) PROVE Plain
  <1>1. PICK a \in DOMAIN doc.authorizations :
          Enter(c, [at |-> "plan", authorization |-> a, revision |-> Revision(It),
                    binding |-> RunOf(It).workspace])
    BY DEF Dispatch
  <1> DEFINE l == [at |-> "plan", authorization |-> a, revision |-> Revision(It),
                   binding |-> RunOf(It).workspace]
  <1>2. a \in Nat \ {None}
    BY DEF Inv, TypeGood, Shape, None
  <1>3. Revision(It) \in Nat
    BY CurrentIs DEF Inv, TypeGood, Shape, It, Mission
  <1>4. IsLocal(l) /\ l.at = "plan"
    BY <1>2, <1>3 DEF IsLocal, DispatchSteps
  <1>5. proc' = [proc EXCEPT ![c] = l]
    BY <1>1 DEF Enter
  <1> HIDE DEF l
  <1> QED BY <1>4, <1>5, LocalPlain, WorldStays DEF Dispatch

LEMMA DispatchStepsPlain ==
    ASSUME Inv, NEW c \in Caller,
           Plan(c) \/ Bind(c) \/ Create(c) \/ Prepared(c) \/ Derive(c) \/ Refuse(c)
    PROVE  Plain
  <1>0. Shape(doc)
    BY DEF Inv, TypeGood
  <1>1. CASE Plan(c)
    <2>1. PICK at \in {"bind", "refuse"} : Goes(c, [proc[c] EXCEPT !.at = at])
      BY <1>1 DEF Plan
    <2>2. proc' = [proc EXCEPT ![c] = [proc[c] EXCEPT !.at = at]]
      BY <2>1, GoesIs
    <2>3. /\ proc[c].at \in DispatchSteps /\ at \in DispatchSteps
          /\ UNCHANGED <<doc, now, child, spawns, proof>>
      BY <1>1 DEF Plan, DispatchSteps
    <2> QED BY <2>2, <2>3, StepIs, LocalPlain, WorldStays
  <1>2. CASE Bind(c)
    <2>1. /\ proc[c].at \in DispatchSteps
          /\ UNCHANGED <<now, child, spawns, proof>>
      BY <1>2 DEF Bind, DispatchSteps
    <2>2. CASE \E at \in {"create", "refuse"} :
                 Record(c, RecordWorkspaceBinding(doc, 1, 1), [proc[c] EXCEPT !.at = at])
      <3>1. PICK at \in {"create", "refuse"} :
              Record(c, RecordWorkspaceBinding(doc, 1, 1), [proc[c] EXCEPT !.at = at])
        BY <2>2
      <3>2. at \in DispatchSteps
        BY DEF DispatchSteps
      <3>3. \A e \in RecordWorkspaceBinding(doc, 1, 1) : Ordinary(doc, e)
        BY <1>0, WorkspaceOrdinary
      <3> QED BY <2>1, <3>1, <3>2, <3>3, StepIs, OrdinaryPlain
    <2>3. CASE doc' = doc /\ Goes(c, [proc[c] EXCEPT !.at = "refuse"])
      <3>1. "refuse" \in DispatchSteps
        BY DEF DispatchSteps
      <3>2. proc' = [proc EXCEPT ![c] = [proc[c] EXCEPT !.at = "refuse"]]
        BY <2>3, GoesIs
      <3> QED BY <2>1, <2>3, <3>1, <3>2, StepIs, LocalPlain, WorldStays
    <2> QED BY <1>2, <2>2, <2>3 DEF Bind, Mission, Path
  <1>3. CASE Create(c)
    <2>1. PICK at \in {"prepared", "refuse"} : Goes(c, [proc[c] EXCEPT !.at = at])
      BY <1>3 DEF Create
    <2>2. proc' = [proc EXCEPT ![c] = [proc[c] EXCEPT !.at = at]]
      BY <2>1, GoesIs
    <2>3. proc[c].at \in DispatchSteps /\ at \in DispatchSteps
      BY <1>3 DEF Create, DispatchSteps
    <2> QED BY <1>3, <2>2, <2>3, StepIs, LocalPlain, WorldStays DEF Create
  <1>4. CASE Prepared(c)
    <2>1. Record(c, RecordWorkspacePrepared(doc, 1), [proc[c] EXCEPT !.at = "derive"])
      BY <1>4 DEF Prepared, Mission
    <2>2. proc[c].at \in DispatchSteps /\ "derive" \in DispatchSteps
      BY <1>4 DEF Prepared, DispatchSteps
    <2>3. \A e \in RecordWorkspacePrepared(doc, 1) : Ordinary(doc, e)
      BY <1>0, WorkspaceOrdinary
    <2> QED BY <1>4, <2>1, <2>2, <2>3, StepIs, OrdinaryPlain DEF Prepared
  <1>5. CASE Derive(c)
    <2>1. PICK at \in {"activate", "refuse"} : Goes(c, [proc[c] EXCEPT !.at = at])
      BY <1>5 DEF Derive
    <2>2. proc' = [proc EXCEPT ![c] = [proc[c] EXCEPT !.at = at]]
      BY <2>1, GoesIs
    <2>3. proc[c].at \in DispatchSteps /\ at \in DispatchSteps
      BY <1>5 DEF Derive, DispatchSteps
    <2> QED BY <1>5, <2>2, <2>3, StepIs, LocalPlain, WorldStays DEF Derive
  <1>6. CASE Refuse(c)
    <2>1. Record(c, RecordWorkspaceRefusal(doc, 1), Idle)
      BY <1>6 DEF Refuse, Mission
    <2>2. \A e \in RecordWorkspaceRefusal(doc, 1) : Ordinary(doc, e)
      BY <1>0, WorkspaceOrdinary
    <2> QED BY <1>6, <2>1, <2>2, IdleIs, OrdinaryPlain DEF Refuse
  <1> QED BY <1>1, <1>2, <1>3, <1>4, <1>5, <1>6

LEMMA ActivatePlain == ASSUME Inv, NEW c \in Caller, Activate(c) PROVE Plain
  <1>1. Revision(It) \in Nat
    BY CurrentIs DEF Inv, TypeGood, Shape, It, Mission
  <1>2. WorldKept
    BY <1>1 DEF Activate, Inv, TypeGood, WorldKept, Done, Proof
  <1>3. proc[c].at \in DispatchSteps /\ "intent" \in DispatchSteps
    BY DEF Activate, DispatchSteps
  <1>4. \/ proc' = [proc EXCEPT ![c] = [proc[c] EXCEPT !.at = "intent"]]
        \/ proc' = [proc EXCEPT ![c] = Idle]
    BY GoesIs DEF Activate, Leave
  <1> QED BY <1>2, <1>3, <1>4, StepIs, IdleIs, LocalPlain DEF Activate

LEMMA ReceiptPlain == ASSUME Inv, NEW c \in Caller, Receipt(c) PROVE Plain
  <1>1. Record(c, RecordRunReceipt(doc, 1, proc[c].task, "start_result"), Idle)
    BY DEF Receipt, Mission
  <1>2. proc[c].task \in Nat /\ Shape(doc)
    BY DEF Receipt, Inv, TypeGood, IsLocal, DispatchSteps
  <1>3. \A e \in RecordRunReceipt(doc, 1, proc[c].task, "start_result") : Ordinary(doc, e)
    BY <1>2, ReceiptOrdinary
  <1> QED BY <1>1, <1>3, IdleIs, OrdinaryPlain DEF Receipt

-----------------------------------------------------------------------------
(* Reconciling and observing                                               *)

LEMMA ReadsPlain ==
    ASSUME Inv, NEW c \in Caller,
           ReconcileReads(c) \/ LateReads(c) \/ ObserveReads(c)
    PROVE  Plain
  <1>1. CASE ReconcileReads(c)
    <2>1. PICK verdict \in Verdicts :
            proc' = [proc EXCEPT ![c] = [at |-> "judge", verdict |-> verdict]]
      BY <1>1 DEF ReconcileReads, Evidence, Enter, Verdict, Verdicts
    <2> DEFINE l == [at |-> "judge", verdict |-> verdict]
    <2>2. IsLocal(l) /\ l.at = "judge"
      BY DEF IsLocal
    <2> HIDE DEF l
    <2> QED BY <1>1, <2>1, <2>2, LocalPlain, WorldStays DEF ReconcileReads, l
  <1>2. CASE LateReads(c)
    <2> DEFINE l == [at |-> "late"]
    <2>1. proc' = [proc EXCEPT ![c] = l]
      BY <1>2 DEF LateReads, Enter
    <2>2. IsLocal(l) /\ l.at = "late"
      BY DEF IsLocal
    <2> HIDE DEF l
    <2> QED BY <1>2, <2>1, <2>2, LocalPlain, WorldStays DEF LateReads
  <1>3. CASE ObserveReads(c)
    <2> DEFINE l == [at |-> "observe", stopped |-> Stopped]
    <2>1. proc' = [proc EXCEPT ![c] = l]
      BY <1>3 DEF ObserveReads, Enter
    <2>2. IsLocal(l) /\ l.at = "observe"
      BY DEF IsLocal, Stopped
    <2> HIDE DEF l
    <2> QED BY <1>3, <2>1, <2>2, LocalPlain, WorldStays DEF ObserveReads
  <1> QED BY <1>1, <1>2, <1>3

LEMMA JudgePlain == ASSUME Inv, NEW c \in Caller, Judge(c) PROVE Plain
  <1> DEFINE verdict == proc[c].verdict
             D == CASE verdict = "unobserved" -> RecordReconcileUnobserved(doc, 1)
                    [] verdict = "proven" -> RecordRunReceipt(doc, 1, Task, "reconciliation")
                    [] verdict = "reconcile_late_child_aborted" ->
                          RecordRunStop(doc, 1, verdict, Task)
                    [] OTHER -> RecordRunStop(doc, 1, verdict, None)
  <1>1. Record(c, D, Idle)
    BY DEF Judge, Mission
  <1>2. verdict \in Verdicts /\ Shape(doc) /\ proc[c].at = "judge"
    BY DEF Judge, Inv, TypeGood, IsLocal, DispatchSteps
  <1>3. Task \in Nat /\ None \in Nat
    BY DEF Task, None
  <1>4. \A e \in D : Keeps(doc, e) /\ KeepsPaused(doc, e) /\ Unfinished(doc, e)
    <2> SUFFICES ASSUME NEW e \in D
                 PROVE  Keeps(doc, e) /\ KeepsPaused(doc, e) /\ Unfinished(doc, e)
      OBVIOUS
    <2>1. CASE verdict = "unobserved"
      BY <1>2, <2>1, UnobservedIs
    <2>2. CASE verdict = "proven"
      BY <1>2, <1>3, <2>2, ReceiptOrdinary DEF Ordinary
    <2>3. CASE verdict \in ReconcileStops
      BY <1>2, <1>3, <2>3, StopIs DEF ReconcileStops
    <2> QED BY <1>2, <2>1, <2>2, <2>3 DEF Verdicts, ReconcileStops
  <1> HIDE DEF D, verdict
  <1> QED BY <1>1, <1>2, <1>4, IdleIs, RecordPlain DEF Judge

LEMMA WritesPlain ==
    ASSUME Inv, NEW c \in Caller, LateWrites(c) \/ ObserveWrites(c)
    PROVE  Plain
  <1>0. Shape(doc)
    BY DEF Inv, TypeGood
  <1>1. CASE LateWrites(c)
    <2>1. Record(c, RecordLateResolution(doc, 1, Task), Idle)
      BY <1>1 DEF LateWrites, Mission
    <2>2. \A e \in RecordLateResolution(doc, 1, Task) : Ordinary(doc, e)
      BY <1>0, LateOrdinary
    <2> QED BY <1>1, <2>1, <2>2, IdleIs, OrdinaryPlain DEF LateWrites
  <1>2. CASE ObserveWrites(c)
    <2>1. Record(c, RecordObservedRunning(doc, 1, Task, proc[c].stopped), Idle)
      BY <1>2 DEF ObserveWrites, Mission
    <2>2. proc[c].stopped \in BOOLEAN
      BY <1>2 DEF ObserveWrites, Inv, TypeGood, IsLocal, DispatchSteps
    <2>3. \A e \in RecordObservedRunning(doc, 1, Task, proc[c].stopped) :
             /\ Keeps(doc, e) /\ KeepsPaused(doc, e) /\ Uncounted(doc, e)
             /\ e.missions[1].state = "RUNNING"
      BY <1>0, <2>2, ObservedIs
    <2> QED BY <1>2, <2>1, <2>3, IdleIs, RecordPlain DEF ObserveWrites
  <1> QED BY <1>1, <1>2

-----------------------------------------------------------------------------
(* Verifying                                                               *)

LEMMA FailedIs ==
    ASSUME Inv
    PROVE  Failed \in Failures \cup {"none"} /\ (Failed = "none" => Done)
  <1>1. child.sound \in BOOLEAN
    BY DEF Inv, TypeGood, Child
  <1> QED BY <1>1 DEF Failed, Failures, Stopped, Done

LEMMA VerifyPlain ==
    ASSUME Inv, NEW c \in Caller,
           ReadinessReads(c) \/ VerifyReads(c) \/ VerifyBegins(c) \/ AdvanceReads(c)
    PROVE  Plain
  <1>1. CASE ReadinessReads(c)
    <2> DEFINE l == [at |-> "ready"]
    <2>1. IsLocal(l) /\ l.at = "ready"
      BY DEF IsLocal
    <2>2. proc' = [proc EXCEPT ![c] = l]
      BY <1>1 DEF ReadinessReads
    <2> HIDE DEF l
    <2> QED BY <1>1, <2>1, <2>2, LocalPlain, WorldStays DEF ReadinessReads
  <1>2. CASE Verifies(c) /\ ~Running
    <2>1. proc' = [proc EXCEPT ![c] = Idle]
      BY <1>2 DEF Verifies, Leave
    <2> QED BY <1>2, <2>1, IdleIs, LocalPlain, WorldStays DEF Verifies
  <1>3. CASE (Verifies(c) /\ Running) \/ AdvanceReads(c)
    <2>1. PICK failed \in {Failed, "evidence_complete", "none"} :
            /\ proc' = [proc EXCEPT ![c] = [at |-> "decide", failed |-> failed]]
            /\ failed = "none" => Failed = "none"
      BY <1>3 DEF Verifies, AdvanceReads, Enter
    <2> DEFINE l == [at |-> "decide", failed |-> failed]
    <2>2. IsLocal(l) /\ l.at = "decide" /\ (l.failed = "none" => Done)
      BY <2>1, FailedIs DEF IsLocal, Failures
    <2>3. proc' = [proc EXCEPT ![c] = l]
      BY <2>1
    <2>4. UNCHANGED <<doc, now, child, spawns, proof>>
      BY <1>3 DEF Verifies, AdvanceReads
    <2> HIDE DEF l
    <2> QED BY <2>2, <2>3, <2>4, LocalPlain, WorldStays
  <1> QED BY <1>1, <1>2, <1>3 DEF VerifyReads, VerifyBegins

LEMMA AcceptPlain == ASSUME Inv, NEW c \in Caller, AcceptResult(c) PROVE Plain
  <1>1. \/ proc' = [proc EXCEPT ![c] = proc[c]]
        \/ proc' = [proc EXCEPT ![c] = Idle]
    BY GoesIs DEF AcceptResult, Leave
  <1>2. WorldKept
    BY DEF AcceptResult, Inv, TypeGood, WorldKept, Done, Proof
  <1>3. IsLocal(proc[c]) /\ proc[c].at = "decide" /\ (proc[c].failed = "none" => Done)
    BY DEF AcceptResult, Inv, TypeGood, ResultGood
  <1> QED BY <1>1, <1>2, <1>3, IdleIs, LocalPlain DEF AcceptResult

\* The proof that completes the mission is the one the decision rested on.
LEMMA DecidePlain == ASSUME Inv, NEW c \in Caller, Decide(c) PROVE Plain
  <1> DEFINE failed == proc[c].failed
             D == RecordVerification(doc, 1, failed, ContractProof)
  <1>1. Record(c, D, Idle)
    BY DEF Decide, Mission
  <1>2. /\ Shape(doc) /\ failed \in Failures \cup {"none"}
        /\ failed = "none" => Done
    BY DEF Decide, Inv, TypeGood, IsLocal, DispatchSteps, ResultGood
  <1>3. \A e \in D :
          /\ Keeps(doc, e) /\ KeepsPaused(doc, e) /\ Uncounted(doc, e)
          /\ e.missions[1].state = "RUNNING" => doc.missions[1].state = "RUNNING"
          /\ e.missions[1].state = "COMPLETED" =>
                /\ failed = "none" /\ ContractProof.accepted
                /\ ContractProof.active /\ ~ContractProof.open
    BY <1>2, VerificationIs
  <1> HIDE DEF D, failed
  <1>4. \A e \in D : \/ Unfinished(doc, e)
                    \/ /\ Done /\ proof.accepted /\ ~proof.open
                       /\ proof.active = Revision(It)
    <2> SUFFICES ASSUME NEW e \in D, ~Unfinished(doc, e)
                 PROVE  Done /\ proof.accepted /\ ~proof.open /\ proof.active = Revision(It)
      OBVIOUS
    <2>1. e.missions[1].state = "COMPLETED"
      BY <1>3 DEF Unfinished
    <2> QED BY <1>2, <1>3, <2>1 DEF ContractProof
  <1> QED BY <1>1, <1>3, <1>4, IdleIs, RecordPlain DEF Decide

-----------------------------------------------------------------------------
(* Controls, deaths, and what happens around the processes                 *)

LEMMA ControlPlain == ASSUME Inv, NEW c \in Caller, Control(c) PROVE Plain
  <1>1. Shape(doc)
    BY DEF Inv, TypeGood
  <1>2. /\ doc' \in RecordPause(doc, 1, BoundAuthorization(It))
                   \cup RecordResume(doc, 1, BoundAuthorization(It))
        /\ UNCHANGED <<now, proc, child, spawns, proof>>
    BY DEF Control, Mission
  <1>3. Ordinary(doc, doc')
    BY <1>1, <1>2, ControlOrdinary
  <1>4. Keeps(doc, doc') /\ KeepsPaused(doc, doc') /\ Completes /\ Counts
    BY <1>3 DEF Ordinary, Unfinished, Completes, Counts, It, Mission
  <1> QED BY <1>2, <1>4, WorldStays DEF Plain, Turns, Inv, TypeGood

\* What a cancel reads says that the target ended only when it did.
LEMMA InterruptedIs ==
    ASSUME NEW c \in Caller, CancelReads(c)
    PROVE  /\ UNCHANGED <<doc, now, holder, child, spawns, proof>>
           /\ \/ proc' = [proc EXCEPT ![c] = [at |-> "complete", resumed |-> TRUE]]
              \/ \E achieved \in Cancels :
                    /\ proc' = [proc EXCEPT ![c] =
                          [at |-> "cancel", achieved |-> achieved,
                           authorization |-> BoundAuthorization(It)]]
                    /\ achieved = "cancelled_after_target_terminated" => Stopped
  <1>1. ASSUME NEW stopped \in BOOLEAN, stopped => Stopped
        PROVE  /\ Interrupted(stopped) \in Cancels
               /\ Interrupted(stopped) = "cancelled_after_target_terminated" => Stopped
    BY <1>1 DEF Interrupted, Cancels
  <1>2. Stopped \in BOOLEAN
    BY DEF Stopped
  <1>3. Interrupted(Stopped) \in Cancels /\ Interrupted(FALSE) \in Cancels
    BY <1>1, <1>2
  <1> QED BY <1>1, <1>2, <1>3 DEF CancelReads

LEMMA CancelPlain ==
    ASSUME Inv, NEW c \in Caller,
           CancelReads(c) \/ CancelRecords(c) \/ CancelCompletes(c)
    PROVE  Plain
  <1>0. Shape(doc)
    BY DEF Inv, TypeGood
  <1>1. CASE CancelReads(c)
    <2>1. PICK l : /\ proc' = [proc EXCEPT ![c] = l]
                   /\ IsLocal(l) /\ l.at \in {"cancel", "complete"}
      <3> DEFINE resumes == [at |-> "complete", resumed |-> TRUE]
                 cancels(achieved) == [at |-> "cancel", achieved |-> achieved,
                                       authorization |-> BoundAuthorization(It)]
      <3>1. IsLocal(resumes) /\ resumes.at = "complete"
        BY DEF IsLocal
      <3>2. \A achieved \in Cancels :
               IsLocal(cancels(achieved)) /\ cancels(achieved).at = "cancel"
        BY DEF IsLocal
      <3>3. \/ proc' = [proc EXCEPT ![c] = resumes]
            \/ \E achieved \in Cancels : proc' = [proc EXCEPT ![c] = cancels(achieved)]
        BY <1>1, InterruptedIs
      <3> HIDE DEF resumes, cancels
      <3> QED BY <3>1, <3>2, <3>3
    <2> QED BY <1>1, <2>1, InterruptedIs, LocalPlain, WorldStays
  <1>2. CASE CancelRecords(c)
    <2> DEFINE l == [at |-> "complete", resumed |-> FALSE]
    <2>1. Record(c, RecordCancel(doc, 1, proc[c].achieved, proc[c].authorization), l)
      BY <1>2 DEF CancelRecords, Mission
    <2>2. proc[c].achieved \in Cancels
      BY <1>2 DEF CancelRecords, Inv, TypeGood, IsLocal, DispatchSteps
    <2>3. \A e \in RecordCancel(doc, 1, proc[c].achieved, proc[c].authorization) :
             Ordinary(doc, e)
      BY <1>0, <2>2, CancelOrdinary
    <2>4. IsLocal(l) /\ l.at = "complete"
      BY DEF IsLocal
    <2> HIDE DEF l
    <2> QED BY <1>2, <2>1, <2>3, <2>4, OrdinaryPlain DEF CancelRecords
  <1>3. CASE CancelCompletes(c)
    <2>1. PICK q, a : Record(c, CompleteCancel(doc, 1, q, a), Idle)
      BY <1>3 DEF CancelCompletes, Mission
    <2>2. \A e \in CompleteCancel(doc, 1, q, a) : Ordinary(doc, e)
      BY <1>0, ControlOrdinary
    <2> QED BY <1>3, <2>1, <2>2, IdleIs, OrdinaryPlain DEF CancelCompletes
  <1> QED BY <1>1, <1>2, <1>3

LEMMA DiesPlain == ASSUME Inv, NEW c \in Caller, Dies(c) PROVE Plain
  <1>1. proc' = [proc EXCEPT ![c] = Idle] /\ UNCHANGED <<doc, now, child, spawns, proof>>
    BY DEF Dies, Leave
  <1> QED BY <1>1, IdleIs, LocalPlain, WorldStays

LEMMA AroundPlain ==
    ASSUME Inv, \/ \E c \in Caller : Prove(c)
                \/ Abandon \/ ChildGoes \/ ChildShows \/ Rest \/ Tick
    PROVE  Plain
  <1>1. UNCHANGED <<doc, proc, spawns>> /\ now' \in Nat
    <2>1. UNCHANGED <<doc, proc, spawns>>
      BY DEF Prove, Abandon, ChildGoes, ChildShows, Rest, Tick
    <2>2. now' = now \/ now' = now + 1
      BY DEF Prove, Abandon, ChildGoes, ChildShows, Rest, Tick
    <2> QED BY <2>1, <2>2 DEF Inv, TypeGood
  <1>2. WorldKept
    <2>1. child \in Child /\ proof \in Proof
      BY DEF Inv, TypeGood
    <2>2. CASE \/ \E c \in Caller : Prove(c)
               \/ Abandon
      BY <2>1, <2>2 DEF Prove, Abandon, WorldKept, Proof, Done
    <2>3. CASE ChildGoes
      BY <2>1, <2>3 DEF ChildGoes, WorldKept, Child, Done
    <2>4. CASE ChildShows
      BY <2>1, <2>4 DEF ChildShows, WorldKept, Child, Done
    <2>5. CASE Rest \/ Tick
      BY <2>5, WorldStays DEF Rest, Tick
    <2> QED BY <2>2, <2>3, <2>4, <2>5
  <1> QED BY <1>1, <1>2, DocumentStays DEF Plain, Turns

-----------------------------------------------------------------------------
(* The three steps that are not plain                                      *)

Kept ==
    Inv' /\ KeepsPaused(doc, doc') /\ Counts /\ (HasRun(It) => HasRun(It'))

LEMMA PlainKept == ASSUME Inv, Plain PROVE Kept
  BY PlainKeeps DEF Kept, Plain, Keeps, It, Mission

\* No intent yet, so nobody is about to spawn: the process that records it is the
\* only one.
LEMMA IntentKept == ASSUME Inv, NEW c \in Caller, Intent(c) PROVE Kept
  <1> DEFINE a == proc[c].authorization
             D == RecordRunIntent(doc, 1, a, proc[c].revision, 1, now)
             l == [at |-> "spawn"]
  <1>0. Shape(doc) /\ a \in Nat \ {None}
    <2>1. proc[c].at \in DispatchSteps /\ "intent" \in DispatchSteps
      BY DEF Intent, DispatchSteps
    <2> QED BY <2>1, StepIs DEF Inv, TypeGood
  <1>1. Record(c, D, l)
    BY DEF Intent, Mission, Path
  <1>2. UNCHANGED <<now, child, spawns, proof>>
    BY DEF Intent
  <1> HIDE DEF D
  <1>3. CASE doc' = doc /\ proc' = [proc EXCEPT ![c] = Idle]
    <2>1. Plain
      BY <1>2, <1>3, IdleIs, LocalPlain, WorldStays
    <2> QED BY <2>1, PlainKept
  <1>4. CASE doc' \in D /\ proc' = [proc EXCEPT ![c] = l]
    <2>1. /\ Shape(doc')
          /\ doc'.authorizations = doc.authorizations
          /\ It'.revisions = It.revisions
          /\ It'.state = It.state
          /\ It'.lifecycle = It.lifecycle
          /\ ~Paused(It) /\ HasRun(It')
          /\ RunOf(It).intent = None /\ RunOf(It').intent = a
          /\ RunOf(It').unobserved = RunOf(It).unobserved
          /\ doc.authorizations[a].revision = Revision(It)
          /\ PermitsRun(doc.authorizations[a].scope)
      BY <1>0, <1>4, IntentIs DEF D, It, Mission
    <2>2. IntentOf(It) = None /\ IntentOf(It') = a
      BY <1>0, <2>1, RunIs DEF Shape, It, Mission
    <2>3. Revision(It') = Revision(It)
      BY <2>1 DEF Revision
    <2>4. IsLocal(l) /\ l.at = "spawn"
      BY DEF IsLocal
    <2> HIDE DEF l
    <2>5. /\ proc' = [b \in Caller |-> proc'[b]]
          /\ proc'[c] = l
          /\ \A b \in Caller \ {c} : proc'[b] = proc[b]
      BY <1>4 DEF Inv, TypeGood
    <2>6. TypeGood'
      BY <1>2, <2>1, <2>4, <2>5 DEF TypeGood, Inv
    <2>7. SpawnGood'
      BY <1>0, <1>2, <2>2, <2>4, <2>5 DEF SpawnGood, Inv
    <2>8. IntentGood'
      BY <1>0, <2>1, <2>2, <2>3 DEF IntentGood
    <2>9. ResultGood'
      BY <1>2, <2>1, <2>3, <2>4, <2>5 DEF ResultGood, Inv, Done
    <2>10. KeepsPaused(doc, doc') /\ Counts
      BY <2>1 DEF KeepsPaused, Counts, Uncounted, It, Mission
    <2> QED BY <2>1, <2>6, <2>7, <2>8, <2>9, <2>10 DEF Inv, Kept
  <1> QED BY <1>1, <1>3, <1>4, RecordIs

\* The one spawn starts from no child, so no result is overwritten.
LEMMA SpawnKept == ASSUME Inv, NEW c \in Caller, Spawn(c) PROVE Kept
  <1>1. /\ proc[c].at = "spawn" /\ spawns = 0 /\ IntentOf(It) # None
        /\ child.state = "none"
        /\ \A b \in Caller \ {c} : proc[b].at # "spawn"
    BY DEF Spawn, Inv, SpawnGood
  <1>2. PICK l : /\ proc' = [proc EXCEPT ![c] = l]
                 /\ IsLocal(l) /\ l.at \in {"receipt", "idle"}
    <2> DEFINE r(task) == [at |-> "receipt", task |-> task]
    <2>1. \A task \in Nat : IsLocal(r(task)) /\ r(task).at = "receipt"
      BY DEF IsLocal
    <2>2. \/ \E task \in Nat : proc' = [proc EXCEPT ![c] = r(task)]
          \/ proc' = [proc EXCEPT ![c] = Idle]
      BY GoesIs DEF Spawn, Leave, Task, None
    <2> HIDE DEF r
    <2> QED BY <2>1, <2>2, IdleIs
  <1>3. UNCHANGED <<doc, now, proof>> /\ spawns' = 1
    BY <1>1 DEF Spawn
  <1>4. child' \in Child
    BY DEF Spawn, Inv, TypeGood, Child
  <1>5. /\ proc' = [b \in Caller |-> proc'[b]]
        /\ proc'[c] = l
        /\ \A b \in Caller \ {c} : proc'[b] = proc[b]
    BY <1>2 DEF Inv, TypeGood
  <1>6. TypeGood'
    BY <1>2, <1>3, <1>4, <1>5 DEF TypeGood, Inv
  <1>7. SpawnGood'
    BY <1>1, <1>2, <1>3, <1>5 DEF SpawnGood, It
  <1>8. IntentGood'
    BY <1>3 DEF IntentGood, Inv, It
  <1>9. ResultGood'
    <2>1. ~Done
      BY <1>1 DEF Done
    <2> QED BY <1>2, <1>3, <1>5, <2>1 DEF ResultGood, Inv, It
  <1>10. KeepsPaused(doc, doc') /\ Counts
    BY <1>3, DocumentStays
  <1> QED BY <1>3, <1>6, <1>7, <1>8, <1>9, <1>10 DEF Inv, Kept, It

\* A decision is taken only while nothing of a run is recorded.
LEMMA RedecidesKept == ASSUME Inv, Redecides PROVE Kept
  <1>1. PICK kind \in {"EDIT", "APPROVE"}, content \in Content :
          LET reserved == ReserveIn(doc, "decision", Authenticated)
              ask == [id |-> NextId(doc), by |-> Authenticated, kind |-> kind,
                      revision |-> Revision(It), shown |-> None, content |-> content,
                      scope |-> "requested", expires |-> None]
          IN
          /\ CanReserve(doc, "decision", Authenticated)
          /\ CanDecideAndSave(reserved, Mission, ask, now)
          /\ doc' = DecideIn(reserved, Mission, ask, now)
          /\ UNCHANGED <<now, proc, holder, worktree, child, spawns, proof, rested, faults>>
    BY DEF Redecides
  <1> DEFINE reserved == ReserveIn(doc, "decision", Authenticated)
             ask == [id |-> NextId(doc), by |-> Authenticated, kind |-> kind,
                     revision |-> Revision(It), shown |-> None, content |-> content,
                     scope |-> "requested", expires |-> None]
  <1>2. /\ CanDecide(reserved, 1, ask, now)
        /\ doc' = DecideIn(reserved, 1, ask, now)
        /\ UNCHANGED <<now, proc, child, spawns, proof>>
    BY <1>1 DEF CanDecideAndSave, Mission
  <1>3. Shape(doc) /\ now \in Nat
    BY DEF Inv, TypeGood
  <1>4. Shape(reserved) /\ reserved.missions = doc.missions /\ NextId(doc) \in Nat
    BY <1>3, ReservedIs DEF Contexts
  <1>5. Revision(It) \in Nat
    BY <1>3, CurrentIs DEF Shape, It, Mission
  <1>6. ask \in Ask /\ ask.content \in Content
    BY <1>4, <1>5 DEF Ask, Contexts, Scopes, None
  <1> HIDE DEF reserved, ask
  <1>7. ~HasRun(doc.missions[1]) /\ ~HasRun(reserved.missions[1])
    BY <1>2, <1>4 DEF CanDecide, DecisionOpen
  <1>8. /\ Shape(doc')
        /\ It'.state \in {"AUTHORIZED", "AWAITING_DECISION"}
        /\ ~HasRun(It')
    BY <1>2, <1>3, <1>4, <1>6, <1>7, DecidedIs DEF It, Mission
  <1>9. IntentOf(It) = None /\ IntentOf(It') = None
    BY <1>7, <1>8 DEF IntentOf, It, Mission
  <1>10. TypeGood'
    BY <1>2, <1>8 DEF TypeGood, Inv
  <1>11. SpawnGood'
    BY <1>2, <1>9 DEF SpawnGood, Inv
  <1>12. IntentGood' /\ ResultGood'
    BY <1>2, <1>8, <1>9 DEF IntentGood, ResultGood, Inv, Done
  <1>13. KeepsPaused(doc, doc')
    BY <1>7 DEF KeepsPaused, Paused
  <1>14. Counts
    <2>1. RunOf(doc.missions[1]) = NewRun /\ RunOf(doc'.missions[1]) = NewRun
      BY <1>7, <1>8 DEF RunOf, It, Mission
    <2>2. LastReason(doc'.missions[1]) = "none"
      BY <1>8 DEF LastReason, Shape, IsMission, It, Mission
    <2> QED BY <2>1, <2>2 DEF Counts, Uncounted, ReconcileStops
  <1> QED BY <1>7, <1>10, <1>11, <1>12, <1>13, <1>14 DEF Inv, Kept, It, Mission

-----------------------------------------------------------------------------
(* The theorems                                                            *)

LEMMA StutterKept == ASSUME Inv, UNCHANGED vars PROVE Kept
  BY DocumentStays, WorldStays, PlainKept DEF Plain, Turns, vars, Inv, TypeGood

LEMMA StepKept == ASSUME Inv, [Next]_vars PROVE Kept
  <1>1. ASSUME NEW c \in Caller, Begins(c) PROVE Kept
    BY <1>1, DispatchPlain, ReadsPlain, VerifyPlain, AroundPlain, ControlPlain,
       CancelPlain, PlainKept DEF Begins
  <1>2. ASSUME NEW c \in Caller, Proceeds(c) PROVE Kept
    BY <1>2, DispatchStepsPlain, ActivatePlain, ReceiptPlain, JudgePlain, WritesPlain,
       VerifyPlain, AcceptPlain, DecidePlain, CancelPlain, PlainKept, IntentKept,
       SpawnKept DEF Proceeds
  <1>3. ASSUME NEW c \in Caller, Dies(c) PROVE Kept
    BY <1>3, DiesPlain, PlainKept
  <1>4. CASE Redecides
    BY <1>4, RedecidesKept
  <1>5. CASE Abandon \/ ChildGoes \/ ChildShows \/ Rest \/ Tick
    BY <1>5, AroundPlain, PlainKept
  <1>6. CASE UNCHANGED vars
    BY <1>6, StutterKept
  <1> QED BY <1>1, <1>2, <1>3, <1>4, <1>5, <1>6 DEF Next

\* The types, and what the two safety theorems below need to hold for ever.
THEOREM Invariance == Spec => []Inv
  <1>1. Inv /\ [Next]_vars => Inv'
    BY StepKept DEF Kept
  <1> QED BY InvStarts, <1>1, PTL DEF Spec

\* However dispatches of any number of processes, edits, expiries, cancels and
\* deaths fall, one child at most is asked for, under a recorded intent and only
\* for the proposal and the scope its authorization names.
THEOREM StartsAtMostOnce == Spec => []StartsOnce
  <1>1. Inv => StartsOnce
    BY DEF Inv, SpawnGood, IntentGood, StartsOnce, TypeGood
  <1> QED BY Invariance, <1>1, PTL

\* A completed mission's child finished soundly under the contract its intent was
\* recorded for, although the result, the proof and the verification are read and
\* written in different steps.
THEOREM CompletionIsProven == Spec => []CompletedIsProven
  <1>1. Inv => CompletedIsProven
    <2> SUFFICES ASSUME Inv, It.state = "COMPLETED" PROVE CompletedIsProven
      BY DEF CompletedIsProven
    <2>1. IntentOf(It) # None
      BY DEF Inv, TypeGood, Shape, IsMission, It, Mission
    <2> QED BY <2>1 DEF Inv, ResultGood, IntentGood, Done, CompletedIsProven
  <1> QED BY Invariance, <1>1, PTL

\* An operation that read before a pause writes nothing of the run after it, but
\* for the answer of a start already made, a cancel and a refused workspace.
THEOREM PauseIsQuiet == Spec => PausedQuiet
  <1> DEFINE Step == Paused(It) =>
          /\ It'.state \in {It.state, "CANCELLED"}
          /\ It'.run.intent = It.run.intent
          /\ It'.run.unobserved = It.run.unobserved
          /\ It'.run.pending = It.run.pending
          /\ It'.run.workspace = It.run.workspace
          /\ It'.run.receipt # It.run.receipt => It'.run.receipt = "start_result"
  <1>1. Inv /\ [Next]_vars => [Step]_vars
    <2> SUFFICES ASSUME Inv, [Next]_vars, Paused(It) PROVE Step
      OBVIOUS
    <2>1. Kept
      BY StepKept
    <2>2. HasRun(It) /\ HasRun(It')
      BY <2>1 DEF Kept, Paused
    <2>3. RunOf(It) = It.run /\ RunOf(It') = It'.run
      BY <2>2 DEF RunOf
    <2> QED BY <2>1, <2>3 DEF Kept, KeepsPaused, It, Mission
  <1> QED BY Invariance, <1>1, PTL DEF Spec, PausedQuiet

-----------------------------------------------------------------------------
(* The run guard                                                           *)

\* Where a process acts on a run that is not bound.
Unbound == DispatchSteps \cup {"spawn", "receipt", "judge"}

\* A guarded process holds the guard from its first read of such a run to its end.
GuardGood == \A c \in Guarded : proc[c].at \in Unbound => holder = c

\* A process goes on, keeping the guard or giving it back; or begins, taking the
\* guard if it was given one; or does something that is not on an unbound run.
Turned(c, l) ==
    \/ Goes(c, l) /\ (l.at \in Unbound => proc[c].at \in Unbound)
    \/ Enter(c, l)
    \/ /\ holder' = holder /\ proc' = [proc EXCEPT ![c] = l]
       /\ l.at \notin Unbound

LEMMA TurnedKeeps ==
    ASSUME TypeGood, GuardGood, NEW c \in Caller, NEW l, Turned(c, l)
    PROVE  GuardGood'
  <1>0. Guarded \subseteq Caller /\ Nobody \notin Caller
    BY BridgeAssumption
  <1>1. /\ proc' = [proc EXCEPT ![c] = l] /\ proc'[c] = l
        /\ \A b \in Caller \ {c} : proc'[b] = proc[b]
    BY GoesIs DEF Turned, Enter, TypeGood
  <1>2. CASE Goes(c, l) /\ (l.at \in Unbound => proc[c].at \in Unbound)
    <2>1. CASE l = Idle
      <3>1. l.at \notin Unbound
        BY <2>1, IdleIs DEF Unbound, DispatchSteps
      <3>2. holder' = IF holder = c THEN Nobody ELSE holder
        BY <1>2, <2>1 DEF Goes, Leave
      <3> QED BY <1>0, <1>1, <3>1, <3>2 DEF GuardGood
    <2>2. CASE l # Idle
      <3>1. holder' = holder
        BY <1>2, <2>2 DEF Goes
      <3> QED BY <1>0, <1>1, <1>2, <3>1 DEF GuardGood
    <2> QED BY <2>1, <2>2
  <1>3. CASE Enter(c, l)
    <2>1. CASE c \in Guarded
      <3>1. holder = Nobody /\ holder' = c
        BY <1>3, <2>1 DEF Enter, Free
      <3>2. \A b \in Guarded : proc[b].at \notin Unbound
        BY <1>0, <3>1 DEF GuardGood
      <3> QED BY <1>0, <1>1, <3>1, <3>2 DEF GuardGood
    <2>2. CASE c \notin Guarded
      <3>1. holder' = holder
        BY <1>3, <2>2 DEF Enter
      <3> QED BY <1>0, <1>1, <2>2, <3>1 DEF GuardGood
    <2> QED BY <2>1, <2>2
  <1>4. CASE /\ holder' = holder /\ proc' = [proc EXCEPT ![c] = l]
             /\ l.at \notin Unbound
    BY <1>0, <1>1, <1>4 DEF GuardGood
  <1> QED BY <1>2, <1>3, <1>4 DEF Turned

LEMMA RecordKeeps ==
    ASSUME TypeGood, GuardGood, NEW c \in Caller, NEW D, NEW l,
           Record(c, D, l), l.at \in Unbound => proc[c].at \in Unbound
    PROVE  GuardGood'
  <1>1. Goes(c, l) \/ Goes(c, Idle)
    BY DEF Record, Goes
  <1>2. Idle.at \notin Unbound
    BY IdleIs DEF Unbound, DispatchSteps
  <1> QED BY <1>1, <1>2, TurnedKeeps DEF Turned

LEMMA BeginsKeeps ==
    ASSUME TypeGood, GuardGood, NEW c \in Caller, Begins(c)
    PROVE  GuardGood'
  <1>1. Idle.at \notin Unbound
    BY IdleIs DEF Unbound, DispatchSteps
  <1>2. CASE Dispatch(c) \/ ReconcileReads(c)
    <2>1. PICK l : Enter(c, l)
      BY <1>2 DEF Dispatch, ReconcileReads, Evidence
    <2> QED BY <2>1, TurnedKeeps DEF Turned
  <1>3. CASE LateReads(c) \/ ObserveReads(c) \/ AdvanceReads(c)
    <2>1. PICK l : Enter(c, l)
      BY <1>3 DEF LateReads, ObserveReads, AdvanceReads
    <2> QED BY <2>1, TurnedKeeps DEF Turned
  <1>4. CASE ReadinessReads(c)
    <2> DEFINE l == [at |-> "ready"]
    <2>1. holder' = holder /\ proc' = [proc EXCEPT ![c] = l] /\ l.at \notin Unbound
      BY <1>4 DEF ReadinessReads, Unbound, DispatchSteps
    <2> HIDE DEF l
    <2> QED BY <2>1, TurnedKeeps DEF Turned
  <1>5. CASE CancelReads(c)
    <2>1. PICK l : holder' = holder /\ proc' = [proc EXCEPT ![c] = l] /\ l.at \notin Unbound
      <3> DEFINE resumes == [at |-> "complete", resumed |-> TRUE]
                 cancels(achieved) == [at |-> "cancel", achieved |-> achieved,
                                       authorization |-> BoundAuthorization(It)]
      <3>1. /\ resumes.at \notin Unbound
            /\ \A achieved \in Cancels : cancels(achieved).at \notin Unbound
        BY DEF Unbound, DispatchSteps
      <3>2. \/ proc' = [proc EXCEPT ![c] = resumes]
            \/ \E achieved \in Cancels : proc' = [proc EXCEPT ![c] = cancels(achieved)]
        BY <1>5, InterruptedIs
      <3>3. holder' = holder
        BY <1>5, InterruptedIs
      <3> HIDE DEF resumes, cancels
      <3> QED BY <3>1, <3>2, <3>3
    <2> QED BY <2>1, TurnedKeeps DEF Turned
  <1>6. CASE Prove(c) \/ Control(c)
    BY <1>6 DEF Prove, Control, GuardGood
  <1>7. CASE VerifyBegins(c)
    <2>1. (\E l : Enter(c, l)) \/ Goes(c, Idle)
      BY <1>7 DEF VerifyBegins, Verifies, Goes
    <2> QED BY <1>1, <2>1, TurnedKeeps DEF Turned
  <1> QED BY <1>2, <1>3, <1>4, <1>5, <1>6, <1>7 DEF Begins

LEMMA ProceedsKeeps ==
    ASSUME TypeGood, GuardGood, NEW c \in Caller, Proceeds(c)
    PROVE  GuardGood'
  <1>0. Idle.at \notin Unbound /\ IsLocal(proc[c])
    BY IdleIs DEF Unbound, DispatchSteps, TypeGood
  <1>1. CASE Plan(c) \/ Create(c) \/ Derive(c) \/ Activate(c)
    <2>1. proc[c].at \in Unbound
      BY <1>1 DEF Plan, Create, Derive, Activate, Unbound, DispatchSteps
    <2>2. \/ \E l : Goes(c, l)
          \/ Goes(c, Idle)
      BY <1>1 DEF Plan, Create, Derive, Activate, Goes
    <2> QED BY <2>1, <2>2, TurnedKeeps DEF Turned
  <1>2. CASE Bind(c) \/ Prepared(c) \/ Refuse(c) \/ Intent(c) \/ Receipt(c) \/ Judge(c)
    <2>1. proc[c].at \in Unbound
      BY <1>2 DEF Bind, Prepared, Refuse, Intent, Receipt, Judge, Unbound, DispatchSteps
    <2>2. (\E D, l : Record(c, D, l)) \/ \E l : Goes(c, l)
      BY <1>2 DEF Bind, Prepared, Refuse, Intent, Receipt, Judge
    <2> QED BY <2>1, <2>2, RecordKeeps, TurnedKeeps DEF Turned
  <1>3. CASE Spawn(c)
    <2>1. proc[c].at \in Unbound
      BY <1>3 DEF Spawn, Unbound
    <2>2. (\E l : Goes(c, l)) \/ Goes(c, Idle)
      BY <1>3 DEF Spawn, Goes
    <2> QED BY <2>1, <2>2, TurnedKeeps DEF Turned
  <1>4. CASE LateWrites(c) \/ ObserveWrites(c) \/ Decide(c) \/ CancelCompletes(c)
    <2>1. \E D : Record(c, D, Idle)
      BY <1>4 DEF LateWrites, ObserveWrites, Decide, CancelCompletes
    <2> QED BY <1>0, <2>1, RecordKeeps
  <1>5. CASE CancelRecords(c)
    <2> DEFINE l == [at |-> "complete", resumed |-> FALSE]
    <2>1. (\E D : Record(c, D, l)) /\ l.at \notin Unbound
      BY <1>5 DEF CancelRecords, Unbound, DispatchSteps
    <2> HIDE DEF l
    <2> QED BY <2>1, RecordKeeps
  <1>6. CASE VerifyReads(c)
    <2>1. Goes(c, Idle) \/ \E l : Enter(c, l)
      BY <1>6 DEF VerifyReads, Verifies, Goes
    <2> QED BY <1>0, <2>1, TurnedKeeps DEF Turned
  <1>7. CASE AcceptResult(c)
    <2>1. Goes(c, proc[c]) \/ Goes(c, Idle)
      BY <1>7 DEF AcceptResult, Goes
    <2> QED BY <1>0, <2>1, TurnedKeeps DEF Turned
  <1> QED BY <1>1, <1>2, <1>3, <1>4, <1>5, <1>6, <1>7 DEF Proceeds

LEMMA GuardKept == ASSUME TypeGood, GuardGood, [Next]_vars PROVE GuardGood'
  <1>1. ASSUME NEW c \in Caller, Begins(c) PROVE GuardGood'
    BY <1>1, BeginsKeeps
  <1>2. ASSUME NEW c \in Caller, Proceeds(c) PROVE GuardGood'
    BY <1>2, ProceedsKeeps
  <1>3. ASSUME NEW c \in Caller, Dies(c) PROVE GuardGood'
    <2>1. Goes(c, Idle) /\ Idle.at \notin Unbound
      BY <1>3, IdleIs DEF Dies, Goes, Unbound, DispatchSteps
    <2> QED BY <2>1, TurnedKeeps DEF Turned
  <1>4. CASE Redecides \/ Abandon \/ ChildGoes \/ ChildShows \/ Rest \/ Tick
    <2>1. UNCHANGED <<proc, holder>>
      BY <1>4 DEF Redecides, Abandon, ChildGoes, ChildShows, Rest, Tick
    <2> QED BY <2>1 DEF GuardGood
  <1>5. CASE UNCHANGED vars
    BY <1>5 DEF vars, GuardGood
  <1> QED BY <1>1, <1>2, <1>3, <1>4, <1>5 DEF Next

\* Whatever the processes without the run guard do, none that was given it counts an
\* attempt or stops the run for want of evidence while the dispatch of another one
\* with the guard stands between its intent and its receipt.
THEOREM AttemptsAreAlone == Spec => AttemptsAlone
  <1> DEFINE Step ==
        \A b, c \in Guarded :
          /\ proc'[b] # proc[b]
          /\ \/ RunOf(It').unobserved > RunOf(It).unobserved
             \/ It'.lifecycle # It.lifecycle /\ LastReason(It') \in ReconcileStops
          => proc[c].at \notin {"spawn", "receipt"}
  <1>0. Guarded \subseteq Caller
    BY BridgeAssumption
  <1>1. Init => GuardGood
    BY <1>0, IdleIs DEF Init, GuardGood, Unbound, DispatchSteps
  <1>2. Inv /\ GuardGood /\ [Next]_vars => GuardGood'
    BY GuardKept DEF Inv
  <1>3. Inv /\ GuardGood /\ [Next]_vars => [Step]_vars
    <2> SUFFICES ASSUME Inv, GuardGood, [Next]_vars,
                        NEW b \in Guarded, NEW c \in Guarded, proc'[b] # proc[b],
                        \/ RunOf(It').unobserved > RunOf(It).unobserved
                        \/ It'.lifecycle # It.lifecycle /\ LastReason(It') \in ReconcileStops,
                        proc[c].at \in {"spawn", "receipt"}
                 PROVE  FALSE
      OBVIOUS
    <2>1. Kept
      BY StepKept
    <2>2. IsRun(RunOf(It)) /\ RunOf(It).unobserved \in Nat
      BY RunIs DEF Inv, TypeGood, Shape, It, Mission, IsRun
    <2>3. ~Uncounted(doc, doc')
      BY <2>2 DEF Uncounted, It, Mission
    <2>4. proc[b].at = "judge"
      BY <1>0, <2>1, <2>3 DEF Kept, Counts
    <2>5. holder = b /\ holder = c
      BY <2>4 DEF GuardGood, Unbound
    <2> QED BY <2>4, <2>5
  <1> QED BY Invariance, <1>1, <1>2, <1>3, PTL DEF Spec, AttemptsAlone
-----------------------------------------------------------------------------
(* What is eligible stays quiet                                            *)

Terminated == "cancelled_after_target_terminated"
Ended(ch) == ch.state \in {"COMPLETE", "ERROR", "ABORTED"}

\* What a process may still carry: a revision that was current, which is the one
\* activated when it is about to record an intent for it; and a cancel that saw
\* the target end.
LocalGood(l, revision, active, ch) ==
    /\ l.at \in DispatchSteps => l.revision <= revision
    /\ l.at = "intent" /\ l.revision = revision => active = revision
    /\ l.at = "cancel" /\ l.achieved = Terminated => Ended(ch)

\* What the cancel of the run says of its child.
CancelGood ==
    /\ RunOf(It).cancel = Terminated => Ended(child)
    /\ RunOf(It).quiescence # "owned_group_reaped"

QuietInv ==
    /\ RunGood(It) /\ CancelGood
    /\ proof.active <= Revision(It)
    /\ \A c \in Caller : LocalGood(proc[c], Revision(It), proof.active, child)

LEMMA InitQuiet == ASSUME Init PROVE QuietInv
  <1>1. Inv
    BY InvStarts
  <1>2. /\ 1 + AttestedValidity \in Nat /\ None \in Nat
        /\ "requested" \in Scopes /\ "narrower" \in Scopes
    BY BoundsAssumption DEF Bounds, None, Scopes
  <1>3. PICK content \in Content :
          doc \in {Approved(content, Relay, "requested", 1 + AttestedValidity),
                  Approved(content, Authenticated, "narrower", None)}
    BY DEF Init
  <1>4. /\ Shape(doc) /\ ~HasRun(doc.missions[1])
        /\ doc.missions[1].state \in {"AUTHORIZED", "AWAITING_DECISION"}
    BY <1>2, <1>3, ApprovedIs
  <1>5. RunGood(It) /\ CancelGood
    BY <1>4, NoRunGood DEF Shape, It, Mission, CancelGood, Terminated, NewRun
  <1>6. Revision(It) \in Nat /\ proof.active = 0
    BY <1>4, CurrentIs DEF Shape, It, Mission, Init, None
  <1>7. \A c \in Caller : LocalGood(proc[c], Revision(It), proof.active, child)
    BY DEF Init, LocalGood, Idle, DispatchSteps
  <1> QED BY <1>5, <1>6, <1>7 DEF QuietInv

\* A record that is eligible has no child at work and nobody about to start one.
LEMMA EligibleRests ==
    ASSUME Inv, QuietInv, Eligible
    PROVE  /\ child.state \notin {"starting", "working"}
           /\ \A c \in Caller : proc[c].at # "spawn"
  <1>1. /\ IsRun(RunOf(It)) /\ IntentOf(It) = RunOf(It).intent
        /\ HasRun(It) => RunOf(It) = It.run
    BY RunIs DEF Inv, TypeGood, Shape, It, Mission
  <1>2. CASE IntentOf(It) = None
    BY <1>2 DEF Inv, SpawnGood
  <1>3. CASE It.state = "COMPLETED"
    BY <1>3 DEF Inv, SpawnGood, ResultGood, Done
  <1>4. CASE /\ It.state = "CANCELLED" /\ It.run.quiescence \in QuiescentCancels
             /\ IntentOf(It) # None
    <2>1. RunOf(It) = It.run
      BY <1>1, <1>4 DEF Inv, TypeGood, Shape, IsMission, It, Mission, RunStates
    <2>2. RunFits(It.state, It.lifecycle, RunOf(It))
      BY DEF QuietInv, RunGood
    <2>3. /\ RunOf(It).cancel # "none"
          /\ RunOf(It).cancel # "cancelled_before_intent"
          /\ RunOf(It).quiescence \in {"none"} \cup QuiescenceFor(RunOf(It).cancel)
      BY <1>1, <1>4, <2>2 DEF RunFits
    <2>4. RunOf(It).cancel = Terminated
      BY <1>4, <2>1, <2>3 DEF QuietInv, CancelGood, QuiescenceFor, QuiescentCancels,
         Terminated
    <2> QED BY <2>4 DEF QuietInv, CancelGood, Ended, Inv, SpawnGood
  <1> QED BY <1>2, <1>3, <1>4 DEF Eligible

-----------------------------------------------------------------------------
(* What a step may change of it                                            *)

\* The record after a step.
RecordCalm ==
    /\ RunGood(It') /\ Revision(It') = Revision(It)
    /\ RunOf(It').cancel = Terminated => Ended(child)
    /\ RunOf(It').quiescence # "owned_group_reaped"
    /\ It.state = "COMPLETED" => It'.state = "COMPLETED"
    /\ Terminal(It) => Terminal(It')
    /\ It.state = "CANCELLED" /\ It.run.quiescence \in QuiescentCancels =>
          It'.state = "CANCELLED" /\ It'.run.quiescence \in QuiescentCancels
    /\ RunOnly(doc, doc')

\* The world after a step: the child does not start again, and once progress is
\* closed nothing is activated.
WorldCalm ==
    /\ Ended(child) => Ended(child')
    /\ proof.closed => proof'.closed /\ proof'.active = proof.active
    /\ proof'.active \in {proof.active, Revision(It)}

\* One process moves on, if any does.
TurnCalm ==
    \/ proc' = proc
    \/ \E c \in Caller : \E l :
          /\ proc' = [proc EXCEPT ![c] = l]
          /\ LocalGood(l, Revision(It), proof'.active, child)

StillEligible ==
    Eligible => /\ child.state \notin {"starting", "working"}
                /\ spawns' = spawns
                /\ Eligible'

\* The step writes the run alone, and an intent it records names an authorization of
\* the mission that stands.
RunWritten ==
    /\ RunOnly(doc, doc')
    /\ \/ IntentOf(It') = IntentOf(It)
       \/ IntentOf(It') \in Stands(It, doc.authorizations)

Calm == QuietInv' /\ StillEligible /\ (Redecides \/ RunWritten)

LEMMA CalmStep ==
    ASSUME Inv, QuietInv, RecordCalm, WorldCalm, TurnCalm,
           Eligible => spawns' = spawns /\ (IntentOf(It) = None => IntentOf(It') = None),
           \/ IntentOf(It') = IntentOf(It)
           \/ IntentOf(It') \in Stands(It, doc.authorizations)
    PROVE  Calm
  <1>1. Revision(It) \in Nat /\ proof.active \in Nat
    BY CurrentIs DEF Inv, TypeGood, Shape, It, Mission, Proof
  <1>2. \A c \in Caller : LocalGood(proc'[c], Revision(It'), proof'.active, child')
    <2>1. \A c \in Caller : LocalGood(proc[c], Revision(It), proof'.active, child')
      BY DEF QuietInv, LocalGood, WorldCalm
    <2>2. ASSUME NEW c \in Caller, NEW l, proc' = [proc EXCEPT ![c] = l],
                 LocalGood(l, Revision(It), proof'.active, child)
          PROVE  \A b \in Caller : LocalGood(proc'[b], Revision(It), proof'.active, child')
      <3>1. LocalGood(l, Revision(It), proof'.active, child')
        BY <2>2 DEF LocalGood, WorldCalm
      <3>2. \A b \in Caller : proc'[b] = IF b = c THEN l ELSE proc[b]
        BY <2>2 DEF Inv, TypeGood
      <3> QED BY <2>1, <3>1, <3>2
    <2>3. Revision(It') = Revision(It)
      BY DEF RecordCalm
    <2> QED BY <2>1, <2>2, <2>3 DEF TurnCalm
  <1>3. proof'.active <= Revision(It')
    BY <1>1 DEF RecordCalm, WorldCalm, QuietInv
  <1>4. QuietInv'
    <2>1. CancelGood'
      BY DEF RecordCalm, WorldCalm, CancelGood
    <2> QED BY <1>2, <1>3, <2>1 DEF QuietInv, RecordCalm
  <1>5. StillEligible
    <2> SUFFICES ASSUME Eligible
                 PROVE  /\ child.state \notin {"starting", "working"}
                        /\ spawns' = spawns /\ Eligible'
      BY DEF StillEligible
    <2>1. Eligible'
      <3>1. CASE It.state = "COMPLETED"
        BY <3>1 DEF RecordCalm, Eligible
      <3>2. CASE It.state = "CANCELLED" /\ It.run.quiescence \in QuiescentCancels
        BY <3>2 DEF RecordCalm, Eligible
      <3>3. CASE Terminal(It) /\ IntentOf(It) = None
        BY <3>3 DEF RecordCalm, Eligible
      <3>4. CASE ~Terminal(It) /\ proof.closed /\ proof.active # Revision(It)
                 /\ IntentOf(It) = None
        BY <3>4 DEF RecordCalm, WorldCalm, Eligible
      <3> QED BY <3>1, <3>2, <3>3, <3>4 DEF Eligible
    <2> QED BY <2>1, EligibleRests
  <1>6. RunWritten
    BY DEF RunWritten, RecordCalm
  <1> QED BY <1>4, <1>5, <1>6 DEF Calm

LEMMA RecordedCalm == ASSUME Inv, QuietInv, RunRecorded(doc, doc') PROVE RecordCalm
  <1>1. Shape(doc) /\ Shape(doc') /\ RunOnly(doc, doc')
    BY DEF Inv, TypeGood, RunRecorded
  <1>2. /\ Revision(It') = Revision(It)
        /\ Terminal(It) => It'.state = It.state
        /\ It.state \in RunStates => It.run = RunOf(It)
        /\ It'.state \in RunStates => It'.run = RunOf(It')
    BY <1>1, RunOnlyIs DEF It, Mission
  <1>3. /\ RunGood(It')
        /\ RunOf(It').cancel = RunOf(It).cancel
        /\ RunOf(It').quiescence = RunOf(It).quiescence
    BY DEF RunRecorded, It, Mission
  <1>4. /\ RunOf(It').cancel = Terminated => Ended(child)
        /\ RunOf(It').quiescence # "owned_group_reaped"
    BY <1>3 DEF QuietInv, CancelGood
  <1>5. /\ It.state = "COMPLETED" => It'.state = "COMPLETED"
        /\ Terminal(It) => Terminal(It')
        /\ It.state = "CANCELLED" => It'.state = "CANCELLED"
    BY <1>2 DEF Terminal, TerminalStates
  <1>6. It.state = "CANCELLED" => It'.run.quiescence = It.run.quiescence
    BY <1>2, <1>3, <1>5 DEF RunStates
  <1> QED BY <1>1, <1>2, <1>3, <1>4, <1>5, <1>6 DEF RecordCalm

LEMMA PlainCalm ==
    ASSUME Inv, QuietInv, Plain, RecordCalm, WorldCalm, TurnCalm
    PROVE  Calm
  <1>1. IntentOf(It') = IntentOf(It) /\ spawns' = spawns
    BY RunIs DEF Inv, TypeGood, Plain, Keeps, It, Mission, Shape
  <1> QED BY <1>1, CalmStep

LEMMA WorldStaysCalm == ASSUME Inv, UNCHANGED <<child, proof>> PROVE WorldCalm
  BY DEF WorldCalm, Ended

\* A step that records one of the documents D.
LEMMA RecordIsCalm ==
    ASSUME Inv, QuietInv, Plain, NEW c \in Caller, NEW D, NEW l, Record(c, D, l),
           \A e \in D : RunRecorded(doc, e),
           LocalGood(l, Revision(It), proof.active, child), UNCHANGED <<child, proof>>
    PROVE  Calm
  <1>1. RunRecorded(doc, doc)
    BY SameRecorded DEF Inv, TypeGood, QuietInv, It, Mission
  <1>2. doc' = doc \/ doc' \in D
    BY RecordIs
  <1>3. RecordCalm
    BY <1>1, <1>2, RecordedCalm
  <1>4. LocalGood(Idle, Revision(It), proof.active, child)
    BY DEF LocalGood, Idle, DispatchSteps
  <1>5. TurnCalm
    BY <1>4, RecordIs DEF TurnCalm
  <1> QED BY <1>3, <1>5, WorldStaysCalm, PlainCalm

\* A step that records nothing.
LEMMA LocalIsCalm ==
    ASSUME Inv, QuietInv, Plain, UNCHANGED doc, WorldCalm, TurnCalm
    PROVE  Calm
  <1>1. RunRecorded(doc, doc')
    BY SameRecorded DEF Inv, TypeGood, QuietInv, It, Mission
  <1> QED BY <1>1, RecordedCalm, PlainCalm

\* Most control points carry nothing of it.
LEMMA OtherPoints ==
    ASSUME NEW l, l.at \notin DispatchSteps \cup {"cancel"}, NEW revision, NEW active, NEW ch
    PROVE  LocalGood(l, revision, active, ch)
  BY DEF LocalGood, DispatchSteps

\* A dispatch carries the revision it began with.
LEMMA DispatchCarries ==
    ASSUME Inv, QuietInv, NEW c \in Caller, proc[c].at \in DispatchSteps,
           NEW at \in DispatchSteps \ {"intent"}
    PROVE  LocalGood([proc[c] EXCEPT !.at = at], Revision(It), proof.active, child)
  <1>1. proc[c] \in [at : DispatchSteps, authorization : Nat \ {None}, revision : Nat,
                    binding : {proc[c].binding}]
    BY DEF Inv, TypeGood, IsLocal, DispatchSteps
  <1>2. /\ [proc[c] EXCEPT !.at = at].at = at
        /\ [proc[c] EXCEPT !.at = at].revision = proc[c].revision
    BY <1>1
  <1>3. proc[c].revision <= Revision(It)
    BY DEF QuietInv, LocalGood
  <1> QED BY <1>2, <1>3 DEF LocalGood, DispatchSteps

-----------------------------------------------------------------------------
(* Every step is calm                                                      *)

LEMMA DispatchCalm == ASSUME Inv, QuietInv, NEW c \in Caller, Dispatch(c) PROVE Calm
  <1>1. PICK a \in DOMAIN doc.authorizations :
          Enter(c, [at |-> "plan", authorization |-> a, revision |-> Revision(It),
                    binding |-> RunOf(It).workspace])
    BY DEF Dispatch
  <1> DEFINE l == [at |-> "plan", authorization |-> a, revision |-> Revision(It),
                   binding |-> RunOf(It).workspace]
  <1>2. Revision(It) \in Nat
    BY CurrentIs DEF Inv, TypeGood, Shape, It, Mission
  <1>3. LocalGood(l, Revision(It), proof.active, child)
    BY <1>2 DEF LocalGood
  <1>4. proc' = [proc EXCEPT ![c] = l]
    BY <1>1 DEF Enter
  <1>5. UNCHANGED <<doc, child, proof>>
    BY DEF Dispatch
  <1> HIDE DEF l
  <1>6. TurnCalm
    BY <1>3, <1>4, <1>5 DEF TurnCalm
  <1> QED BY <1>5, <1>6, DispatchPlain, WorldStaysCalm, LocalIsCalm

LEMMA DispatchStepsCalm ==
    ASSUME Inv, QuietInv, NEW c \in Caller,
           Plan(c) \/ Bind(c) \/ Create(c) \/ Prepared(c) \/ Derive(c) \/ Refuse(c)
    PROVE  Calm
  <1>0. Shape(doc) /\ RunGood(doc.missions[1]) /\ Plain
    BY DispatchStepsPlain DEF Inv, TypeGood, QuietInv, It, Mission
  <1>1. UNCHANGED <<child, proof>> /\ proc[c].at \in DispatchSteps
    BY DEF Plan, Bind, Create, Prepared, Derive, Refuse, DispatchSteps
  <1> DEFINE refuses == doc' = doc /\ Goes(c, [proc[c] EXCEPT !.at = "refuse"])
             binds == \E at \in DispatchSteps \ {"intent"} :
                         Record(c, RecordWorkspaceBinding(doc, 1, 1), [proc[c] EXCEPT !.at = at])
  <1>b. Bind(c) => refuses \/ binds
    BY DEF Bind, Mission, Path, DispatchSteps
  <1>2. CASE Plan(c) \/ Create(c) \/ Derive(c) \/ refuses
    <2>1. UNCHANGED doc
      BY <1>2 DEF Plan, Create, Derive
    <2>2. PICK at \in DispatchSteps \ {"intent"} : Goes(c, [proc[c] EXCEPT !.at = at])
      BY <1>2 DEF Plan, Create, Derive, DispatchSteps
    <2>3. proc' = [proc EXCEPT ![c] = [proc[c] EXCEPT !.at = at]]
      BY <2>2, GoesIs
    <2>4. TurnCalm
      BY <1>1, <2>3, DispatchCarries DEF TurnCalm
    <2> QED BY <1>0, <1>1, <2>1, <2>4, WorldStaysCalm, LocalIsCalm
  <1>3. CASE binds \/ Prepared(c)
    <2>1. PICK at \in DispatchSteps \ {"intent"} :
            \E D \in {RecordWorkspaceBinding(doc, 1, 1), RecordWorkspacePrepared(doc, 1)} :
               Record(c, D, [proc[c] EXCEPT !.at = at])
      BY <1>3 DEF Prepared, Mission, DispatchSteps
    <2>2. PICK D \in {RecordWorkspaceBinding(doc, 1, 1), RecordWorkspacePrepared(doc, 1)} :
            Record(c, D, [proc[c] EXCEPT !.at = at])
      BY <2>1
    <2>3. \A e \in D : RunRecorded(doc, e)
      BY <1>0, WorkspaceRecorded
    <2>4. LocalGood([proc[c] EXCEPT !.at = at], Revision(It), proof.active, child)
      BY <1>1, DispatchCarries
    <2> QED BY <1>0, <1>1, <2>2, <2>3, <2>4, RecordIsCalm
  <1>4. CASE Refuse(c)
    <2>1. Record(c, RecordWorkspaceRefusal(doc, 1), Idle)
      BY <1>4 DEF Refuse, Mission
    <2>2. \A e \in RecordWorkspaceRefusal(doc, 1) : RunRecorded(doc, e)
      BY <1>0, WorkspaceRecorded
    <2>3. LocalGood(Idle, Revision(It), proof.active, child)
      BY IdleIs, OtherPoints DEF DispatchSteps
    <2> QED BY <1>0, <1>1, <2>1, <2>2, <2>3, RecordIsCalm
  <1> HIDE DEF refuses, binds
  <1> QED BY <1>b, <1>2, <1>3, <1>4

\* What is activated is the current revision, and nothing once progress is closed.
LEMMA ActivateCalm == ASSUME Inv, QuietInv, NEW c \in Caller, Activate(c) PROVE Calm
  <1>1. proc[c].at \in DispatchSteps
    BY DEF Activate, DispatchSteps
  <1>2. proc[c] \in [at : DispatchSteps, authorization : Nat \ {None}, revision : Nat,
                    binding : {proc[c].binding}]
    BY <1>1 DEF Inv, TypeGood, IsLocal, DispatchSteps
  <1>3. proof \in Proof /\ proc[c].revision <= Revision(It)
    BY <1>1 DEF Inv, TypeGood, QuietInv, LocalGood
  <1> DEFINE l == [proc[c] EXCEPT !.at = "intent"]
  <1>4. l.at = "intent" /\ l.revision = proc[c].revision
    BY <1>2
  <1>5. \/ /\ proc' = [proc EXCEPT ![c] = l]
           /\ IF proof.active = proc[c].revision THEN proof' = proof
              ELSE ~proof.closed /\ proof' = [proof EXCEPT !.active = Revision(It)]
        \/ proc' = [proc EXCEPT ![c] = Idle] /\ proof' = proof
    <2>1. proof = [proof EXCEPT !.active = proof.active]
      BY <1>3 DEF Proof
    <2> QED BY <2>1, GoesIs DEF Activate, Leave
  <1>6. UNCHANGED <<doc, child>>
    BY DEF Activate
  <1> HIDE DEF l
  <1>7. WorldCalm
    BY <1>3, <1>5, <1>6 DEF WorldCalm, Ended, Proof
  <1>8. TurnCalm
    <2>1. CASE proc' = [proc EXCEPT ![c] = Idle]
      BY <2>1, IdleIs, OtherPoints DEF TurnCalm, DispatchSteps
    <2>2. CASE /\ proc' = [proc EXCEPT ![c] = l]
               /\ IF proof.active = proc[c].revision THEN proof' = proof
                  ELSE ~proof.closed /\ proof' = [proof EXCEPT !.active = Revision(It)]
      <3>1. proc[c].revision = Revision(It) => proof'.active = Revision(It)
        BY <1>3, <2>2 DEF Proof
      <3>2. LocalGood(l, Revision(It), proof'.active, child)
        BY <1>3, <1>4, <3>1 DEF LocalGood
      <3> QED BY <2>2, <3>2 DEF TurnCalm
    <2> QED BY <1>5, <2>1, <2>2
  <1> QED BY <1>6, <1>7, <1>8, ActivatePlain, LocalIsCalm
\* An intent is recorded for the revision that is current: the mission was not
\* eligible, for that revision is the one activated.
LEMMA IntentCalm == ASSUME Inv, QuietInv, NEW c \in Caller, Intent(c) PROVE Calm
  <1> DEFINE a == proc[c].authorization
             D == RecordRunIntent(doc, 1, a, proc[c].revision, 1, now)
             l == [at |-> "spawn"]
  <1>0. /\ Shape(doc) /\ RunGood(doc.missions[1]) /\ a \in Nat \ {None}
        /\ proc[c].at = "intent"
    <2>1. proc[c].at \in DispatchSteps /\ "intent" \in DispatchSteps
      BY DEF Intent, DispatchSteps
    <2> QED BY <2>1, StepIs DEF Intent, Inv, TypeGood, QuietInv, It, Mission
  <1>1. Record(c, D, l)
    BY DEF Intent, Mission, Path
  <1>2. UNCHANGED <<child, spawns, proof>>
    BY DEF Intent
  <1>3. /\ LocalGood(Idle, Revision(It), proof.active, child)
        /\ LocalGood(l, Revision(It), proof.active, child)
    BY IdleIs, OtherPoints DEF DispatchSteps
  <1> HIDE DEF D
  <1>4. TurnCalm
    BY <1>1, <1>2, <1>3, RecordIs DEF TurnCalm
  <1>5. CASE doc' = doc
    <2>1. RecordCalm
      BY <1>0, <1>5, SameRecorded, RecordedCalm DEF It, Mission
    <2>2. IntentOf(It') = IntentOf(It)
      BY <1>5 DEF It
    <2> QED BY <1>2, <1>4, <2>1, <2>2, WorldStaysCalm, CalmStep
  <1>6. CASE doc' \in D
    <2>1. /\ RunRecorded(doc, doc')
          /\ PermitsUse(doc, a, 1, proc[c].revision, now)
          /\ RunOf(It).intent = None
          /\ HasRun(It)
      BY <1>0, <1>6, IntentRecorded DEF D, It, Mission
    <2>2. IntentOf(It) = None /\ It.state = "AUTHORIZED"
      BY <1>0, <1>6 DEF D, RecordRunIntent, Saved, BeforeIntent, It, Mission
    <2>3. proc[c].revision = Revision(It)
      BY <2>1 DEF PermitsUse, It, Mission
    <2>4. proof.active = Revision(It)
      BY <1>0, <2>3 DEF QuietInv, LocalGood
    <2>5. ~Eligible
      BY <2>2, <2>4 DEF Eligible, Terminal, TerminalStates
    <2>6. IntentOf(It') \in Stands(It, doc.authorizations)
      <3>1. Shape(doc') /\ RunOf(It').intent = a
        BY <1>0, <1>6, IntentIs DEF D, It, Mission
      <3>2. IntentOf(It') = a
        BY <3>1, RunIs DEF Shape, It, Mission
      <3> QED BY <2>1, <3>2 DEF PermitsUse, Stands, It, Mission
    <2> QED BY <1>2, <1>4, <2>1, <2>5, <2>6, RecordedCalm, WorldStaysCalm, CalmStep
  <1> QED BY <1>1, <1>5, <1>6, RecordIs

LEMMA SpawnCalm == ASSUME Inv, QuietInv, NEW c \in Caller, Spawn(c) PROVE Calm
  <1>1. /\ proc[c].at = "spawn" /\ child.state = "none" /\ UNCHANGED <<doc, proof>>
    BY DEF Spawn, Inv, SpawnGood
  <1>2. ~Eligible /\ IntentOf(It') = IntentOf(It)
    BY <1>1, EligibleRests DEF It
  <1>3. RecordCalm
    BY <1>1, SameRecorded, RecordedCalm DEF Inv, TypeGood, QuietInv, It, Mission
  <1>4. WorldCalm
    BY <1>1 DEF WorldCalm, Ended
  <1>5. TurnCalm
    <2> DEFINE r(task) == [at |-> "receipt", task |-> task]
    <2>1. \A task : r(task).at = "receipt"
      OBVIOUS
    <2>2. \/ \E task : proc' = [proc EXCEPT ![c] = r(task)]
          \/ proc' = [proc EXCEPT ![c] = Idle]
      BY GoesIs DEF Spawn, Leave
    <2> HIDE DEF r
    <2>3. \A task : LocalGood(r(task), Revision(It), proof'.active, child)
      BY <2>1, OtherPoints DEF DispatchSteps
    <2>4. LocalGood(Idle, Revision(It), proof'.active, child)
      BY IdleIs, OtherPoints DEF DispatchSteps
    <2> QED BY <2>2, <2>3, <2>4 DEF TurnCalm
  <1> QED BY <1>2, <1>3, <1>4, <1>5, CalmStep

\* The writes that answer what was read: of the start, the reconciliation, the
\* observation and the verification.
LEMMA AnswersCalm ==
    ASSUME Inv, QuietInv, NEW c \in Caller,
           \/ Receipt(c) \/ Judge(c) \/ LateWrites(c) \/ ObserveWrites(c) \/ Decide(c)
    PROVE  Calm
  <1>0. Shape(doc) /\ RunGood(doc.missions[1]) /\ IsLocal(proc[c]) /\ Plain
    BY ReceiptPlain, JudgePlain, WritesPlain, DecidePlain
    DEF Inv, TypeGood, QuietInv, It, Mission
  <1>1. UNCHANGED <<child, proof>> /\ LocalGood(Idle, Revision(It), proof.active, child)
    BY IdleIs, OtherPoints
    DEF Receipt, Judge, LateWrites, ObserveWrites, Decide, DispatchSteps
  <1>2. PICK D : Record(c, D, Idle) /\ \A e \in D : RunRecorded(doc, e)
    <2>1. CASE Receipt(c)
      <3>1. proc[c].task \in Nat
        BY <1>0, <2>1 DEF Receipt, IsLocal, DispatchSteps
      <3>2. \A e \in RecordRunReceipt(doc, 1, proc[c].task, "start_result") :
               RunRecorded(doc, e)
        BY <1>0, <3>1, ReceiptRecorded
      <3> QED BY <2>1, <3>2 DEF Receipt, Mission
    <2>2. CASE Judge(c)
      <3> DEFINE verdict == proc[c].verdict
                 D == CASE verdict = "unobserved" -> RecordReconcileUnobserved(doc, 1)
                        [] verdict = "proven" ->
                              RecordRunReceipt(doc, 1, Task, "reconciliation")
                        [] verdict = "reconcile_late_child_aborted" ->
                              RecordRunStop(doc, 1, verdict, Task)
                        [] OTHER -> RecordRunStop(doc, 1, verdict, None)
      <3>1. Record(c, D, Idle)
        BY <2>2 DEF Judge, Mission
      <3>2. verdict \in Verdicts
        BY <1>0, <2>2 DEF Judge, IsLocal, DispatchSteps
      <3>3. Task \in Nat /\ None \in Nat
        BY DEF Task, None
      <3>4. ASSUME NEW e \in D PROVE RunRecorded(doc, e)
        <4>1. CASE verdict = "unobserved"
          BY <1>0, <3>4, <4>1, UnobservedRecorded
        <4>2. CASE verdict = "proven"
          BY <1>0, <3>3, <3>4, <4>2, ReceiptRecorded
        <4>3. CASE verdict \in ReconcileStops \ {"reconcile_not_observable"}
          BY <1>0, <3>3, <3>4, <4>3, StopRecorded DEF ReconcileStops
        <4> QED BY <3>2, <4>1, <4>2, <4>3 DEF Verdicts, ReconcileStops
      <3> HIDE DEF D
      <3> QED BY <3>1, <3>4
    <2>3. CASE LateWrites(c)
      BY <1>0, <2>3, LateRecorded DEF LateWrites, Mission
    <2>4. CASE ObserveWrites(c)
      <3>1. proc[c].stopped \in BOOLEAN
        BY <1>0, <2>4 DEF ObserveWrites, IsLocal, DispatchSteps
      <3>2. \A e \in RecordObservedRunning(doc, 1, Task, proc[c].stopped) :
               RunRecorded(doc, e)
        BY <1>0, <3>1, ObservedRecorded
      <3> QED BY <2>4, <3>2 DEF ObserveWrites, Mission
    <2>5. CASE Decide(c)
      <3>1. proc[c].failed \in Failures \cup {"none"}
        BY <1>0, <2>5 DEF Decide, IsLocal, DispatchSteps
      <3>2. \A e \in RecordVerification(doc, 1, proc[c].failed, ContractProof) :
               RunRecorded(doc, e)
        BY <1>0, <3>1, VerificationRecorded
      <3> QED BY <2>5, <3>2 DEF Decide, Mission
    <2> QED BY <2>1, <2>2, <2>3, <2>4, <2>5
  <1> QED BY <1>0, <1>1, <1>2, RecordIsCalm

\* The reads, the deaths and the steps of the world.
LEMMA ReadsCalm ==
    ASSUME Inv, QuietInv, NEW c \in Caller,
           \/ ReconcileReads(c) \/ LateReads(c) \/ ObserveReads(c) \/ ReadinessReads(c)
           \/ AdvanceReads(c) \/ VerifyReads(c) \/ VerifyBegins(c) \/ Dies(c)
    PROVE  Calm
  <1>1. UNCHANGED <<doc, child, proof>>
    BY DEF ReconcileReads, LateReads, ObserveReads, ReadinessReads, AdvanceReads,
       VerifyReads, VerifyBegins, Verifies, Dies
  <1> DEFINE judge(v) == [at |-> "judge", verdict |-> v]
             late == [at |-> "late"]
             observe == [at |-> "observe", stopped |-> Stopped]
             ready == [at |-> "ready"]
             decide(f) == [at |-> "decide", failed |-> f]
  <1>2. \/ \E v : proc' = [proc EXCEPT ![c] = judge(v)]
        \/ proc' = [proc EXCEPT ![c] = late]
        \/ proc' = [proc EXCEPT ![c] = observe]
        \/ proc' = [proc EXCEPT ![c] = ready]
        \/ \E f : proc' = [proc EXCEPT ![c] = decide(f)]
        \/ proc' = [proc EXCEPT ![c] = Idle]
    BY DEF ReconcileReads, Evidence, LateReads, ObserveReads, ReadinessReads, AdvanceReads,
       VerifyReads, VerifyBegins, Verifies, Dies, Enter, Leave
  <1>3. /\ \A v : judge(v).at = "judge"
        /\ late.at = "late" /\ observe.at = "observe" /\ ready.at = "ready"
        /\ \A f : decide(f).at = "decide"
    OBVIOUS
  <1> HIDE DEF judge, late, observe, ready, decide
  <1>4. PICK l : proc' = [proc EXCEPT ![c] = l] /\ l.at \notin DispatchSteps \cup {"cancel"}
    BY <1>2, <1>3, IdleIs DEF DispatchSteps
  <1>5. TurnCalm
    BY <1>4, OtherPoints DEF TurnCalm
  <1> QED BY <1>1, <1>5, ReadsPlain, VerifyPlain, DiesPlain, WorldStaysCalm, LocalIsCalm

LEMMA AcceptCalm == ASSUME Inv, QuietInv, NEW c \in Caller, AcceptResult(c) PROVE Calm
  <1>1. UNCHANGED <<doc, child>> /\ proc[c].at = "decide"
    BY DEF AcceptResult
  <1>2. WorldCalm
    BY <1>1 DEF AcceptResult, WorldCalm, Ended, Inv, TypeGood, Proof
  <1>3. \/ proc' = [proc EXCEPT ![c] = proc[c]]
        \/ proc' = [proc EXCEPT ![c] = Idle]
    BY GoesIs DEF AcceptResult, Leave
  <1>4. /\ LocalGood(proc[c], Revision(It), proof'.active, child)
        /\ LocalGood(Idle, Revision(It), proof'.active, child)
    BY <1>1, IdleIs, OtherPoints DEF DispatchSteps
  <1>5. TurnCalm
    BY <1>3, <1>4 DEF TurnCalm
  <1> QED BY <1>1, <1>2, <1>5, AcceptPlain, LocalIsCalm

LEMMA AroundCalm ==
    ASSUME Inv, QuietInv, \/ \E c \in Caller : Prove(c)
                          \/ Abandon \/ ChildGoes \/ ChildShows \/ Rest \/ Tick
    PROVE  Calm
  <1>1. UNCHANGED <<doc, proc>>
    BY DEF Prove, Abandon, ChildGoes, ChildShows, Rest, Tick
  <1>2. WorldCalm
    <2>1. child \in Child /\ proof \in Proof
      BY DEF Inv, TypeGood
    <2>2. CASE \/ \E c \in Caller : Prove(c)
               \/ Abandon
      BY <2>1, <2>2 DEF Prove, Abandon, WorldCalm, Proof, Ended
    <2>3. CASE ChildGoes
      BY <2>1, <2>3 DEF ChildGoes, WorldCalm, Child, Ended
    <2>4. CASE ChildShows
      BY <2>1, <2>4 DEF ChildShows, WorldCalm, Child, Ended
    <2>5. CASE Rest \/ Tick
      BY <2>5, WorldStaysCalm DEF Rest, Tick
    <2> QED BY <2>2, <2>3, <2>4, <2>5
  <1> QED BY <1>1, <1>2, AroundPlain, LocalIsCalm DEF TurnCalm

LEMMA ControlCalm == ASSUME Inv, QuietInv, NEW c \in Caller, Control(c) PROVE Calm
  <1>1. Shape(doc) /\ RunGood(doc.missions[1])
    BY DEF Inv, TypeGood, QuietInv, It, Mission
  <1>2. /\ doc' \in RecordPause(doc, 1, BoundAuthorization(It))
                   \cup RecordResume(doc, 1, BoundAuthorization(It))
        /\ UNCHANGED <<proc, child, proof>>
    BY DEF Control, Mission
  <1>3. RunRecorded(doc, doc')
    BY <1>1, <1>2, ControlRecorded
  <1> QED BY <1>2, <1>3, RecordedCalm, WorldStaysCalm, ControlPlain, PlainCalm DEF TurnCalm
\* A cancel that says the target ended saw it ended, and never claims that a
\* process group was reaped.
LEMMA CancelCalm ==
    ASSUME Inv, QuietInv, NEW c \in Caller,
           CancelReads(c) \/ CancelRecords(c) \/ CancelCompletes(c)
    PROVE  Calm
  <1>0. /\ Shape(doc) /\ RunGood(doc.missions[1]) /\ IsLocal(proc[c]) /\ Plain
        /\ UNCHANGED <<child, proof>>
    BY CancelPlain, InterruptedIs DEF Inv, TypeGood, QuietInv, It, Mission, CancelRecords,
       CancelCompletes
  <1>1. WorldCalm /\ LocalGood(Idle, Revision(It), proof.active, child)
    BY <1>0, WorldStaysCalm, IdleIs, OtherPoints DEF DispatchSteps
  <1>2. doc' = doc => RecordCalm
    BY <1>0, SameRecorded, RecordedCalm DEF It, Mission
  <1>3. CASE CancelReads(c)
    <2> DEFINE resumes == [at |-> "complete", resumed |-> TRUE]
               cancels(achieved) == [at |-> "cancel", achieved |-> achieved,
                                     authorization |-> BoundAuthorization(It)]
    <2>1. \/ proc' = [proc EXCEPT ![c] = resumes]
          \/ \E achieved : /\ proc' = [proc EXCEPT ![c] = cancels(achieved)]
                           /\ achieved = Terminated => Ended(child)
      <3>1. Stopped => Ended(child)
        BY DEF Ended, Stopped
      <3> HIDE DEF resumes, cancels
      <3> QED BY <1>3, <3>1, InterruptedIs DEF Terminated, resumes, cancels
    <2>2. LocalGood(resumes, Revision(It), proof.active, child)
      BY OtherPoints DEF DispatchSteps
    <2>3. \A achieved : (achieved = Terminated => Ended(child)) =>
             LocalGood(cancels(achieved), Revision(It), proof.active, child)
      BY DEF LocalGood, DispatchSteps
    <2> HIDE DEF resumes, cancels
    <2>4. TurnCalm
      BY <1>0, <2>1, <2>2, <2>3 DEF TurnCalm
    <2>5. doc' = doc
      BY <1>3, InterruptedIs
    <2> QED BY <1>0, <1>1, <2>4, <2>5, LocalIsCalm
  <1>4. CASE CancelRecords(c)
    <2> DEFINE l == [at |-> "complete", resumed |-> FALSE]
               D == RecordCancel(doc, 1, proc[c].achieved, proc[c].authorization)
    <2>1. Record(c, D, l) /\ proc[c].at = "cancel"
      BY <1>4 DEF CancelRecords, Mission
    <2>2. proc[c].achieved \in Cancels
      BY <1>0, <2>1 DEF IsLocal, DispatchSteps
    <2>3. proc[c].achieved = Terminated => Ended(child)
      BY <2>1 DEF QuietInv, LocalGood
    <2>4. LocalGood(l, Revision(It), proof.active, child)
      BY OtherPoints DEF DispatchSteps
    <2> HIDE DEF l
    <2>5. TurnCalm
      BY <1>0, <1>1, <2>1, <2>4, RecordIs DEF TurnCalm
    <2>6. ASSUME doc' \in D PROVE RecordCalm
      <3>1. /\ Shape(doc') /\ RunOnly(doc, doc') /\ RunGood(It')
            /\ RunOf(It').cancel = proc[c].achieved
            /\ RunOf(It').quiescence = "none"
            /\ ~Terminal(It)
        BY <1>0, <2>2, <2>6, CancelRecorded DEF It, Mission
      <3>2. Revision(It') = Revision(It)
        BY <1>0, <3>1, RunOnlyIs DEF It, Mission
      <3> QED BY <2>3, <3>1, <3>2 DEF RecordCalm, Terminal, TerminalStates
    <2> HIDE DEF D
    <2> QED BY <1>0, <1>1, <1>2, <2>1, <2>5, <2>6, RecordIs, PlainCalm
  <1>5. CASE CancelCompletes(c)
    <2> DEFINE q == Quiescence(proc[c].resumed)
               D == CompleteCancel(doc, 1, q, BoundAuthorization(It))
    <2>1. Record(c, D, Idle)
      BY <1>5 DEF CancelCompletes, Mission
    <2>2. TurnCalm
      BY <1>0, <1>1, <2>1, RecordIs DEF TurnCalm
    <2>3. ASSUME doc' \in D PROVE RecordCalm
      <3>1. It.state = "CANCELLED" /\ It.run.cancel # "none" /\ It.run.quiescence = "none"
        BY <2>3 DEF CompleteCancel, Saved, It, Mission
      <3>2. It.run = RunOf(It)
        BY <1>0, <3>1 DEF Shape, IsMission, RunOf, It, Mission, RunStates
      <3>3. q \in QuiescenceFor(RunOf(It).cancel) /\ q # "owned_group_reaped"
        BY <3>2 DEF Quiescence, QuiescenceFor
      <3> HIDE DEF q
      <3>4. /\ Shape(doc') /\ RunOnly(doc, doc') /\ RunGood(It')
            /\ RunOf(It').cancel = RunOf(It).cancel
            /\ RunOf(It').quiescence = q
            /\ It'.state = It.state
        BY <1>0, <2>3, <3>3, CompleteRecorded DEF It, Mission
      <3>5. Revision(It') = Revision(It)
        BY <1>0, <3>4, RunOnlyIs DEF It, Mission
      <3>6. RunOf(It').cancel = Terminated => Ended(child)
        BY <3>4 DEF QuietInv, CancelGood
      <3> QED BY <3>1, <3>3, <3>4, <3>5, <3>6 DEF RecordCalm, Terminal, QuiescentCancels
    <2> HIDE DEF D
    <2> QED BY <1>0, <1>1, <1>2, <2>1, <2>2, <2>3, RecordIs, PlainCalm
  <1> QED BY <1>3, <1>4, <1>5

\* A new decision is made of a mission without a run, and only raises its
\* revision.
LEMMA RedecidesCalm == ASSUME Inv, QuietInv, Redecides PROVE Calm
  <1>1. PICK kind \in {"EDIT", "APPROVE"}, content \in Content :
          LET reserved == ReserveIn(doc, "decision", Authenticated)
              ask == [id |-> NextId(doc), by |-> Authenticated, kind |-> kind,
                      revision |-> Revision(It), shown |-> None, content |-> content,
                      scope |-> "requested", expires |-> None]
          IN
          /\ CanReserve(doc, "decision", Authenticated)
          /\ CanDecideAndSave(reserved, Mission, ask, now)
          /\ doc' = DecideIn(reserved, Mission, ask, now)
          /\ UNCHANGED <<now, proc, holder, worktree, child, spawns, proof, rested, faults>>
    BY DEF Redecides
  <1> DEFINE reserved == ReserveIn(doc, "decision", Authenticated)
             ask == [id |-> NextId(doc), by |-> Authenticated, kind |-> kind,
                     revision |-> Revision(It), shown |-> None, content |-> content,
                     scope |-> "requested", expires |-> None]
  <1>2. /\ CanDecide(reserved, 1, ask, now)
        /\ doc' = DecideIn(reserved, 1, ask, now)
        /\ UNCHANGED <<now, proc, child, spawns, proof>>
    BY <1>1 DEF CanDecideAndSave, Mission
  <1>3. Shape(doc) /\ now \in Nat
    BY DEF Inv, TypeGood
  <1>4. Shape(reserved) /\ reserved.missions = doc.missions /\ NextId(doc) \in Nat
    BY <1>3, ReservedIs DEF Contexts
  <1>5. Revision(It) \in Nat
    BY <1>3, CurrentIs DEF Shape, It, Mission
  <1>6. ask \in Ask /\ ask.content \in Content
    BY <1>4, <1>5 DEF Ask, Contexts, Scopes, None
  <1> HIDE DEF reserved, ask
  <1>7. ~HasRun(doc.missions[1]) /\ ~HasRun(reserved.missions[1]) /\ ~Terminal(It)
    BY <1>2, <1>4 DEF CanDecide, DecisionOpen, It, Mission
  <1>8. /\ Shape(doc')
        /\ It'.state \in {"AUTHORIZED", "AWAITING_DECISION"}
        /\ ~HasRun(It')
        /\ Revision(It') >= Revision(It)
    BY <1>2, <1>3, <1>4, <1>6, <1>7, DecidedIs DEF It, Mission
  <1>9. Revision(It') \in Nat /\ proof.active \in Nat
    BY <1>8, CurrentIs DEF Shape, It, Mission, Inv, TypeGood, Proof
  <1>10. RunGood(It') /\ RunOf(It') = NewRun
    BY <1>8, NoRunGood DEF Shape, It, Mission
  <1>11. CancelGood'
    BY <1>10 DEF CancelGood, NewRun, Terminated
  <1>12. \A c \in Caller : LocalGood(proc'[c], Revision(It'), proof'.active, child')
    <2> SUFFICES ASSUME NEW c \in Caller
                 PROVE  LocalGood(proc[c], Revision(It'), proof.active, child)
      BY <1>2
    <2>1. LocalGood(proc[c], Revision(It), proof.active, child) /\ IsLocal(proc[c])
      BY DEF QuietInv, Inv, TypeGood
    <2>2. CASE proc[c].at \in DispatchSteps
      <3>1. proc[c].revision \in Nat
        BY <2>1, <2>2 DEF IsLocal, DispatchSteps
      <3>2. proc[c].revision <= Revision(It)
        BY <2>1, <2>2 DEF LocalGood
      <3>3. /\ proc[c].revision <= Revision(It')
            /\ proc[c].revision = Revision(It') => /\ proc[c].revision = Revision(It)
                                                   /\ Revision(It') = Revision(It)
        BY <1>5, <1>8, <1>9, <3>1, <3>2
      <3> QED BY <2>1, <3>3 DEF LocalGood
    <2>3. CASE proc[c].at \notin DispatchSteps
      BY <2>1, <2>3 DEF LocalGood, DispatchSteps
    <2> QED BY <2>2, <2>3
  <1>13. proof'.active <= Revision(It')
    BY <1>2, <1>5, <1>8, <1>9 DEF QuietInv
  <1>14. QuietInv'
    BY <1>10, <1>11, <1>12, <1>13 DEF QuietInv
  <1>15. StillEligible
    <2> SUFFICES ASSUME Eligible
                 PROVE  /\ child.state \notin {"starting", "working"}
                        /\ spawns' = spawns /\ Eligible'
      BY DEF StillEligible
    <2>1. proof.closed /\ proof.active # Revision(It) /\ proof.active <= Revision(It)
      BY <1>7 DEF Eligible, QuietInv, Terminal, TerminalStates
    <2>2. proof'.closed /\ proof'.active # Revision(It')
      BY <1>2, <1>5, <1>8, <1>9, <2>1
    <2>3. IntentOf(It') = None /\ ~Terminal(It')
      BY <1>8 DEF IntentOf, Terminal, TerminalStates
    <2>4. Eligible'
      BY <2>2, <2>3 DEF Eligible
    <2> QED BY <1>2, <2>4, EligibleRests
  <1> QED BY <1>14, <1>15 DEF Calm

LEMMA StepCalm == ASSUME Inv, QuietInv, [Next]_vars PROVE Calm
  <1>1. ASSUME NEW c \in Caller, Begins(c) PROVE Calm
    BY <1>1, DispatchCalm, ReadsCalm, AroundCalm, ControlCalm, CancelCalm DEF Begins
  <1>2. ASSUME NEW c \in Caller, Proceeds(c) PROVE Calm
    BY <1>2, DispatchStepsCalm, ActivateCalm, IntentCalm, SpawnCalm, AnswersCalm,
       ReadsCalm, AcceptCalm, CancelCalm DEF Proceeds
  <1>3. ASSUME NEW c \in Caller, Dies(c) PROVE Calm
    BY <1>3, ReadsCalm
  <1>4. CASE Redecides
    BY <1>4, RedecidesCalm
  <1>5. CASE Abandon \/ ChildGoes \/ ChildShows \/ Rest \/ Tick
    BY <1>5, AroundCalm
  <1>6. CASE UNCHANGED vars
    <2>1. Plain
      BY <1>6, DocumentStays, WorldStays DEF Plain, Turns, vars, Inv, TypeGood
    <2> QED BY <1>6, <2>1, WorldStaysCalm, LocalIsCalm DEF vars, TurnCalm
  <1> QED BY <1>1, <1>2, <1>3, <1>4, <1>5, <1>6 DEF Next

\* The run of the mission is such as a load accepts, the activated revision was
\* once current, and what a cancel says of the child is true.
THEOREM QuietInvariance == Spec => [](Inv /\ QuietInv)
  <1>1. Inv /\ QuietInv /\ [Next]_vars => (Inv /\ QuietInv)'
    BY StepKept, StepCalm DEF Kept, Calm
  <1>2. Init => Inv /\ QuietInv
    BY InvStarts, InitQuiet
  <1> QED BY <1>1, <1>2, PTL DEF Spec

\* What eligibility.py of mission_retention reads of a mission
\* does not become untrue: no child of it is at work, none is ever started, and it
\* stays eligible, however a dispatch, an edit, a cancel or a closing of the
\* progress fall between the reads and the writes of others.
THEOREM EligibleStaysQuiet == Spec => EligibleIsQuiet
  <1> DEFINE Step == Eligible => /\ child.state \notin {"starting", "working"}
                                 /\ spawns' = spawns
                                 /\ Eligible'
  <1>1. Inv /\ QuietInv /\ [Next]_vars => [Step]_vars
    BY StepCalm DEF Calm, StillEligible
  <1> QED BY QuietInvariance, <1>1, PTL DEF Spec, EligibleIsQuiet

-----------------------------------------------------------------------------
(* What a later load accepts                                               *)

\* The mission, and the document, without what is recorded of the run.
Unrun(x) ==
    [x EXCEPT !.run = NoRun, !.lifecycle = <<>>,
              !.state = IF HasRun(x) THEN "AUTHORIZED" ELSE x.state]
Bare(d) == [d EXCEPT !.missions = [d.missions EXCEPT ![1] = Unrun(d.missions[1])]]

\* What x and y say of anything but the run is the same.
SameBut(x, y) ==
    /\ y.request = x.request /\ y.proposer = x.proposer
    /\ y.revisions = x.revisions /\ y.decisions = x.decisions
    /\ y.authorizations = x.authorizations /\ y.withdrawn = x.withdrawn

BareOf(d, e) ==
    /\ e.authorizations = d.authorizations /\ e.ledger = d.ledger
    /\ e.reservations = d.reservations
    /\ DOMAIN d.missions = {1} /\ DOMAIN e.missions = {1}
    /\ SameBut(d.missions[1], e.missions[1])
    /\ ~HasRun(e.missions[1]) /\ e.missions[1].lifecycle = <<>>
    /\ e.missions[1].state = IF HasRun(d.missions[1]) THEN "AUTHORIZED"
                             ELSE d.missions[1].state

LEMMA BareIs ==
    ASSUME NEW d, Shape(d) PROVE BareOf(d, Bare(d))
  <1> DEFINE x == d.missions[1]
             y == Unrun(x)
             ms == [d.missions EXCEPT ![1] = y]
  <1>1. /\ SameBut(x, y) /\ y.run = NoRun /\ y.lifecycle = <<>>
        /\ y.state = IF HasRun(x) THEN "AUTHORIZED" ELSE x.state
    BY DEF Shape, IsMission, Unrun, SameBut
  <1>2. ~HasRun(y)
    BY <1>1 DEF HasRun, NoRun
  <1> HIDE DEF y
  <1>3. DOMAIN d.missions = {1} /\ DOMAIN ms = {1} /\ ms[1] = y
    BY DEF Shape
  <1>4. Bare(d) = [d EXCEPT !.missions = ms]
    BY DEF Bare, y
  <1> HIDE DEF ms
  <1>5. /\ Bare(d).missions = ms /\ Bare(d).authorizations = d.authorizations
        /\ Bare(d).ledger = d.ledger /\ Bare(d).reservations = d.reservations
    BY <1>4 DEF Shape
  <1> QED BY <1>1, <1>2, <1>3, <1>5 DEF BareOf

\* Nothing is left out of a document that holds no run.
LEMMA BareSame ==
    ASSUME NEW d, Shape(d), ~HasRun(d.missions[1]) PROVE Bare(d) = d
  <1> DEFINE x == d.missions[1]
  <1>1. IsMission(x) /\ x.lifecycle = <<>> /\ x.run = NoRun
    BY DEF Shape, IsMission, HasRun, IsRun
  <1>2. Unrun(x) = x
    BY <1>1 DEF Unrun, IsMission
  <1>3. [d.missions EXCEPT ![1] = x] = d.missions
    BY DEF Shape
  <1> QED BY <1>2, <1>3 DEF Bare, Shape

LEMMA BareKept ==
    ASSUME NEW d, NEW e, Shape(d), Shape(e), RunOnly(d, e)
    PROVE  Bare(e) = Bare(d)
  <1> DEFINE x == d.missions[1]
             y == e.missions[1]
             z == [x EXCEPT !.run = y.run, !.state = y.state, !.lifecycle = y.lifecycle]
  <1>1. CASE e = d
    BY <1>1
  <1>2. CASE e # d
    <2>1. /\ HasRun(y) /\ (HasRun(x) \/ x.state = "AUTHORIZED")
          /\ e = [d EXCEPT !.missions = [d.missions EXCEPT ![1] = z]]
      BY <1>2 DEF RunOnly
    <2>2. y = z /\ e.missions = [d.missions EXCEPT ![1] = z]
      <3> HIDE DEF z
      <3> QED BY <2>1 DEF Shape
    <2>3. Unrun(y) = [y EXCEPT !.run = NoRun, !.lifecycle = <<>>, !.state = "AUTHORIZED"]
      BY <2>1 DEF Unrun
    <2>4. Unrun(x) = [x EXCEPT !.run = NoRun, !.lifecycle = <<>>, !.state = "AUTHORIZED"]
      BY <2>1 DEF Unrun
    <2>5. [z EXCEPT !.run = NoRun, !.lifecycle = <<>>, !.state = "AUTHORIZED"]
            = [x EXCEPT !.run = NoRun, !.lifecycle = <<>>, !.state = "AUTHORIZED"]
      BY DEF Shape, IsMission
    <2>6. Unrun(y) = Unrun(x)
      BY <2>2, <2>3, <2>4, <2>5
    <2> HIDE DEF x, y, z
    <2> DEFINE u == Unrun(x)
    <2>7. /\ Bare(e) = [e EXCEPT !.missions = [e.missions EXCEPT ![1] = u]]
          /\ Bare(d) = [d EXCEPT !.missions = [d.missions EXCEPT ![1] = u]]
      BY <2>6 DEF Bare, x, y
    <2> HIDE DEF u
    <2>8. [e.missions EXCEPT ![1] = u] = [d.missions EXCEPT ![1] = u]
      BY <2>2 DEF Shape
    <2> DEFINE ms == [d.missions EXCEPT ![1] = u]
               ns == [d.missions EXCEPT ![1] = z]
    <2>9. e = [d EXCEPT !.missions = ns]
      BY <2>1
    <2> HIDE DEF ms, ns
    <2>10. [e EXCEPT !.missions = ms] = [d EXCEPT !.missions = ms]
      BY <2>9 DEF Shape
    <2> QED BY <2>7, <2>8, <2>10 DEF ms
  <1> QED BY <1>1, <1>2

\* A replay reads nothing of the run.
LEMMA BareHistory ==
    ASSUME NEW d, NEW b, BareOf(d, b), RegistryGood(b), ReplayGood(b, 1)
    PROVE  History(d, 1) = History(b, 1)
  <1> DEFINE x == d.missions[1]
             y == b.missions[1]
  <1>1. 1 \in DOMAIN b.missions /\ SameBut(x, y) /\ d.authorizations = b.authorizations
    BY DEF BareOf
  <1>2. y \in MissionRecords /\ StateGood(y)
    BY <1>1, DocumentParts DEF RegistryGood, MissionGood
  <1>3. IsFiniteSet(DOMAIN b.authorizations)
    BY <1>1, AuthorizationsOf
  <1>4. History(b, 1).agrees
    BY DEF ReplayGood, Matches
  <1>5. 1 \in DOMAIN y.revisions
    <2>1. y.revisions \in Seq(Revisions) /\ y.revisions # <<>>
      BY <1>2 DEF MissionRecords, StateGood
    <2> QED BY <2>1
  <1>6. Sees(b, d, 1)
    BY <1>1 DEF Sees, SameBut
  <1>7. y.decisions \in Seq(Decisions) /\ x.decisions = y.decisions
    BY <1>1, <1>2 DEF MissionRecords, SameBut
  <1>8. Continues(b, d, 1)
    <2>1. \A n \in 1 .. Len(y.decisions) : y.decisions[n] \in Decisions
      BY <1>7
    <2>2. \A z \in Decisions : z.kind \in DecisionKinds
      BY DEF Decisions
    <2>3. Len(y.decisions) \in Nat
      BY <1>7
    <2> QED BY <1>7, <2>1, <2>2, <2>3 DEF Continues
  <1> QED BY <1>3, <1>4, <1>5, <1>6, <1>7, <1>8, HistorySame

LEMMA BareIds ==
    ASSUME NEW d, NEW b, BareOf(d, b), IdsAgree(b)
    PROVE  IdsAgree(d)
  <1>1. /\ d.reservations = b.reservations /\ DOMAIN d.missions = DOMAIN b.missions
        /\ \A m \in DOMAIN d.missions :
              /\ d.missions[m].request = b.missions[m].request
              /\ d.missions[m].proposer = b.missions[m].proposer
              /\ d.missions[m].decisions = b.missions[m].decisions
    BY DEF BareOf, SameBut
  <1>2. \A i : {m \in DOMAIN d.missions : d.missions[m].request = i}
                 = {m \in DOMAIN b.missions : b.missions[m].request = i}
    BY <1>1
  <1>3. \A i : {at \in (1 .. MaxMissions) \X (1 .. MaxDecisions) :
                  /\ at[1] \in DOMAIN d.missions
                  /\ at[2] \in DOMAIN d.missions[at[1]].decisions
                  /\ d.missions[at[1]].decisions[at[2]].id = i}
               = {at \in (1 .. MaxMissions) \X (1 .. MaxDecisions) :
                  /\ at[1] \in DOMAIN b.missions
                  /\ at[2] \in DOMAIN b.missions[at[1]].decisions
                  /\ b.missions[at[1]].decisions[at[2]].id = i}
    BY <1>1
  <1>4. \A m \in DOMAIN d.missions : DecisionsOf(d, m) = DecisionsOf(b, m)
    BY <1>1 DEF DecisionsOf
  <1>5. \A i, kind, context : IsReserved(d, i, kind, context) <=> IsReserved(b, i, kind, context)
    BY <1>1 DEF IsReserved
  <1>6. ASSUME NEW i \in DOMAIN d.reservations
        PROVE  LET used == d.reservations[i].consumed
                   makers == {m \in DOMAIN d.missions : d.missions[m].request = i}
                   takers == {at \in (1 .. MaxMissions) \X (1 .. MaxDecisions) :
                                /\ at[1] \in DOMAIN d.missions
                                /\ at[2] \in DOMAIN d.missions[at[1]].decisions
                                /\ d.missions[at[1]].decisions[at[2]].id = i}
               IN  IF d.reservations[i].kind = "request"
                   THEN makers = IF used = None THEN {} ELSE {used}
                   ELSE /\ Cardinality(takers) = IF used = None THEN 0 ELSE 1
                        /\ used \in {None, i}
    <2>1. i \in DOMAIN b.reservations /\ b.reservations[i] = d.reservations[i]
      BY <1>1
    <2>2. LET used == b.reservations[i].consumed
              makers == {m \in DOMAIN b.missions : b.missions[m].request = i}
              takers == {at \in (1 .. MaxMissions) \X (1 .. MaxDecisions) :
                           /\ at[1] \in DOMAIN b.missions
                           /\ at[2] \in DOMAIN b.missions[at[1]].decisions
                           /\ b.missions[at[1]].decisions[at[2]].id = i}
          IN  IF b.reservations[i].kind = "request"
              THEN makers = IF used = None THEN {} ELSE {used}
              ELSE /\ Cardinality(takers) = IF used = None THEN 0 ELSE 1
                   /\ used \in {None, i}
      BY <2>1 DEF IdsAgree
    <2> QED BY <1>2, <1>3, <2>1, <2>2
  <1>7. ASSUME NEW m \in DOMAIN d.missions
        PROVE  /\ IsReserved(d, d.missions[m].request, "request", d.missions[m].proposer)
               /\ \A decision \in DecisionsOf(d, m) :
                     IsReserved(d, decision.id, "decision", decision.by)
    BY <1>1, <1>4, <1>5 DEF IdsAgree
  <1> QED BY <1>6, <1>7 DEF IdsAgree

\* A run that is recorded rests on the authorization the decisions left standing.
LEMMA BareReconciled ==
    ASSUME NEW d, NEW b, BareOf(d, b), RegistryGood(b), StoreGood(b),
           Shape(d), RunGood(d.missions[1]),
           LET a == IntentOf(d.missions[1]) IN
           a # None => a \in Stands(d.missions[1], d.authorizations)
    PROVE  Reconciles(d, 1)
  <1> DEFINE x == d.missions[1]
             y == b.missions[1]
             as == d.authorizations
             h == History(b, 1)
  <1>1. /\ 1 \in DOMAIN b.missions /\ SameBut(x, y) /\ b.authorizations = as
        /\ b.ledger = d.ledger /\ ~HasRun(y) /\ y.lifecycle = <<>>
        /\ y.state = IF HasRun(x) THEN "AUTHORIZED" ELSE x.state
    BY DEF BareOf
  <1>2. ReplayGood(b, 1) /\ Reconciles(b, 1) /\ StateGood(y)
    <2>1. ReplayGood(b, 1) /\ CancelledGood(y) /\ StateGood(y)
      BY <1>1 DEF StoreGood, RegistryGood, MissionGood
    <2> QED BY <1>1, <2>1, Reconciled
  <1>3. History(d, 1) = h
    BY <1>2, BareHistory
  <1>4. /\ h.agrees /\ h.state = y.state /\ h.revision = Revision(y)
        /\ h.issued = y.authorizations /\ h.revoked = Withdrawn(y, as)
        /\ h.ledger = Among(b.ledger, {e \in ToSet(b.ledger) : e.mission = 1})
        /\ \A i \in DOMAIN h.issued :
              b.authorizations[h.issued[i]].revoked = (h.issued[i] \in h.revoked)
        /\ y.withdrawn # None => Undecided(y)
    <2>1. h.state = y.state /\ h.revoked = Withdrawn(y, as) /\ h.agrees
      BY <1>1, <1>2 DEF ReplayGood, Matches, BaseState
    <2> HIDE DEF h, y
    <2> QED BY <1>2, <2>1 DEF Reconciles, h, y
  <1>5. /\ y.authorizations \in Seq(Nat)
        /\ \A n \in DOMAIN y.authorizations :
              y.authorizations[n] \in Stands(y, as) => n = Len(y.authorizations)
    BY <1>1, AuthorizationsOf
  <1>6. /\ x.authorizations = y.authorizations /\ Stands(x, as) = Stands(y, as)
        /\ x.withdrawn = y.withdrawn /\ Revision(x) = Revision(y)
    BY <1>1 DEF SameBut, Stands, Revision
  <1>7. /\ IntentOf(x) # None => IntentOf(x) \in Stands(x, as)
        /\ LifeGood(x.state, x.lifecycle)
        /\ HasRun(x) => x.state \in RunStates \cup {"AUTHORIZED"}
        /\ ~HasRun(x) => x.state \notin RunStates
        /\ x.lifecycle # <<>> => HasRun(x)
    BY DEF RunGood, Shape, IsMission
  <1> HIDE DEF x, y, as, h
  <1>8. RunAgrees(d, 1, h)
    <2>1. HasRun(x) => h.state = "AUTHORIZED" /\ x.withdrawn = None
      <3>1. HasRun(x) => y.state = "AUTHORIZED"
        BY <1>1
      <3>2. y.state = "AUTHORIZED" => y.withdrawn = None
        BY <1>2 DEF StateGood
      <3> QED BY <1>4, <1>6, <3>1, <3>2
    <2>2. ASSUME IntentOf(x) # None
          PROVE  /\ h.issued # <<>> /\ IntentOf(x) = Last(h.issued)
                 /\ IntentOf(x) \notin h.revoked
      <3> DEFINE s == y.authorizations
                 a == IntentOf(x)
      <3>1. a \in Stands(y, as)
        BY <1>6, <1>7, <2>2
      <3>2. PICK n \in DOMAIN s : s[n] = a
        BY <3>1 DEF Stands, ToSet
      <3>3. n = Len(s) /\ s \in Seq(Nat)
        BY <1>5, <3>1, <3>2
      <3>4. s # <<>> /\ Last(s) = a
        BY <3>2, <3>3 DEF Last
      <3>5. a \notin Withdrawn(y, as)
        BY <3>1 DEF Stands, Withdrawn
      <3> QED BY <1>4, <3>4, <3>5
    <2> QED BY <2>1, <2>2 DEF RunAgrees, x
  <1>9. x.state = IF x.lifecycle = <<>> THEN h.state ELSE Last(x.lifecycle).to
    BY <1>1, <1>4, <1>7 DEF LifeGood
  <1>10. x.withdrawn # None => Undecided(x)
    <2>1. SUFFICES ASSUME x.withdrawn # None PROVE Undecided(x)
      OBVIOUS
    <2>2. Undecided(y) /\ y.state = "AWAITING_DECISION"
      BY <1>4, <1>6, <2>1 DEF Undecided
    <2>3. x.state = "AWAITING_DECISION"
      BY <1>1, <2>2
    <2> QED BY <1>1, <1>6, <2>2, <2>3 DEF Undecided, SameBut
  <1>11. /\ Among(d.ledger, {e \in ToSet(d.ledger) : e.mission = 1}) = h.ledger
         /\ \A i \in DOMAIN h.issued :
              d.authorizations[h.issued[i]].revoked = (h.issued[i] \in h.revoked)
    BY <1>1, <1>4 DEF as
  <1>12. Revision(x) = h.revision /\ x.authorizations = h.issued /\ h.agrees
    BY <1>4, <1>6
  <1> QED BY <1>3, <1>8, <1>9, <1>10, <1>11, <1>12 DEF Reconciles, x

\* The document every process starts from is one the core wrote.
LEMMA ProposedStores ==
    ASSUME NEW content \in Content
    PROVE  LET r == ReserveIn(EmptyDoc, "request", LocalCaller)
               p == ProposeIn(r, 1, LocalCaller, content, 2)
           IN
           /\ RegistryGood(p) /\ StoreGood(p)
           /\ p.missions = <<NewMission(1, LocalCaller, content, 2)>>
           /\ p.authorizations = <<>> /\ Len(p.reservations) = 1
  <1> DEFINE new == [kind |-> "request", context |-> LocalCaller, consumed |-> None]
             r == ReserveIn(EmptyDoc, "request", LocalCaller)
             p == ProposeIn(r, 1, LocalCaller, content, 2)
  <1>1. "request" \in {"request", "decision"} /\ LocalCaller \in Contexts /\ 1 \in Nat
        /\ 2 \in Nat
    BY DEF Contexts
  <1>2. RegistryGood(EmptyDoc) /\ StoreGood(EmptyDoc)
    BY EmptyStores
  <1>3. r = ReserveIn(EmptyDoc, "request", LocalCaller)
    OBVIOUS
  <1> HIDE DEF r
  <1>4. RegistryGood(r) /\ StoreGood(r)
    BY <1>1, <1>2, <1>3, ReserveKeeps, ReserveStores
  <1>5. /\ r.missions = <<>> /\ r.authorizations = <<>>
        /\ r.reservations = <<new>>
    <2>1. Append(<<>>, new) = <<new>>
      OBVIOUS
    <2> HIDE DEF new
    <2>2. r = [EmptyDoc EXCEPT !.reservations = Append(EmptyDoc.reservations, new)]
      BY <1>3 DEF ReserveIn, new
    <2> QED BY <2>1, <2>2 DEF EmptyDoc
  <1>6. CanPropose(r, 1, LocalCaller)
    <2>1. DOMAIN <<new>> = {1} /\ <<new>>[1] = new
      OBVIOUS
    <2>2. IsReserved(r, 1, "request", LocalCaller) /\ Unconsumed(r, 1)
      BY <1>5, <2>1 DEF IsReserved, Unconsumed
    <2>3. Len(r.missions) = 0 /\ 0 < MaxMissions
      BY <1>5, BoundsAssumption DEF Bounds
    <2> QED BY <2>2, <2>3 DEF CanPropose
  <1>7. p = ProposeIn(r, 1, LocalCaller, content, 2)
    OBVIOUS
  <1>8. /\ p.missions = Append(r.missions, NewMission(1, LocalCaller, content, 2))
        /\ p.authorizations = r.authorizations
        /\ p.reservations = [r.reservations EXCEPT ![1] =
                               [r.reservations[1] EXCEPT !.consumed = Len(r.missions) + 1]]
    <2>1. r \in Documents
      BY <1>4 DEF RegistryGood
    <2> QED BY <1>7, <2>1 DEF ProposeIn, Documents
  <1> HIDE DEF p
  <1>9. RegistryGood(p) /\ StoreGood(p)
    BY <1>1, <1>4, <1>6, <1>7, ProposeKeeps, ProposeStores
  <1>10. p.missions = <<NewMission(1, LocalCaller, content, 2)>> /\ p.authorizations = <<>>
    <2> DEFINE y == NewMission(1, LocalCaller, content, 2)
    <2> HIDE DEF y
    <2>1. Append(<<>>, y) = <<y>>
      OBVIOUS
    <2> QED BY <1>5, <1>8, <2>1 DEF y
  <1>11. Len(p.reservations) = 1
    <2> DEFINE z == [r.reservations[1] EXCEPT !.consumed = Len(r.missions) + 1]
    <2>1. p.reservations = [<<new>> EXCEPT ![1] = z]
      BY <1>5, <1>8
    <2> HIDE DEF new, z
    <2>2. [<<new>> EXCEPT ![1] = z] = <<z>>
      OBVIOUS
    <2> QED BY <2>1, <2>2
  <1> QED BY <1>9, <1>10, <1>11 DEF p, r

LEMMA ApprovedStores ==
    ASSUME NEW content \in Content, NEW by, NEW scope, NEW expires,
           \/ by = Relay /\ scope = "requested" /\ expires = 1 + AttestedValidity
           \/ by = Authenticated /\ scope = "narrower" /\ expires = None
    PROVE  LET e == Approved(content, by, scope, expires) IN RegistryGood(e) /\ StoreGood(e)
  <1> DEFINE y == NewMission(1, LocalCaller, content, 2)
             p == ProposeIn(ReserveIn(EmptyDoc, "request", LocalCaller), 1, LocalCaller,
                            content, 2)
             r == ReserveIn(p, "decision", by)
             ask == [id |-> 2, by |-> by, kind |-> "APPROVE", revision |-> 1,
                     shown |-> IF by = Relay THEN content ELSE None, content |-> None,
                     scope |-> scope, expires |-> expires]
             e == Approved(content, by, scope, expires)
  <1>1. /\ RegistryGood(p) /\ StoreGood(p) /\ p.missions = <<y>>
        /\ p.authorizations = <<>> /\ Len(p.reservations) = 1
    BY ProposedStores
  <1>2. r = ReserveIn(p, "decision", by) /\ e = DecideIn(r, 1, ask, 1)
    BY DEF Approved, Mission
  <1> HIDE DEF p, r, e, y
  <1>3. "decision" \in {"request", "decision"} /\ by \in Contexts
    BY DEF Contexts
  <1>4. /\ RegistryGood(r) /\ StoreGood(r) /\ r.missions = <<y>> /\ r.authorizations = <<>>
        /\ IdOf(r, 2, "decision", by) /\ Unconsumed(r, 2)
    <2>1. NextId(p) = 2
      BY <1>1 DEF NextId
    <2> QED BY <1>1, <1>2, <1>3, <2>1, ReserveKeeps, ReserveStores
  <1>5. AttestedValidity \in Nat \ {0} /\ 0 < MaxAuthorizations /\ 0 < MaxDecisions
    BY BoundsAssumption DEF Bounds
  <1>6. ask \in AnyAsks /\ ask.kind = "APPROVE"
    <2>1. expires \in Nat /\ scope \in Scopes
      BY <1>5 DEF Scopes, None
    <2>2. "APPROVE" \in DecisionKinds /\ 1 \in Nat /\ 2 \in Nat
      BY DEF DecisionKinds
    <2> QED BY <1>3, <2>1, <2>2 DEF AnyAsks
  <1>7. /\ y.state = "AWAITING_DECISION" /\ y.decisions = <<>> /\ y.withdrawn = None
        /\ y.proposer = LocalCaller /\ ~HasRun(y)
        /\ Revision(y) = 1 /\ Current(y) = content
    BY DEF y, NewMission, HasRun, NoRun, Revision, Current
  <1>8. r.missions[1] = y /\ 1 \in DOMAIN r.missions
    BY <1>4
  <1>9. CanDecide(r, 1, ask, 1)
    <2>1. MayCarry(by, "APPROVE")
      BY DEF MayCarry, Relay, Authenticated, LocalCaller, AttestedOutcomes
    <2>2. IsReserved(r, 2, "decision", by)
      BY <1>4 DEF IdOf
    <2>3. DecisionOpen(y)
      BY <1>7 DEF DecisionOpen, Terminal, TerminalStates
    <2>4. ask.shown # None => ask.shown = Current(y)
      BY <1>7
    <2>5. by = Relay => AttestedExactly(y, ask, 1)
      BY <1>5, <1>7 DEF AttestedExactly, Relay, Authenticated, None
    <2>6. CanApprove(r, ask, 1)
      <3>1. Len(r.authorizations) = 0
        BY <1>4
      <3> QED BY <1>5, <3>1 DEF CanApprove, None
    <2>7. MovesTo(y, ResultOf("APPROVE"))
      BY <1>7 DEF MovesTo, ResultOf, Transitions
    <2>8. Len(y.decisions) < MaxDecisions
      BY <1>5, <1>7
    <2> HIDE DEF ask
    <2>9. ask.by = by /\ ask.id = 2 /\ ask.revision = 1 /\ ask.kind = "APPROVE"
      BY DEF ask
    <2> QED BY <1>4, <1>7, <1>8, <2>1, <2>2, <2>3, <2>4, <2>5, <2>6, <2>7, <2>8, <2>9
            DEF CanDecide
  <1> HIDE DEF ask
  <1>10. ask.kind = "EDIT" => ask.content \in Content
    BY <1>6
  <1>11. RegistryGood(e)
    <2>1. Decided(r, 1, ask, e)
      BY <1>2, <1>4, <1>6, <1>8, <1>9, <1>10, DecideKeeps
    <2> QED BY <2>1 DEF Decided
  <1>12. StoreGood(e)
    BY <1>2, <1>4, <1>6, <1>8, <1>9, <1>10, DecideStores
  <1> QED BY <1>11, <1>12 DEF e

\* Without what is recorded of the run the document is one the core wrote, and the
\* intent of the run names an authorization of the mission that stands.
StoreInv ==
    /\ RegistryGood(Bare(doc)) /\ StoreGood(Bare(doc))
    /\ IntentOf(It) # None => IntentOf(It) \in Stands(It, doc.authorizations)

LEMMA InitStored == ASSUME Init PROVE StoreInv
  <1>1. PICK content \in Content :
          doc \in {Approved(content, Relay, "requested", 1 + AttestedValidity),
                   Approved(content, Authenticated, "narrower", None)}
    BY DEF Init
  <1>2. RegistryGood(doc) /\ StoreGood(doc)
    BY <1>1, ApprovedStores
  <1>3. /\ 1 + AttestedValidity \in Nat /\ None \in Nat
        /\ "requested" \in Scopes /\ "narrower" \in Scopes
    BY BoundsAssumption DEF Bounds, None, Scopes
  <1>4. Shape(doc) /\ ~HasRun(doc.missions[1])
    BY <1>1, <1>3, ApprovedIs
  <1>5. Bare(doc) = doc
    BY <1>4, BareSame
  <1>6. IntentOf(It) = None
    BY <1>4 DEF IntentOf, It, Mission
  <1> QED BY <1>2, <1>5, <1>6 DEF StoreInv

\* A step of the run leaves the rest of the document, and what stands.
LEMMA RunStored ==
    ASSUME Inv, StoreInv, Shape(doc'), RunWritten PROVE StoreInv'
  <1>1. Shape(doc)
    BY DEF Inv, TypeGood
  <1>2. Bare(doc') = Bare(doc)
    <2>1. RunOnly(doc, doc')
      BY DEF RunWritten
    <2> QED BY <1>1, <2>1, BareKept
  <1>3. /\ doc'.authorizations = doc.authorizations
        /\ It'.authorizations = It.authorizations
    <2> DEFINE x == doc.missions[1]
               y == doc'.missions[1]
               z == [x EXCEPT !.run = y.run, !.state = y.state, !.lifecycle = y.lifecycle]
               ms == [doc.missions EXCEPT ![1] = z]
    <2>1. CASE doc' = doc
      BY <2>1 DEF It, Mission
    <2>2. CASE doc' # doc
      <3>1. doc' = [doc EXCEPT !.missions = ms]
        BY <2>2 DEF RunWritten, RunOnly
      <3>2. z.authorizations = x.authorizations /\ ms[1] = z
        BY <1>1 DEF Shape, IsMission
      <3> HIDE DEF ms
      <3>3. doc'.authorizations = doc.authorizations /\ doc'.missions = ms
        BY <1>1, <3>1 DEF Shape
      <3> QED BY <3>2, <3>3 DEF It, Mission
    <2> QED BY <2>1, <2>2
  <1>4. Stands(It', doc'.authorizations) = Stands(It, doc.authorizations)
    BY <1>3 DEF Stands
  <1>5. IntentOf(It') # None => IntentOf(It') \in Stands(It', doc'.authorizations)
    <2>1. CASE IntentOf(It') = IntentOf(It)
      BY <1>4, <2>1 DEF StoreInv
    <2>2. CASE IntentOf(It') \in Stands(It, doc.authorizations)
      BY <1>4, <2>2
    <2> QED BY <2>1, <2>2 DEF RunWritten
  <1>6. RegistryGood(Bare(doc)) /\ StoreGood(Bare(doc))
    BY DEF StoreInv
  <1> DEFINE b == Bare(doc)
             e == Bare(doc')
  <1>7. RegistryGood(e) /\ StoreGood(e)
    BY <1>2, <1>6, Zenon
  <1> QED BY <1>5, <1>7 DEF StoreInv

\* A decision is made of a document that holds no run, as the core makes it.
LEMMA RedecidesStored == ASSUME Inv, StoreInv, Redecides PROVE StoreInv'
  <1>1. PICK kind \in {"EDIT", "APPROVE"}, content \in Content :
          LET reserved == ReserveIn(doc, "decision", Authenticated)
              ask == [id |-> NextId(doc), by |-> Authenticated, kind |-> kind,
                      revision |-> Revision(It), shown |-> None, content |-> content,
                      scope |-> "requested", expires |-> None]
          IN
          /\ CanReserve(doc, "decision", Authenticated)
          /\ CanDecideAndSave(reserved, Mission, ask, now)
          /\ doc' = DecideIn(reserved, Mission, ask, now)
          /\ UNCHANGED <<now, proc, holder, worktree, child, spawns, proof, rested, faults>>
    BY DEF Redecides
  <1> DEFINE reserved == ReserveIn(doc, "decision", Authenticated)
             ask == [id |-> NextId(doc), by |-> Authenticated, kind |-> kind,
                     revision |-> Revision(It), shown |-> None, content |-> content,
                     scope |-> "requested", expires |-> None]
  <1>2. CanDecide(reserved, 1, ask, now) /\ doc' = DecideIn(reserved, 1, ask, now)
    BY <1>1 DEF CanDecideAndSave, Mission
  <1>3. Shape(doc) /\ now \in Nat
    BY DEF Inv, TypeGood
  <1>4. Shape(reserved) /\ reserved.missions = doc.missions /\ NextId(doc) \in Nat
    BY <1>3, ReservedIs DEF Contexts
  <1>5. Revision(It) \in Nat
    BY <1>3, CurrentIs DEF Shape, It, Mission
  <1>6. ask \in Ask /\ ask \in AnyAsks /\ ask.content \in Content
    BY <1>4, <1>5 DEF Ask, AnyAsks, DecisionKinds, Contexts, Scopes, None
  <1>7. reserved = ReserveIn(doc, "decision", Authenticated)
    OBVIOUS
  <1> HIDE DEF reserved, ask
  <1>8. ~HasRun(doc.missions[1]) /\ ~HasRun(reserved.missions[1])
    BY <1>2, <1>4 DEF CanDecide, DecisionOpen
  <1>9. RegistryGood(doc) /\ StoreGood(doc)
    BY <1>3, <1>8, BareSame DEF StoreInv
  <1>10. "decision" \in {"request", "decision"} /\ Authenticated \in Contexts
    BY DEF Contexts
  <1>11. RegistryGood(reserved) /\ StoreGood(reserved)
    BY <1>7, <1>9, <1>10, ReserveKeeps, ReserveStores
  <1>12. 1 \in DOMAIN reserved.missions
    BY <1>4 DEF Shape
  <1>13. RegistryGood(doc') /\ StoreGood(doc')
    <2>1. Decided(reserved, 1, ask, doc')
      BY <1>2, <1>3, <1>6, <1>11, <1>12, DecideKeeps
    <2>2. StoreGood(doc')
      BY <1>2, <1>3, <1>6, <1>11, <1>12, DecideStores
    <2> QED BY <2>1, <2>2 DEF Decided
  <1>14. Shape(doc') /\ ~HasRun(doc'.missions[1])
    BY <1>2, <1>3, <1>4, <1>6, <1>8, DecidedIs
  <1>15. Bare(doc') = doc'
    BY <1>14, BareSame
  <1>16. IntentOf(It') = None
    BY <1>14 DEF IntentOf, It, Mission
  <1> QED BY <1>13, <1>15, <1>16 DEF StoreInv

LEMMA StoreInvAccepts ==
    ASSUME Inv, QuietInv, StoreInv PROVE RunAccepted
  <1>1. Shape(doc) /\ IsMission(It)
    BY DEF Inv, TypeGood, Shape, It, Mission
  <1>2. BareOf(doc, Bare(doc))
    BY <1>1, BareIs
  <1>3. RegistryGood(Bare(doc)) /\ StoreGood(Bare(doc))
    BY DEF StoreInv
  <1>4. IdsAgree(doc)
    BY <1>2, <1>3, Identified, BareIds DEF StoreGood
  <1>5. Reconciles(doc, 1)
    <2>1. RunGood(doc.missions[1])
      BY DEF QuietInv, It, Mission
    <2>2. LET a == IntentOf(doc.missions[1]) IN
          a # None => a \in Stands(doc.missions[1], doc.authorizations)
      BY DEF StoreInv, It, Mission
    <2> QED BY <1>1, <1>2, <1>3, <2>1, <2>2, BareReconciled
  <1>6. LifecycleValid(It) /\ RunValid(It) /\ CancelValid(It)
    BY <1>1, RunAcceptable DEF QuietInv
  <1> QED BY <1>4, <1>5, <1>6 DEF RunAccepted, Accepted, It, Mission

\* Every document the bridge, the child's owner and the decisions leave behind is
\* one the next process that loads it accepts, whatever of its run is recorded and
\* wherever a process has stopped: _validate_document of mission/store.py.
THEOREM RunIsAccepted == Spec => []RunAccepted
  <1>1. Init => StoreInv
    BY InitStored
  <1>2. Inv /\ QuietInv /\ StoreInv /\ [Next]_vars => StoreInv'
    <2>1. SUFFICES ASSUME Inv, QuietInv, StoreInv, [Next]_vars PROVE StoreInv'
      OBVIOUS
    <2>2. Calm /\ Inv'
      BY <2>1, StepCalm, StepKept DEF Kept
    <2>3. Shape(doc')
      BY <2>2 DEF Inv, TypeGood
    <2> QED BY <2>1, <2>2, <2>3, RunStored, RedecidesStored DEF Calm
  <1>3. Inv /\ QuietInv /\ StoreInv => RunAccepted
    BY StoreInvAccepts
  <1> QED BY QuietInvariance, <1>1, <1>2, <1>3, PTL DEF Spec
=============================================================================
