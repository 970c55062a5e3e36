------------------------ MODULE TargetSystem_proofs ------------------------
(***************************************************************************)
(* What holds of one workflow between the runtime and the adapter for all  *)
(* bounds of turns, receipts, follow-ups and capabilities, and any number  *)
(* of crashes, faults and outside changes.                                 *)
(*                                                                         *)
(* Neither process knows where the other is.  The proof says of each what  *)
(* its own control point guarantees of the record, and lets a frame lemma  *)
(* say what the other may do to the record meanwhile: the adapter touches  *)
(* the placeholder, the delivery and a plan's decision, the runtime all    *)
(* the rest.  The store lock keeps the two apart inside a broker action.   *)
(***************************************************************************)
EXTENDS TargetSystem, TLAPS

-----------------------------------------------------------------------------
(* The invariant *)

\* A capability is in hand only on the way to its action, and a live one is
\* among those the store counts.
TokenGood ==
    /\ token # "none" => pc = "consume"
    /\ token = "live" => live[Kind(act)] >= 1
    /\ live["forward"] + live["cleanup"]
         <= crashes + (IF token = "live" THEN 1 ELSE 0)

\* Control points at which an action holds the store lock.
InAction == {"act", "trust", "spawn", "record", "bind", "gates", "close",
             "remove"}

\* Those of a launch after its marker, and those of a release past the point
\* where the evidence was preserved.
Launching == {"spawn", "record", "bind"}
Releasing == {"close", "remove"}

ControlGood ==
    /\ lock = "held" <=> pc \in InAction
    /\ pc \in InAction \cup {"mint", "consume"} => act \in Actions
    /\ pc = "act" => wf.phase \in RequiredPhase(act)
    /\ pc = "trust" => act = "materialize" /\ wf.phase = "AUTHORIZED"
    /\ pc \in Launching =>
         act \in {"dispatch", "follow_up"} /\ wf.phase = "DISPATCHED"
    /\ pc = "gates" => act = "verify" /\ wf.phase = "DISPATCHED"
    /\ pc \in Releasing => act = "release" /\ wf.phase \in Terminal

Undispatched == {"PLANNED", "AUTHORIZED", "WORKSPACE_READY", "PREPARED",
                 "VALIDATED"}
Dispatched == {"DISPATCHED", "VERIFIED", "COMPLETED"}

\* What the record says of the dispatch, its target and its result.
DispatchGood ==
    /\ wf.phase \in Undispatched => wf.dispatches = 0 /\ wf.engine = "none"
    /\ wf.phase \in Dispatched => wf.dispatches >= 1
    /\ wf.dispatches >= 1 => wf.placeholder \in {"none", "bound"}
    /\ SpawnsWithinReceipts
    /\ VerifiedOnlyResolved
    /\ pc = "spawn" => spawns < wf.dispatches

\* What the world holds for it.
TargetGood ==
    /\ BoundIsReal
    /\ childRecord # "none" => spawns > 0
    /\ pc \in {"record", "bind"} => spawns > 0
    /\ pc \in {"spawn", "record"} /\ act = "dispatch" => wf.engine = "none"
    /\ pc = "gates" \/ (pc \in {"mint", "consume", "act"} /\ act = "verify") =>
         wf.engine = "bound"
    /\ pc \in Releasing /\ dir /\ spawns > 0 => archived

\* Where the adapter is, what it was told, and what the chat holds.
LaneGood ==
    /\ wf.phase = "PLANNED" => wf.placeholder = "none" /\ messages = 0
    /\ wf.placeholder \in {"required", "failed_unsent"} => messages = 0
    /\ lane = "send" => wf.placeholder = "sending" /\ messages = 0
    /\ lane = "record" => wf.placeholder = "sending"
    /\ lane = "record" /\ answer = "zero" => messages = 0
    /\ lane \in {"legacy", "mark"} =>
         wf.placeholder = "none" /\ wf.phase = "COMPLETED"
    /\ lane = "settle" /\ answer = "applied" => shown
    /\ OneResultObject
    /\ DeliveredWasShown

IInv ==
    /\ TypeOK
    /\ TokenGood
    /\ ControlGood
    /\ DispatchGood
    /\ TargetGood
    /\ LaneGood

-----------------------------------------------------------------------------
(* The changes to the record *)

\* A record moved to a phase of the table is a record.
LEMMA MovedTyped ==
    ASSUME NEW r \in Record, NEW phase \in Phases
    PROVE  Moved(r, phase) \in Record
  BY DEF Record, Moved

\* A record with one more turn or with more receipts is a record.
LEMMA CountedTyped ==
    ASSUME NEW r \in Record, NEW n \in Nat
    PROVE  WithReceipts(r, n) \in Record /\ WithTurn(r) \in Record
  BY DEF Record, WithReceipts, WithTurn

\* A record with any one of its fields set to a value of its type is a record.
LEMMA FieldTyped ==
    ASSUME NEW r \in Record
    PROVE  /\ \A v \in Freshness : [r EXCEPT !.request = v] \in Record
           /\ \A v \in Freshness : [r EXCEPT !.recovery = v] \in Record
           /\ \A v \in ReadinessStates : [r EXCEPT !.readiness = v] \in Record
           /\ \A v \in {"none", "unknown", "bound"} : [r EXCEPT !.engine = v] \in Record
           /\ \A v \in {"none", "held", "released"} : [r EXCEPT !.lease = v] \in Record
           /\ \A v \in {"none", "fits", "oversize"} : [r EXCEPT !.verified = v] \in Record
           /\ \A v \in PlaceholderStates : [r EXCEPT !.placeholder = v] \in Record
           /\ \A v \in DeliveryStates : [r EXCEPT !.delivery = v] \in Record
           /\ [r EXCEPT !.dispatches = @ + 1] \in Record
           /\ [r EXCEPT !.ambiguous = TRUE, !.phase = "BLOCKED"] \in Record
  <1>1. \A v \in Freshness : [r EXCEPT !.request = v] \in Record /\ [r EXCEPT !.recovery = v] \in Record
    BY DEF Record
  <1>2. \A v \in ReadinessStates : [r EXCEPT !.readiness = v] \in Record
    BY DEF Record
  <1>3. \A v \in {"none", "unknown", "bound"} : [r EXCEPT !.engine = v] \in Record
    BY DEF Record
  <1>4. /\ \A v \in {"none", "held", "released"} : [r EXCEPT !.lease = v] \in Record
        /\ \A v \in {"none", "fits", "oversize"} : [r EXCEPT !.verified = v] \in Record
    BY DEF Record
  <1>5. /\ \A v \in PlaceholderStates : [r EXCEPT !.placeholder = v] \in Record
        /\ \A v \in DeliveryStates : [r EXCEPT !.delivery = v] \in Record
    BY DEF Record
  <1>6. [r EXCEPT !.dispatches = @ + 1] \in Record
    BY DEF Record
  <1>7. [r EXCEPT !.ambiguous = TRUE, !.phase = "BLOCKED"] \in Record
    BY DEF Record, Phases
  <1> QED
    BY <1>1, <1>2, <1>3, <1>4, <1>5, <1>6, <1>7

\* A save writes the working copy, or stops the record it finds.
LEMMA SavedTyped ==
    ASSUME wf \in Record, NEW r \in Record
    PROVE  Persisted(r) \in Record
  BY MovedTyped DEF Persisted, Phases

-----------------------------------------------------------------------------
(* Types *)

\* A step of the runtime keeps the types of its own state, of the lock and of the
\* budget; the record is the next lemma's.
LEMMA RuntimeTyped ==
    ASSUME TypeOK, TokenGood, RuntimeNext
    PROVE  /\ RuntimeTypeOK'
           /\ lock' \in {"free", "held"}
           /\ budget' \in Nat
  <1>1. CASE StartPass
    BY <1>1
      DEF TypeOK, RuntimeTypeOK, Pcs, Actions, StartPass, Go, world, Kinds
  <1>2. CASE Cleanup
    BY <1>2 DEF TypeOK, RuntimeTypeOK, Pcs, Actions, Cleanup, Go, world
  <1>3. CASE RequestTurn
    BY <1>3
      DEF TypeOK, RuntimeTypeOK, Pcs, Actions, RequestTurn, Go, FirstAction,
          world
  <1>4. CASE ProposedStop
    BY <1>4
      DEF TypeOK, RuntimeTypeOK, Pcs, Actions, ProposedStop, ApplyStop, Go,
          world
  <1>5. CASE StandingRequest
    BY <1>5
      DEF TypeOK, RuntimeTypeOK, Pcs, Actions, StandingRequest, Go, world
  <1>6. CASE Advance
    BY <1>6 DEF TypeOK, RuntimeTypeOK, Pcs, Actions, Advance, Go, world
  <1>7. CASE Recover
    BY <1>7 DEF TypeOK, RuntimeTypeOK, Pcs, Actions, Recover, Go, world
  <1>8. CASE RecoveryStop
    BY <1>8
      DEF TypeOK, RuntimeTypeOK, Pcs, Actions, RecoveryStop, ApplyStop, Go,
          world
  <1>9. CASE Mint
    BY <1>9
      DEF TypeOK, RuntimeTypeOK, Pcs, Actions, Mint, Go, AfterRefusal, Kind,
          world, Kinds
  <1>10. CASE Consume
    BY <1>10
      DEF TypeOK, RuntimeTypeOK, Pcs, Actions, Consume, Kind, world,
          AfterRefusal, Kinds, TokenGood
  <1>11. CASE ConsumeExpired
    BY <1>11
      DEF TypeOK, RuntimeTypeOK, Pcs, Actions, ConsumeExpired, AfterRefusal,
          world
  <1>12. CASE Materialize
    <2>1. dir' \in BOOLEAN
      BY <1>12 DEF TypeOK, RuntimeTypeOK, Materialize
    <2>2. /\ pc' \in Pcs /\ act' \in Actions \cup {"none"}
          /\ token' \in {"none", "live", "expired"} /\ growth' \in Nat
          /\ snapshot' \in {"none", "owned"} /\ lock' \in {"free", "held"}
      BY <1>12
        DEF TypeOK, RuntimeTypeOK, Pcs, Actions, Materialize, SaveReturn,
            AfterRefusal, Within, Return
    <2>3. UNCHANGED <<budget, live, crashes, child, session, childRecord, archived, spawns, policy>>
      BY <1>12 DEF Materialize, Quiet
    <2> QED
      BY <2>1, <2>2, <2>3 DEF TypeOK, RuntimeTypeOK
  <1>13. CASE Trust
    BY <1>13
      DEF TypeOK, RuntimeTypeOK, Pcs, Actions, Trust, SaveReturn, Disturb,
          world, Quiet, Return
  <1>14. CASE Prepare
    BY <1>14
      DEF TypeOK, RuntimeTypeOK, Pcs, Actions, Prepare, SaveReturn, world,
          Quiet, Return
  <1>15. CASE ValidateHandoff
    BY <1>15
      DEF TypeOK, RuntimeTypeOK, Pcs, Actions, ValidateHandoff, SaveReturn,
          world, Quiet, Return
  <1>16. CASE Dispatch
    BY <1>16
      DEF TypeOK, RuntimeTypeOK, Pcs, Actions, Dispatch, SaveReturn, Refuse,
          world, Quiet, Return, AfterRefusal
  <1>17. CASE Launch
    BY <1>17
      DEF TypeOK, RuntimeTypeOK, Pcs, Actions, Launch, Within, Quiet, Record
  <1>18. CASE RecordLaunch
    BY <1>18
      DEF TypeOK, RuntimeTypeOK, Pcs, Actions, RecordLaunch, Disturb, Within,
          Quiet
  <1>19. CASE LaunchRaises
    BY <1>19
      DEF TypeOK, RuntimeTypeOK, Pcs, Actions, LaunchRaises, Disturb,
          SaveReturn, world, Quiet, Return
  <1>20. CASE Bind
    BY <1>20
      DEF TypeOK, RuntimeTypeOK, Pcs, Actions, Bind, SaveReturn, Return,
          world, Quiet
  <1>21. CASE VerifyWaits
    BY <1>21
      DEF TypeOK, RuntimeTypeOK, Pcs, Actions, VerifyWaits, Disturb, Return,
          SaveReturn, world, Quiet
  <1>22. CASE VerifyStopped
    BY <1>22
      DEF TypeOK, RuntimeTypeOK, Pcs, Actions, VerifyStopped,
          VerificationBlock, Within, SaveReturn, world, Quiet, Return
  <1>23. CASE Gates
    BY <1>23
      DEF TypeOK, RuntimeTypeOK, Pcs, Actions, Gates, SaveReturn, Disturb,
          VerificationBlock, world, Quiet, Return
  <1>24. CASE Complete
    BY <1>24
      DEF TypeOK, RuntimeTypeOK, Pcs, Actions, Complete, SaveReturn, world,
          Quiet, Return
  <1>25. CASE Reconcile
    BY <1>25
      DEF TypeOK, RuntimeTypeOK, Pcs, Actions, Reconcile, SaveReturn, world,
          Quiet, Return
  <1>26. CASE Release
    BY <1>26
      DEF TypeOK, RuntimeTypeOK, Pcs, Actions, Release, Proof, Return, Quiet
  <1>27. CASE Close
    BY <1>27
      DEF TypeOK, RuntimeTypeOK, Pcs, Actions, Close, Within, Released, Quiet,
          SaveReturn, Return
  <1>28. CASE Remove
    <2>1. dir' \in BOOLEAN
      BY <1>28 DEF TypeOK, RuntimeTypeOK, Remove
    <2>2. /\ pc' \in Pcs /\ act' \in Actions \cup {"none"}
          /\ token' \in {"none", "live", "expired"} /\ growth' \in Nat
          /\ snapshot' \in {"none", "owned"} /\ lock' \in {"free", "held"}
      BY <1>28
        DEF TypeOK, RuntimeTypeOK, Pcs, Actions, Remove, Released, SaveReturn,
            Within, Return
    <2>3. UNCHANGED <<budget, live, crashes, child, session, childRecord, archived, spawns, policy>>
      BY <1>28 DEF Remove, Quiet
    <2> QED
      BY <2>1, <2>2, <2>3 DEF TypeOK, RuntimeTypeOK
  <1>29. CASE TurnFails
    BY <1>29
      DEF TypeOK, RuntimeTypeOK, Pcs, Actions, TurnFails, Disturb, Go, world
  <1>30. CASE ConsumeBlind
    BY <1>30
      DEF TypeOK, RuntimeTypeOK, Pcs, Actions, ConsumeBlind, Disturb, Kind,
          AfterRefusal, world, Kinds, TokenGood
  <1>31. CASE CheckFails
    BY <1>31
      DEF TypeOK, RuntimeTypeOK, Pcs, Actions, CheckFails, Refusable, Disturb,
          Refuse, world, Quiet, Return, AfterRefusal
  <1>32. CASE DispatchUntrusted
    BY <1>32
      DEF TypeOK, RuntimeTypeOK, Pcs, Actions, DispatchUntrusted, Disturb,
          SaveReturn, world, Quiet, Return
  <1>33. CASE VerifyBroken
    BY <1>33
      DEF TypeOK, RuntimeTypeOK, Pcs, Actions, VerifyBroken, Disturb,
          VerificationBlock, world, Quiet, SaveReturn, Return
  <1>34. CASE ReconcileDegraded
    BY <1>34
      DEF TypeOK, RuntimeTypeOK, Pcs, Actions, ReconcileDegraded, Disturb,
          SaveReturn, world, Quiet, Return
  <1>35. CASE ReleaseTrustKept
    BY <1>35
      DEF TypeOK, RuntimeTypeOK, Pcs, Actions, ReleaseTrustKept, Disturb,
          Proof, SaveReturn, Quiet, Return
  <1>36. CASE CloseBlind
    BY <1>36
      DEF TypeOK, RuntimeTypeOK, Pcs, Actions, CloseBlind, Disturb, Released,
          world, Quiet, SaveReturn, Return
  <1>37. CASE Crash
    BY <1>37 DEF TypeOK, RuntimeTypeOK, Pcs, Actions, Crash, Disturb, world
  <1>38. CASE TargetStops
    BY <1>38 DEF TypeOK, RuntimeTypeOK, Pcs, Actions, TargetStops, control
  <1>39. CASE TargetResumes
    BY <1>39
      DEF TypeOK, RuntimeTypeOK, Pcs, Actions, TargetResumes, Disturb, control
  <1>40. CASE SessionEnds
    BY <1>40
      DEF TypeOK, RuntimeTypeOK, Pcs, Actions, SessionEnds, Disturb, control
  <1>41. CASE PolicyMoves
    BY <1>41
      DEF TypeOK, RuntimeTypeOK, Pcs, Actions, PolicyMoves, Disturb, control
  <1>42. CASE RequestAges
    BY <1>42
      DEF TypeOK, RuntimeTypeOK, Pcs, Actions, RequestAges, rtVars, control,
          world
  <1>43. CASE CapabilityExpires
    BY <1>43
      DEF TypeOK, RuntimeTypeOK, Pcs, Actions, CapabilityExpires, Kinds, Kind,
          world, TokenGood
  <1> QED
    BY <1>1, <1>2, <1>3, <1>4, <1>5, <1>6, <1>7, <1>8, <1>9, <1>10, <1>11,
       <1>12, <1>13, <1>14, <1>15, <1>16, <1>17, <1>18, <1>19, <1>20, <1>21,
       <1>22, <1>23, <1>24, <1>25, <1>26, <1>27, <1>28, <1>29, <1>30, <1>31,
       <1>32, <1>33, <1>34, <1>35, <1>36, <1>37, <1>38, <1>39, <1>40, <1>41,
       <1>42, <1>43
      DEF RuntimeNext, RuntimeStep, RuntimeFault, Surroundings

\* Every save of the runtime and its broker writes a record.
LEMMA RuntimeRecordTyped ==
    ASSUME TypeOK, RuntimeNext
    PROVE  wf' \in Record
  <1>1. CASE StartPass
    BY <1>1 DEF TypeOK, StartPass, Go, Terminal
  <1>2. CASE Cleanup
    BY <1>2 DEF TypeOK, Cleanup, Terminal, Go
  <1>3. CASE RequestTurn
    BY <1>3, MovedTyped, CountedTyped, FieldTyped, SavedTyped
      DEF TypeOK, RequestTurn, TurnAppended, Go, Phases, Freshness
  <1>4. CASE ProposedStop
    BY <1>4, MovedTyped, CountedTyped, FieldTyped, SavedTyped
      DEF TypeOK, ProposedStop, ApplyStop, Go, Phases
  <1>5. CASE StandingRequest
    BY <1>5 DEF TypeOK, StandingRequest, Go
  <1>6. CASE Advance
    BY <1>6 DEF TypeOK, Advance, Go
  <1>7. CASE Recover
    BY <1>7, MovedTyped, CountedTyped, FieldTyped, SavedTyped
      DEF TypeOK, Recover, Go, Phases, Freshness
  <1>8. CASE RecoveryStop
    BY <1>8, MovedTyped, CountedTyped, FieldTyped, SavedTyped
      DEF TypeOK, RecoveryStop, ApplyStop, Go, Phases
  <1>9. CASE Mint
    BY <1>9 DEF TypeOK, Mint, Go
  <1>10. CASE Consume
    BY <1>10 DEF TypeOK, Consume
  <1>11. CASE ConsumeExpired
    BY <1>11 DEF TypeOK, ConsumeExpired
  <1>12. CASE Materialize
    BY <1>12, MovedTyped, CountedTyped, FieldTyped, SavedTyped
      DEF TypeOK, Materialize, SaveReturn, Within, Return, Phases
  <1>13. CASE Trust
    BY <1>13, MovedTyped, CountedTyped, FieldTyped, SavedTyped
      DEF TypeOK, Trust, SaveReturn, Return, Phases
  <1>14. CASE Prepare
    BY <1>14, MovedTyped, CountedTyped, FieldTyped, SavedTyped
      DEF TypeOK, Prepare, SaveReturn, Return, Phases
  <1>15. CASE ValidateHandoff
    BY <1>15, MovedTyped, CountedTyped, FieldTyped, SavedTyped
      DEF TypeOK, ValidateHandoff, SaveReturn, Return, Phases, Freshness
  <1>16. CASE Dispatch
    BY <1>16, MovedTyped, CountedTyped, FieldTyped, SavedTyped
      DEF TypeOK, Dispatch, SaveReturn, Refuse, Marked, Return, Phases
  <1>17. CASE Launch
    BY <1>17 DEF TypeOK, Launch, Within
  <1>18. CASE RecordLaunch
    BY <1>18 DEF TypeOK, RecordLaunch, Within
  <1>19. CASE LaunchRaises
    BY <1>19, MovedTyped, CountedTyped, FieldTyped, SavedTyped
      DEF TypeOK, LaunchRaises, SaveReturn, Return, Phases
  <1>20. CASE Bind
    BY <1>20, MovedTyped, CountedTyped, FieldTyped, SavedTyped
      DEF TypeOK, Bind, SaveReturn, Return, Phases
  <1>21. CASE VerifyWaits
    BY <1>21, MovedTyped, CountedTyped, FieldTyped, SavedTyped
      DEF TypeOK, VerifyWaits, Return, SaveReturn, Noted, ReadinessStates,
          Phases
  <1>22. CASE VerifyStopped
    BY <1>22, MovedTyped, CountedTyped, FieldTyped, SavedTyped
      DEF TypeOK, VerifyStopped, VerificationBlock, Within, SaveReturn,
          Return, Phases
  <1>23. CASE Gates
    BY <1>23, MovedTyped, CountedTyped, FieldTyped, SavedTyped
      DEF TypeOK, Gates, SaveReturn, VerificationBlock, Return, Phases
  <1>24. CASE Complete
    BY <1>24, MovedTyped, CountedTyped, FieldTyped, SavedTyped
      DEF TypeOK, Complete, SaveReturn, Return, Phases
  <1>25. CASE Reconcile
    BY <1>25, MovedTyped, CountedTyped, FieldTyped, SavedTyped
      DEF TypeOK, Reconcile, SaveReturn, Return, Phases
  <1>26. CASE Release
    BY <1>26, MovedTyped, CountedTyped, FieldTyped, SavedTyped
      DEF TypeOK, Release, Return, Phases
  <1>27. CASE Close
    <2>1. growth + 1 \in Nat
      BY DEF TypeOK, RuntimeTypeOK
    <2> QED
      BY <1>27, <2>1, MovedTyped, CountedTyped, FieldTyped, SavedTyped
        DEF TypeOK, Close, Within, Released, SaveReturn
  <1>28. CASE Remove
    <2>1. growth + 1 \in Nat /\ wf \in Record
      BY DEF TypeOK, RuntimeTypeOK
    <2>2. WithReceipts([wf EXCEPT !.lease = "released"], growth + 1) \in Record
      BY <2>1, CountedTyped, FieldTyped
    <2> QED
      BY <1>28, <2>1, <2>2, SavedTyped DEF Remove, Within, Released, SaveReturn
  <1>29. CASE TurnFails
    BY <1>29 DEF TypeOK, TurnFails, Go
  <1>30. CASE ConsumeBlind
    BY <1>30 DEF TypeOK, ConsumeBlind
  <1>31. CASE CheckFails
    BY <1>31 DEF TypeOK, CheckFails, Refusable, Refuse, Return
  <1>32. CASE DispatchUntrusted
    BY <1>32, MovedTyped, CountedTyped, FieldTyped, SavedTyped
      DEF TypeOK, DispatchUntrusted, SaveReturn, Return, Phases
  <1>33. CASE VerifyBroken
    BY <1>33, MovedTyped, CountedTyped, FieldTyped, SavedTyped
      DEF TypeOK, VerifyBroken, VerificationBlock, SaveReturn, Return, Phases
  <1>34. CASE ReconcileDegraded
    BY <1>34, MovedTyped, CountedTyped, FieldTyped, SavedTyped
      DEF TypeOK, ReconcileDegraded, SaveReturn, Return, Phases
  <1>35. CASE ReleaseTrustKept
    BY <1>35, MovedTyped, CountedTyped, FieldTyped, SavedTyped
      DEF TypeOK, ReleaseTrustKept, SaveReturn, Return, Phases
  <1>36. CASE CloseBlind
    <2>1. growth + 1 \in Nat
      BY DEF TypeOK, RuntimeTypeOK
    <2> QED
      BY <1>36, <2>1, MovedTyped, CountedTyped, FieldTyped, SavedTyped
        DEF TypeOK, CloseBlind, Released, SaveReturn
  <1>37. CASE Crash
    BY <1>37 DEF TypeOK, Crash
  <1>38. CASE TargetStops
    BY <1>38 DEF TypeOK, TargetStops, control
  <1>39. CASE TargetResumes
    BY <1>39 DEF TypeOK, TargetResumes, control
  <1>40. CASE SessionEnds
    BY <1>40 DEF TypeOK, SessionEnds, control
  <1>41. CASE PolicyMoves
    BY <1>41 DEF TypeOK, PolicyMoves, control
  <1>42. CASE RequestAges
    BY <1>42, MovedTyped, CountedTyped, FieldTyped, SavedTyped
      DEF TypeOK, RequestAges, rtVars, control, Phases, Freshness
  <1>43. CASE CapabilityExpires
    BY <1>43 DEF TypeOK, CapabilityExpires, Kinds
  <1> QED
    BY <1>1, <1>2, <1>3, <1>4, <1>5, <1>6, <1>7, <1>8, <1>9, <1>10, <1>11,
       <1>12, <1>13, <1>14, <1>15, <1>16, <1>17, <1>18, <1>19, <1>20, <1>21,
       <1>22, <1>23, <1>24, <1>25, <1>26, <1>27, <1>28, <1>29, <1>30, <1>31,
       <1>32, <1>33, <1>34, <1>35, <1>36, <1>37, <1>38, <1>39, <1>40, <1>41,
       <1>42, <1>43
      DEF RuntimeNext, RuntimeStep, RuntimeFault, Surroundings

\* The phase of the record at the control points inside an action.
PhaseAtPoint ==
    /\ At("materialize") \/ pc = "trust" => wf.phase = "AUTHORIZED"
    /\ At("prepare") => wf.phase = "WORKSPACE_READY"
    /\ At("validate_handoff") => wf.phase = "PREPARED"
    /\ At("dispatch") => wf.phase = "VALIDATED"
    /\ At("complete") => wf.phase = "VERIFIED"
    /\ At("verify") \/ At("follow_up") \/ At("reconcile") => wf.phase = "DISPATCHED"
    /\ pc \in Launching \cup {"gates"} => wf.phase = "DISPATCHED"
    /\ At("release") \/ pc \in Releasing => wf.phase \in Terminal

\* What the control point says of the phase (the gate's phase check, kept under
\* the store lock), action by action.
LEMMA PhaseKnown ==
    ASSUME ControlGood
    PROVE  PhaseAtPoint
  BY DEF ControlGood, PhaseAtPoint, At, RequiredPhase, Launching, Releasing,
         Terminal

-----------------------------------------------------------------------------
(* What each process may do to the other's part of the record *)

\* A runtime step leaves the placeholder, the delivery and a plan alone, and
\* moves the phase along the table.
RuntimeKeeps ==
    /\ wf'.placeholder = wf.placeholder /\ wf'.delivery = wf.delivery
    /\ wf.phase = "PLANNED" => wf'.phase = "PLANNED"
    /\ wf'.phase # wf.phase => <<wf.phase, wf'.phase>> \in AllowedTransitions

\* A step of the runtime leaves the placeholder and the delivery alone, decides no
\* plan, and moves the phase only along the table.
LEMMA RuntimeStepKeeps ==
    ASSUME TypeOK, PhaseAtPoint, RuntimeNext
    PROVE  RuntimeKeeps
  <1>1. CASE StartPass
    BY <1>1 DEF RuntimeKeeps, StartPass, Go
  <1>2. CASE Cleanup
    BY <1>2 DEF RuntimeKeeps, Cleanup, Go
  <1>3. CASE RequestTurn
    BY <1>3
      DEF TypeOK, Record, PhaseAtPoint, RuntimeKeeps, RequestTurn, TurnDue,
          TurnAppended, Go, WithTurn, AllowedTransitions, Forward, Phases,
          Terminal
  <1>4. CASE ProposedStop
    BY <1>4
      DEF TypeOK, Record, PhaseAtPoint, RuntimeKeeps, ProposedStop, TurnDue,
          ApplyStop, WithTurn, Moved, Go, AllowedTransitions, Forward, Phases,
          Terminal
  <1>5. CASE StandingRequest
    BY <1>5 DEF RuntimeKeeps, StandingRequest, Go
  <1>6. CASE Advance
    BY <1>6 DEF RuntimeKeeps, Advance, Go
  <1>7. CASE Recover
    BY <1>7
      DEF TypeOK, Record, PhaseAtPoint, RuntimeKeeps, Recover, Unresolved, Go,
          Moved, WithTurn, AllowedTransitions, Forward, Phases, Terminal
  <1>8. CASE RecoveryStop
    BY <1>8
      DEF TypeOK, Record, PhaseAtPoint, RuntimeKeeps, RecoveryStop,
          Unresolved, ApplyStop, WithTurn, Moved, Go, AllowedTransitions,
          Forward, Phases, Terminal
  <1>9. CASE Mint
    BY <1>9 DEF RuntimeKeeps, Mint, Go
  <1>10. CASE Consume
    BY <1>10 DEF RuntimeKeeps, Consume
  <1>11. CASE ConsumeExpired
    BY <1>11 DEF RuntimeKeeps, ConsumeExpired
  <1>12. CASE Materialize
    BY <1>12
      DEF TypeOK, Record, PhaseAtPoint, RuntimeKeeps, Materialize, At,
          SaveReturn, Within, Persisted, Moved, AllowedTransitions, Forward,
          Phases, Terminal
  <1>13. CASE Trust
    BY <1>13
      DEF TypeOK, Record, PhaseAtPoint, RuntimeKeeps, Trust, SaveReturn,
          Moved, WithReceipts, Persisted, AllowedTransitions, Forward, Phases,
          Terminal
  <1>14. CASE Prepare
    BY <1>14
      DEF TypeOK, Record, PhaseAtPoint, RuntimeKeeps, Prepare, At, SaveReturn,
          Moved, WithReceipts, Persisted, AllowedTransitions, Forward, Phases,
          Terminal
  <1>15. CASE ValidateHandoff
    BY <1>15
      DEF TypeOK, Record, PhaseAtPoint, RuntimeKeeps, ValidateHandoff, At,
          SaveReturn, Moved, WithTurn, Persisted, AllowedTransitions, Forward,
          Phases, Terminal
  <1>16. CASE Dispatch
    BY <1>16
      DEF TypeOK, Record, PhaseAtPoint, RuntimeKeeps, Dispatch, SaveReturn,
          Moved, Refuse, Marked, Persisted, WithReceipts, At,
          AllowedTransitions, Forward, Phases, Terminal
  <1>17. CASE Launch
    BY <1>17 DEF RuntimeKeeps, Launch, Within
  <1>18. CASE RecordLaunch
    BY <1>18 DEF RuntimeKeeps, RecordLaunch, Within
  <1>19. CASE LaunchRaises
    BY <1>19
      DEF TypeOK, Record, PhaseAtPoint, RuntimeKeeps, LaunchRaises,
          SaveReturn, Moved, Persisted, Launching, AllowedTransitions,
          Forward, Phases, Terminal
  <1>20. CASE Bind
    BY <1>20
      DEF TypeOK, Record, PhaseAtPoint, RuntimeKeeps, Bind, SaveReturn,
          Persisted, Moved, Launching, AllowedTransitions, Forward, Phases,
          Terminal
  <1>21. CASE VerifyWaits
    BY <1>21
      DEF TypeOK, Record, PhaseAtPoint, RuntimeKeeps, VerifyWaits, At,
          SaveReturn, Moved, Noted, ReadinessStates, Persisted, WithReceipts,
          AllowedTransitions, Forward, Phases, Terminal
  <1>22. CASE VerifyStopped
    BY <1>22
      DEF TypeOK, Record, PhaseAtPoint, RuntimeKeeps, VerifyStopped, At,
          VerificationBlock, Within, WithReceipts, WithTurn, SaveReturn,
          Moved, Persisted, AllowedTransitions, Forward, Phases, Terminal
  <1>23. CASE Gates
    BY <1>23
      DEF TypeOK, Record, PhaseAtPoint, RuntimeKeeps, Gates, SaveReturn,
          Moved, WithTurn, VerificationBlock, Persisted, WithReceipts,
          AllowedTransitions, Forward, Phases, Terminal
  <1>24. CASE Complete
    BY <1>24
      DEF TypeOK, Record, PhaseAtPoint, RuntimeKeeps, Complete, At,
          SaveReturn, Moved, Persisted, AllowedTransitions, Forward, Phases,
          Terminal
  <1>25. CASE Reconcile
    BY <1>25
      DEF TypeOK, Record, PhaseAtPoint, RuntimeKeeps, Reconcile, At,
          SaveReturn, Moved, WithReceipts, Persisted, AllowedTransitions,
          Forward, Phases, Terminal
  <1>26. CASE Release
    BY <1>26
      DEF TypeOK, Record, PhaseAtPoint, RuntimeKeeps, Release, At,
          AllowedTransitions, Forward, Phases, Terminal
  <1>27. CASE Close
    BY <1>27
      DEF TypeOK, Record, PhaseAtPoint, RuntimeKeeps, Close, Within, Released,
          SaveReturn, WithReceipts, Persisted, Moved, Releasing,
          AllowedTransitions, Forward, Phases, Terminal
  <1>28. CASE Remove
    BY <1>28
      DEF TypeOK, Record, PhaseAtPoint, RuntimeKeeps, Remove, Within,
          Released, SaveReturn, WithReceipts, Persisted, Moved, Releasing,
          AllowedTransitions, Forward, Phases, Terminal
  <1>29. CASE TurnFails
    BY <1>29 DEF RuntimeKeeps, TurnFails, Go
  <1>30. CASE ConsumeBlind
    BY <1>30 DEF RuntimeKeeps, ConsumeBlind
  <1>31. CASE CheckFails
    BY <1>31 DEF RuntimeKeeps, CheckFails, Refusable, Refuse
  <1>32. CASE DispatchUntrusted
    BY <1>32
      DEF TypeOK, Record, PhaseAtPoint, RuntimeKeeps, DispatchUntrusted,
          SaveReturn, Moved, WithReceipts, Persisted, At, AllowedTransitions,
          Forward, Phases, Terminal
  <1>33. CASE VerifyBroken
    BY <1>33
      DEF TypeOK, Record, PhaseAtPoint, RuntimeKeeps, VerifyBroken, At,
          VerificationBlock, SaveReturn, Moved, WithReceipts, Persisted,
          AllowedTransitions, Forward, Phases, Terminal
  <1>34. CASE ReconcileDegraded
    BY <1>34
      DEF TypeOK, Record, PhaseAtPoint, RuntimeKeeps, ReconcileDegraded, At,
          SaveReturn, Moved, WithReceipts, Persisted, AllowedTransitions,
          Forward, Phases, Terminal
  <1>35. CASE ReleaseTrustKept
    BY <1>35
      DEF TypeOK, Record, PhaseAtPoint, RuntimeKeeps, ReleaseTrustKept, At,
          SaveReturn, WithReceipts, Persisted, Moved, AllowedTransitions,
          Forward, Phases, Terminal
  <1>36. CASE CloseBlind
    BY <1>36
      DEF TypeOK, Record, PhaseAtPoint, RuntimeKeeps, CloseBlind, Released,
          SaveReturn, WithReceipts, Persisted, Moved, Releasing,
          AllowedTransitions, Forward, Phases, Terminal
  <1>37. CASE Crash
    BY <1>37 DEF RuntimeKeeps, Crash
  <1>38. CASE TargetStops
    BY <1>38 DEF RuntimeKeeps, TargetStops, control
  <1>39. CASE TargetResumes
    BY <1>39 DEF RuntimeKeeps, TargetResumes, control
  <1>40. CASE SessionEnds
    BY <1>40 DEF RuntimeKeeps, SessionEnds, control
  <1>41. CASE PolicyMoves
    BY <1>41 DEF RuntimeKeeps, PolicyMoves, control
  <1>42. CASE RequestAges
    BY <1>42
      DEF TypeOK, Record, PhaseAtPoint, RuntimeKeeps, RequestAges, Unresolved,
          rtVars, control, AllowedTransitions, Forward, Phases, Terminal
  <1>43. CASE CapabilityExpires
    BY <1>43 DEF RuntimeKeeps, CapabilityExpires, Kinds
  <1> QED
    BY <1>1, <1>2, <1>3, <1>4, <1>5, <1>6, <1>7, <1>8, <1>9, <1>10, <1>11,
       <1>12, <1>13, <1>14, <1>15, <1>16, <1>17, <1>18, <1>19, <1>20, <1>21,
       <1>22, <1>23, <1>24, <1>25, <1>26, <1>27, <1>28, <1>29, <1>30, <1>31,
       <1>32, <1>33, <1>34, <1>35, <1>36, <1>37, <1>38, <1>39, <1>40, <1>41,
       <1>42, <1>43
      DEF RuntimeNext, RuntimeStep, RuntimeFault, Surroundings

\* An adapter step leaves the lock, and all of the record but the placeholder,
\* the delivery and the phase of a plan; none while the lock is held.
LaneKeeps ==
    /\ UNCHANGED lock
    /\ lock = "held" => UNCHANGED wf
    /\ \A f \in {"request", "recovery", "turns", "receipts", "dispatches",
                  "readiness", "engine", "lease", "verified", "ambiguous"} :
          wf'[f] = wf[f]
    /\ wf'.phase # wf.phase =>
          wf.phase = "PLANNED" /\ wf'.phase \in {"AUTHORIZED", "BLOCKED"}

\* A step of the adapter writes the placeholder, the delivery and a plan's decision
\* and nothing else of the record, and never while an action holds the lock.
LEMMA LaneStepKeeps ==
    ASSUME TypeOK, LaneNext
    PROVE  LaneKeeps
  <1>1. CASE ClaimPlaceholder
    BY <1>1 DEF TypeOK, Record, LaneKeeps, ClaimPlaceholder, LaneSaves
  <1>2. CASE Send
    BY <1>2 DEF TypeOK, Record, LaneKeeps, Send
  <1>3. CASE RecordPlaceholder
    BY <1>3 DEF TypeOK, Record, LaneKeeps, RecordPlaceholder, LaneSaves
  <1>4. CASE ClaimEdit
    BY <1>4 DEF TypeOK, Record, LaneKeeps, ClaimEdit, LaneSaves
  <1>5. CASE Edit
    BY <1>5 DEF TypeOK, Record, LaneKeeps, Edit
  <1>6. CASE SettleEdit
    BY <1>6 DEF TypeOK, Record, LaneKeeps, SettleEdit, LaneSaves
  <1>7. CASE Reserve
    BY <1>7 DEF TypeOK, Record, LaneKeeps, Reserve, LaneSaves
  <1>8. CASE LegacySend
    BY <1>8 DEF TypeOK, Record, LaneKeeps, LegacySend
  <1>9. CASE MarkLegacy
    BY <1>9 DEF TypeOK, Record, LaneKeeps, MarkLegacy, LaneSaves
  <1>10. CASE LaneStart
    BY <1>10 DEF TypeOK, Record, LaneKeeps, LaneStart, LaneSaves, Interrupted
  <1>11. CASE Approve
    BY <1>11 DEF TypeOK, Record, LaneKeeps, Approve, LaneSaves
  <1>12. CASE Reject
    BY <1>12 DEF TypeOK, Record, LaneKeeps, Reject, LaneSaves, Moved
  <1>13. CASE LaneCrash
    BY <1>13 DEF TypeOK, Record, LaneKeeps, LaneCrash
  <1>14. CASE StoreFault
    BY <1>14 DEF TypeOK, Record, LaneKeeps, StoreFault, LaneFaults
  <1>15. CASE Delete
    BY <1>15 DEF TypeOK, Record, LaneKeeps, Delete
  <1> QED
    BY <1>1, <1>2, <1>3, <1>4, <1>5, <1>6, <1>7, <1>8, <1>9, <1>10, <1>11,
       <1>12, <1>13, <1>14, <1>15
      DEF LaneNext, LaneStep

\* Every save of the adapter writes a record.
LEMMA LaneRecordTyped ==
    ASSUME TypeOK, LaneNext
    PROVE  wf' \in Record
  <1>1. CASE ClaimPlaceholder
    BY <1>1, MovedTyped, FieldTyped
      DEF TypeOK, ClaimPlaceholder, LaneSaves, PlaceholderStates,
          DeliveryStates, Phases
  <1>2. CASE Send
    BY <1>2 DEF TypeOK, Send
  <1>3. CASE RecordPlaceholder
    BY <1>3, MovedTyped, FieldTyped
      DEF TypeOK, RecordPlaceholder, LaneSaves, SendOutcome,
          PlaceholderStates, DeliveryStates, Phases
  <1>4. CASE ClaimEdit
    BY <1>4, MovedTyped, FieldTyped
      DEF TypeOK, ClaimEdit, LaneSaves, PlaceholderStates, DeliveryStates,
          Phases
  <1>5. CASE Edit
    BY <1>5 DEF TypeOK, Edit
  <1>6. CASE SettleEdit
    BY <1>6, MovedTyped, FieldTyped
      DEF TypeOK, SettleEdit, LaneSaves, EditOutcome, PlaceholderStates,
          DeliveryStates, Phases
  <1>7. CASE Reserve
    BY <1>7, MovedTyped, FieldTyped
      DEF TypeOK, Reserve, LaneSaves, PlaceholderStates, DeliveryStates,
          Phases
  <1>8. CASE LegacySend
    BY <1>8 DEF TypeOK, LegacySend
  <1>9. CASE MarkLegacy
    BY <1>9, MovedTyped, FieldTyped
      DEF TypeOK, MarkLegacy, LaneSaves, LegacyOutcome, PlaceholderStates,
          DeliveryStates, Phases
  <1>10. CASE LaneStart
    BY <1>10, MovedTyped, FieldTyped
      DEF TypeOK, LaneStart, LaneSaves, Interrupted, PlaceholderStates,
          DeliveryStates, Phases
  <1>11. CASE Approve
    <2>1. [wf EXCEPT !.phase = "AUTHORIZED", !.placeholder = "required"] \in Record
      BY DEF TypeOK, Record, PlaceholderStates, Phases
    <2> QED
      BY <1>11, <2>1 DEF Approve, LaneSaves
  <1>12. CASE Reject
    BY <1>12, MovedTyped, FieldTyped
      DEF TypeOK, Reject, LaneSaves, PlaceholderStates, DeliveryStates, Phases
  <1>13. CASE LaneCrash
    BY <1>13 DEF TypeOK, LaneCrash
  <1>14. CASE StoreFault
    BY <1>14 DEF TypeOK, StoreFault, LaneFaults
  <1>15. CASE Delete
    BY <1>15 DEF TypeOK, Delete
  <1> QED
    BY <1>1, <1>2, <1>3, <1>4, <1>5, <1>6, <1>7, <1>8, <1>9, <1>10, <1>11,
       <1>12, <1>13, <1>14, <1>15
      DEF LaneNext, LaneStep

\* A step of the adapter keeps the types of its own state.
LEMMA LaneTyped ==
    ASSUME TypeOK, LaneNext
    PROVE  LaneTypeOK' /\ budget' \in Nat
  <1>1. CASE ClaimPlaceholder
    BY <1>1
      DEF TypeOK, LaneTypeOK, LanePcs, Answers, ClaimPlaceholder, LaneSaves
  <1>2. CASE Send
    BY <1>2 DEF TypeOK, LaneTypeOK, LanePcs, Answers, Send, Disturb
  <1>3. CASE RecordPlaceholder
    BY <1>3
      DEF TypeOK, LaneTypeOK, LanePcs, Answers, RecordPlaceholder, LaneSaves
  <1>4. CASE ClaimEdit
    BY <1>4 DEF TypeOK, LaneTypeOK, LanePcs, Answers, ClaimEdit, LaneSaves
  <1>5. CASE Edit
    <2>1. shown' \in BOOLEAN
      BY <1>5 DEF TypeOK, LaneTypeOK, Edit
    <2>2. /\ lane' \in LanePcs /\ answer' \in Answers
          /\ UNCHANGED <<messages, gone>>
          /\ UNCHANGED budget \/ Disturb("telegram")
      BY <1>5 DEF LanePcs, Answers, Edit
    <2>3. budget' \in Nat
      BY <2>2 DEF TypeOK, Disturb
    <2> QED
      BY <2>1, <2>2, <2>3 DEF TypeOK, LaneTypeOK
  <1>6. CASE SettleEdit
    BY <1>6 DEF TypeOK, LaneTypeOK, LanePcs, Answers, SettleEdit, LaneSaves
  <1>7. CASE Reserve
    BY <1>7 DEF TypeOK, LaneTypeOK, LanePcs, Answers, Reserve, LaneSaves
  <1>8. CASE LegacySend
    BY <1>8 DEF TypeOK, LaneTypeOK, LanePcs, Answers, LegacySend, Disturb
  <1>9. CASE MarkLegacy
    BY <1>9 DEF TypeOK, LaneTypeOK, LanePcs, Answers, MarkLegacy, LaneSaves
  <1>10. CASE LaneStart
    BY <1>10 DEF TypeOK, LaneTypeOK, LanePcs, Answers, LaneStart, LaneSaves
  <1>11. CASE Approve
    BY <1>11 DEF TypeOK, LaneTypeOK, LanePcs, Answers, Approve, LaneSaves
  <1>12. CASE Reject
    BY <1>12 DEF TypeOK, LaneTypeOK, LanePcs, Answers, Reject, LaneSaves
  <1>13. CASE LaneCrash
    BY <1>13 DEF TypeOK, LaneTypeOK, LanePcs, Answers, LaneCrash, Disturb
  <1>14. CASE StoreFault
    BY <1>14
      DEF TypeOK, LaneTypeOK, LanePcs, Answers, StoreFault, LaneFaults,
          Disturb
  <1>15. CASE Delete
    BY <1>15 DEF TypeOK, LaneTypeOK, LanePcs, Answers, Delete, Disturb
  <1> QED
    BY <1>1, <1>2, <1>3, <1>4, <1>5, <1>6, <1>7, <1>8, <1>9, <1>10, <1>11,
       <1>12, <1>13, <1>14, <1>15
      DEF LaneNext, LaneStep

-----------------------------------------------------------------------------
(* The capability and the lock *)

\* Minting, consuming and expiring keep the count of live capabilities: one in the
\* hand of the pass, the others left by crashes.
LEMMA TokenStep ==
    ASSUME TypeOK, TokenGood, RuntimeNext
    PROVE  TokenGood'
  <1>1. CASE StartPass
    BY <1>1 DEF TypeOK, RuntimeTypeOK, TokenGood, StartPass, Go, Kind, Kinds
  <1>2. CASE Cleanup
    BY <1>2 DEF TypeOK, RuntimeTypeOK, TokenGood, Cleanup, Go
  <1>3. CASE RequestTurn
    BY <1>3 DEF TypeOK, RuntimeTypeOK, TokenGood, RequestTurn, Go
  <1>4. CASE ProposedStop
    BY <1>4 DEF TypeOK, RuntimeTypeOK, TokenGood, ProposedStop, ApplyStop, Go
  <1>5. CASE StandingRequest
    BY <1>5 DEF TypeOK, RuntimeTypeOK, TokenGood, StandingRequest, Go
  <1>6. CASE Advance
    BY <1>6 DEF TypeOK, RuntimeTypeOK, TokenGood, Advance, Go
  <1>7. CASE Recover
    BY <1>7 DEF TypeOK, RuntimeTypeOK, TokenGood, Recover, Go
  <1>8. CASE RecoveryStop
    BY <1>8 DEF TypeOK, RuntimeTypeOK, TokenGood, RecoveryStop, ApplyStop, Go
  <1>9. CASE Mint
    BY <1>9 DEF TypeOK, RuntimeTypeOK, TokenGood, Mint, Go, Kind, Kinds
  <1>10. CASE Consume
    BY <1>10 DEF TypeOK, RuntimeTypeOK, TokenGood, Consume, Kind, Kinds
  <1>11. CASE ConsumeExpired
    BY <1>11 DEF TypeOK, RuntimeTypeOK, TokenGood, ConsumeExpired
  <1>12. CASE Materialize
    BY <1>12
      DEF TypeOK, RuntimeTypeOK, TokenGood, Materialize, At, SaveReturn,
          Within, Quiet, Return
  <1>13. CASE Trust
    BY <1>13
      DEF TypeOK, RuntimeTypeOK, TokenGood, Trust, SaveReturn, Quiet, Return
  <1>14. CASE Prepare
    BY <1>14
      DEF TypeOK, RuntimeTypeOK, TokenGood, Prepare, At, SaveReturn, Quiet,
          Return
  <1>15. CASE ValidateHandoff
    BY <1>15
      DEF TypeOK, RuntimeTypeOK, TokenGood, ValidateHandoff, At, SaveReturn,
          Quiet, Return
  <1>16. CASE Dispatch
    BY <1>16
      DEF TypeOK, RuntimeTypeOK, TokenGood, Dispatch, SaveReturn, Refuse,
          Quiet, Return
  <1>17. CASE Launch
    BY <1>17 DEF TypeOK, RuntimeTypeOK, TokenGood, Launch, Within, Quiet
  <1>18. CASE RecordLaunch
    BY <1>18 DEF TypeOK, RuntimeTypeOK, TokenGood, RecordLaunch, Within, Quiet
  <1>19. CASE LaunchRaises
    BY <1>19
      DEF TypeOK, RuntimeTypeOK, TokenGood, LaunchRaises, SaveReturn, Quiet,
          Return
  <1>20. CASE Bind
    BY <1>20
      DEF TypeOK, RuntimeTypeOK, TokenGood, Bind, SaveReturn, Return, Quiet
  <1>21. CASE VerifyWaits
    BY <1>21
      DEF TypeOK, RuntimeTypeOK, TokenGood, VerifyWaits, At, Return,
          SaveReturn, Quiet
  <1>22. CASE VerifyStopped
    BY <1>22
      DEF TypeOK, RuntimeTypeOK, TokenGood, VerifyStopped, At,
          VerificationBlock, Within, SaveReturn, Quiet, Return
  <1>23. CASE Gates
    BY <1>23
      DEF TypeOK, RuntimeTypeOK, TokenGood, Gates, SaveReturn,
          VerificationBlock, Quiet, Return
  <1>24. CASE Complete
    BY <1>24
      DEF TypeOK, RuntimeTypeOK, TokenGood, Complete, At, SaveReturn, Quiet,
          Return
  <1>25. CASE Reconcile
    BY <1>25
      DEF TypeOK, RuntimeTypeOK, TokenGood, Reconcile, At, SaveReturn, Quiet,
          Return
  <1>26. CASE Release
    BY <1>26 DEF TypeOK, RuntimeTypeOK, TokenGood, Release, At, Return, Quiet
  <1>27. CASE Close
    BY <1>27
      DEF TypeOK, RuntimeTypeOK, TokenGood, Close, Within, Released, Quiet,
          SaveReturn, Return
  <1>28. CASE Remove
    BY <1>28
      DEF TypeOK, RuntimeTypeOK, TokenGood, Remove, Within, Released, Quiet,
          SaveReturn, Return
  <1>29. CASE TurnFails
    BY <1>29 DEF TypeOK, RuntimeTypeOK, TokenGood, TurnFails, Go
  <1>30. CASE ConsumeBlind
    BY <1>30 DEF TypeOK, RuntimeTypeOK, TokenGood, ConsumeBlind, Kind, Kinds
  <1>31. CASE CheckFails
    BY <1>31
      DEF TypeOK, RuntimeTypeOK, TokenGood, CheckFails, Refusable, Refuse,
          Quiet, Return
  <1>32. CASE DispatchUntrusted
    BY <1>32
      DEF TypeOK, RuntimeTypeOK, TokenGood, DispatchUntrusted, SaveReturn,
          Quiet, Return
  <1>33. CASE VerifyBroken
    BY <1>33
      DEF TypeOK, RuntimeTypeOK, TokenGood, VerifyBroken, At,
          VerificationBlock, Quiet, SaveReturn, Return
  <1>34. CASE ReconcileDegraded
    BY <1>34
      DEF TypeOK, RuntimeTypeOK, TokenGood, ReconcileDegraded, At, SaveReturn,
          Quiet, Return
  <1>35. CASE ReleaseTrustKept
    BY <1>35
      DEF TypeOK, RuntimeTypeOK, TokenGood, ReleaseTrustKept, At, SaveReturn,
          Quiet, Return
  <1>36. CASE CloseBlind
    BY <1>36
      DEF TypeOK, RuntimeTypeOK, TokenGood, CloseBlind, Released, Quiet,
          SaveReturn, Return
  <1>37. CASE Crash
    BY <1>37 DEF TypeOK, RuntimeTypeOK, TokenGood, Crash, Kind, Kinds
  <1>38. CASE TargetStops
    BY <1>38 DEF TypeOK, RuntimeTypeOK, TokenGood, TargetStops, control
  <1>39. CASE TargetResumes
    BY <1>39 DEF TypeOK, RuntimeTypeOK, TokenGood, TargetResumes, control
  <1>40. CASE SessionEnds
    BY <1>40 DEF TypeOK, RuntimeTypeOK, TokenGood, SessionEnds, control
  <1>41. CASE PolicyMoves
    BY <1>41 DEF TypeOK, RuntimeTypeOK, TokenGood, PolicyMoves, control
  <1>42. CASE RequestAges
    BY <1>42
      DEF TypeOK, RuntimeTypeOK, TokenGood, RequestAges, rtVars, control
  <1>43. CASE CapabilityExpires
    BY <1>43
      DEF TypeOK, RuntimeTypeOK, TokenGood, CapabilityExpires, Kinds, Kind
  <1> QED
    BY <1>1, <1>2, <1>3, <1>4, <1>5, <1>6, <1>7, <1>8, <1>9, <1>10, <1>11,
       <1>12, <1>13, <1>14, <1>15, <1>16, <1>17, <1>18, <1>19, <1>20, <1>21,
       <1>22, <1>23, <1>24, <1>25, <1>26, <1>27, <1>28, <1>29, <1>30, <1>31,
       <1>32, <1>33, <1>34, <1>35, <1>36, <1>37, <1>38, <1>39, <1>40, <1>41,
       <1>42, <1>43
      DEF RuntimeNext, RuntimeStep, RuntimeFault, Surroundings

\* Every step of the runtime leaves it at a control point whose guarantees hold:
\* an action is entered only through the gate and holds the lock until it returns.
LEMMA ControlStep ==
    ASSUME TypeOK, ControlGood, PhaseAtPoint, RuntimeNext
    PROVE  ControlGood'
  <1>1. CASE StartPass
    BY <1>1
      DEF TypeOK, Record, ControlGood, InAction, Launching, Releasing,
          Actions, StartPass, Go, RequiredPhase
  <1>2. CASE Cleanup
    BY <1>2
      DEF TypeOK, Record, ControlGood, InAction, Launching, Releasing,
          Actions, Cleanup, Go, RequiredPhase
  <1>3. CASE RequestTurn
    BY <1>3
      DEF TypeOK, Record, ControlGood, InAction, Launching, Releasing,
          Actions, RequestTurn, Go, FirstAction, PhaseAtPoint
  <1>4. CASE ProposedStop
    BY <1>4
      DEF TypeOK, Record, ControlGood, InAction, Launching, Releasing,
          Actions, ProposedStop, ApplyStop, Moved, Go, PhaseAtPoint
  <1>5. CASE StandingRequest
    BY <1>5
      DEF TypeOK, Record, ControlGood, InAction, Launching, Releasing,
          Actions, StandingRequest, Go, RequiredPhase
  <1>6. CASE Advance
    BY <1>6
      DEF TypeOK, Record, ControlGood, InAction, Launching, Releasing,
          Actions, Advance, Go, RequiredPhase
  <1>7. CASE Recover
    BY <1>7
      DEF TypeOK, Record, ControlGood, InAction, Launching, Releasing,
          Actions, Recover, Go, Moved, PhaseAtPoint
  <1>8. CASE RecoveryStop
    BY <1>8
      DEF TypeOK, Record, ControlGood, InAction, Launching, Releasing,
          Actions, RecoveryStop, ApplyStop, Moved, Go, PhaseAtPoint
  <1>9. CASE Mint
    BY <1>9
      DEF TypeOK, Record, ControlGood, InAction, Launching, Releasing,
          Actions, Mint, Go, AfterRefusal, RequiredPhase
  <1>10. CASE Consume
    BY <1>10
      DEF TypeOK, Record, ControlGood, InAction, Launching, Releasing,
          Actions, Consume, Gate, AfterRefusal, RequiredPhase
  <1>11. CASE ConsumeExpired
    BY <1>11
      DEF TypeOK, Record, ControlGood, InAction, Launching, Releasing,
          Actions, ConsumeExpired, AfterRefusal, RequiredPhase
  <1>12. CASE Materialize
    BY <1>12
      DEF TypeOK, Record, ControlGood, InAction, Launching, Releasing,
          Actions, Materialize, At, SaveReturn, AfterRefusal, Within, Return,
          RequiredPhase, PhaseAtPoint
  <1>13. CASE Trust
    BY <1>13
      DEF TypeOK, Record, ControlGood, InAction, Launching, Releasing,
          Actions, Trust, SaveReturn, Moved, WithReceipts, Return,
          PhaseAtPoint
  <1>14. CASE Prepare
    BY <1>14
      DEF TypeOK, Record, ControlGood, InAction, Launching, Releasing,
          Actions, Prepare, At, SaveReturn, Moved, WithReceipts, Return,
          PhaseAtPoint
  <1>15. CASE ValidateHandoff
    BY <1>15
      DEF TypeOK, Record, ControlGood, InAction, Launching, Releasing,
          Actions, ValidateHandoff, At, SaveReturn, Moved, Return,
          PhaseAtPoint
  <1>16. CASE Dispatch
    BY <1>16
      DEF TypeOK, Record, ControlGood, InAction, Launching, Releasing,
          Actions, Dispatch, SaveReturn, Moved, Refuse, Marked, Return,
          AfterRefusal, WithReceipts, PhaseAtPoint, At
  <1>17. CASE Launch
    BY <1>17
      DEF TypeOK, Record, ControlGood, InAction, Launching, Releasing,
          Actions, Launch, Within, RequiredPhase
  <1>18. CASE RecordLaunch
    BY <1>18
      DEF TypeOK, Record, ControlGood, InAction, Launching, Releasing,
          Actions, RecordLaunch, Within, RequiredPhase
  <1>19. CASE LaunchRaises
    BY <1>19
      DEF TypeOK, Record, ControlGood, InAction, Launching, Releasing,
          Actions, LaunchRaises, SaveReturn, Moved, Return, PhaseAtPoint
  <1>20. CASE Bind
    BY <1>20
      DEF TypeOK, Record, ControlGood, InAction, Launching, Releasing,
          Actions, Bind, SaveReturn, Return, PhaseAtPoint
  <1>21. CASE VerifyWaits
    BY <1>21
      DEF TypeOK, Record, ControlGood, InAction, Launching, Releasing,
          Actions, VerifyWaits, At, Return, SaveReturn, Moved, PhaseAtPoint
  <1>22. CASE VerifyStopped
    BY <1>22
      DEF TypeOK, Record, ControlGood, InAction, Launching, Releasing,
          Actions, VerifyStopped, At, VerificationBlock, Within, WithReceipts,
          SaveReturn, Moved, Return, PhaseAtPoint
  <1>23. CASE Gates
    BY <1>23
      DEF TypeOK, Record, ControlGood, InAction, Launching, Releasing,
          Actions, Gates, SaveReturn, Moved, VerificationBlock, Return,
          WithReceipts, PhaseAtPoint
  <1>24. CASE Complete
    BY <1>24
      DEF TypeOK, Record, ControlGood, InAction, Launching, Releasing,
          Actions, Complete, At, SaveReturn, Moved, Return, PhaseAtPoint
  <1>25. CASE Reconcile
    BY <1>25
      DEF TypeOK, Record, ControlGood, InAction, Launching, Releasing,
          Actions, Reconcile, At, SaveReturn, Moved, WithReceipts, Return,
          PhaseAtPoint
  <1>26. CASE Release
    BY <1>26
      DEF TypeOK, Record, ControlGood, InAction, Launching, Releasing,
          Actions, Release, At, Return, RequiredPhase, PhaseAtPoint, Terminal
  <1>27. CASE Close
    BY <1>27
      DEF TypeOK, Record, ControlGood, InAction, Launching, Releasing,
          Actions, Close, Within, Released, SaveReturn, WithReceipts, Return,
          RequiredPhase, PhaseAtPoint
  <1>28. CASE Remove
    BY <1>28
      DEF TypeOK, Record, ControlGood, InAction, Launching, Releasing,
          Actions, Remove, Within, Released, SaveReturn, WithReceipts, Return,
          RequiredPhase, PhaseAtPoint
  <1>29. CASE TurnFails
    BY <1>29
      DEF TypeOK, Record, ControlGood, InAction, Launching, Releasing,
          Actions, TurnFails, Go, RequiredPhase
  <1>30. CASE ConsumeBlind
    BY <1>30
      DEF TypeOK, Record, ControlGood, InAction, Launching, Releasing,
          Actions, ConsumeBlind, AfterRefusal, RequiredPhase
  <1>31. CASE CheckFails
    BY <1>31
      DEF TypeOK, Record, ControlGood, InAction, Launching, Releasing,
          Actions, CheckFails, Refusable, Refuse, Return, AfterRefusal,
          RequiredPhase
  <1>32. CASE DispatchUntrusted
    BY <1>32
      DEF TypeOK, Record, ControlGood, InAction, Launching, Releasing,
          Actions, DispatchUntrusted, SaveReturn, Moved, WithReceipts, Return,
          PhaseAtPoint
  <1>33. CASE VerifyBroken
    BY <1>33
      DEF TypeOK, Record, ControlGood, InAction, Launching, Releasing,
          Actions, VerifyBroken, At, VerificationBlock, SaveReturn, Moved,
          WithReceipts, Return, PhaseAtPoint
  <1>34. CASE ReconcileDegraded
    BY <1>34
      DEF TypeOK, Record, ControlGood, InAction, Launching, Releasing,
          Actions, ReconcileDegraded, At, SaveReturn, Moved, WithReceipts,
          Return, PhaseAtPoint
  <1>35. CASE ReleaseTrustKept
    BY <1>35
      DEF TypeOK, Record, ControlGood, InAction, Launching, Releasing,
          Actions, ReleaseTrustKept, At, SaveReturn, WithReceipts, Return,
          RequiredPhase, PhaseAtPoint, Terminal
  <1>36. CASE CloseBlind
    BY <1>36
      DEF TypeOK, Record, ControlGood, InAction, Launching, Releasing,
          Actions, CloseBlind, Released, SaveReturn, WithReceipts, Return,
          PhaseAtPoint
  <1>37. CASE Crash
    BY <1>37
      DEF TypeOK, Record, ControlGood, InAction, Launching, Releasing,
          Actions, Crash, RequiredPhase
  <1>38. CASE TargetStops
    BY <1>38
      DEF TypeOK, Record, ControlGood, InAction, Launching, Releasing,
          Actions, TargetStops, control, RequiredPhase
  <1>39. CASE TargetResumes
    BY <1>39
      DEF TypeOK, Record, ControlGood, InAction, Launching, Releasing,
          Actions, TargetResumes, control, RequiredPhase
  <1>40. CASE SessionEnds
    BY <1>40
      DEF TypeOK, Record, ControlGood, InAction, Launching, Releasing,
          Actions, SessionEnds, control, RequiredPhase
  <1>41. CASE PolicyMoves
    BY <1>41
      DEF TypeOK, Record, ControlGood, InAction, Launching, Releasing,
          Actions, PolicyMoves, control, RequiredPhase
  <1>42. CASE RequestAges
    BY <1>42
      DEF TypeOK, Record, ControlGood, InAction, Launching, Releasing,
          Actions, RequestAges, rtVars, control, RequiredPhase, PhaseAtPoint
  <1>43. CASE CapabilityExpires
    BY <1>43
      DEF TypeOK, Record, ControlGood, InAction, Launching, Releasing,
          Actions, CapabilityExpires, Kinds, RequiredPhase
  <1> QED
    BY <1>1, <1>2, <1>3, <1>4, <1>5, <1>6, <1>7, <1>8, <1>9, <1>10, <1>11,
       <1>12, <1>13, <1>14, <1>15, <1>16, <1>17, <1>18, <1>19, <1>20, <1>21,
       <1>22, <1>23, <1>24, <1>25, <1>26, <1>27, <1>28, <1>29, <1>30, <1>31,
       <1>32, <1>33, <1>34, <1>35, <1>36, <1>37, <1>38, <1>39, <1>40, <1>41,
       <1>42, <1>43
      DEF RuntimeNext, RuntimeStep, RuntimeFault, Surroundings

\* The adapter, which writes no record while the lock is held, disturbs no control
\* point.
LEMMA LaneKeepsControl ==
    ASSUME LaneKeeps, ControlGood, UNCHANGED rtVars
    PROVE  ControlGood'
  BY DEF LaneKeeps, ControlGood, rtVars, control, InAction, Launching, Releasing

\* The adapter has no part in capabilities.
LEMMA LaneKeepsToken ==
    ASSUME TokenGood, UNCHANGED rtVars
    PROVE  TokenGood'
  BY DEF TokenGood, rtVars, control

-----------------------------------------------------------------------------
(* The dispatch and its target *)

\* Every step of the runtime keeps launches within durable dispatch receipts, and a
\* verified result behind a bound target.
LEMMA DispatchStep ==
    ASSUME TypeOK, PhaseAtPoint, DispatchGood, TargetGood, RuntimeNext
    PROVE  DispatchGood'
  <1>1. CASE StartPass
    BY <1>1
      DEF TypeOK, Record, DispatchGood, SpawnsWithinReceipts,
          VerifiedOnlyResolved, Undispatched, Dispatched, StartPass, Go,
          Terminal, world
  <1>2. CASE Cleanup
    BY <1>2
      DEF TypeOK, Record, DispatchGood, SpawnsWithinReceipts,
          VerifiedOnlyResolved, Undispatched, Dispatched, Cleanup, Terminal,
          Go, world
  <1>3. CASE RequestTurn
    BY <1>3
      DEF TypeOK, Record, DispatchGood, SpawnsWithinReceipts,
          VerifiedOnlyResolved, Undispatched, Dispatched, RequestTurn,
          TurnAppended, Go, world, WithTurn, PhaseAtPoint, Terminal, Phases,
          TurnDue
  <1>4. CASE ProposedStop
    BY <1>4
      DEF TypeOK, Record, DispatchGood, SpawnsWithinReceipts,
          VerifiedOnlyResolved, Undispatched, Dispatched, ProposedStop,
          ApplyStop, WithTurn, Moved, Go, world, PhaseAtPoint, Terminal,
          Phases, TurnDue
  <1>5. CASE StandingRequest
    BY <1>5
      DEF TypeOK, Record, DispatchGood, SpawnsWithinReceipts,
          VerifiedOnlyResolved, Undispatched, Dispatched, StandingRequest, Go,
          world
  <1>6. CASE Advance
    BY <1>6
      DEF TypeOK, Record, DispatchGood, SpawnsWithinReceipts,
          VerifiedOnlyResolved, Undispatched, Dispatched, Advance, Go, world
  <1>7. CASE Recover
    BY <1>7
      DEF TypeOK, Record, DispatchGood, SpawnsWithinReceipts,
          VerifiedOnlyResolved, Undispatched, Dispatched, Recover, Go, Moved,
          WithTurn, world, PhaseAtPoint, Terminal, Phases, Unresolved
  <1>8. CASE RecoveryStop
    BY <1>8
      DEF TypeOK, Record, DispatchGood, SpawnsWithinReceipts,
          VerifiedOnlyResolved, Undispatched, Dispatched, RecoveryStop,
          ApplyStop, WithTurn, Moved, Go, world, PhaseAtPoint, Terminal,
          Phases, Unresolved
  <1>9. CASE Mint
    BY <1>9
      DEF TypeOK, Record, DispatchGood, SpawnsWithinReceipts,
          VerifiedOnlyResolved, Undispatched, Dispatched, Mint, Go,
          AfterRefusal, world
  <1>10. CASE Consume
    BY <1>10
      DEF TypeOK, Record, DispatchGood, SpawnsWithinReceipts,
          VerifiedOnlyResolved, Undispatched, Dispatched, Consume, world,
          AfterRefusal
  <1>11. CASE ConsumeExpired
    BY <1>11
      DEF TypeOK, Record, DispatchGood, SpawnsWithinReceipts,
          VerifiedOnlyResolved, Undispatched, Dispatched, ConsumeExpired,
          AfterRefusal, world
  <1>12. CASE Materialize
    BY <1>12
      DEF TypeOK, Record, DispatchGood, SpawnsWithinReceipts,
          VerifiedOnlyResolved, Undispatched, Dispatched, Materialize, At,
          SaveReturn, AfterRefusal, Within, Persisted, Return, Terminal,
          Moved, PhaseAtPoint, Phases
  <1>13. CASE Trust
    BY <1>13
      DEF TypeOK, Record, DispatchGood, SpawnsWithinReceipts,
          VerifiedOnlyResolved, Undispatched, Dispatched, Trust, SaveReturn,
          Moved, WithReceipts, world, Persisted, Return, Terminal,
          PhaseAtPoint, Phases
  <1>14. CASE Prepare
    BY <1>14
      DEF TypeOK, Record, DispatchGood, SpawnsWithinReceipts,
          VerifiedOnlyResolved, Undispatched, Dispatched, Prepare, At,
          SaveReturn, Moved, WithReceipts, world, Persisted, Return, Terminal,
          PhaseAtPoint, Phases
  <1>15. CASE ValidateHandoff
    BY <1>15
      DEF TypeOK, Record, DispatchGood, SpawnsWithinReceipts,
          VerifiedOnlyResolved, Undispatched, Dispatched, ValidateHandoff, At,
          SaveReturn, Moved, WithTurn, world, Persisted, Return, Terminal,
          PhaseAtPoint, Phases
  <1>16. CASE Dispatch
    <2>1. /\ act = "dispatch" => wf.phase = "VALIDATED" /\ wf.dispatches = 0
          /\ act # "dispatch" => act = "follow_up" /\ wf.phase = "DISPATCHED" /\ wf.dispatches >= 1
          /\ UNCHANGED spawns
      BY <1>16
        DEF Dispatch, PhaseAtPoint, At, DispatchGood, Undispatched,
            Dispatched, world
    <2>2. CASE FollowUpsUsedUp
      BY <1>16, <2>1, <2>2
        DEF Dispatch, TypeOK, Record, DispatchGood, SpawnsWithinReceipts,
            VerifiedOnlyResolved,
            Undispatched, Dispatched, SaveReturn, Return, Persisted, Moved, Terminal
    <2>3. CASE ~FollowUpsUsedUp /\ PlaceholderRefuses
      BY <1>16, <2>1, <2>3
        DEF Dispatch, DispatchGood, SpawnsWithinReceipts,
            VerifiedOnlyResolved, Refuse, Return, AfterRefusal
    <2>4. CASE ~FollowUpsUsedUp /\ ~PlaceholderRefuses /\ Fits(Marked)
      <3>1. /\ wf' = Marked /\ pc' = "spawn"
            /\ Marked.phase = "DISPATCHED" /\ Marked.dispatches = wf.dispatches + 1
            /\ Marked.placeholder = wf.placeholder
        BY <1>16, <2>1, <2>4
          DEF Dispatch, TypeOK, Record, Marked, Moved, WithReceipts
      <3>2. wf.placeholder \in {"none", "bound"}
        BY <2>1, <2>4 DEF PlaceholderRefuses, DispatchGood
      <3>3. wf.dispatches + 1 <= 1 + MaxFollowUps
        BY <2>1, <2>4, FollowUpsAssumption DEF TypeOK, Record, FollowUpsUsedUp
      <3> QED
        BY <2>1, <3>1, <3>2, <3>3
          DEF TypeOK, Record, RuntimeTypeOK, DispatchGood,
              SpawnsWithinReceipts, VerifiedOnlyResolved,
              Undispatched, Dispatched
    <2>5. CASE ~FollowUpsUsedUp /\ ~PlaceholderRefuses /\ ~Fits(Marked)
      BY <1>16, <2>1, <2>5
        DEF Dispatch, TypeOK, Record, DispatchGood, SpawnsWithinReceipts,
            VerifiedOnlyResolved,
            Undispatched, Dispatched, SaveReturn, Return, Persisted, Moved, Terminal
    <2> QED
      BY <2>2, <2>3, <2>4, <2>5
  <1>17. CASE Launch
    BY <1>17
      DEF TypeOK, Record, DispatchGood, SpawnsWithinReceipts,
          VerifiedOnlyResolved, Undispatched, Dispatched, Launch, Within,
          RuntimeTypeOK, Launching
  <1>18. CASE RecordLaunch
    BY <1>18
      DEF TypeOK, Record, DispatchGood, SpawnsWithinReceipts,
          VerifiedOnlyResolved, Undispatched, Dispatched, RecordLaunch, Within
  <1>19. CASE LaunchRaises
    BY <1>19
      DEF TypeOK, Record, DispatchGood, SpawnsWithinReceipts,
          VerifiedOnlyResolved, Undispatched, Dispatched, LaunchRaises,
          SaveReturn, Moved, world, Persisted, Return, Terminal, PhaseAtPoint,
          Launching, Phases
  <1>20. CASE Bind
    BY <1>20
      DEF TypeOK, Record, DispatchGood, SpawnsWithinReceipts,
          VerifiedOnlyResolved, Undispatched, Dispatched, Bind, SaveReturn,
          Return, world, Persisted, Terminal, Moved, PhaseAtPoint, Launching,
          TargetGood, BoundIsReal, Phases
  <1>21. CASE VerifyWaits
    BY <1>21
      DEF TypeOK, Record, DispatchGood, SpawnsWithinReceipts,
          VerifiedOnlyResolved, Undispatched, Dispatched, VerifyWaits, At,
          Return, SaveReturn, Moved, Noted, world, Persisted, WithReceipts,
          Terminal, PhaseAtPoint, Phases
  <1>22. CASE VerifyStopped
    BY <1>22
      DEF TypeOK, Record, DispatchGood, SpawnsWithinReceipts,
          VerifiedOnlyResolved, Undispatched, Dispatched, VerifyStopped, At,
          VerificationBlock, Within, WithReceipts, WithTurn, SaveReturn,
          Moved, world, Persisted, Return, Terminal, PhaseAtPoint, Phases
  <1>23. CASE Gates
    <2>1. wf.phase = "DISPATCHED" /\ wf.engine = "bound" /\ UNCHANGED spawns
      BY <1>23 DEF Gates, PhaseAtPoint, TargetGood, world
    <2>2. pc' \in {"load", "cleanup"}
      BY <1>23 DEF Gates, VerificationBlock, SaveReturn, Return
    <2>3. ASSUME NEW verified \in {"fits", "oversize"},
                 wf' = Persisted([Moved(WithTurn(wf), "VERIFIED") EXCEPT !.verified = verified])
          PROVE  DispatchGood'
      BY <2>1, <2>2, <2>3
        DEF TypeOK, Record, DispatchGood, SpawnsWithinReceipts,
            VerifiedOnlyResolved,
            Undispatched, Dispatched, Persisted, Moved, WithTurn, Terminal
    <2>4. ASSUME wf' = Persisted(Moved(WithReceipts(WithTurn(wf), 1), "BLOCKED"))
          PROVE  DispatchGood'
      BY <2>1, <2>2, <2>4
        DEF TypeOK, Record, DispatchGood, SpawnsWithinReceipts,
            VerifiedOnlyResolved,
            Undispatched, Dispatched, Persisted, Moved, WithTurn, WithReceipts, Terminal
    <2> QED
      BY <1>23, <2>3, <2>4 DEF Gates, VerificationBlock, SaveReturn
  <1>24. CASE Complete
    BY <1>24
      DEF TypeOK, Record, DispatchGood, SpawnsWithinReceipts,
          VerifiedOnlyResolved, Undispatched, Dispatched, Complete, At,
          SaveReturn, Moved, world, Persisted, Return, Terminal, PhaseAtPoint,
          Phases
  <1>25. CASE Reconcile
    BY <1>25
      DEF TypeOK, Record, DispatchGood, SpawnsWithinReceipts,
          VerifiedOnlyResolved, Undispatched, Dispatched, Reconcile, At,
          SaveReturn, Moved, WithReceipts, world, Persisted, Return, Terminal,
          PhaseAtPoint, Phases
  <1>26. CASE Release
    BY <1>26
      DEF TypeOK, Record, DispatchGood, SpawnsWithinReceipts,
          VerifiedOnlyResolved, Undispatched, Dispatched, Release, At, Return,
          PhaseAtPoint, Terminal, Releasing, Phases
  <1>27. CASE Close
    BY <1>27
      DEF TypeOK, Record, DispatchGood, SpawnsWithinReceipts,
          VerifiedOnlyResolved, Undispatched, Dispatched, Close, Within,
          Released, SaveReturn, WithReceipts, Persisted, Return, Terminal,
          Moved, PhaseAtPoint, RuntimeTypeOK, Releasing, Phases
  <1>28. CASE Remove
    BY <1>28
      DEF TypeOK, Record, DispatchGood, SpawnsWithinReceipts,
          VerifiedOnlyResolved, Undispatched, Dispatched, Remove, Within,
          Released, SaveReturn, WithReceipts, Persisted, Return, Terminal,
          Moved, PhaseAtPoint, RuntimeTypeOK, Releasing, Phases
  <1>29. CASE TurnFails
    BY <1>29
      DEF TypeOK, Record, DispatchGood, SpawnsWithinReceipts,
          VerifiedOnlyResolved, Undispatched, Dispatched, TurnFails, Go, world
  <1>30. CASE ConsumeBlind
    BY <1>30
      DEF TypeOK, Record, DispatchGood, SpawnsWithinReceipts,
          VerifiedOnlyResolved, Undispatched, Dispatched, ConsumeBlind,
          AfterRefusal, world
  <1>31. CASE CheckFails
    BY <1>31
      DEF TypeOK, Record, DispatchGood, SpawnsWithinReceipts,
          VerifiedOnlyResolved, Undispatched, Dispatched, CheckFails, Refuse,
          world, Return, AfterRefusal
  <1>32. CASE DispatchUntrusted
    BY <1>32
      DEF TypeOK, Record, DispatchGood, SpawnsWithinReceipts,
          VerifiedOnlyResolved, Undispatched, Dispatched, DispatchUntrusted,
          FollowUpsUsedUp, SaveReturn, Moved, WithReceipts, world, Persisted,
          Return, Terminal, PhaseAtPoint, At, Phases
  <1>33. CASE VerifyBroken
    BY <1>33
      DEF TypeOK, Record, DispatchGood, SpawnsWithinReceipts,
          VerifiedOnlyResolved, Undispatched, Dispatched, VerifyBroken, At,
          VerificationBlock, world, SaveReturn, Moved, WithReceipts,
          Persisted, Return, Terminal, PhaseAtPoint, Phases
  <1>34. CASE ReconcileDegraded
    BY <1>34
      DEF TypeOK, Record, DispatchGood, SpawnsWithinReceipts,
          VerifiedOnlyResolved, Undispatched, Dispatched, ReconcileDegraded,
          At, SaveReturn, Moved, WithReceipts, world, Persisted, Return,
          Terminal, PhaseAtPoint, Phases
  <1>35. CASE ReleaseTrustKept
    BY <1>35
      DEF TypeOK, Record, DispatchGood, SpawnsWithinReceipts,
          VerifiedOnlyResolved, Undispatched, Dispatched, ReleaseTrustKept,
          At, SaveReturn, WithReceipts, Persisted, Return, Terminal, Moved,
          PhaseAtPoint, Releasing, Phases
  <1>36. CASE CloseBlind
    BY <1>36
      DEF TypeOK, Record, DispatchGood, SpawnsWithinReceipts,
          VerifiedOnlyResolved, Undispatched, Dispatched, CloseBlind,
          Released, world, SaveReturn, WithReceipts, Persisted, Return,
          Terminal, Moved, PhaseAtPoint, RuntimeTypeOK, Releasing, Phases
  <1>37. CASE Crash
    BY <1>37
      DEF TypeOK, Record, DispatchGood, SpawnsWithinReceipts,
          VerifiedOnlyResolved, Undispatched, Dispatched, Crash, world
  <1>38. CASE TargetStops
    BY <1>38
      DEF TypeOK, Record, DispatchGood, SpawnsWithinReceipts,
          VerifiedOnlyResolved, Undispatched, Dispatched, TargetStops, control
  <1>39. CASE TargetResumes
    BY <1>39
      DEF TypeOK, Record, DispatchGood, SpawnsWithinReceipts,
          VerifiedOnlyResolved, Undispatched, Dispatched, TargetResumes,
          control
  <1>40. CASE SessionEnds
    BY <1>40
      DEF TypeOK, Record, DispatchGood, SpawnsWithinReceipts,
          VerifiedOnlyResolved, Undispatched, Dispatched, SessionEnds, control
  <1>41. CASE PolicyMoves
    BY <1>41
      DEF TypeOK, Record, DispatchGood, SpawnsWithinReceipts,
          VerifiedOnlyResolved, Undispatched, Dispatched, PolicyMoves, control
  <1>42. CASE RequestAges
    BY <1>42
      DEF TypeOK, Record, DispatchGood, SpawnsWithinReceipts,
          VerifiedOnlyResolved, Undispatched, Dispatched, RequestAges, rtVars,
          control, world, PhaseAtPoint, Terminal, Phases
  <1>43. CASE CapabilityExpires
    BY <1>43
      DEF TypeOK, Record, DispatchGood, SpawnsWithinReceipts,
          VerifiedOnlyResolved, Undispatched, Dispatched, CapabilityExpires,
          Kinds, world
  <1> QED
    BY <1>1, <1>2, <1>3, <1>4, <1>5, <1>6, <1>7, <1>8, <1>9, <1>10, <1>11,
       <1>12, <1>13, <1>14, <1>15, <1>16, <1>17, <1>18, <1>19, <1>20, <1>21,
       <1>22, <1>23, <1>24, <1>25, <1>26, <1>27, <1>28, <1>29, <1>30, <1>31,
       <1>32, <1>33, <1>34, <1>35, <1>36, <1>37, <1>38, <1>39, <1>40, <1>41,
       <1>42, <1>43
      DEF RuntimeNext, RuntimeStep, RuntimeFault, Surroundings

\* Only a plan is given a placeholder, and one that is bound keeps its state.
LEMMA LanePlaceholder ==
    ASSUME TypeOK, LaneGood, LaneNext
    PROVE  wf'.placeholder # wf.placeholder =>
             wf.phase = "PLANNED" \/ wf.placeholder \notin {"none", "bound"}
  <1>1. CASE ClaimPlaceholder
    BY <1>1
      DEF TypeOK, Record, LaneGood, ClaimPlaceholder, PlaceholderClaimable,
          LaneSaves
  <1>2. CASE Send
    BY <1>2 DEF TypeOK, Record, LaneGood, Send
  <1>3. CASE RecordPlaceholder
    BY <1>3 DEF TypeOK, Record, LaneGood, RecordPlaceholder, LaneSaves
  <1>4. CASE ClaimEdit
    BY <1>4 DEF TypeOK, Record, LaneGood, ClaimEdit, EditClaimable, LaneSaves
  <1>5. CASE Edit
    BY <1>5 DEF TypeOK, Record, LaneGood, Edit
  <1>6. CASE SettleEdit
    BY <1>6 DEF TypeOK, Record, LaneGood, SettleEdit, LaneSaves
  <1>7. CASE Reserve
    BY <1>7 DEF TypeOK, Record, LaneGood, Reserve, LegacyEligible, LaneSaves
  <1>8. CASE LegacySend
    BY <1>8 DEF TypeOK, Record, LaneGood, LegacySend
  <1>9. CASE MarkLegacy
    BY <1>9 DEF TypeOK, Record, LaneGood, MarkLegacy, LaneSaves
  <1>10. CASE LaneStart
    BY <1>10 DEF TypeOK, Record, LaneGood, LaneStart, LaneSaves, Interrupted
  <1>11. CASE Approve
    BY <1>11 DEF TypeOK, Record, LaneGood, Approve, LaneSaves
  <1>12. CASE Reject
    BY <1>12 DEF TypeOK, Record, LaneGood, Reject, LaneSaves, Moved
  <1>13. CASE LaneCrash
    BY <1>13 DEF TypeOK, Record, LaneGood, LaneCrash
  <1>14. CASE StoreFault
    BY <1>14 DEF TypeOK, Record, LaneGood, StoreFault, LaneFaults
  <1>15. CASE Delete
    BY <1>15 DEF TypeOK, Record, LaneGood, Delete
  <1> QED
    BY <1>1, <1>2, <1>3, <1>4, <1>5, <1>6, <1>7, <1>8, <1>9, <1>10, <1>11,
       <1>12, <1>13, <1>14, <1>15
      DEF LaneNext, LaneStep

\* The adapter takes no bound placeholder away and writes no dispatch.
LEMMA LaneKeepsDispatch ==
    ASSUME TypeOK, DispatchGood, LaneGood, LaneNext, LaneKeeps, UNCHANGED rtVars
    PROVE  DispatchGood'
  <1>1. /\ wf'.dispatches = wf.dispatches
        /\ wf'.engine = wf.engine
        /\ wf'.verified = wf.verified
    BY DEF LaneKeeps
  <1>2. wf.dispatches >= 1 => wf'.placeholder = wf.placeholder
    BY LanePlaceholder DEF TypeOK, Record, DispatchGood, Undispatched
  <1>3. wf'.phase # wf.phase => wf.phase = "PLANNED" /\ wf'.phase \in {"AUTHORIZED", "BLOCKED"}
    BY DEF LaneKeeps
  <1>4. UNCHANGED <<pc, spawns>>
    BY DEF rtVars, control, world
  <1> QED
    BY <1>1, <1>2, <1>3, <1>4
      DEF DispatchGood, SpawnsWithinReceipts, VerifiedOnlyResolved,
          Undispatched, Dispatched

\* Every step of the runtime keeps a bound identity that of a recorded launch, and
\* an archive before every removal.
LEMMA TargetStep ==
    ASSUME TypeOK, PhaseAtPoint, DispatchGood, TargetGood, RuntimeNext
    PROVE  TargetGood'
  <1>1. CASE StartPass
    BY <1>1
      DEF TypeOK, Record, TargetGood, BoundIsReal, StartPass, Go, Terminal,
          world, Releasing
  <1>2. CASE Cleanup
    BY <1>2
      DEF TypeOK, Record, TargetGood, BoundIsReal, Cleanup, Terminal, Go,
          world, Releasing
  <1>3. CASE RequestTurn
    BY <1>3
      DEF TypeOK, Record, TargetGood, BoundIsReal, RequestTurn, TurnAppended,
          Go, FirstAction, world, WithTurn, Releasing
  <1>4. CASE ProposedStop
    BY <1>4
      DEF TypeOK, Record, TargetGood, BoundIsReal, ProposedStop, ApplyStop,
          WithTurn, Moved, Go, world, Releasing
  <1>5. CASE StandingRequest
    BY <1>5
      DEF TypeOK, Record, TargetGood, BoundIsReal, StandingRequest, Go, world,
          Releasing
  <1>6. CASE Advance
    BY <1>6
      DEF TypeOK, Record, TargetGood, BoundIsReal, Advance, Go, Unresolved,
          world, Releasing, DispatchGood, Undispatched, Dispatched,
          SpawnsWithinReceipts
  <1>7. CASE Recover
    BY <1>7
      DEF TypeOK, Record, TargetGood, BoundIsReal, Recover, Unresolved, Go,
          Moved, WithTurn, world, Releasing
  <1>8. CASE RecoveryStop
    BY <1>8
      DEF TypeOK, Record, TargetGood, BoundIsReal, RecoveryStop, Unresolved,
          ApplyStop, WithTurn, Moved, Go, world, Releasing
  <1>9. CASE Mint
    BY <1>9
      DEF TypeOK, Record, TargetGood, BoundIsReal, Mint, Go, AfterRefusal,
          world, Releasing
  <1>10. CASE Consume
    BY <1>10
      DEF TypeOK, Record, TargetGood, BoundIsReal, Consume, world,
          AfterRefusal, Releasing
  <1>11. CASE ConsumeExpired
    BY <1>11
      DEF TypeOK, Record, TargetGood, BoundIsReal, ConsumeExpired,
          AfterRefusal, world, Releasing
  <1>12. CASE Materialize
    BY <1>12
      DEF TypeOK, Record, TargetGood, BoundIsReal, Materialize, At,
          SaveReturn, AfterRefusal, Within, Persisted, Return, Terminal,
          Moved, Releasing
  <1>13. CASE Trust
    BY <1>13
      DEF TypeOK, Record, TargetGood, BoundIsReal, Trust, SaveReturn, Moved,
          WithReceipts, world, Persisted, Return, Terminal, Releasing
  <1>14. CASE Prepare
    BY <1>14
      DEF TypeOK, Record, TargetGood, BoundIsReal, Prepare, At, SaveReturn,
          Moved, WithReceipts, world, Persisted, Return, Terminal, Releasing
  <1>15. CASE ValidateHandoff
    BY <1>15
      DEF TypeOK, Record, TargetGood, BoundIsReal, ValidateHandoff, At,
          SaveReturn, Moved, WithTurn, world, Persisted, Return, Terminal,
          Releasing
  <1>16. CASE Dispatch
    BY <1>16
      DEF TypeOK, Record, TargetGood, BoundIsReal, Dispatch, SaveReturn,
          Moved, Refuse, Marked, world, Persisted, Return, AfterRefusal,
          WithReceipts, Terminal, Releasing, DispatchGood, Undispatched,
          Dispatched, SpawnsWithinReceipts, PhaseAtPoint, At
  <1>17. CASE Launch
    BY <1>17
      DEF TypeOK, Record, TargetGood, BoundIsReal, Launch, Within, Releasing,
          RuntimeTypeOK, DispatchGood, Undispatched, Dispatched,
          SpawnsWithinReceipts
  <1>18. CASE RecordLaunch
    BY <1>18
      DEF TypeOK, Record, TargetGood, BoundIsReal, RecordLaunch, Within,
          Releasing, RuntimeTypeOK
  <1>19. CASE LaunchRaises
    BY <1>19
      DEF TypeOK, Record, TargetGood, BoundIsReal, LaunchRaises, SaveReturn,
          Moved, world, Persisted, Return, Terminal, Releasing
  <1>20. CASE Bind
    BY <1>20
      DEF TypeOK, Record, TargetGood, BoundIsReal, Bind, SaveReturn, Return,
          world, Persisted, Terminal, Moved, Releasing
  <1>21. CASE VerifyWaits
    BY <1>21
      DEF TypeOK, Record, TargetGood, BoundIsReal, VerifyWaits, At, Return,
          SaveReturn, Moved, Noted, world, Persisted, WithReceipts, Terminal,
          Releasing
  <1>22. CASE VerifyStopped
    BY <1>22
      DEF TypeOK, Record, TargetGood, BoundIsReal, VerifyStopped, At,
          VerificationBlock, Within, WithReceipts, WithTurn, SaveReturn,
          Moved, world, Persisted, Return, Terminal, Releasing
  <1>23. CASE Gates
    BY <1>23
      DEF TypeOK, Record, TargetGood, BoundIsReal, Gates, SaveReturn, Moved,
          WithTurn, VerificationBlock, world, Persisted, Return, WithReceipts,
          Terminal, Releasing
  <1>24. CASE Complete
    BY <1>24
      DEF TypeOK, Record, TargetGood, BoundIsReal, Complete, At, SaveReturn,
          Moved, world, Persisted, Return, Terminal, Releasing
  <1>25. CASE Reconcile
    BY <1>25
      DEF TypeOK, Record, TargetGood, BoundIsReal, Reconcile, At, SaveReturn,
          Moved, WithReceipts, world, Persisted, Return, Terminal, Releasing,
          DispatchGood, Undispatched, Dispatched, SpawnsWithinReceipts,
          PhaseAtPoint
  <1>26. CASE Release
    BY <1>26
      DEF TypeOK, Record, TargetGood, BoundIsReal, Release, At, Return,
          Releasing
  <1>27. CASE Close
    BY <1>27
      DEF TypeOK, Record, TargetGood, BoundIsReal, Close, Within, Released,
          SaveReturn, WithReceipts, Persisted, Return, Terminal, Moved,
          Releasing
  <1>28. CASE Remove
    BY <1>28
      DEF TypeOK, Record, TargetGood, BoundIsReal, Remove, Within, Released,
          SaveReturn, WithReceipts, Persisted, Return, Terminal, Moved,
          Releasing
  <1>29. CASE TurnFails
    BY <1>29
      DEF TypeOK, Record, TargetGood, BoundIsReal, TurnFails, Unresolved, Go,
          world, Releasing
  <1>30. CASE ConsumeBlind
    BY <1>30
      DEF TypeOK, Record, TargetGood, BoundIsReal, ConsumeBlind, AfterRefusal,
          world, Releasing
  <1>31. CASE CheckFails
    BY <1>31
      DEF TypeOK, Record, TargetGood, BoundIsReal, CheckFails, Refuse, world,
          Return, AfterRefusal, Releasing
  <1>32. CASE DispatchUntrusted
    BY <1>32
      DEF TypeOK, Record, TargetGood, BoundIsReal, DispatchUntrusted,
          SaveReturn, Moved, WithReceipts, world, Persisted, Return, Terminal,
          Releasing
  <1>33. CASE VerifyBroken
    BY <1>33
      DEF TypeOK, Record, TargetGood, BoundIsReal, VerifyBroken, At,
          VerificationBlock, world, SaveReturn, Moved, WithReceipts,
          Persisted, Return, Terminal, Releasing
  <1>34. CASE ReconcileDegraded
    BY <1>34
      DEF TypeOK, Record, TargetGood, BoundIsReal, ReconcileDegraded, At,
          SaveReturn, Moved, WithReceipts, world, Persisted, Return, Terminal,
          Releasing
  <1>35. CASE ReleaseTrustKept
    BY <1>35
      DEF TypeOK, Record, TargetGood, BoundIsReal, ReleaseTrustKept, At,
          SaveReturn, WithReceipts, Persisted, Return, Terminal, Moved,
          Releasing
  <1>36. CASE CloseBlind
    BY <1>36
      DEF TypeOK, Record, TargetGood, BoundIsReal, CloseBlind, Released,
          world, SaveReturn, WithReceipts, Persisted, Return, Terminal, Moved,
          Releasing
  <1>37. CASE Crash
    BY <1>37
      DEF TypeOK, Record, TargetGood, BoundIsReal, Crash, world, Releasing
  <1>38. CASE TargetStops
    BY <1>38
      DEF TypeOK, Record, TargetGood, BoundIsReal, TargetStops, control,
          Releasing
  <1>39. CASE TargetResumes
    BY <1>39
      DEF TypeOK, Record, TargetGood, BoundIsReal, TargetResumes, control,
          Releasing
  <1>40. CASE SessionEnds
    BY <1>40
      DEF TypeOK, Record, TargetGood, BoundIsReal, SessionEnds, control,
          Releasing
  <1>41. CASE PolicyMoves
    BY <1>41
      DEF TypeOK, Record, TargetGood, BoundIsReal, PolicyMoves, control,
          Releasing
  <1>42. CASE RequestAges
    BY <1>42
      DEF TypeOK, Record, TargetGood, BoundIsReal, RequestAges, Unresolved,
          rtVars, control, world, Releasing
  <1>43. CASE CapabilityExpires
    BY <1>43
      DEF TypeOK, Record, TargetGood, BoundIsReal, CapabilityExpires, Kinds,
          world, Releasing
  <1> QED
    BY <1>1, <1>2, <1>3, <1>4, <1>5, <1>6, <1>7, <1>8, <1>9, <1>10, <1>11,
       <1>12, <1>13, <1>14, <1>15, <1>16, <1>17, <1>18, <1>19, <1>20, <1>21,
       <1>22, <1>23, <1>24, <1>25, <1>26, <1>27, <1>28, <1>29, <1>30, <1>31,
       <1>32, <1>33, <1>34, <1>35, <1>36, <1>37, <1>38, <1>39, <1>40, <1>41,
       <1>42, <1>43
      DEF RuntimeNext, RuntimeStep, RuntimeFault, Surroundings

\* The adapter has no part in the target.
LEMMA LaneKeepsTarget ==
    ASSUME TargetGood, LaneKeeps, UNCHANGED rtVars
    PROVE  TargetGood'
  BY DEF LaneKeeps, TargetGood, BoundIsReal, rtVars, control, world, Releasing

-----------------------------------------------------------------------------
(* The result *)

\* Every step of the adapter keeps one result object for a placeholder: a call is
\* made only from an intent saved before, and an unknown outcome ends the sending.
LEMMA LaneStepGood ==
    ASSUME TypeOK, LaneGood, LaneNext
    PROVE  LaneGood'
  <1>1. CASE ClaimPlaceholder
    BY <1>1
      DEF TypeOK, Record, LaneTypeOK, LaneGood, OneResultObject,
          DeliveredWasShown, ClaimPlaceholder, PlaceholderClaimable, LaneSaves
  <1>2. CASE Send
    BY <1>2
      DEF TypeOK, Record, LaneTypeOK, LaneGood, OneResultObject,
          DeliveredWasShown, Send
  <1>3. CASE RecordPlaceholder
    BY <1>3
      DEF TypeOK, Record, LaneTypeOK, LaneGood, OneResultObject,
          DeliveredWasShown, RecordPlaceholder, LaneSaves, SendOutcome
  <1>4. CASE ClaimEdit
    BY <1>4
      DEF TypeOK, Record, LaneTypeOK, LaneGood, OneResultObject,
          DeliveredWasShown, ClaimEdit, EditClaimable, LaneSaves
  <1>5. CASE Edit
    BY <1>5
      DEF TypeOK, Record, LaneTypeOK, LaneGood, OneResultObject,
          DeliveredWasShown, Edit
  <1>6. CASE SettleEdit
    BY <1>6
      DEF TypeOK, Record, LaneTypeOK, LaneGood, OneResultObject,
          DeliveredWasShown, SettleEdit, LaneSaves, EditOutcome
  <1>7. CASE Reserve
    BY <1>7
      DEF TypeOK, Record, LaneTypeOK, LaneGood, OneResultObject,
          DeliveredWasShown, Reserve, LegacyEligible, LaneSaves
  <1>8. CASE LegacySend
    BY <1>8
      DEF TypeOK, Record, LaneTypeOK, LaneGood, OneResultObject,
          DeliveredWasShown, LegacySend
  <1>9. CASE MarkLegacy
    BY <1>9
      DEF TypeOK, Record, LaneTypeOK, LaneGood, OneResultObject,
          DeliveredWasShown, MarkLegacy, LaneSaves, LegacyOutcome
  <1>10. CASE LaneStart
    BY <1>10
      DEF TypeOK, Record, LaneTypeOK, LaneGood, OneResultObject,
          DeliveredWasShown, LaneStart, LaneSaves, Interrupted
  <1>11. CASE Approve
    BY <1>11
      DEF TypeOK, Record, LaneTypeOK, LaneGood, OneResultObject,
          DeliveredWasShown, Approve, LaneSaves
  <1>12. CASE Reject
    BY <1>12
      DEF TypeOK, Record, LaneTypeOK, LaneGood, OneResultObject,
          DeliveredWasShown, Reject, LaneSaves, Moved
  <1>13. CASE LaneCrash
    BY <1>13
      DEF TypeOK, Record, LaneTypeOK, LaneGood, OneResultObject,
          DeliveredWasShown, LaneCrash
  <1>14. CASE StoreFault
    BY <1>14
      DEF TypeOK, Record, LaneTypeOK, LaneGood, OneResultObject,
          DeliveredWasShown, StoreFault, LaneFaults
  <1>15. CASE Delete
    BY <1>15
      DEF TypeOK, Record, LaneTypeOK, LaneGood, OneResultObject,
          DeliveredWasShown, Delete
  <1> QED
    BY <1>1, <1>2, <1>3, <1>4, <1>5, <1>6, <1>7, <1>8, <1>9, <1>10, <1>11,
       <1>12, <1>13, <1>14, <1>15
      DEF LaneNext, LaneStep

\* The runtime completes a workflow without touching what the adapter wrote.
LEMMA RuntimeKeepsLane ==
    ASSUME TypeOK, LaneGood, RuntimeKeeps, UNCHANGED laneVars
    PROVE  LaneGood'
  BY DEF RuntimeKeeps, LaneGood, OneResultObject, DeliveredWasShown, laneVars,
         AllowedTransitions, Forward, Terminal, Phases

-----------------------------------------------------------------------------
(* The invariant holds *)

\* The invariant holds of a new plan and of an armed legacy record.
LEMMA InitGood ==
    ASSUME Init
    PROVE  IInv
  <1>1. /\ wf.phase \in {"PLANNED", "AUTHORIZED"}
        /\ wf.placeholder = "none"
        /\ wf.delivery = "none"
        /\ wf.dispatches = 0 /\ wf.engine = "none"
    BY DEF Init, NewRecord
  <1>2. wf \in Record
    <2>1. ASSUME NEW phase \in Phases
          PROVE  NewRecord(phase) \in Record
      <3>1. FALSE \in BOOLEAN
        BY Zenon
      <3>2. /\ "none" \in Freshness
            /\ "none" \in PlaceholderStates
            /\ "none" \in DeliveryStates
        BY DEF Freshness, PlaceholderStates, DeliveryStates
      <3> QED
        BY <3>1, <3>2 DEF NewRecord, Record
    <2> QED
      BY <2>1 DEF Init, Phases
  <1>3. live = [k \in Kinds |-> 0] /\ live["forward"] = 0 /\ live["cleanup"] = 0
    BY DEF Init, RuntimeInit, Kinds
  <1>4. TypeOK
    <2>1. RuntimeTypeOK
      <3>1. dir \in BOOLEAN /\ archived \in BOOLEAN
        BY Zenon DEF Init, RuntimeInit
      <3>2. /\ pc \in Pcs
            /\ act \in Actions \cup {"none"}
            /\ token \in {"none", "live", "expired"}
            /\ snapshot \in {"none", "owned"} /\ child \in {"none", "running", "stopped"}
            /\ childRecord \in {"none", "good", "bad"}
            /\ policy \in {"same", "drifted", "unreadable"}
        BY Zenon DEF Init, RuntimeInit, Pcs
      <3>3. live \in [Kinds -> Nat]
        BY <1>3
      <3>4. /\ growth \in Nat
            /\ session \in Nat
            /\ spawns \in Nat
            /\ crashes \in Nat
        <4>1. growth = 0 /\ session = 0 /\ spawns = 0 /\ crashes = 0
          BY Zenon DEF Init, RuntimeInit
        <4> QED
          BY <4>1
      <3> QED
        BY <3>1, <3>2, <3>3, <3>4, Zenon DEF RuntimeTypeOK
    <2>2. LaneTypeOK
      BY DEF Init, LaneInit, LaneTypeOK, LanePcs, Answers
    <2> QED
      BY <1>2, <2>1, <2>2, DisturbedAssumption DEF Init, TypeOK
  <1>5. TokenGood
    BY <1>3 DEF Init, RuntimeInit, TokenGood
  <1>6. ControlGood
    BY DEF Init, RuntimeInit, ControlGood, InAction, Launching, Releasing
  <1>7. DispatchGood
    BY <1>1, FollowUpsAssumption
      DEF Init, RuntimeInit, DispatchGood, SpawnsWithinReceipts,
       VerifiedOnlyResolved, Undispatched, Dispatched
  <1>8. TargetGood
    BY <1>1 DEF Init, RuntimeInit, TargetGood, BoundIsReal, Releasing
  <1>9. LaneGood
    BY <1>1 DEF Init, LaneInit, LaneGood, OneResultObject, DeliveredWasShown
  <1> QED
    BY <1>4, <1>5, <1>6, <1>7, <1>8, <1>9 DEF IInv

\* The invariant is about the variables of the system only.
LEMMA StutterGood ==
    ASSUME IInv, UNCHANGED vars
    PROVE  IInv'
  <1>1. TypeOK'
    BY DEF IInv, TypeOK, RuntimeTypeOK, LaneTypeOK, vars, rtVars, laneVars,
           control, world
  <1>2. TokenGood' /\ ControlGood'
    BY DEF IInv, TokenGood, ControlGood, vars, rtVars, control, world
  <1>3. DispatchGood'
    BY DEF IInv, DispatchGood, SpawnsWithinReceipts, VerifiedOnlyResolved,
           vars, rtVars, control, world
  <1>4. TargetGood'
    BY DEF IInv, TargetGood, BoundIsReal, vars, rtVars, control, world
  <1>5. LaneGood'
    BY DEF IInv, LaneGood, OneResultObject, DeliveredWasShown, vars, laneVars
  <1> QED
    BY <1>1, <1>2, <1>3, <1>4, <1>5 DEF IInv

\* A step of the runtime, its faults or its surroundings keeps the invariant.
LEMMA RuntimeGood ==
    ASSUME IInv, RuntimeNext, UNCHANGED laneVars
    PROVE  IInv'
  <1>1. PhaseAtPoint
    BY PhaseKnown DEF IInv
  <1>2. RuntimeKeeps
    BY <1>1, RuntimeStepKeeps DEF IInv
  <1>3. TypeOK'
    <2>1. LaneTypeOK'
      BY DEF IInv, TypeOK, LaneTypeOK, laneVars
    <2> QED
      BY <2>1, RuntimeTyped, RuntimeRecordTyped DEF IInv, TypeOK
  <1>4. TokenGood'
    BY TokenStep DEF IInv
  <1>5. ControlGood'
    BY <1>1, ControlStep DEF IInv
  <1>6. DispatchGood' /\ TargetGood'
    BY <1>1, DispatchStep, TargetStep DEF IInv
  <1>7. LaneGood'
    BY <1>2, RuntimeKeepsLane DEF IInv
  <1> QED
    BY <1>3, <1>4, <1>5, <1>6, <1>7 DEF IInv

\* A step of the adapter, its faults or its chat keeps the invariant.
LEMMA AdapterGood ==
    ASSUME IInv, LaneNext, UNCHANGED rtVars
    PROVE  IInv'
  <1>1. LaneKeeps
    BY LaneStepKeeps DEF IInv
  <1>2. TypeOK'
    <2>1. RuntimeTypeOK'
      BY DEF IInv, TypeOK, RuntimeTypeOK, rtVars, control, world
    <2>2. lock' \in {"free", "held"}
      BY <1>1 DEF IInv, TypeOK, LaneKeeps
    <2> QED
      BY <2>1, <2>2, LaneTyped, LaneRecordTyped DEF IInv, TypeOK
  <1>3. TokenGood' /\ ControlGood'
    BY <1>1, LaneKeepsToken, LaneKeepsControl DEF IInv
  <1>4. DispatchGood'
    BY <1>1, LaneKeepsDispatch DEF IInv
  <1>5. TargetGood'
    BY <1>1, LaneKeepsTarget DEF IInv
  <1>6. LaneGood'
    BY LaneStepGood DEF IInv
  <1> QED
    BY <1>2, <1>3, <1>4, <1>5, <1>6 DEF IInv

\* The inductive invariant holds in every reachable state of the runtime, the
\* broker and the adapter, whatever the bounds and the number of faults.
THEOREM Invariance == Spec => []IInv
  <1>1. Init => IInv
    BY InitGood
  <1>2. IInv /\ [Next]_vars => IInv'
    BY RuntimeGood, AdapterGood, StutterGood DEF Next
  <1> QED
    BY <1>1, <1>2, PTL DEF Spec

\* Every record either process saves is well formed (record.py, the validator).
THEOREM TypeCorrect == Spec => []TypeOK
  <1>1. IInv => TypeOK
    BY DEF IInv
  <1> QED
    BY <1>1, Invariance, PTL

\* A target is never launched more often than there are durable dispatch receipts,
\* nor than the authorization allows (_dispatch: the marker is saved first).
THEOREM LaunchesCounted == Spec => []SpawnsWithinReceipts
  <1>1. IInv => SpawnsWithinReceipts
    BY DEF IInv, DispatchGood
  <1> QED
    BY <1>1, Invariance, PTL

\* No target is launched for a placeholder that is not bound, and the binding
\* stays (_placeholder_dispatch_refusal and the adapter's outcome table).
THEOREM LaunchNeedsBound == Spec => []SpawnNeedsBound
  <1>1. IInv => SpawnNeedsBound
    BY DEF IInv, TypeOK, RuntimeTypeOK, Record, DispatchGood,
           SpawnsWithinReceipts, SpawnNeedsBound
  <1> QED
    BY <1>1, Invariance, PTL

\* A verified or completed workflow has its exact target bound
\* (dispatch_identity_unresolved, asked before every verify).
THEOREM VerifiedResolved == Spec => []VerifiedOnlyResolved
  <1>1. IInv => VerifiedOnlyResolved
    BY DEF IInv, DispatchGood
  <1> QED
    BY <1>1, Invariance, PTL

\* A bound identity is that of a recorded launch that happened (_reconcile and
\* target_identity_from_spawn never guess).
THEOREM BindingReal == Spec => []BoundIsReal
  <1>1. IInv => BoundIsReal
    BY DEF IInv, TargetGood
  <1> QED
    BY <1>1, Invariance, PTL

\* A workflow with a placeholder never has two result objects in the chat
\* (_claim_one_placeholder, _reconcile_sending_placeholders).
THEOREM ResultOnce == Spec => []OneResultObject
  <1>1. IInv => OneResultObject
    BY DEF IInv, LaneGood
  <1> QED
    BY <1>1, Invariance, PTL

\* What is recorded as delivered by edit was shown (_classify_edit_outcome).
THEOREM DeliveredShown == Spec => []DeliveredWasShown
  <1>1. IInv => DeliveredWasShown
    BY DEF IInv, LaneGood
  <1> QED
    BY <1>1, Invariance, PTL

\* Between passes only crashes leave live capabilities behind: perform consumes
\* the token before any refusal.
THEOREM CapabilitiesReturned == Spec => []NoLeak
  <1>1. IInv => NoLeak
    BY DEF IInv, TypeOK, RuntimeTypeOK, Kinds, TokenGood, NoLeak
  <1> QED
    BY <1>1, Invariance, PTL

\* Every phase change, containment of an unsavable record included, is one that
\* ALLOWED_TRANSITIONS lists.
THEOREM PhasesFollow == Spec => PhaseFollowsTable
  <1>1. ASSUME IInv, Next, wf'.phase # wf.phase
        PROVE  <<wf.phase, wf'.phase>> \in AllowedTransitions
    <2>1. CASE RuntimeNext
      <3>1. PhaseAtPoint
        BY PhaseKnown, <1>1 DEF IInv
      <3> QED
        BY <1>1, <2>1, <3>1, RuntimeStepKeeps DEF IInv, RuntimeKeeps
    <2>2. CASE LaneNext
      <3>1. wf.phase = "PLANNED" /\ wf'.phase \in {"AUTHORIZED", "BLOCKED"}
        BY <1>1, <2>2, LaneStepKeeps DEF IInv, LaneKeeps
      <3> QED
        BY <3>1 DEF AllowedTransitions, Forward, Phases, Terminal
    <2> QED
      BY <1>1, <2>1, <2>2 DEF Next
  <1>2. IInv /\ [Next]_vars =>
          [wf'.phase # wf.phase => <<wf.phase, wf'.phase>> \in AllowedTransitions]_vars
    BY <1>1
  <1> QED
    BY <1>2, Invariance, PTL DEF Spec, PhaseFollowsTable

\* The directory goes only in relinquish_workspace.
LEMMA OnlyRemoveRemoves ==
    ASSUME RuntimeNext, dir, ~dir'
    PROVE  pc = "remove"
  <1>1. CASE StartPass
    BY <1>1 DEF StartPass, world
  <1>2. CASE Cleanup
    BY <1>2 DEF Cleanup, world
  <1>3. CASE RequestTurn
    BY <1>3 DEF RequestTurn, world
  <1>4. CASE ProposedStop
    BY <1>4 DEF ProposedStop, ApplyStop, world
  <1>5. CASE StandingRequest
    BY <1>5 DEF StandingRequest, world
  <1>6. CASE Advance
    BY <1>6 DEF Advance, world
  <1>7. CASE Recover
    BY <1>7 DEF Recover, world
  <1>8. CASE RecoveryStop
    BY <1>8 DEF RecoveryStop, ApplyStop, world
  <1>9. CASE Mint
    BY <1>9 DEF Mint, world
  <1>10. CASE Consume
    BY <1>10 DEF Consume, world
  <1>11. CASE ConsumeExpired
    BY <1>11 DEF ConsumeExpired, world
  <1>12. CASE Materialize
    BY <1>12 DEF Materialize
  <1>13. CASE Trust
    BY <1>13 DEF Trust, world
  <1>14. CASE Prepare
    BY <1>14 DEF Prepare, world
  <1>15. CASE ValidateHandoff
    BY <1>15 DEF ValidateHandoff, world
  <1>16. CASE Dispatch
    BY <1>16 DEF Dispatch, world
  <1>17. CASE Launch
    BY <1>17 DEF Launch
  <1>18. CASE RecordLaunch
    BY <1>18 DEF RecordLaunch
  <1>19. CASE LaunchRaises
    BY <1>19 DEF LaunchRaises, world
  <1>20. CASE Bind
    BY <1>20 DEF Bind, world
  <1>21. CASE VerifyWaits
    BY <1>21 DEF VerifyWaits, world
  <1>22. CASE VerifyStopped
    BY <1>22 DEF VerifyStopped, world
  <1>23. CASE Gates
    BY <1>23 DEF Gates, world
  <1>24. CASE Complete
    BY <1>24 DEF Complete, world
  <1>25. CASE Reconcile
    BY <1>25 DEF Reconcile, world
  <1>26. CASE Release
    BY <1>26 DEF Release
  <1>27. CASE Close
    BY <1>27 DEF Close
  <1>28. CASE Remove
    BY <1>28 DEF Remove
  <1>29. CASE TurnFails
    BY <1>29 DEF TurnFails, world
  <1>30. CASE ConsumeBlind
    BY <1>30 DEF ConsumeBlind, world
  <1>31. CASE CheckFails
    BY <1>31 DEF CheckFails, world
  <1>32. CASE DispatchUntrusted
    BY <1>32 DEF DispatchUntrusted, world
  <1>33. CASE VerifyBroken
    BY <1>33 DEF VerifyBroken, world
  <1>34. CASE ReconcileDegraded
    BY <1>34 DEF ReconcileDegraded, world
  <1>35. CASE ReleaseTrustKept
    BY <1>35 DEF ReleaseTrustKept
  <1>36. CASE CloseBlind
    BY <1>36 DEF CloseBlind, world
  <1>37. CASE Crash
    BY <1>37 DEF Crash, world
  <1>38. CASE TargetStops
    BY <1>38 DEF TargetStops
  <1>39. CASE TargetResumes
    BY <1>39 DEF TargetResumes
  <1>40. CASE SessionEnds
    BY <1>40 DEF SessionEnds
  <1>41. CASE PolicyMoves
    BY <1>41 DEF PolicyMoves
  <1>42. CASE RequestAges
    BY <1>42 DEF RequestAges, rtVars, world
  <1>43. CASE CapabilityExpires
    BY <1>43 DEF CapabilityExpires, world
  <1> QED
    BY <1>1, <1>2, <1>3, <1>4, <1>5, <1>6, <1>7, <1>8, <1>9, <1>10, <1>11,
       <1>12, <1>13, <1>14, <1>15, <1>16, <1>17, <1>18, <1>19, <1>20, <1>21,
       <1>22, <1>23, <1>24, <1>25, <1>26, <1>27, <1>28, <1>29, <1>30, <1>31,
       <1>32, <1>33, <1>34, <1>35, <1>36, <1>37, <1>38, <1>39, <1>40, <1>41,
       <1>42, <1>43
      DEF RuntimeNext, RuntimeStep, RuntimeFault, Surroundings

\* The workspace of a launched target is removed only once its evidence is
\* preserved (_release).
THEOREM ArchivedFirst == Spec => ArchivedBeforeRemoval
  <1>1. ASSUME IInv, Next, dir, ~dir', spawns > 0
        PROVE  archived
    <2>1. CASE LaneNext /\ UNCHANGED rtVars
      BY <1>1, <2>1 DEF rtVars, world
    <2>2. CASE RuntimeNext
      BY <1>1, <2>2, OnlyRemoveRemoves DEF IInv, TargetGood, Releasing
    <2> QED
      BY <1>1, <2>1, <2>2 DEF Next
  <1>2. IInv /\ [Next]_vars => [dir /\ ~dir' /\ spawns > 0 => archived]_vars
    BY <1>1
  <1> QED
    BY <1>2, Invariance, PTL DEF Spec, ArchivedBeforeRemoval

\* The one step that makes a workflow verified sees, at that step, the authorized
\* policy and a stopped target.
LEMMA OnlyGatesVerify ==
    ASSUME TypeOK, PhaseAtPoint, RuntimeNext, wf.phase # "VERIFIED", wf'.phase = "VERIFIED"
    PROVE  policy = "same" /\ child = "stopped"
  <1>1. CASE StartPass
    BY <1>1 DEF TypeOK, Record, StartPass, Go, Terminal
  <1>2. CASE Cleanup
    BY <1>2 DEF TypeOK, Record, Cleanup, Terminal, Go
  <1>3. CASE RequestTurn
    BY <1>3 DEF TypeOK, Record, RequestTurn, TurnAppended, Go, WithTurn
  <1>4. CASE ProposedStop
    BY <1>4 DEF TypeOK, Record, ProposedStop, ApplyStop, WithTurn, Moved, Go
  <1>5. CASE StandingRequest
    BY <1>5 DEF TypeOK, Record, StandingRequest, Go
  <1>6. CASE Advance
    BY <1>6 DEF TypeOK, Record, Advance, Go, PhaseAtPoint, At
  <1>7. CASE Recover
    BY <1>7 DEF TypeOK, Record, Recover, Go, Moved, WithTurn
  <1>8. CASE RecoveryStop
    BY <1>8 DEF TypeOK, Record, RecoveryStop, ApplyStop, WithTurn, Moved, Go
  <1>9. CASE Mint
    BY <1>9 DEF TypeOK, Record, Mint, Go
  <1>10. CASE Consume
    BY <1>10 DEF TypeOK, Record, Consume
  <1>11. CASE ConsumeExpired
    BY <1>11 DEF TypeOK, Record, ConsumeExpired
  <1>12. CASE Materialize
    BY <1>12
      DEF TypeOK, Record, Materialize, At, SaveReturn, Within, Persisted,
          Return, Terminal, Moved
  <1>13. CASE Trust
    BY <1>13
      DEF TypeOK, Record, Trust, SaveReturn, Moved, WithReceipts, Persisted,
          Return, Terminal
  <1>14. CASE Prepare
    BY <1>14
      DEF TypeOK, Record, Prepare, At, SaveReturn, Moved, WithReceipts,
          Persisted, Return, Terminal
  <1>15. CASE ValidateHandoff
    BY <1>15
      DEF TypeOK, Record, ValidateHandoff, At, SaveReturn, Moved, WithTurn,
          Persisted, Return, Terminal
  <1>16. CASE Dispatch
    BY <1>16
      DEF TypeOK, Record, Dispatch, SaveReturn, Moved, Refuse, Marked,
          Persisted, Return, WithReceipts, Terminal
  <1>17. CASE Launch
    BY <1>17 DEF TypeOK, Record, Launch, Within
  <1>18. CASE RecordLaunch
    BY <1>18 DEF TypeOK, Record, RecordLaunch, Within
  <1>19. CASE LaunchRaises
    BY <1>19
      DEF TypeOK, Record, LaunchRaises, SaveReturn, Moved, Persisted, Return,
          Terminal
  <1>20. CASE Bind
    BY <1>20
      DEF TypeOK, Record, Bind, SaveReturn, Return, Persisted, Terminal, Moved
  <1>21. CASE VerifyWaits
    BY <1>21
      DEF TypeOK, Record, VerifyWaits, At, Return, SaveReturn, Moved, Noted,
          Persisted, WithReceipts, Terminal
  <1>22. CASE VerifyStopped
    BY <1>22
      DEF TypeOK, Record, VerifyStopped, At, VerificationBlock, Within,
          WithReceipts, WithTurn, SaveReturn, Moved, Persisted, Return,
          Terminal
  <1>23. CASE Gates
    BY <1>23
      DEF TypeOK, Record, Gates, SaveReturn, Moved, WithTurn,
          VerificationBlock, Persisted, Return, WithReceipts, Terminal
  <1>24. CASE Complete
    BY <1>24
      DEF TypeOK, Record, Complete, At, SaveReturn, Moved, Persisted, Return,
          Terminal
  <1>25. CASE Reconcile
    BY <1>25
      DEF TypeOK, Record, Reconcile, At, SaveReturn, Moved, WithReceipts,
          Persisted, Return, Terminal
  <1>26. CASE Release
    BY <1>26 DEF TypeOK, Record, Release, At, Return
  <1>27. CASE Close
    BY <1>27
      DEF TypeOK, Record, Close, Within, Released, SaveReturn, WithReceipts,
          Persisted, Return, Terminal, Moved
  <1>28. CASE Remove
    BY <1>28
      DEF TypeOK, Record, Remove, Within, Released, SaveReturn, WithReceipts,
          Persisted, Return, Terminal, Moved
  <1>29. CASE TurnFails
    BY <1>29 DEF TypeOK, Record, TurnFails, Go
  <1>30. CASE ConsumeBlind
    BY <1>30 DEF TypeOK, Record, ConsumeBlind
  <1>31. CASE CheckFails
    BY <1>31 DEF TypeOK, Record, CheckFails, Refusable, Refuse, Return
  <1>32. CASE DispatchUntrusted
    BY <1>32
      DEF TypeOK, Record, DispatchUntrusted, SaveReturn, Moved, WithReceipts,
          Persisted, Return, Terminal
  <1>33. CASE VerifyBroken
    BY <1>33
      DEF TypeOK, Record, VerifyBroken, At, VerificationBlock, SaveReturn,
          Moved, WithReceipts, Persisted, Return, Terminal
  <1>34. CASE ReconcileDegraded
    BY <1>34
      DEF TypeOK, Record, ReconcileDegraded, At, SaveReturn, Moved,
          WithReceipts, Persisted, Return, Terminal
  <1>35. CASE ReleaseTrustKept
    BY <1>35
      DEF TypeOK, Record, ReleaseTrustKept, At, SaveReturn, WithReceipts,
          Persisted, Return, Terminal, Moved
  <1>36. CASE CloseBlind
    BY <1>36
      DEF TypeOK, Record, CloseBlind, Released, SaveReturn, WithReceipts,
          Persisted, Return, Terminal, Moved
  <1>37. CASE Crash
    BY <1>37 DEF TypeOK, Record, Crash
  <1>38. CASE TargetStops
    BY <1>38 DEF TypeOK, Record, TargetStops, control
  <1>39. CASE TargetResumes
    BY <1>39 DEF TypeOK, Record, TargetResumes, control
  <1>40. CASE SessionEnds
    BY <1>40 DEF TypeOK, Record, SessionEnds, control
  <1>41. CASE PolicyMoves
    BY <1>41 DEF TypeOK, Record, PolicyMoves, control
  <1>42. CASE RequestAges
    BY <1>42 DEF TypeOK, Record, RequestAges
  <1>43. CASE CapabilityExpires
    BY <1>43 DEF TypeOK, Record, CapabilityExpires, Kinds
  <1> QED
    BY <1>1, <1>2, <1>3, <1>4, <1>5, <1>6, <1>7, <1>8, <1>9, <1>10, <1>11,
       <1>12, <1>13, <1>14, <1>15, <1>16, <1>17, <1>18, <1>19, <1>20, <1>21,
       <1>22, <1>23, <1>24, <1>25, <1>26, <1>27, <1>28, <1>29, <1>30, <1>31,
       <1>32, <1>33, <1>34, <1>35, <1>36, <1>37, <1>38, <1>39, <1>40, <1>41,
       <1>42, <1>43
      DEF RuntimeNext, RuntimeStep, RuntimeFault, Surroundings

\* A result is verified only against the policy and the target of that moment
\* (_VERIFICATION_GATES on a fresh collection), whatever happened during the turn.
THEOREM VerifiedFresh == Spec => VerifiedAgainstFresh
  <1>1. ASSUME IInv, Next, wf'.phase = "VERIFIED", wf.phase # "VERIFIED"
        PROVE  policy = "same" /\ child = "stopped"
    <2>1. CASE LaneNext
      BY <1>1, <2>1, LaneStepKeeps DEF IInv, LaneKeeps
    <2>2. CASE RuntimeNext
      BY <1>1, <2>2, PhaseKnown, OnlyGatesVerify DEF IInv
    <2> QED
      BY <1>1, <2>1, <2>2 DEF Next
  <1>2. IInv /\ [Next]_vars =>
          [wf'.phase = "VERIFIED" /\ wf.phase # "VERIFIED" =>
             policy = "same" /\ child = "stopped"]_vars
    BY <1>1
  <1> QED
    BY <1>2, Invariance, PTL DEF Spec, VerifiedAgainstFresh
=============================================================================
