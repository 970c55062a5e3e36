--------------------------- MODULE PrLedger_proofs ---------------------------
(***************************************************************************)
(* What a delivery's record tells, for every set of drivers: no path of    *)
(* the machine saves a record its validator refuses, an office call stays  *)
(* with the step that was confirmed, and a pr_update's push extends the    *)
(* approved head.  And for a delivery that one process drives, however it  *)
(* crashes: a receipt is voided only if its effect is absent, what is      *)
(* proven stays on record, and the delivery implements EffectLedger.       *)
(*                                                                         *)
(* All of these are about what a step makes of the driver's copy of the    *)
(* record.  The handlers are therefore first reduced to the edges of the   *)
(* driver's control, each with the copy it leaves and what the handler     *)
(* found out before; the invariants are then proved edge by edge.          *)
(***************************************************************************)
EXTENDS PrDelivery_proofs

-----------------------------------------------------------------------------
(* The edges of a driver's control *)

Working == Pcs \ {"idle", "save"}

\* What a handler has found before it voids a receipt, or settles a step.
Absent(d) ==
    LET receipt == EntryOf(d).receipt IN
      /\ StepOf(d) \in {"BASE_REFRESH", "COMMIT"} => head = receipt.from
      /\ StepOf(d) = "PUSH" => remote = receipt.from /\ remote # receipt.to
      /\ StepOf(d) = "PR_CREATE" => openPr = NoOid

Present(d) ==
    LET receipt == EntryOf(d).receipt IN
      /\ StepOf(d) = "COMMIT" => head = receipt.to
      /\ StepOf(d) = "PUSH" => remote = receipt.to
      /\ StepOf(d) = "PR_CREATE" => openPr = receipt.to \/ receipt.to \in closedPrs

\* The receipt a handler derives for copy r.
Derived(r, step, from, to) ==
    /\ step \in {"BASE_REFRESH", "COMMIT"} => from = Base(r.base)
    /\ step = "COMMIT" => to = Commit(r.base, r.base)
    /\ step = "PUSH" => to = Delivered(r) /\ (Mode = "pr_update" => from = Base(0))

\* The copy of a cleared receipt, with the revocation folded in.
Reread(d) == [rec[d] EXCEPT !.revoked = disk.revoked]

Loaded(d) == pc[d] = "idle" /\ Expected(d) /\ disk.phase \notin Terminal

\* A step that saves nothing: to the point at, with the copy r.
GoEdge(d, r, at) ==
    \/ /\ Loaded(d) /\ ~disk.revoked /\ r = disk
       /\ at = IF StepForPhase(disk.phase) = "none" THEN "view" ELSE "dispatch"
    \/ /\ pc[d] = "refresh" /\ ~disk.revoked
       /\ r = Reread(d) /\ at = EffectPc(r)
    \/ /\ pc[d] = "dispatch" /\ Unsettled(EntryOf(d).receipt)
       /\ r = Reopened(rec[d], StepOf(d))
       /\ \/ StepOf(d) = "BASE_REFRESH" /\ at = "observe"
          \/ StepOf(d) = "BASE_REFRESH" /\ at = "effect" /\ Absent(d)
          \/ StepOf(d) = "PR_CREATE" /\ at = "adopt"
    \/ /\ r = rec[d]
       /\ <<pc[d], at>> \in {<<"readtree", "effect">>, <<"effect", "observe">>,
                             <<"lookup", "adopt">>, <<"lookup", "create">>,
                             <<"relook", "adopt">>, <<"create", "relook">>}

\* A step that ends at the save of copy r, with the point at after it.
SaveEdge(d, r, at) ==
    \/ Loaded(d) /\ disk.revoked /\ r = Revoked(disk) /\ at = "idle"
    \/ Loaded(d) /\ r = BlockedRecord(disk) /\ at = "idle"
    \/ pc[d] \in Working /\ r = BlockedRecord(rec[d]) /\ at = "idle"
    \/ pc[d] \in StepPcs \cup {"view"} /\ r = Retried(rec[d]) /\ at = "idle"
    \/ pc[d] = "revoke" /\ r = Revoked(rec[d]) /\ at = "idle"
    \/ /\ pc[d] \in {"dispatch", "tail"}
       /\ pc[d] = "dispatch" => ~Unsettled(EntryOf(d).receipt)
       /\ StepOf(d) \in Steps /\ at = "refresh"
       /\ \E from, to \in Oid : /\ r = Started(rec[d], StepOf(d), from, to)
                                /\ Derived(rec[d], StepOf(d), from, to)
    \/ /\ pc[d] = "refresh" /\ r = Voided(Reread(d), StepOf(d))
       /\ at = IF disk.revoked THEN "revoke" ELSE "expire"
    \/ /\ pc[d] = "dispatch" /\ Unsettled(EntryOf(d).receipt) /\ Absent(d)
       /\ r = Voided(rec[d], StepOf(d)) /\ at \in {"idle", "dispatch"}
    \/ /\ pc[d] = "refresh" /\ StepOf(d) = "PUSH" /\ ~disk.revoked
       /\ EntryOf(d).receipt.from = EntryOf(d).receipt.to
       /\ r = Succeeded(Reread(d), "PUSH") /\ at = "idle"
    \/ /\ pc[d] = "dispatch" /\ StepOf(d) \in {"COMMIT", "PUSH"}
       /\ Unsettled(EntryOf(d).receipt) /\ Present(d)
       /\ r = Succeeded(Reopened(rec[d], StepOf(d)), StepOf(d)) /\ at = "idle"
    \/ /\ pc[d] = "observe" /\ StepOf(d) \in {"COMMIT", "PUSH"} /\ Present(d)
       /\ r = Succeeded(rec[d], StepOf(d)) /\ at = "idle"
    \/ /\ pc[d] = "observe" /\ StepOf(d) = "BASE_REFRESH" /\ at = "idle"
       /\ r = [Succeeded(rec[d], StepOf(d)) EXCEPT !.base = EntryOf(d).receipt.to.tree]
    \/ /\ pc[d] = "adopt" /\ Present(d)
       /\ r = Succeeded(rec[d], "PR_CREATE") /\ at = "complete"
    \/ /\ pc[d] = "dispatch" /\ StepOf(d) = "BASE_REFRESH"
       /\ ~Unsettled(EntryOf(d).receipt) /\ r = NotNeeded(rec[d]) /\ at = "idle"
    \/ /\ pc[d] = "dispatch" /\ StepOf(d) \in {"PUSH", "PR_CREATE"}
       /\ Mode = "pull_request" /\ ~Unsettled(EntryOf(d).receipt)
       /\ r = [rec[d] EXCEPT !.base = base] /\ at = "tail"
    \/ /\ pc[d] = "complete" \/ (pc[d] = "view" /\ Mode = "pr_update")
       /\ r = [rec[d] EXCEPT !.phase = "COMPLETE"] /\ at = "idle"

\* What a step of driver d that is not a save does to its control.
Edge(d) ==
    \/ Drop(d)
    \/ \E r, at : GoEdge(d, r, at) /\ GoWith(d, r, at)
    \/ \E r, at : SaveEdge(d, r, at) /\ SaveThen(d, r, at)

LEMMA BlockEdge ==
    ASSUME NEW d \in Drivers, pc[d] \in Working, Block(d, rec[d])
    PROVE  Edge(d)
  <1>1. SaveEdge(d, BlockedRecord(rec[d]), "idle")
    BY DEF SaveEdge
  <1> QED
    BY <1>1 DEF Edge, Block

LEMMA RetryEdge ==
    ASSUME NEW d \in Drivers, pc[d] \in StepPcs \cup {"view"}, Retry(d, rec[d])
    PROVE  Edge(d)
  <1>1. SaveEdge(d, Retried(rec[d]), "idle")
    BY DEF SaveEdge
  <1> QED
    BY <1>1 DEF Edge, Retry

LEMMA StartEdge ==
    ASSUME NEW d \in Drivers, pc[d] \in {"dispatch", "tail"},
           pc[d] = "dispatch" => ~Unsettled(EntryOf(d).receipt),
           StepOf(d) \in Steps, NEW from \in Oid, NEW to \in Oid,
           Derived(rec[d], StepOf(d), from, to),
           Start(d, rec[d], StepOf(d), from, to)
    PROVE  Edge(d)
  <1>1. CASE Block(d, rec[d])
    BY <1>1, BlockEdge DEF Working, Pcs
  <1>2. CASE SaveThen(d, Started(rec[d], StepOf(d), from, to), "refresh")
    <2>1. SaveEdge(d, Started(rec[d], StepOf(d), from, to), "refresh")
      BY DEF SaveEdge
    <2> QED
      BY <1>2, <2>1 DEF Edge
  <1> QED
    BY <1>1, <1>2 DEF Start

LEMMA LoadEdge ==
    ASSUME NEW d \in Drivers, Load(d)
    PROVE  Edge(d)
  <1>1. Loaded(d)
    BY DEF Load, Loaded
  <1>2. CASE disk.revoked /\ SaveThen(d, Revoked(disk), "idle")
    <2>1. SaveEdge(d, Revoked(disk), "idle")
      BY <1>1, <1>2 DEF SaveEdge
    <2> QED
      BY <1>2, <2>1 DEF Edge
  <1>3. CASE Block(d, disk)
    <2>1. SaveEdge(d, BlockedRecord(disk), "idle")
      BY <1>1 DEF SaveEdge
    <2> QED
      BY <1>3, <2>1 DEF Edge, Block
  <1>4. CASE ~disk.revoked /\ GoWith(d, disk, IF StepForPhase(disk.phase) = "none"
                                              THEN "view" ELSE "dispatch")
    <2>1. GoEdge(d, disk, IF StepForPhase(disk.phase) = "none" THEN "view" ELSE "dispatch")
      BY <1>1, <1>4 DEF GoEdge
    <2> QED
      BY <1>4, <2>1 DEF Edge
  <1> QED
    BY <1>2, <1>3, <1>4 DEF Load

LEMMA RefreshEdge ==
    ASSUME IInv, NEW d \in Drivers, Refresh(d)
    PROVE  Edge(d)
  <1> DEFINE r == Reread(d)
             receipt == EntryOf(d).receipt
  <1>1. pc[d] = "refresh"
    BY DEF Refresh
  <1>2. \/ /\ r.revoked \/ expired
           /\ SaveThen(d, Voided(r, StepOf(d)), IF r.revoked THEN "revoke" ELSE "expire")
        \/ /\ ~r.revoked /\ StepOf(d) = "PUSH" /\ receipt.from = receipt.to
           /\ SaveThen(d, Succeeded(r, "PUSH"), "idle")
        \/ ~r.revoked /\ GoWith(d, r, EffectPc(r))
    BY DEF Refresh, Reread
  <1>3. r.revoked = disk.revoked
    BY RecordFacts DEF Reread, Record
  <1>4. CASE SaveThen(d, Voided(r, StepOf(d)), IF r.revoked THEN "revoke" ELSE "expire")
    <2>1. SaveEdge(d, Voided(r, StepOf(d)), IF r.revoked THEN "revoke" ELSE "expire")
      BY <1>1, <1>3 DEF SaveEdge
    <2> QED
      BY <1>4, <2>1 DEF Edge
  <1>5. CASE /\ ~r.revoked /\ StepOf(d) = "PUSH" /\ receipt.from = receipt.to
             /\ SaveThen(d, Succeeded(r, "PUSH"), "idle")
    <2>1. SaveEdge(d, Succeeded(r, "PUSH"), "idle")
      BY <1>1, <1>3, <1>5 DEF SaveEdge
    <2> QED
      BY <1>5, <2>1 DEF Edge
  <1>6. CASE ~r.revoked /\ GoWith(d, r, EffectPc(r))
    <2>1. GoEdge(d, r, EffectPc(r))
      BY <1>1, <1>3, <1>6 DEF GoEdge
    <2> QED
      BY <1>6, <2>1 DEF Edge
  <1> QED
    BY <1>2, <1>4, <1>5, <1>6

LEMMA RefusedEdge ==
    ASSUME NEW d \in Drivers, Refused(d)
    PROVE  Edge(d)
  <1>1. CASE pc[d] = "revoke" /\ SaveThen(d, Revoked(rec[d]), "idle")
    <2>1. SaveEdge(d, Revoked(rec[d]), "idle")
      BY <1>1 DEF SaveEdge
    <2> QED
      BY <1>1, <2>1 DEF Edge
  <1>2. CASE pc[d] = "expire" /\ Block(d, rec[d])
    BY <1>2, BlockEdge DEF Working, Pcs
  <1> QED
    BY <1>1, <1>2 DEF Refused

\* Every handler that dispatches, looks or observes may block.
LEMMA StepBaseRefreshEdge ==
    ASSUME IInv, NEW d \in Drivers, StepBaseRefresh(d)
    PROVE  Edge(d)
  <1> DEFINE r == rec[d]
             receipt == EntryOf(d).receipt
  <1>1. pc[d] = "dispatch" /\ StepOf(d) = "BASE_REFRESH" /\ "BASE_REFRESH" \in Steps
        /\ pc[d] \in Working
    BY DEF StepBaseRefresh, Steps, Working, Pcs
  <1>2. CASE Unsettled(receipt) /\ ReconcileBaseRefresh(d)
    <2>1. CASE GoWith(d, Reopened(r, "BASE_REFRESH"), "observe")
      <3>1. GoEdge(d, Reopened(r, "BASE_REFRESH"), "observe")
        BY <1>1, <1>2 DEF GoEdge
      <3> QED
        BY <2>1, <3>1 DEF Edge
    <2>2. CASE head = receipt.from /\ GoWith(d, Reopened(r, "BASE_REFRESH"), "effect")
      <3>1. GoEdge(d, Reopened(r, "BASE_REFRESH"), "effect")
        BY <1>1, <1>2, <2>2 DEF GoEdge, Absent
      <3> QED
        BY <2>2, <3>1 DEF Edge
    <2>3. CASE head = receipt.from /\ SaveThen(d, Voided(r, "BASE_REFRESH"), "idle")
      <3>1. SaveEdge(d, Voided(r, "BASE_REFRESH"), "idle")
        BY <1>1, <1>2, <2>3 DEF SaveEdge, Absent
      <3> QED
        BY <2>3, <3>1 DEF Edge
    <2>4. CASE Block(d, r)
      BY <1>1, <2>4, BlockEdge
    <2> QED
      BY <1>2, <2>1, <2>2, <2>3, <2>4 DEF ReconcileBaseRefresh
  <1>3. CASE ~Unsettled(receipt) /\ ExamineBaseRefresh(d)
    <2>1. CASE Block(d, r)
      BY <1>1, <2>1, BlockEdge
    <2>2. CASE SaveThen(d, NotNeeded(r), "idle")
      <3>1. SaveEdge(d, NotNeeded(r), "idle")
        BY <1>1, <1>3 DEF SaveEdge
      <3> QED
        BY <2>2, <3>1 DEF Edge
    <2>3. CASE Start(d, r, "BASE_REFRESH", Base(r.base), Base(base))
      <3>1. Base(r.base) \in Oid /\ Base(base) \in Oid
        BY RecordFacts, OidTyped DEF Record
      <3>2. Derived(r, "BASE_REFRESH", Base(r.base), Base(base))
        BY DEF Derived
      <3> QED
        BY <1>1, <1>3, <2>3, <3>1, <3>2, StartEdge
    <2> QED
      BY <1>3, <2>1, <2>2, <2>3 DEF ExamineBaseRefresh
  <1> QED
    BY <1>2, <1>3 DEF StepBaseRefresh

LEMMA StepCommitEdge ==
    ASSUME IInv, NEW d \in Drivers, StepCommit(d)
    PROVE  Edge(d)
  <1> DEFINE r == rec[d]
             receipt == EntryOf(d).receipt
  <1>1. pc[d] = "dispatch" /\ StepOf(d) = "COMMIT" /\ "COMMIT" \in Steps
        /\ pc[d] \in Working
    BY DEF StepCommit, Steps, Working, Pcs
  <1>2. CASE Unsettled(receipt) /\ ReconcileCommit(d)
    <2>1. CASE head = receipt.from /\ SaveThen(d, Voided(r, "COMMIT"), "dispatch")
      <3>1. SaveEdge(d, Voided(r, "COMMIT"), "dispatch")
        BY <1>1, <1>2, <2>1 DEF SaveEdge, Absent
      <3> QED
        BY <2>1, <3>1 DEF Edge
    <2>2. CASE head = receipt.to
               /\ SaveThen(d, Succeeded(Reopened(r, "COMMIT"), "COMMIT"), "idle")
      <3>1. SaveEdge(d, Succeeded(Reopened(r, "COMMIT"), "COMMIT"), "idle")
        BY <1>1, <1>2, <2>2 DEF SaveEdge, Present
      <3> QED
        BY <2>2, <3>1 DEF Edge
    <2>3. CASE Block(d, r)
      BY <1>1, <2>3, BlockEdge
    <2> QED
      BY <1>2, <2>1, <2>2, <2>3 DEF ReconcileCommit
  <1>3. CASE ~Unsettled(receipt) /\ ExamineCommit(d)
    <2>1. CASE Block(d, r)
      BY <1>1, <2>1, BlockEdge
    <2>2. CASE index = r.base /\ Start(d, r, "COMMIT", Base(r.base), Commit(r.base, index))
      <3>1. Base(r.base) \in Oid /\ Commit(r.base, index) \in Oid
        BY RecordFacts, OidTyped DEF Record
      <3>2. Derived(r, "COMMIT", Base(r.base), Commit(r.base, index))
        BY <2>2 DEF Derived
      <3> QED
        BY <1>1, <1>3, <2>2, <3>1, <3>2, StartEdge
    <2> QED
      BY <1>3, <2>1, <2>2 DEF ExamineCommit
  <1> QED
    BY <1>2, <1>3 DEF StepCommit

LEMMA DerivePushEdge ==
    ASSUME IInv, NEW d \in Drivers, pc[d] \in {"dispatch", "tail"}, StepOf(d) = "PUSH",
           pc[d] = "dispatch" => ~Unsettled(EntryOf(d).receipt), DerivePush(d)
    PROVE  Edge(d)
  <1> DEFINE r == rec[d]
             commit == Delivered(r)
  <1>1. CASE Block(d, r)
    BY <1>1, BlockEdge DEF Working, Pcs
  <1>2. CASE (Mode = "pr_update" => remote = Base(0)) /\ Start(d, r, "PUSH", remote, commit)
    <2>1. rec[d].phase \in Phases /\ remote \in Oid /\ pc[d] \in StepPcs /\ "PUSH" \in Steps
      BY RecordFacts DEF StepPcs, Steps
    <2>2. commit \in Oid
      BY <2>1, StepFacts, StepTyped DEF StepOf
    <2>3. Derived(r, "PUSH", remote, commit)
      BY <1>2 DEF Derived
    <2> QED
      BY <1>2, <2>1, <2>2, <2>3, StartEdge
  <1> QED
    BY <1>1, <1>2 DEF DerivePush, UpdateIdentity

LEMMA DerivePrCreateEdge ==
    ASSUME IInv, NEW d \in Drivers, pc[d] \in {"dispatch", "tail"}, StepOf(d) = "PR_CREATE",
           pc[d] = "dispatch" => ~Unsettled(EntryOf(d).receipt), DerivePrCreate(d)
    PROVE  Edge(d)
  <1> DEFINE r == rec[d]
             commit == Delivered(r)
  <1>1. CASE Block(d, r)
    BY <1>1, BlockEdge DEF Working, Pcs
  <1>2. CASE Start(d, r, "PR_CREATE", NoOid, commit)
    <2>1. rec[d].phase \in Phases /\ NoOid \in Oid /\ pc[d] \in StepPcs /\ "PR_CREATE" \in Steps
      BY RecordFacts, NoReceiptTyped DEF StepPcs, Steps
    <2>2. commit \in Oid
      BY <2>1, StepFacts, StepTyped DEF StepOf
    <2>3. Derived(r, "PR_CREATE", NoOid, commit)
      BY DEF Derived
    <2> QED
      BY <1>2, <2>1, <2>2, <2>3, StartEdge
  <1> QED
    BY <1>1, <1>2 DEF DerivePrCreate

LEMMA AdvanceEdge ==
    ASSUME NEW d \in Drivers, pc[d] = "dispatch", StepOf(d) \in {"PUSH", "PR_CREATE"},
           Mode = "pull_request", ~Unsettled(EntryOf(d).receipt),
           SaveThen(d, [rec[d] EXCEPT !.base = base], "tail")
    PROVE  Edge(d)
  <1>1. SaveEdge(d, [rec[d] EXCEPT !.base = base], "tail")
    BY DEF SaveEdge
  <1> QED
    BY <1>1 DEF Edge

LEMMA StepPushEdge ==
    ASSUME IInv, NEW d \in Drivers, StepPush(d)
    PROVE  Edge(d)
  <1> DEFINE r == rec[d]
             receipt == EntryOf(d).receipt
  <1>1. pc[d] = "dispatch" /\ StepOf(d) = "PUSH" /\ pc[d] \in Working
    BY DEF StepPush, Working, Pcs
  <1>2. CASE Unsettled(receipt) /\ ReconcilePush(d)
    <2>1. CASE remote = receipt.to
               /\ SaveThen(d, Succeeded(Reopened(r, "PUSH"), "PUSH"), "idle")
      <3>1. SaveEdge(d, Succeeded(Reopened(r, "PUSH"), "PUSH"), "idle")
        BY <1>1, <1>2, <2>1 DEF SaveEdge, Present
      <3> QED
        BY <2>1, <3>1 DEF Edge
    <2>2. CASE remote # receipt.to /\ remote = receipt.from
               /\ SaveThen(d, Voided(r, "PUSH"), "dispatch")
      <3>1. SaveEdge(d, Voided(r, "PUSH"), "dispatch")
        BY <1>1, <1>2, <2>2 DEF SaveEdge, Absent
      <3> QED
        BY <2>2, <3>1 DEF Edge
    <2>3. CASE Block(d, r)
      BY <1>1, <2>3, BlockEdge
    <2> QED
      BY <1>2, <2>1, <2>2, <2>3 DEF ReconcilePush
  <1>3. CASE ~Unsettled(receipt)
    <2>1. CASE Block(d, r)
      BY <1>1, <2>1, BlockEdge
    <2>2. CASE DerivePush(d)
      BY <1>1, <1>3, <2>2, DerivePushEdge
    <2>3. CASE Mode # "pr_update" /\ SaveThen(d, [r EXCEPT !.base = base], "tail")
      BY <1>1, <1>3, <2>3, AdvanceEdge, ModeAssumption
    <2> QED
      BY <1>3, <2>1, <2>2, <2>3 DEF StepPush, AfterBaseAdvance
  <1> QED
    BY <1>2, <1>3 DEF StepPush

LEMMA StepPrCreateEdge ==
    ASSUME IInv, NEW d \in Drivers, StepPrCreate(d)
    PROVE  Edge(d)
  <1> DEFINE r == rec[d]
             receipt == EntryOf(d).receipt
             found == Disposition(receipt.to)
  <1>1. pc[d] = "dispatch" /\ StepOf(d) = "PR_CREATE" /\ pc[d] \in Working
    BY DEF StepPrCreate, Working, Pcs
  <1>2. CASE Unsettled(receipt) /\ ReconcilePrCreate(d)
    <2>1. /\ found \in {"stop", "adopt", "absent"}
          /\ found = "absent" => openPr = NoOid
      BY DEF Disposition
    <2> HIDE DEF found
    <2>2. CASE GoWith(d, Reopened(r, "PR_CREATE"), "adopt")
      <3>1. GoEdge(d, Reopened(r, "PR_CREATE"), "adopt")
        BY <1>1, <1>2 DEF GoEdge
      <3> QED
        BY <2>2, <3>1 DEF Edge
    <2>3. CASE found = "absent" /\ SaveThen(d, Voided(r, "PR_CREATE"), "dispatch")
      <3>1. SaveEdge(d, Voided(r, "PR_CREATE"), "dispatch")
        BY <1>1, <1>2, <2>1, <2>3 DEF SaveEdge, Absent
      <3> QED
        BY <2>3, <3>1 DEF Edge
    <2>4. CASE Block(d, r)
      BY <1>1, <2>4, BlockEdge
    <2> QED
      BY <1>2, <2>1, <2>2, <2>3, <2>4 DEF ReconcilePrCreate, found
  <1>3. CASE ~Unsettled(receipt)
    <2>1. Mode = "pull_request"
      BY <1>1, ModeAssumption DEF StepOf, StepForPhase
    <2>2. CASE Block(d, r)
      BY <1>1, <2>2, BlockEdge
    <2>3. CASE DerivePrCreate(d)
      BY <1>1, <1>3, <2>3, DerivePrCreateEdge
    <2>4. CASE SaveThen(d, [r EXCEPT !.base = base], "tail")
      BY <1>1, <1>3, <2>1, <2>4, AdvanceEdge
    <2> QED
      BY <1>3, <2>2, <2>3, <2>4 DEF StepPrCreate, AfterBaseAdvance
  <1> QED
    BY <1>2, <1>3 DEF StepPrCreate

LEMMA TailEdge ==
    ASSUME IInv, NEW d \in Drivers, Tail(d)
    PROVE  Edge(d)
  <1>1. pc[d] = "tail" /\ StepOf(d) \in {"PUSH", "PR_CREATE"}
    BY StepFacts DEF Tail, StepPcs
  <1> QED
    BY <1>1, DerivePushEdge, DerivePrCreateEdge DEF Tail

LEMMA ObserveEdge ==
    ASSUME IInv, NEW d \in Drivers, Observe(d)
    PROVE  Edge(d)
  <1> DEFINE r == rec[d]
             step == StepOf(d)
             receipt == EntryOf(d).receipt
             settled == Succeeded(r, step)
             rebased == [settled EXCEPT !.base = receipt.to.tree]
  <1>1. pc[d] = "observe" /\ pc[d] \in Working /\ pc[d] \in StepPcs \cap RefPcs
    BY DEF Observe, Working, Pcs, StepPcs, RefPcs
  <1>2. step \in {"BASE_REFRESH", "COMMIT", "PUSH"}
    BY <1>1, StepFacts DEF Steps
  <1> HIDE DEF settled, rebased
  <1>3. CASE Block(d, r)
    BY <1>1, <1>3, BlockEdge
  <1>4. CASE step = "BASE_REFRESH" /\ SaveThen(d, rebased, "idle")
    <2>1. SaveEdge(d, rebased, "idle")
      BY <1>1, <1>4 DEF SaveEdge, settled, rebased
    <2> QED
      BY <1>4, <2>1 DEF Edge
  <1>5. CASE step \in {"COMMIT", "PUSH"} /\ Present(d) /\ SaveThen(d, settled, "idle")
    <2>1. SaveEdge(d, settled, "idle")
      BY <1>1, <1>5 DEF SaveEdge, settled
    <2> QED
      BY <1>5, <2>1 DEF Edge
  <1>6. \/ Block(d, r)
        \/ step = "BASE_REFRESH" /\ SaveThen(d, rebased, "idle")
        \/ step = "COMMIT" /\ head = receipt.to /\ SaveThen(d, settled, "idle")
        \/ step = "PUSH" /\ remote = receipt.to /\ SaveThen(d, settled, "idle")
    BY <1>2 DEF Observe, settled, rebased
  <1> QED
    BY <1>3, <1>4, <1>5, <1>6 DEF Present

LEMMA LookUpEdge ==
    ASSUME NEW d \in Drivers, LookUp(d)
    PROVE  Edge(d)
  <1>1. pc[d] \in {"lookup", "relook"} /\ pc[d] \in Working
    BY DEF LookUp, Working, Pcs
  <1>2. CASE Go(d, "adopt")
    <2>1. GoEdge(d, rec[d], "adopt")
      BY <1>1 DEF GoEdge
    <2> QED
      BY <1>2, <2>1 DEF Edge, Go
  <1>3. CASE pc[d] = "lookup" /\ Go(d, "create")
    <2>1. GoEdge(d, rec[d], "create")
      BY <1>3 DEF GoEdge
    <2> QED
      BY <1>3, <2>1 DEF Edge, Go
  <1>4. CASE Block(d, rec[d])
    BY <1>1, <1>4, BlockEdge
  <1> QED
    BY <1>2, <1>3, <1>4 DEF LookUp

LEMMA AdoptPrEdge ==
    ASSUME IInv, NEW d \in Drivers, AdoptPr(d)
    PROVE  Edge(d)
  <1>1. pc[d] = "adopt" /\ pc[d] \in Working /\ StepOf(d) = "PR_CREATE"
    BY StepFacts DEF AdoptPr, Working, Pcs, StepPcs, PrPcs
  <1>2. CASE Present(d) /\ SaveThen(d, Succeeded(rec[d], "PR_CREATE"), "complete")
    <2>1. SaveEdge(d, Succeeded(rec[d], "PR_CREATE"), "complete")
      BY <1>1, <1>2 DEF SaveEdge
    <2> QED
      BY <1>2, <2>1 DEF Edge
  <1>3. CASE Block(d, rec[d])
    BY <1>1, <1>3, BlockEdge
  <1> QED
    BY <1>1, <1>2, <1>3 DEF AdoptPr, Present

LEMMA CompleteEdge ==
    ASSUME NEW d \in Drivers, Complete(d)
    PROVE  Edge(d)
  <1>1. SaveEdge(d, [rec[d] EXCEPT !.phase = "COMPLETE"], "idle")
    BY DEF Complete, SaveEdge
  <1> QED
    BY <1>1 DEF Edge, Complete

LEMMA ViewPrEdge ==
    ASSUME NEW d \in Drivers, ViewPr(d)
    PROVE  Edge(d)
  <1> DEFINE r == rec[d]
  <1>1. pc[d] = "view" /\ pc[d] \in Working
    BY DEF ViewPr, Working, Pcs
  <1>2. CASE Block(d, r)
    BY <1>1, <1>2, BlockEdge
  <1>3. CASE Retry(d, r)
    BY <1>1, <1>3, RetryEdge
  <1>4. CASE Mode = "pr_update" /\ SaveThen(d, [r EXCEPT !.phase = "COMPLETE"], "idle")
    <2>1. SaveEdge(d, [r EXCEPT !.phase = "COMPLETE"], "idle")
      BY <1>1, <1>4 DEF SaveEdge
    <2> QED
      BY <1>4, <2>1 DEF Edge
  <1> QED
    BY <1>2, <1>3, <1>4, ModeAssumption DEF ViewPr, Edge

LEMMA EffectsEdge ==
    ASSUME NEW d \in Drivers, ReadTree(d) \/ Effect(d) \/ CreatePr(d)
    PROVE  Edge(d)
  <1>1. pc[d] \in {"readtree", "effect", "create"} /\ pc[d] \in StepPcs
    BY DEF ReadTree, Effect, CreatePr, StepPcs
  <1>2. CASE Retry(d, rec[d])
    BY <1>1, <1>2, RetryEdge
  <1>3. ASSUME NEW at, <<pc[d], at>> \in {<<"readtree", "effect">>, <<"effect", "observe">>,
                                          <<"create", "relook">>},
               Go(d, at)
        PROVE  Edge(d)
    <2>1. GoEdge(d, rec[d], at)
      BY <1>3 DEF GoEdge
    <2> QED
      BY <1>3, <2>1 DEF Edge, Go
  <1>4. \/ Retry(d, rec[d])
        \/ pc[d] = "readtree" /\ Go(d, "effect")
        \/ pc[d] = "effect" /\ Go(d, "observe")
        \/ pc[d] = "create" /\ Go(d, "relook")
    BY DEF ReadTree, Effect, CreatePr
  <1> QED
    BY <1>2, <1>3, <1>4

LEMMA ReadFaultEdge ==
    ASSUME NEW d \in Drivers, ReadFault(d)
    PROVE  Edge(d)
  BY RetryEdge DEF ReadFault, StepPcs

\* Every step of a driver is an edge, the save of its copy, or a confirmation.
LEMMA DriverEdges ==
    ASSUME IInv, NEW d \in Drivers, Drive(d) \/ ReadFault(d) \/ Crash(d)
    PROVE  \/ Edge(d) /\ disk' = disk
           \/ Save(d)
           \/ Withdraw(d)
  <1>1. CASE \/ Load(d) \/ Refresh(d) \/ Refused(d) \/ StepBaseRefresh(d) \/ StepCommit(d)
             \/ StepPush(d) \/ Tail(d) \/ StepPrCreate(d)
    <2>1. disk' = disk
      BY <1>1 DEF Load, Refresh, Refused, StepBaseRefresh, StepCommit, StepPush, Tail,
         StepPrCreate
    <2> QED
      BY <1>1, <2>1, LoadEdge, RefreshEdge, RefusedEdge, StepBaseRefreshEdge, StepCommitEdge,
         StepPushEdge, TailEdge, StepPrCreateEdge
  <1>2. CASE \/ Observe(d) \/ LookUp(d) \/ AdoptPr(d) \/ Complete(d) \/ ViewPr(d)
             \/ ReadTree(d) \/ Effect(d) \/ CreatePr(d) \/ ReadFault(d) \/ Crash(d)
    <2>1. disk' = disk
      BY <1>2 DEF Observe, LookUp, AdoptPr, Complete, ViewPr, ReadTree, Effect, CreatePr,
         ReadFault, Crash
    <2> QED
      BY <1>2, <2>1, ObserveEdge, LookUpEdge, AdoptPrEdge, CompleteEdge, ViewPrEdge,
         EffectsEdge, ReadFaultEdge DEF Crash, Edge
  <1> QED
    BY <1>1, <1>2 DEF Drive

\* Nothing else moves a driver.
LEMMA OtherSteps ==
    ASSUME Outside
    PROVE  UNCHANGED control /\ (disk' = disk \/ disk' = Revoked(disk))
  BY DEF Outside, Revoke, Expire, MoveBase, MoveRef, MovePr, GithubCatchesUp

-----------------------------------------------------------------------------
(* The invariant of every copy *)

\* A copy whose proven effect was taken over has a receipt that is executing
\* again while its step is not: the next save settles both.
TakenOver == {"effect", "observe", "adopt"}

ValidEntry(e) ==
    e.state \in {"executing", "succeeded", "failed_retryable"} => e.receipt.state = e.state

ValidAt(at, r) ==
    /\ \A s \in ExcludedSteps : r.steps[s] = NewEntry(s)
    /\ \A s \in Steps :
         \/ ValidEntry(r.steps[s])
         \/ at \in TakenOver /\ s = StepForPhase(r.phase) /\ r.steps[s].state # "succeeded"
    /\ r.phase = "REVOKED" => r.revoked
    /\ Mode = "pr_update" => r.phase \notin {"BASE_CURRENT", "PR_OPENED"}

Executing(at, r) ==
    at \in ReceiptPcs => r.steps[StepForPhase(r.phase)].receipt.state = "executing"

CopiesValid ==
    /\ ValidAt("idle", disk)
    /\ \A d \in Drivers : ValidAt(pc[d], rec[d]) /\ Executing(At(pc, cont, d), rec[d])

\* From the load on an office call is at the confirmed step.
OfficeAt(c, at, r) ==
    /\ c \in OfficeSteps \cup {"none"}
    /\ at \in StepPcs => c = StepForPhase(r.phase) /\ c # "none"

OfficeKept ==
    \A d \in OfficeDrivers : OfficeAt(confirmed[d], At(pc, cont, d), rec[d])

\* In a pr_update the recorded base never moves, and the receipts bind the
\* approved head and the commit on it.
OnHead(s, x) ==
    /\ s = "COMMIT" => x.to = Commit(0, 0)
    /\ s = "PUSH" => x.from = Base(0) /\ x.to = Commit(0, 0)

UpdateCopy(r) ==
    Mode = "pr_update" =>
      /\ r.base = 0
      /\ \A s \in Steps : r.steps[s].receipt.state # "none" => OnHead(s, r.steps[s].receipt)

CopiesOnHead == UpdateCopy(disk) /\ \A d \in Drivers : UpdateCopy(rec[d])

CopyInv == CopiesValid /\ OfficeKept /\ CopiesOnHead

-----------------------------------------------------------------------------
(* The changes to a copy *)

LEMMA StepIncluded ==
    ASSUME NEW phase \in Phases, StepForPhase(phase) \in Steps
    PROVE  /\ StepForPhase(phase) \notin ExcludedSteps
           /\ phase \notin Terminal
           /\ Mode = "pr_update" => StepForPhase(phase) \in {"COMMIT", "PUSH"}
  BY ModeAssumption DEF StepForPhase, ExcludedSteps, Phases, Terminal, Steps

LEMMA SetEntryCopy ==
    ASSUME NEW r \in Record, NEW at, ValidAt(at, r), UpdateCopy(r),
           NEW step \in Steps, step = StepForPhase(r.phase),
           NEW e \in Entry, ValidEntry(e),
           Mode = "pr_update" /\ e.receipt.state # "none" => OnHead(step, e.receipt),
           NEW phase \in Phases \ {"REVOKED"},
           Mode = "pr_update" => phase \notin {"BASE_CURRENT", "PR_OPENED"}
    PROVE  /\ ValidAt("save", SetEntry(r, step, e, phase))
           /\ UpdateCopy(SetEntry(r, step, e, phase))
  <1> DEFINE q == SetEntry(r, step, e, phase)
  <1>1. r.phase \in Phases /\ r.steps \in [Steps -> Entry]
    BY DEF Record
  <1>2. /\ q \in Record /\ q.phase = phase /\ q.base = r.base
        /\ q.steps = [r.steps EXCEPT ![step] = e]
    BY SetEntryTyped
  <1> HIDE DEF q
  <1>3. q.steps[step] = e /\ \A s \in Steps : s # step => q.steps[s] = r.steps[s]
    BY <1>1, <1>2
  <1>4. step \notin ExcludedSteps /\ ExcludedSteps \subseteq Steps
    BY <1>1, StepIncluded DEF ExcludedSteps, Steps
  <1>5. ValidAt("save", q)
    BY <1>2, <1>3, <1>4 DEF ValidAt, TakenOver
  <1>6. UpdateCopy(q)
    BY <1>2, <1>3 DEF UpdateCopy
  <1> QED
    BY <1>5, <1>6 DEF q

\* A phase that a step leads to, or keeps, is one of the mode's.
LEMMA PhaseOfMode ==
    ASSUME NEW r \in Record, NEW at, ValidAt(at, r), StepForPhase(r.phase) \in Steps
    PROVE  /\ r.phase \in Phases \ {"REVOKED"}
           /\ Mode = "pr_update" => r.phase \notin {"BASE_CURRENT", "PR_OPENED"}
           /\ PhaseAfter(StepForPhase(r.phase)) \in Phases \ {"REVOKED"}
           /\ Mode = "pr_update" =>
                PhaseAfter(StepForPhase(r.phase)) \notin {"BASE_CURRENT", "PR_OPENED"}
  <1>1. r.phase \in Phases
    BY DEF Record
  <1> QED
    BY <1>1, StepIncluded DEF ValidAt, Terminal, PhaseAfter, Phases, Steps

LEMMA StartedCopy ==
    ASSUME NEW r, NEW b \in Nat, NEW n \in [Steps -> Nat], GoodRecord(r, b, n),
           NEW at, ValidAt(at, r), UpdateCopy(r),
           NEW step \in Steps, step = StepForPhase(r.phase),
           NEW from \in Oid, NEW to \in Oid, Derived(r, step, from, to)
    PROVE  /\ ValidAt("save", Started(r, step, from, to))
           /\ Executing("refresh", Started(r, step, from, to))
           /\ UpdateCopy(Started(r, step, from, to))
           /\ Started(r, step, from, to).phase = r.phase
  <1> DEFINE x == [state |-> "executing", from |-> from, to |-> to]
             e == [state |-> "executing", receipt |-> x, voided |-> r.steps[step].voided]
  <1>1. r \in Record /\ r.steps[step] \in Entry
    BY EntryTyped DEF GoodRecord
  <1>2. x \in Receipt
    BY DEF Receipt, ReceiptStates
  <1>3. e \in Entry /\ ValidEntry(e)
    BY <1>1, <1>2 DEF Entry, StepStates, ValidEntry
  <1>4. Mode = "pr_update" => OnHead(step, x)
    <2> SUFFICES ASSUME Mode = "pr_update" PROVE OnHead(step, x)
      OBVIOUS
    <2>1. r.base = 0
      BY DEF UpdateCopy
    <2>2. step = "COMMIT" => to = Commit(0, 0)
      BY <2>1 DEF Derived
    <2>3. step = "PUSH" => from = Base(0) /\ to = Commit(0, 0)
      <3> SUFFICES ASSUME step = "PUSH" PROVE from = Base(0) /\ to = Commit(0, 0)
        OBVIOUS
      <3>1. r.phase \in Committed /\ "COMMIT" \in Steps
        BY <1>1, StepTyped DEF Record, Steps
      <3>2. r.steps["COMMIT"].receipt.state # "none"
        BY <3>1 DEF GoodRecord
      <3>3. Delivered(r) = Commit(0, 0)
        BY <3>1, <3>2 DEF UpdateCopy, OnHead, Delivered
      <3> QED
        BY <3>3 DEF Derived
    <2> QED
      BY <2>2, <2>3 DEF OnHead
  <1>5. /\ r.phase \in Phases \ {"REVOKED"}
        /\ Mode = "pr_update" => r.phase \notin {"BASE_CURRENT", "PR_OPENED"}
    BY <1>1, PhaseOfMode
  <1>6. e.receipt = x /\ e.receipt.state = "executing"
    OBVIOUS
  <1>7. Started(r, step, from, to) = SetEntry(r, step, e, r.phase)
    BY DEF Started
  <1> HIDE DEF x, e
  <1>8. /\ SetEntry(r, step, e, r.phase).phase = r.phase
        /\ SetEntry(r, step, e, r.phase).steps = [r.steps EXCEPT ![step] = e]
    BY <1>1, <1>3, <1>5, SetEntryTyped
  <1>9. SetEntry(r, step, e, r.phase).steps[step] = e
    BY <1>1, <1>8 DEF Record
  <1>10. Executing("refresh", SetEntry(r, step, e, r.phase))
    BY <1>6, <1>8, <1>9 DEF Executing
  <1> QED
    BY <1>1, <1>3, <1>4, <1>5, <1>6, <1>7, <1>8, <1>10, SetEntryCopy

LEMMA VoidedCopy ==
    ASSUME NEW r, NEW b \in Nat, NEW n \in [Steps -> Nat], GoodRecord(r, b, n),
           NEW at, ValidAt(at, r), UpdateCopy(r),
           NEW step \in Steps, step = StepForPhase(r.phase)
    PROVE  /\ ValidAt("save", Voided(r, step)) /\ UpdateCopy(Voided(r, step))
           /\ Voided(r, step).phase = r.phase
  <1> DEFINE e == [state |-> "pending", receipt |-> NoReceipt,
                   voided |-> Attempts(r.steps[step])]
  <1>1. r \in Record /\ r.steps[step] \in Entry /\ GoodEntry(step, r.steps[step], b, n)
    BY EntryTyped DEF GoodRecord
  <1>2. Attempts(r.steps[step]) \in 0 .. MaxAttempts
    BY <1>1, EntryTyped, AttemptsAssumption DEF Attempts, GoodEntry
  <1>3. e \in Entry /\ ValidEntry(e) /\ e.receipt.state = "none"
    BY <1>2, NoReceiptTyped DEF Entry, StepStates, ValidEntry
  <1>4. /\ r.phase \in Phases \ {"REVOKED"}
        /\ Mode = "pr_update" => r.phase \notin {"BASE_CURRENT", "PR_OPENED"}
    BY <1>1, PhaseOfMode
  <1>5. Voided(r, step) = SetEntry(r, step, e, r.phase)
    BY DEF Voided
  <1> HIDE DEF e
  <1>6. r \in Record /\ r.phase \in Phases /\ e \in Entry /\ ValidEntry(e)
    BY <1>1, <1>3, <1>4
  <1>7. SetEntry(r, step, e, r.phase).phase = r.phase
    BY <1>6 DEF SetEntry, Record
  <1>8. Mode = "pr_update" /\ e.receipt.state # "none" => OnHead(step, e.receipt)
    BY <1>3
  <1>9. /\ ValidAt("save", SetEntry(r, step, e, r.phase))
        /\ UpdateCopy(SetEntry(r, step, e, r.phase))
    BY <1>4, <1>6, <1>8, SetEntryCopy
  <1> QED
    BY <1>5, <1>7, <1>9

LEMMA SucceededCopy ==
    ASSUME NEW r \in Record, NEW at, ValidAt(at, r), UpdateCopy(r),
           NEW step \in Steps, step = StepForPhase(r.phase),
           r.steps[step].receipt.state # "none"
    PROVE  ValidAt("save", Succeeded(r, step)) /\ UpdateCopy(Succeeded(r, step))
  <1> DEFINE e == Settled(r.steps[step], "succeeded")
  <1>1. r.steps[step] \in Entry
    BY EntryTyped
  <1>2. /\ e \in Entry /\ e.state = "succeeded" /\ e.receipt.state = "succeeded"
        /\ e.receipt.from = r.steps[step].receipt.from
        /\ e.receipt.to = r.steps[step].receipt.to
    BY <1>1, SettledEntry DEF ReceiptStates, StepStates
  <1>3. /\ PhaseAfter(step) \in Phases \ {"REVOKED"}
        /\ Mode = "pr_update" => PhaseAfter(step) \notin {"BASE_CURRENT", "PR_OPENED"}
    BY PhaseOfMode
  <1>4. Succeeded(r, step) = SetEntry(r, step, e, PhaseAfter(step))
    BY DEF Succeeded
  <1> HIDE DEF e
  <1>5. ValidEntry(e)
    BY <1>2 DEF ValidEntry
  <1>6. Mode = "pr_update" => OnHead(step, e.receipt)
    BY <1>2 DEF UpdateCopy, OnHead
  <1> QED
    BY <1>2, <1>3, <1>4, <1>5, <1>6, SetEntryCopy

LEMMA ReopenedCopy ==
    ASSUME NEW r \in Record, NEW at, ValidAt(at, r), UpdateCopy(r), at \notin TakenOver,
           NEW step \in Steps, step = StepForPhase(r.phase),
           Unsettled(r.steps[step].receipt),
           NEW to \in TakenOver
    PROVE  /\ ValidAt(to, Reopened(r, step)) /\ UpdateCopy(Reopened(r, step))
           /\ Reopened(r, step).steps[step].receipt.state = "executing"
           /\ Reopened(r, step).phase = r.phase /\ Reopened(r, step) \in Record
           /\ Executing(to, Reopened(r, step))
  <1> DEFINE y == r.steps[step]
             e == [y EXCEPT !.receipt = [@ EXCEPT !.state = "executing"]]
             q == SetEntry(r, step, e, r.phase)
  <1>1. y \in Entry /\ y.receipt \in Receipt /\ r.phase \in Phases /\ r.steps \in [Steps -> Entry]
    BY EntryTyped DEF Record
  <1>2. y.state # "succeeded"
    BY DEF ValidAt, ValidEntry, Unsettled
  <1> HIDE DEF y
  <1>3. e \in Entry /\ e.receipt.state = "executing" /\ e.state = y.state
        /\ e.receipt.from = y.receipt.from /\ e.receipt.to = y.receipt.to
    BY <1>1 DEF Entry, Receipt, ReceiptStates
  <1>4. Reopened(r, step) = q
    BY DEF Reopened, y
  <1> HIDE DEF e
  <1>5. /\ q \in Record /\ q.phase = r.phase /\ q.base = r.base
        /\ q.steps = [r.steps EXCEPT ![step] = e]
    BY <1>1, <1>3, SetEntryTyped
  <1> HIDE DEF q
  <1>6. q.steps[step] = e /\ \A s \in Steps : s # step => q.steps[s] = r.steps[s]
    BY <1>1, <1>5
  <1>7. step \notin ExcludedSteps /\ ExcludedSteps \subseteq Steps /\ r.phase # "REVOKED"
    BY <1>1, StepIncluded DEF ExcludedSteps, Steps, Terminal
  <1>8. ValidAt(to, q)
    BY <1>2, <1>3, <1>5, <1>6, <1>7 DEF ValidAt
  <1>9. y.receipt.state # "none"
    BY DEF Unsettled, y
  <1>10. UpdateCopy(q)
    BY <1>3, <1>5, <1>6, <1>9 DEF UpdateCopy, OnHead, y
  <1>11. Executing(to, q)
    BY <1>3, <1>5, <1>6 DEF Executing
  <1> QED
    BY <1>3, <1>4, <1>5, <1>6, <1>8, <1>10, <1>11

\* Also from a copy whose proven effect was taken over.
LEMMA RetriedCopy ==
    ASSUME NEW r \in Record, NEW at, ValidAt(at, r), UpdateCopy(r),
           at \in TakenOver => r.steps[StepForPhase(r.phase)].receipt.state = "executing"
    PROVE  ValidAt("save", Retried(r)) /\ UpdateCopy(Retried(r))
  <1> DEFINE step == StepForPhase(r.phase)
             y == r.steps[step]
             e == RetriedEntry(y)
  <1>1. r.phase \in Phases /\ step \in Steps \cup {"none"}
    BY StepTyped DEF Record
  <1>2. CASE step = "none"
    BY <1>2 DEF Retried, ValidAt, Steps
  <1>3. CASE step # "none"
    <2>1. step \in Steps
      BY <1>1, <1>3
    <2>2. y \in Entry /\ y.receipt \in Receipt
      BY <2>1, EntryTyped
    <2>3. at \notin TakenOver => ValidEntry(y)
      BY <2>1 DEF ValidAt
    <2>4. /\ e \in Entry /\ ValidEntry(e)
          /\ e.receipt.from = y.receipt.from /\ e.receipt.to = y.receipt.to
          /\ e.receipt.state = "none" <=> y.receipt.state = "none"
      <3>1. CASE y.receipt.state = "executing"
        <4>1. e = Settled(y, "failed_retryable")
          BY <3>1 DEF RetriedEntry
        <4> QED
          BY <2>2, <3>1, <4>1, SettledEntry DEF ReceiptStates, StepStates, ValidEntry
      <3>2. CASE y.receipt.state \in {"none", "succeeded"} /\ y.state \notin {"succeeded", "not_needed"}
        <4>1. e = [y EXCEPT !.state = "pending"]
          BY <3>2 DEF RetriedEntry
        <4> QED
          BY <2>2, <3>2, <4>1 DEF Entry, StepStates, ValidEntry
      <3>3. CASE ~(y.receipt.state = "executing") /\
                 ~(y.receipt.state \in {"none", "succeeded"} /\ y.state \notin {"succeeded", "not_needed"})
        <4>1. e = y
          BY <3>3 DEF RetriedEntry
        <4> QED
          BY <2>2, <2>3, <3>3, <4>1
      <3> QED
        BY <3>1, <3>2, <3>3
    <2>5. Retried(r) = SetEntry(r, step, e, r.phase)
      BY <1>3 DEF Retried
    <2>6. /\ r.phase \in Phases \ {"REVOKED"}
          /\ Mode = "pr_update" => r.phase \notin {"BASE_CURRENT", "PR_OPENED"}
      BY <2>1, PhaseOfMode
    <2>7. Mode = "pr_update" /\ y.receipt.state # "none" => OnHead(step, y.receipt)
      BY <2>1 DEF UpdateCopy
    <2> HIDE DEF e, y
    <2>8. Mode = "pr_update" /\ e.receipt.state # "none" => OnHead(step, e.receipt)
      BY <2>4, <2>7 DEF OnHead
    <2> QED
      BY <2>1, <2>4, <2>5, <2>6, <2>8, SetEntryCopy
  <1> QED
    BY <1>2, <1>3

LEMMA BlockedCopy ==
    ASSUME NEW r \in Record, NEW at, ValidAt(at, r), UpdateCopy(r)
    PROVE  ValidAt("save", BlockedRecord(r)) /\ UpdateCopy(BlockedRecord(r))
  <1> DEFINE step == StepForPhase(r.phase)
             y == r.steps[step]
             e == [y EXCEPT !.state = "blocked"]
  <1>1. r.phase \in Phases /\ step \in Steps \cup {"none"} /\ "none" \notin Steps
    BY StepTyped DEF Record, Steps
  <1>2. "BLOCKED" \in Phases \ {"REVOKED"}
    BY DEF Phases, Terminal
  <1>3. CASE step = "none" \/ r.steps[step].state = "succeeded"
    <2>1. BlockedRecord(r) = [r EXCEPT !.phase = "BLOCKED"]
      BY <1>3 DEF BlockedRecord
    <2>2. \A s \in Steps : ValidEntry(r.steps[s])
      BY <1>1, <1>3 DEF ValidAt
    <2> QED
      BY <2>1, <2>2 DEF ValidAt, UpdateCopy, Record
  <1>4. CASE ~(step = "none" \/ r.steps[step].state = "succeeded")
    <2>1. step \in Steps
      BY <1>1, <1>4
    <2>2. y \in Entry
      BY <2>1, EntryTyped
    <2>3. BlockedRecord(r) = SetEntry(r, step, e, "BLOCKED")
      BY <1>4 DEF BlockedRecord
    <2>4. e \in Entry /\ e.state = "blocked" /\ e.receipt = y.receipt
      BY <2>2 DEF Entry, StepStates
    <2>5. Mode = "pr_update" /\ y.receipt.state # "none" => OnHead(step, y.receipt)
      BY <2>1 DEF UpdateCopy
    <2> HIDE DEF e, y
    <2>6. ValidEntry(e)
      BY <2>4 DEF ValidEntry
    <2> QED
      BY <1>2, <2>1, <2>3, <2>4, <2>5, <2>6, SetEntryCopy
  <1> QED
    BY <1>3, <1>4

LEMMA NotNeededCopy ==
    ASSUME NEW r \in Record, NEW at, ValidAt(at, r), UpdateCopy(r),
           StepForPhase(r.phase) = "BASE_REFRESH"
    PROVE  ValidAt("save", NotNeeded(r)) /\ UpdateCopy(NotNeeded(r))
  <1> DEFINE y == r.steps["BASE_REFRESH"]
             e == [y EXCEPT !.state = "not_needed"]
  <1>1. "BASE_REFRESH" \in Steps /\ y \in Entry
    BY EntryTyped DEF Steps
  <1>2. e \in Entry /\ e.state = "not_needed" /\ e.receipt = y.receipt
    BY <1>1 DEF Entry, StepStates
  <1>3. "BASE_CURRENT" \in Phases \ {"REVOKED"} /\ Mode # "pr_update"
    BY <1>1, StepIncluded DEF Phases, Terminal, Record
  <1>4. NotNeeded(r) = SetEntry(r, "BASE_REFRESH", e, "BASE_CURRENT")
    BY DEF NotNeeded
  <1> HIDE DEF e, y
  <1>5. ValidEntry(e)
    BY <1>2 DEF ValidEntry
  <1> QED
    BY <1>1, <1>2, <1>3, <1>4, <1>5, SetEntryCopy

LEMMA RevokedCopy ==
    ASSUME NEW r \in Record, NEW at, ValidAt(at, r), UpdateCopy(r), at \notin TakenOver
    PROVE  ValidAt("save", Revoked(r)) /\ UpdateCopy(Revoked(r))
  BY DEF ValidAt, UpdateCopy, Revoked, Record, TakenOver, Terminal

LEMMA CompletedCopy ==
    ASSUME NEW r \in Record, NEW at, ValidAt(at, r), UpdateCopy(r), at \notin TakenOver
    PROVE  /\ ValidAt("save", [r EXCEPT !.phase = "COMPLETE"])
           /\ UpdateCopy([r EXCEPT !.phase = "COMPLETE"])
  BY DEF ValidAt, UpdateCopy, Record

LEMMA RereadCopy ==
    ASSUME NEW r \in Record, NEW at, ValidAt(at, r), UpdateCopy(r),
           NEW revoked \in BOOLEAN, r.phase # "REVOKED"
    PROVE  /\ ValidAt(at, [r EXCEPT !.revoked = revoked])
           /\ UpdateCopy([r EXCEPT !.revoked = revoked])
  BY DEF ValidAt, UpdateCopy, Record

LEMMA RebasedCopy ==
    ASSUME NEW r \in Record, NEW at, ValidAt(at, r), Mode = "pull_request", NEW b
    PROVE  /\ ValidAt(at, [r EXCEPT !.base = b])
           /\ UpdateCopy([r EXCEPT !.base = b])
           /\ [r EXCEPT !.base = b].phase = r.phase
  BY DEF ValidAt, UpdateCopy, Record

-----------------------------------------------------------------------------
(* An edge leaves a copy the invariant holds of *)

LEMMA CopyFacts ==
    ASSUME IInv, CopyInv, NEW d \in Drivers
    PROVE  /\ ValidAt("idle", disk) /\ ValidAt(pc[d], rec[d])
           /\ Executing(At(pc, cont, d), rec[d])
           /\ UpdateCopy(disk) /\ UpdateCopy(rec[d])
           /\ d \in OfficeDrivers => OfficeAt(confirmed[d], At(pc, cont, d), rec[d])
           /\ disk \in Record /\ rec[d] \in Record /\ disk.revoked \in BOOLEAN
           /\ base \in Nat /\ Seen \in [Steps -> Nat] /\ GoodRecord(rec[d], base, Seen)
  BY RecordFacts DEF CopyInv, CopiesValid, CopiesOnHead, OfficeKept, Record

\* What driver d is left with: the copy r, at or on the way to the point at.
CopyLeft(d, p, at, r) ==
    /\ ValidAt(p, r) /\ Executing(at, r) /\ UpdateCopy(r)
    /\ d \in OfficeDrivers /\ at \in StepPcs =>
         confirmed[d] = StepForPhase(r.phase) /\ confirmed[d] # "none"

LEMMA OfficeStays ==
    ASSUME IInv, CopyInv, NEW d \in Drivers, pc[d] \in StepPcs
    PROVE  d \in OfficeDrivers =>
             confirmed[d] = StepForPhase(rec[d].phase) /\ confirmed[d] # "none"
  BY CopyFacts DEF OfficeAt, At, StepPcs

LEMMA GoLeaves ==
    ASSUME IInv, CopyInv, NEW d \in Drivers, NEW r, NEW at, GoEdge(d, r, at)
    PROVE  CopyLeft(d, at, at, r) /\ at # "save"
  <1>1. /\ ValidAt("idle", disk) /\ ValidAt(pc[d], rec[d])
        /\ Executing(At(pc, cont, d), rec[d])
        /\ UpdateCopy(disk) /\ UpdateCopy(rec[d])
        /\ rec[d] \in Record /\ disk.revoked \in BOOLEAN
    BY CopyFacts
  <1>2. CASE /\ Loaded(d) /\ r = disk
             /\ at = IF StepForPhase(disk.phase) = "none" THEN "view" ELSE "dispatch"
    <2>1. ValidAt(at, r) /\ UpdateCopy(r)
      BY <1>1, <1>2 DEF ValidAt, TakenOver
    <2>2. Executing(at, r)
      BY <1>2 DEF Executing, ReceiptPcs, StepPcs
    <2>3. d \in OfficeDrivers =>
            confirmed[d] = StepForPhase(r.phase) /\ confirmed[d] # "none"
      BY <1>2 DEF Loaded, Expected
    <2> QED
      BY <1>2, <2>1, <2>2, <2>3 DEF CopyLeft
  <1>3. CASE pc[d] = "refresh" /\ r = Reread(d) /\ at = EffectPc(r)
    <2>1. StepOf(d) \in Steps /\ rec[d].phase \in Phases /\ pc[d] \in StepPcs
      BY <1>3, StepFacts, RecordFacts DEF StepPcs
    <2>2. rec[d].phase # "REVOKED"
      BY <2>1, StepIncluded DEF StepOf, Terminal
    <2>3. ValidAt("refresh", r) /\ UpdateCopy(r)
      BY <1>1, <1>3, <2>2, RereadCopy DEF Reread
    <2>4. ValidAt(at, r)
      BY <2>3 DEF ValidAt, TakenOver
    <2>5. r.phase = rec[d].phase /\ r.steps = rec[d].steps
      BY <1>1, <1>3 DEF Reread, Record
    <2>6. Executing("refresh", rec[d])
      BY <1>1, <1>3 DEF At
    <2>7. Executing(at, r)
      BY <2>5, <2>6 DEF Executing, ReceiptPcs, StepPcs
    <2>8. at # "save"
      BY <1>3, <2>1, <2>5 DEF EffectPc, StepOf, Steps
    <2> QED
      BY <2>1, <2>3, <2>4, <2>5, <2>7, <2>8, OfficeStays DEF CopyLeft
  <1>4. CASE /\ pc[d] = "dispatch" /\ Unsettled(EntryOf(d).receipt)
             /\ r = Reopened(rec[d], StepOf(d)) /\ at \in TakenOver
    <2>1. StepOf(d) \in Steps /\ pc[d] \in StepPcs /\ pc[d] \notin TakenOver
      BY <1>4, StepFacts DEF StepPcs, TakenOver
    <2>2. /\ ValidAt(at, r) /\ UpdateCopy(r) /\ r.phase = rec[d].phase /\ Executing(at, r)
      BY <1>1, <1>4, <2>1, ReopenedCopy DEF StepOf, EntryOf
    <2> QED
      BY <1>4, <2>1, <2>2, OfficeStays DEF CopyLeft, TakenOver
  <1>5. CASE /\ r = rec[d]
             /\ <<pc[d], at>> \in {<<"readtree", "effect">>, <<"effect", "observe">>,
                                   <<"lookup", "adopt">>, <<"lookup", "create">>,
                                   <<"relook", "adopt">>, <<"create", "relook">>}
    <2>1. pc[d] \in ReceiptPcs /\ pc[d] \in StepPcs /\ pc[d] # "save" /\ at # "save"
          /\ (pc[d] \in TakenOver => at \in TakenOver)
      BY <1>5 DEF ReceiptPcs, StepPcs, TakenOver
    <2>2. ValidAt(at, r)
      BY <1>1, <1>5, <2>1 DEF ValidAt
    <2>3. Executing(at, r)
      BY <1>1, <1>5, <2>1 DEF Executing, At
    <2> QED
      BY <1>1, <1>5, <2>1, <2>2, <2>3, OfficeStays DEF CopyLeft
  <1> QED
    BY <1>2, <1>3, <1>4, <1>5 DEF GoEdge, TakenOver

\* Points at which the copy's receipt is not looked at.
LEMMA RestLeft ==
    ASSUME NEW d, NEW r, NEW at \in {"idle", "revoke", "expire", "complete"},
           ValidAt("save", r), UpdateCopy(r)
    PROVE  CopyLeft(d, "save", at, r)
  BY DEF CopyLeft, Executing, ReceiptPcs, StepPcs

LEMMA SaveLeaves ==
    ASSUME IInv, CopyInv, NEW d \in Drivers, NEW r, NEW at, SaveEdge(d, r, at)
    PROVE  CopyLeft(d, "save", at, r)
  <1> DEFINE q == rec[d]
             step == StepOf(d)
  <1>1. /\ ValidAt("idle", disk) /\ ValidAt(pc[d], q)
        /\ Executing(At(pc, cont, d), q)
        /\ UpdateCopy(disk) /\ UpdateCopy(q)
        /\ disk \in Record /\ q \in Record /\ disk.revoked \in BOOLEAN
        /\ base \in Nat /\ Seen \in [Steps -> Nat] /\ GoodRecord(q, base, Seen)
    BY CopyFacts
  <1>2. "idle" \notin TakenOver
    BY DEF TakenOver
  <1>3. ASSUME pc[d] \in StepPcs
        PROVE  /\ step \in Steps /\ step = StepForPhase(q.phase) /\ q.phase # "REVOKED"
               /\ EntryOf(d) = q.steps[step]
               /\ pc[d] \in ReceiptPcs => q.steps[step].receipt.state = "executing"
    <2>1. step \in Steps /\ q.phase \in Phases
      BY <1>3, StepFacts, RecordFacts
    <2>2. pc[d] # "save"
      BY <1>3 DEF StepPcs
    <2> QED
      BY <1>1, <2>1, <2>2, StepIncluded DEF StepOf, EntryOf, Executing, At, Terminal
  <1>4. CASE /\ at = "idle"
             /\ \/ r = Revoked(disk) \/ r = BlockedRecord(disk)
                \/ r = BlockedRecord(q)
                \/ pc[d] = "revoke" /\ r = Revoked(q)
    BY <1>1, <1>2, <1>4, RevokedCopy, BlockedCopy, RestLeft DEF TakenOver
  <1>5. CASE pc[d] \in StepPcs \cup {"view"} /\ r = Retried(q) /\ at = "idle"
    <2>1. pc[d] \in TakenOver => q.steps[StepForPhase(q.phase)].receipt.state = "executing"
      BY <1>3, <1>5 DEF TakenOver, ReceiptPcs, StepPcs, StepOf
    <2> QED
      BY <1>1, <1>5, <2>1, RetriedCopy, RestLeft
  <1>6. CASE /\ pc[d] \in {"dispatch", "tail"} /\ at = "refresh"
             /\ \E from, to \in Oid : r = Started(q, step, from, to) /\ Derived(q, step, from, to)
    <2>1. pc[d] \in StepPcs
      BY <1>6 DEF StepPcs
    <2>2. PICK from \in Oid, to \in Oid :
            r = Started(q, step, from, to) /\ Derived(q, step, from, to)
      BY <1>6
    <2>3. ValidAt("save", r) /\ Executing("refresh", r) /\ UpdateCopy(r) /\ r.phase = q.phase
      BY <1>1, <1>3, <2>1, <2>2, StartedCopy
    <2> QED
      BY <1>6, <2>1, <2>3, OfficeStays DEF CopyLeft
  <1>7. CASE /\ pc[d] = "refresh"
             /\ \/ r = Voided(Reread(d), step) /\ at \in {"revoke", "expire"}
                \/ /\ step = "PUSH" /\ r = Succeeded(Reread(d), "PUSH") /\ at = "idle"
    <2>1. pc[d] \in StepPcs /\ pc[d] \in ReceiptPcs
      BY <1>7 DEF StepPcs, ReceiptPcs
    <2>2. ValidAt("refresh", Reread(d)) /\ UpdateCopy(Reread(d))
      BY <1>1, <1>3, <1>7, <2>1, RereadCopy DEF Reread
    <2>3. GoodRecord(Reread(d), base, Seen) /\ Reread(d) \in Record
      BY <1>1, RefreshedGood DEF Reread, GoodRecord
    <2>4. Reread(d).phase = q.phase /\ Reread(d).steps = q.steps
      BY <1>1 DEF Reread, Record
    <2>5. ValidAt("save", r) /\ UpdateCopy(r)
      <3>1. CASE r = Voided(Reread(d), step)
        BY <1>1, <1>3, <2>1, <2>2, <2>3, <2>4, <3>1, VoidedCopy
      <3>2. CASE step = "PUSH" /\ r = Succeeded(Reread(d), "PUSH")
        <4>1. Reread(d).steps["PUSH"].receipt.state # "none"
              /\ "PUSH" \in Steps /\ "PUSH" = StepForPhase(Reread(d).phase)
          BY <1>3, <2>1, <2>4, <3>2
        <4> QED
          BY <2>2, <2>3, <3>2, <4>1, SucceededCopy
      <3> QED
        BY <1>7, <3>1, <3>2
    <2> QED
      BY <1>7, <2>5, RestLeft
  <1>8. CASE /\ pc[d] = "dispatch" /\ r = Voided(q, step) /\ at \in {"idle", "dispatch"}
    <2>1. pc[d] \in StepPcs
      BY <1>8 DEF StepPcs
    <2>2. ValidAt("save", r) /\ UpdateCopy(r) /\ r.phase = q.phase
      BY <1>1, <1>3, <1>8, <2>1, VoidedCopy
    <2>3. Executing(at, r)
      BY <1>8 DEF Executing, ReceiptPcs, StepPcs
    <2> QED
      BY <2>1, <2>2, <2>3, OfficeStays DEF CopyLeft
  <1>9. CASE /\ pc[d] = "dispatch" /\ Unsettled(EntryOf(d).receipt)
             /\ r = Succeeded(Reopened(q, step), step) /\ at = "idle"
    <2>1. pc[d] \in StepPcs /\ pc[d] \notin TakenOver /\ "observe" \in TakenOver
      BY <1>9 DEF StepPcs, TakenOver
    <2>2. /\ ValidAt("observe", Reopened(q, step)) /\ UpdateCopy(Reopened(q, step))
          /\ Reopened(q, step).steps[step].receipt.state = "executing"
          /\ Reopened(q, step).phase = q.phase /\ Reopened(q, step) \in Record
      BY <1>1, <1>3, <1>9, <2>1, ReopenedCopy
    <2>3. ValidAt("save", r) /\ UpdateCopy(r)
      BY <1>3, <1>9, <2>1, <2>2, SucceededCopy
    <2> QED
      BY <1>9, <2>3, RestLeft
  <1>10. CASE /\ pc[d] = "observe" \/ (pc[d] = "adopt" /\ step = "PR_CREATE")
              /\ r = Succeeded(q, step) /\ at \in {"idle", "complete"}
    <2>1. pc[d] \in StepPcs /\ pc[d] \in ReceiptPcs
      BY <1>10 DEF StepPcs, ReceiptPcs
    <2>2. q.steps[step].receipt.state # "none"
      BY <1>3, <2>1
    <2> QED
      BY <1>1, <1>3, <1>10, <2>1, <2>2, SucceededCopy, RestLeft
  <1>11. CASE /\ pc[d] = "observe" /\ step = "BASE_REFRESH" /\ at = "idle"
              /\ r = [Succeeded(q, step) EXCEPT !.base = EntryOf(d).receipt.to.tree]
    <2>1. pc[d] \in StepPcs /\ pc[d] \in ReceiptPcs
      BY <1>11 DEF StepPcs, ReceiptPcs
    <2>2. ValidAt("save", Succeeded(q, step))
      BY <1>1, <1>3, <2>1, SucceededCopy
    <2>3. Mode = "pull_request"
      BY <1>3, <1>11, <2>1, ModeAssumption DEF StepForPhase
    <2>4. Succeeded(q, step) \in Record
      <3>1. q.steps[step] \in Entry
        BY <1>1, <1>3, <2>1, EntryTyped
      <3>2. Settled(q.steps[step], "succeeded") \in Entry
        BY <3>1, SettledEntry DEF ReceiptStates, StepStates
      <3>3. PhaseAfter(step) \in Phases
        BY <1>11 DEF PhaseAfter, Phases
      <3> QED
        BY <1>1, <1>3, <2>1, <3>2, <3>3, SetEntryTyped DEF Succeeded
    <2>5. ValidAt("save", r) /\ UpdateCopy(r)
      BY <1>11, <2>2, <2>3, <2>4, RebasedCopy
    <2> QED
      BY <1>11, <2>5, RestLeft
  <1>12. CASE pc[d] = "dispatch" /\ step = "BASE_REFRESH" /\ r = NotNeeded(q) /\ at = "idle"
    <2>1. pc[d] \in StepPcs
      BY <1>12 DEF StepPcs
    <2> QED
      BY <1>1, <1>3, <1>12, <2>1, NotNeededCopy, RestLeft
  <1>13. CASE /\ pc[d] = "dispatch" /\ Mode = "pull_request"
              /\ r = [q EXCEPT !.base = base] /\ at = "tail"
    <2>1. pc[d] \in StepPcs
      BY <1>13 DEF StepPcs
    <2>2. ValidAt("dispatch", r) /\ UpdateCopy(r) /\ r.phase = q.phase
      BY <1>1, <1>13, RebasedCopy
    <2>3. ValidAt("save", r)
      BY <2>2 DEF ValidAt, TakenOver
    <2>4. Executing(at, r)
      BY <1>13 DEF Executing, ReceiptPcs, StepPcs
    <2> QED
      BY <2>1, <2>2, <2>3, <2>4, OfficeStays DEF CopyLeft
  <1>14. CASE pc[d] \in {"complete", "view"} /\ r = [q EXCEPT !.phase = "COMPLETE"] /\ at = "idle"
    BY <1>1, <1>14, CompletedCopy, RestLeft DEF TakenOver
  <1> QED
    BY <1>3, <1>4, <1>5, <1>6, <1>7, <1>8, <1>9, <1>10, <1>11, <1>12, <1>13, <1>14,
       StepFacts DEF SaveEdge, StepPcs, PrPcs
-----------------------------------------------------------------------------
(* The invariant of the copies holds *)

\* The part of CopyInv on driver d with confirmation c at point p, on its way
\* to the point at, with the copy r.
DriverFits(d, p, at, c, r) ==
    /\ ValidAt(p, r) /\ Executing(at, r) /\ UpdateCopy(r)
    /\ d \in OfficeDrivers => OfficeAt(c, at, r)

\* Only driver d moves.
OthersStay(d) ==
    \A e \in Drivers \ {d} : /\ pc'[e] = pc[e] /\ cont'[e] = cont[e]
                             /\ rec'[e] = rec[e] /\ confirmed'[e] = confirmed[e]

LEMMA CopyMove ==
    ASSUME CopyInv, NEW d \in Drivers, OthersStay(d),
           DriverFits(d, pc'[d], At(pc', cont', d), confirmed'[d], rec'[d]),
           ValidAt("idle", disk'), UpdateCopy(disk')
    PROVE  CopyInv'
  <1>1. ASSUME NEW e \in Drivers
        PROVE  DriverFits(e, pc'[e], At(pc', cont', e), confirmed'[e], rec'[e])
    <2>1. CASE e = d
      BY <2>1
    <2>2. CASE e # d
      BY <2>2 DEF OthersStay, At, DriverFits, CopyInv, CopiesValid, OfficeKept, CopiesOnHead
    <2> QED
      BY <2>1, <2>2
  <1> QED
    BY <1>1, OfficeAssumption DEF DriverFits, CopyInv, CopiesValid, OfficeKept, CopiesOnHead

\* A copy that needs nothing, because its driver holds none.
LEMMA IdleFits ==
    ASSUME NEW d, NEW r, ValidAt("save", r), UpdateCopy(r),
           NEW c \in OfficeSteps \cup {"none"}
    PROVE  DriverFits(d, "idle", "idle", c, r)
  BY DEF DriverFits, ValidAt, TakenOver, Executing, ReceiptPcs, StepPcs, OfficeAt

LEMMA NewCopy == ValidAt("save", NewRecord) /\ UpdateCopy(NewRecord)
  BY DEF ValidAt, UpdateCopy, NewRecord, NewEntry, NoReceipt, ValidEntry, ExcludedSteps, Steps

LEMMA OfficeTyped ==
    ASSUME CopyInv, NEW d \in Drivers
    PROVE  d \in OfficeDrivers => confirmed[d] \in OfficeSteps \cup {"none"}
  BY DEF CopyInv, OfficeKept, OfficeAt

LEMMA DropFits ==
    ASSUME IInv, CopyInv, NEW d \in Drivers, Drop(d), ValidAt("idle", disk'), UpdateCopy(disk')
    PROVE  CopyInv'
  <1>1. /\ pc'[d] = "idle" /\ confirmed'[d] = "none" /\ rec'[d] = NewRecord
        /\ OthersStay(d)
    BY RecordFacts DEF Drop, ControlTyped, OthersStay
  <1>2. At(pc', cont', d) = "idle"
    BY <1>1 DEF At
  <1>3. DriverFits(d, "idle", "idle", "none", NewRecord)
    BY NewCopy, IdleFits
  <1> QED
    BY <1>1, <1>2, <1>3, CopyMove

LEMMA EdgeFits ==
    ASSUME IInv, CopyInv, NEW d \in Drivers, Edge(d), disk' = disk
    PROVE  CopyInv'
  <1>1. ValidAt("idle", disk') /\ UpdateCopy(disk') /\ ControlTyped
    BY CopyFacts, RecordFacts
  <1>2. CASE Drop(d)
    BY <1>1, <1>2, DropFits
  <1>3. ASSUME NEW r, NEW p, NEW at, CopyLeft(d, p, at, r), OthersStay(d),
               pc'[d] = p, At(pc', cont', d) = at, rec'[d] = r, confirmed'[d] = confirmed[d]
        PROVE  CopyInv'
    <2>1. d \in OfficeDrivers => OfficeAt(confirmed[d], at, r)
      BY <1>3, OfficeTyped DEF CopyLeft, OfficeAt
    <2>2. DriverFits(d, p, at, confirmed[d], r)
      BY <1>3, <2>1 DEF CopyLeft, DriverFits
    <2> QED
      BY <1>1, <1>3, <2>2, CopyMove
  <1>4. ASSUME NEW r, NEW at, GoEdge(d, r, at), GoWith(d, r, at)
        PROVE  CopyInv'
    <2>1. CopyLeft(d, at, at, r) /\ at # "save"
      BY <1>4, GoLeaves
    <2>2. /\ pc'[d] = at /\ rec'[d] = r /\ confirmed'[d] = confirmed[d] /\ OthersStay(d)
      BY <1>1, <1>4 DEF GoWith, ControlTyped, OthersStay
    <2>3. At(pc', cont', d) = at
      BY <2>1, <2>2 DEF At
    <2> QED
      BY <1>3, <2>1, <2>2, <2>3
  <1>5. ASSUME NEW r, NEW at, SaveEdge(d, r, at), SaveThen(d, r, at)
        PROVE  CopyInv'
    <2>1. CopyLeft(d, "save", at, r)
      BY <1>5, SaveLeaves
    <2>2. /\ pc'[d] = "save" /\ cont'[d] = at /\ rec'[d] = r
          /\ confirmed'[d] = confirmed[d] /\ OthersStay(d)
      BY <1>1, <1>5 DEF SaveThen, ControlTyped, OthersStay
    <2>3. At(pc', cont', d) = at
      BY <2>2 DEF At
    <2> QED
      BY <1>3, <2>1, <2>2, <2>3
  <1> QED
    BY <1>2, <1>4, <1>5 DEF Edge

LEMMA SaveFits ==
    ASSUME IInv, CopyInv, NEW d \in Drivers, Save(d)
    PROVE  CopyInv'
  <1>1. /\ pc[d] = "save" /\ disk' = rec[d] /\ ControlTyped
        /\ ValidAt("save", rec[d]) /\ Executing(cont[d], rec[d]) /\ UpdateCopy(rec[d])
        /\ d \in OfficeDrivers => OfficeAt(confirmed[d], cont[d], rec[d])
    BY CopyFacts, RecordFacts DEF Save, At
  <1>2. ValidAt("idle", disk') /\ UpdateCopy(disk')
    BY <1>1 DEF ValidAt, TakenOver
  <1>3. CASE Drop(d)
    BY <1>2, <1>3, DropFits
  <1>4. CASE /\ pc' = [pc EXCEPT ![d] = cont[d]] /\ cont' = [cont EXCEPT ![d] = "idle"]
             /\ UNCHANGED <<rec, confirmed>>
    <2>1. /\ pc'[d] = cont[d] /\ cont'[d] = "idle" /\ rec'[d] = rec[d]
          /\ confirmed'[d] = confirmed[d] /\ OthersStay(d)
      BY <1>1, <1>4 DEF ControlTyped, OthersStay
    <2>2. ValidAt(cont[d], rec[d])
      BY <1>1 DEF ValidAt, TakenOver
    <2>3. At(pc', cont', d) = IF cont[d] = "save" THEN "idle" ELSE cont[d]
      BY <2>1 DEF At
    <2>4. DriverFits(d, cont[d], At(pc', cont', d), confirmed[d], rec[d])
      BY <1>1, <2>2, <2>3 DEF DriverFits, Executing, OfficeAt, ReceiptPcs, StepPcs
    <2> QED
      BY <1>2, <2>1, <2>4, CopyMove
  <1> QED
    BY <1>3, <1>4 DEF Save

LEMMA ConfirmationFits ==
    ASSUME IInv, CopyInv, NEW d \in Drivers, Confirm(d) \/ Withdraw(d)
    PROVE  CopyInv'
  <1>1. /\ pc[d] = "idle" /\ UNCHANGED <<disk, pc, rec, cont>> /\ ControlTyped
        /\ ValidAt("idle", rec[d]) /\ UpdateCopy(rec[d])
        /\ ValidAt("idle", disk) /\ UpdateCopy(disk)
    BY CopyFacts, RecordFacts DEF Confirm, Withdraw
  <1>2. PICK c \in OfficeSteps \cup {"none"} : confirmed' = [confirmed EXCEPT ![d] = c]
    BY DEF Confirm, Withdraw
  <1>3. confirmed'[d] = c /\ OthersStay(d)
    BY <1>1, <1>2 DEF ControlTyped, OthersStay
  <1>4. pc'[d] = "idle" /\ At(pc', cont', d) = "idle" /\ rec'[d] = rec[d] /\ disk' = disk
    BY <1>1 DEF At
  <1>5. ValidAt("save", rec[d])
    BY <1>1 DEF ValidAt, TakenOver
  <1>6. DriverFits(d, "idle", "idle", c, rec[d])
    BY <1>1, <1>5, IdleFits
  <1> QED
    BY <1>1, <1>3, <1>4, <1>6, CopyMove

LEMMA InitCopies == Init => CopyInv
  <1> SUFFICES ASSUME Init PROVE CopyInv
    OBVIOUS
  <1>1. ValidAt("idle", NewRecord)
    BY NewCopy DEF ValidAt, TakenOver
  <1>2. ASSUME NEW d \in Drivers
        PROVE  DriverFits(d, pc[d], At(pc, cont, d), confirmed[d], rec[d])
    BY <1>2, NewCopy, IdleFits DEF Init, At
  <1> QED
    BY <1>1, <1>2, NewCopy, OfficeAssumption
       DEF Init, DriverFits, CopyInv, CopiesValid, OfficeKept, CopiesOnHead

LEMMA CopyHolds == IInv /\ CopyInv /\ [Next]_vars => CopyInv'
  <1> SUFFICES ASSUME IInv, CopyInv, [Next]_vars PROVE CopyInv'
    OBVIOUS
  <1>1. ASSUME NEW d \in Drivers, Confirm(d) \/ Drive(d) \/ ReadFault(d) \/ Crash(d)
        PROVE  CopyInv'
    BY <1>1, DriverEdges, EdgeFits, SaveFits, ConfirmationFits
  <1>2. ASSUME UNCHANGED control, disk' = disk \/ disk' = Revoked(disk)
        PROVE  CopyInv'
    <2>1. disk \in Record /\ ValidAt("idle", disk) /\ UpdateCopy(disk)
      BY DEF CopyInv, CopiesValid, CopiesOnHead, IInv, TypeOK
    <2>2. ValidAt("idle", disk') /\ UpdateCopy(disk')
      <3>1. CASE disk' = Revoked(disk)
        <4>1. ValidAt("save", disk') /\ UpdateCopy(disk')
          BY <2>1, <3>1, RevokedCopy DEF TakenOver
        <4> QED
          BY <4>1 DEF ValidAt, TakenOver
      <3> QED
        BY <1>2, <2>1, <3>1
    <2>3. UNCHANGED <<pc, rec, cont, confirmed>>
      BY <1>2 DEF control
    <2> QED
      BY <2>2, <2>3 DEF CopyInv, CopiesValid, CopiesOnHead, OfficeKept, At
  <1> QED
    BY <1>1, <1>2, OtherSteps DEF Next, vars

THEOREM CopyInvariance == Spec => [](IInv /\ CopyInv)
  BY InitHolds, StepHolds, InitCopies, CopyHolds, PTL DEF Spec

\* No path of the machine, whoever else drives the delivery, builds a record
\* that the validator inside _persist would refuse.
THEOREM SavesValid == Spec => []SavesAreValid
  <1>1. IInv /\ CopyInv => SavesAreValid
    <2> SUFFICES ASSUME IInv, CopyInv, NEW d \in Drivers, pc[d] = "save"
                 PROVE  ValidRecord(rec[d])
      BY DEF SavesAreValid
    <2>1. rec[d] \in Record /\ ValidAt("save", rec[d])
      BY CopyFacts
    <2>2. \A s \in Steps : rec[d].steps[s].voided <= MaxAttempts
      BY <2>1, EntryTyped
    <2> QED
      BY <2>1, <2>2 DEF ValidAt, ValidRecord, ValidEntry, TakenOver
  <1> QED
    BY <1>1, CopyInvariance, PTL

\* An office call is on the way to the effect of the step a human confirmed,
\* and of no other (_require_expected_step, OFFICE_ACTION_STEPS).
THEOREM OfficeStep == Spec => []OneConfirmedStep
  <1>1. IInv /\ CopyInv => OneConfirmedStep
    <2> SUFFICES ASSUME IInv, CopyInv, NEW d \in OfficeDrivers, pc[d] \in EffectPcs
                 PROVE  StepOf(d) = confirmed[d] /\ StepOf(d) # "BASE_REFRESH"
      BY DEF OneConfirmedStep
    <2>1. OfficeAt(confirmed[d], pc[d], rec[d]) /\ pc[d] \in StepPcs
      BY DEF CopyInv, OfficeKept, EffectPcs, StepPcs, At
    <2> QED
      BY <2>1 DEF OfficeAt, OfficeSteps, StepOf
  <1> QED
    BY <1>1, CopyInvariance, PTL

\* What a step does to the effects: it leaves them, or one of them lands.
LEMMA EffectSteps ==
    ASSUME [Next]_vars
    PROVE  \/ landed' = landed
           \/ \E d \in Drivers : pc[d] = "effect" /\ EffectLands(d)
           \/ PrLands
  <1>1. ASSUME NEW d \in Drivers,
               \/ Load(d) \/ Refresh(d) \/ Refused(d) \/ StepBaseRefresh(d) \/ Observe(d)
               \/ StepCommit(d) \/ StepPush(d) \/ Tail(d) \/ StepPrCreate(d) \/ LookUp(d)
               \/ AdoptPr(d) \/ Complete(d) \/ ViewPr(d) \/ ReadFault(d) \/ Crash(d)
               \/ Save(d) \/ ReadTree(d) \/ Confirm(d) \/ Withdraw(d)
        PROVE  landed' = landed
    BY <1>1 DEF Load, Refresh, Refused, StepBaseRefresh, Observe, StepCommit, StepPush,
       Tail, StepPrCreate, LookUp, AdoptPr, Complete, ViewPr, ReadFault, Crash, Save,
       ReadTree, Confirm, Withdraw, world
  <1>2. ASSUME Outside
        PROVE  landed' = landed
    BY <1>2 DEF Outside, Revoke, Expire, MoveBase, MoveRef, MovePr, GithubCatchesUp, world
  <1>3. ASSUME NEW d \in Drivers, Effect(d) \/ CreatePr(d)
        PROVE  landed' = landed \/ (pc[d] = "effect" /\ EffectLands(d)) \/ PrLands
    BY <1>3 DEF Effect, CreatePr, world
  <1>4. CASE UNCHANGED vars
    BY <1>4 DEF vars, world
  <1> QED
    BY <1>1, <1>2, <1>3, <1>4 DEF Next, Drive

LEMMA OnlyPushes ==
    ASSUME IInv, [Next]_vars
    PROVE  landed'["PUSH"] = landed["PUSH"] \/ (PushAllowed /\ remote' = head)
  <1>1. landed \in [Steps -> Nat] /\ "PUSH" \in Steps
    BY DEF IInv, TypeOK, Steps
  <1>2. ASSUME NEW d \in Drivers, EffectLands(d)
        PROVE  landed'["PUSH"] = landed["PUSH"] \/ (PushAllowed /\ remote' = head)
    BY <1>1, <1>2 DEF EffectLands, Landed
  <1>3. ASSUME PrLands
        PROVE  landed'["PUSH"] = landed["PUSH"]
    BY <1>1, <1>3 DEF PrLands, Landed
  <1> QED
    BY <1>2, <1>3, EffectSteps

\* A push of a pr_update finds the approved head on the remote and leaves the
\* one commit on it there (_derive_push, receipts.guard_decision).
THEOREM UpdateSafe ==
    ASSUME Mode = "pr_update"
    PROVE  Spec => UpdateExtendsApprovedHead
  <1> DEFINE A == landed'["PUSH"] > landed["PUSH"] =>
                    remote = Base(0) /\ remote' = Commit(0, 0)
  <1>1. IInv /\ CopyInv /\ [Next]_vars => [A]_vars
    <2> SUFFICES ASSUME IInv, CopyInv, [Next]_vars PROVE A
      OBVIOUS
    <2>1. landed \in [Steps -> Nat] /\ "PUSH" \in Steps
      BY DEF IInv, TypeOK, Steps
    <2>2. ASSUME landed'["PUSH"] = landed["PUSH"]
          PROVE  A
      BY <2>1, <2>2
    <2>3. ASSUME PushAllowed, remote' = head
          PROVE  A
      <3> DEFINE x == disk.steps["PUSH"].receipt
      <3>1. x.state = "executing" /\ x.to = head /\ x.from = remote
        BY <2>3 DEF PushAllowed, ReceiptInForce
      <3>2. OnHead("PUSH", x)
        BY <2>1, <3>1 DEF CopyInv, CopiesOnHead, UpdateCopy
      <3> QED
        BY <2>3, <3>1, <3>2 DEF OnHead
    <2>4. ASSUME ~(PushAllowed /\ remote' = head)
          PROVE  landed'["PUSH"] = landed["PUSH"]
      BY <2>4, OnlyPushes
    <2> QED
      BY <2>2, <2>3, <2>4
  <1> QED
    BY <1>1, CopyInvariance, PTL DEF Spec, UpdateExtendsApprovedHead
-----------------------------------------------------------------------------
(* One process that drives the delivery and crashes *)

\* The steps of this kind of delivery that a phase leaves behind.
Passed(phase) ==
    (CASE phase = "AUTHORIZED" -> {}
       [] phase = "BASE_CURRENT" -> {"BASE_REFRESH"}
       [] phase = "COMMITTED" -> {"BASE_REFRESH", "COMMIT"}
       [] phase = "PUSHED" -> {"BASE_REFRESH", "COMMIT", "PUSH"}
       [] OTHER -> Steps) \ ExcludedSteps

Current(r) == r.steps[StepForPhase(r.phase)]

\* What a copy and the effects n say of a step: left behind with its effect in
\* place, or not begun, or the step under way with a receipt.
Told(r, s, n) ==
    IF s \in Passed(r.phase)
    THEN s # "BASE_REFRESH" => r.steps[s].state = "succeeded" /\ n[s] = 1
    ELSE /\ r.steps[s].state # "succeeded"
         /\ \/ n[s] = 0
            \/ n[s] = 1 /\ s = StepForPhase(r.phase) /\ Unsettled(r.steps[s].receipt)

Tells(r, n) ==
    /\ ~r.revoked
    /\ r.phase \notin {"BLOCKED", "REVOKED"} => \A s \in Steps : Told(r, s, n)
    /\ r.phase = "AUTHORIZED" =>
         /\ r.base = 0
         /\ r.steps["BASE_REFRESH"].receipt.state # "none" =>
              r.steps["BASE_REFRESH"].receipt.from = Base(0)

\* A save that is due moves the stored record q forward.
Forward(q, r, n) ==
    /\ \A s \in Steps : q.steps[s].state = "succeeded" => r.steps[s] = q.steps[s]
    /\ \A s \in Steps : r.steps[s].voided > q.steps[s].voided => n[s] = 0
    /\ r.phase # q.phase => <<q.phase, r.phase>> \in AllowedTransitions
    /\ r.phase \in {"BLOCKED", "REVOKED"} =>
         \A s \in Steps : r.steps[s].state = "succeeded" => q.steps[s].state = "succeeded"

\* Where a driver is whose copy is the record r.
LoneAt(at, r, n) ==
    /\ at = "tail" => ~Unsettled(Current(r).receipt)
    /\ at \in ReceiptPcs => Unsettled(Current(r).receipt)
    /\ at \in EffectPcs \cup {"refresh"} => n[StepForPhase(r.phase)] = 0
    /\ at = "complete" => r.phase = "PR_OPENED"
    /\ at = "view" => StepForPhase(r.phase) = "none"
    /\ at # "idle" => r.phase \notin Terminal
    /\ at # "revoke"

\* The save of copy r that is due, with the point at after it.
Due(r, at, n) ==
    /\ disk.phase \notin Terminal
    /\ Tells(r, n) /\ Forward(disk, r, n) /\ LoneAt(at, r, n)
    /\ at \notin TakenOver \cup {"save", "view"}

\* A driver works on what is stored, or has taken a proven effect over.
Held(p, r) ==
    \/ r = disk
    \/ p \in TakenOver /\ r = Reopened(disk, StepForPhase(disk.phase))

LoneDriver(d) ==
    /\ pc[d] = "save" => Due(rec[d], cont[d], landed)
    /\ pc[d] \in Working => LoneAt(pc[d], disk, landed) /\ Held(pc[d], rec[d])

LoneWorld ==
    /\ landed["BASE_REFRESH"] >= 1 => head # Base(0)
    /\ landed["PR_CREATE"] >= 1 => openPr # NoOid
    /\ Mode = "pull_request" /\ openPr # NoOid => landed["PR_CREATE"] >= 1
    /\ closedPrs = {}

LoneInv == Tells(disk, landed) /\ LoneWorld /\ \A d \in Drivers : LoneDriver(d)

\* One process, and nobody who revokes or touches the pull request by hand.
Alone ==
    /\ \A d, e \in Drivers : d = e
    /\ Disturbances \cap {"revoke", "close", "openpr"} = {}

-----------------------------------------------------------------------------
(* How far a copy is from the stored record *)

LEMMA StepAhead ==
    ASSUME NEW phase \in Phases, StepForPhase(phase) \in Steps
    PROVE  /\ phase \notin Terminal
           /\ StepForPhase(phase) \notin Passed(phase)
           /\ Passed(PhaseAfter(StepForPhase(phase)))
                = Passed(phase) \cup {StepForPhase(phase)}
           /\ PhaseAfter(StepForPhase(phase)) \in Phases
           /\ PhaseAfter(StepForPhase(phase)) \notin Terminal \cup {"AUTHORIZED"}
           /\ <<phase, PhaseAfter(StepForPhase(phase))>> \in AllowedTransitions
           /\ PhaseAfter(StepForPhase(phase)) # phase
           /\ StepForPhase(phase) = "BASE_REFRESH" => phase = "AUTHORIZED"
  <1> DEFINE step == StepForPhase(phase)
             after == PhaseAfter(step)
  <1>1. \/ /\ Mode = "pull_request"
           /\ <<phase, step, after>> \in
                {<<"AUTHORIZED", "BASE_REFRESH", "BASE_CURRENT">>,
                 <<"BASE_CURRENT", "COMMIT", "COMMITTED">>,
                 <<"COMMITTED", "PUSH", "PUSHED">>,
                 <<"PUSHED", "PR_CREATE", "PR_OPENED">>}
        \/ /\ Mode = "pr_update"
           /\ <<phase, step, after>> \in
                {<<"AUTHORIZED", "COMMIT", "COMMITTED">>, <<"COMMITTED", "PUSH", "PUSHED">>}
    BY ModeAssumption DEF StepForPhase, PhaseAfter, Steps
  <1>2. after \in Phases /\ after \notin Terminal \cup {"AUTHORIZED"} /\ after # phase
        /\ phase \notin Terminal /\ (step = "BASE_REFRESH" => phase = "AUTHORIZED")
    BY <1>1 DEF Phases, Terminal
  <1>3. step \notin Passed(phase) /\ Passed(after) = Passed(phase) \cup {step}
    BY <1>1 DEF Passed, ExcludedSteps, Steps
  <1>4. <<phase, after>> \in AllowedTransitions
    <2>1. <<phase, after>> \in {t \in Phases \X Phases :
             LET s == StepForPhase(t[1]) IN s # "none" /\ t[2] = PhaseAfter(s)}
      BY <1>2 DEF Steps
    <2> QED
      BY <2>1 DEF AllowedTransitions
  <1> QED
    BY <1>2, <1>3, <1>4

LEMMA SetEntryAt ==
    ASSUME NEW r \in Record, NEW step \in Steps, NEW e \in Entry, NEW phase \in Phases,
           NEW q, q = SetEntry(r, step, e, phase)
    PROVE  /\ q \in Record /\ q.phase = phase /\ q.base = r.base /\ q.revoked = r.revoked
           /\ q.steps[step] = e
           /\ \A s \in Steps : s # step => q.steps[s] = r.steps[s]
  BY DEF SetEntry, Record

\* A working copy agrees with the stored record r but for the state of the
\* receipt of the step under way, which stays unsettled.
Near(q, r) ==
    /\ q \in Record /\ r \in Record
    /\ q.phase = r.phase /\ q.base = r.base /\ q.revoked = r.revoked
    /\ \A s \in Steps :
         /\ s # StepForPhase(r.phase) => q.steps[s] = r.steps[s]
         /\ q.steps[s].voided = r.steps[s].voided
         /\ q.steps[s].state = r.steps[s].state
         /\ q.steps[s].receipt.from = r.steps[s].receipt.from
         /\ q.steps[s].receipt.to = r.steps[s].receipt.to
         /\ Unsettled(q.steps[s].receipt) <=> Unsettled(r.steps[s].receipt)
         /\ q.steps[s].receipt.state # "none" => r.steps[s].receipt.state # "none"

LEMMA NearReopened ==
    ASSUME NEW r \in Record, NEW step \in Steps, step = StepForPhase(r.phase),
           Unsettled(r.steps[step].receipt)
    PROVE  Near(Reopened(r, step), r)
  <1> DEFINE y == r.steps[step]
             e == [y EXCEPT !.receipt = [@ EXCEPT !.state = "executing"]]
             q == SetEntry(r, step, e, r.phase)
  <1>1. y \in Entry /\ y.receipt \in Receipt /\ r.phase \in Phases
    BY EntryTyped
  <1>2. e \in Entry /\ e.receipt.state = "executing" /\ e.state = y.state
        /\ e.voided = y.voided
        /\ e.receipt.from = y.receipt.from /\ e.receipt.to = y.receipt.to
    BY <1>1 DEF Entry, Receipt, ReceiptStates
  <1>3. Reopened(r, step) = q
    BY DEF Reopened
  <1> HIDE DEF e
  <1>4. /\ q \in Record /\ q.phase = r.phase /\ q.base = r.base /\ q.revoked = r.revoked
        /\ q.steps[step] = e /\ \A s \in Steps : s # step => q.steps[s] = r.steps[s]
    BY <1>1, <1>2, SetEntryAt
  <1> HIDE DEF q
  <1> QED
    BY <1>2, <1>3, <1>4 DEF Near, Unsettled

LEMMA NearHeld ==
    ASSUME NEW r \in Record, NEW q,
           \/ q = r
           \/ /\ q = Reopened(r, StepForPhase(r.phase))
              /\ StepForPhase(r.phase) \in Steps /\ Unsettled(Current(r).receipt)
    PROVE  Near(q, r)
  <1>1. CASE q = r
    BY <1>1 DEF Near
  <1>2. CASE /\ q = Reopened(r, StepForPhase(r.phase))
             /\ StepForPhase(r.phase) \in Steps /\ Unsettled(Current(r).receipt)
    BY <1>2, NearReopened DEF Current
  <1> QED
    BY <1>1, <1>2

\* A change of the step under way that leaves the phase.
LEMMA StepStays ==
    ASSUME NEW n \in [Steps -> Nat], NEW q, NEW r, Near(q, r), Tells(r, n),
           NEW step \in Steps, step = StepForPhase(r.phase),
           NEW e \in Entry, e.state # "succeeded",
           n[step] = 0 \/ Unsettled(e.receipt),
           e.voided = q.steps[step].voided \/ n[step] = 0,
           step = "BASE_REFRESH" /\ e.receipt.state # "none" => e.receipt.from = Base(0)
    PROVE  LET p == SetEntry(q, step, e, q.phase)
           IN  /\ Tells(p, n) /\ Forward(r, p, n) /\ p.phase = r.phase
               /\ Current(p) = e /\ p \in Record
  <1> DEFINE p == SetEntry(q, step, e, q.phase)
  <1>1. q \in Record /\ r \in Record /\ q.phase \in Phases /\ q.phase = r.phase
        /\ r.phase \in Phases
    BY DEF Near, Record
  <1>2. /\ p \in Record /\ p.phase = r.phase /\ p.base = r.base /\ p.revoked = r.revoked
        /\ p.steps[step] = e /\ \A s \in Steps : s # step => p.steps[s] = r.steps[s]
    BY <1>1, SetEntryAt DEF Near
  <1> HIDE DEF p
  <1>3. /\ r.phase \notin Terminal /\ step \notin Passed(r.phase)
        /\ (step = "BASE_REFRESH" => r.phase = "AUTHORIZED")
    BY <1>1, StepAhead
  <1>4. \A s \in Steps : Told(r, s, n)
    BY <1>3 DEF Tells, Terminal
  <1>5. ASSUME NEW s \in Steps
        PROVE  Told(p, s, n)
    <2>1. CASE s = step
      BY <1>2, <1>3, <1>4, <2>1 DEF Told
    <2>2. CASE s # step
      BY <1>2, <1>4, <2>2 DEF Told
    <2> QED
      BY <2>1, <2>2
  <1>6. Tells(p, n)
    BY <1>2, <1>5 DEF Tells, Steps
  <1>7. Forward(r, p, n)
    <2>1. \A s \in Steps : p.steps[s].voided > r.steps[s].voided => n[s] = 0
      <3> SUFFICES ASSUME NEW s \in Steps, p.steps[s].voided > r.steps[s].voided
                   PROVE  n[s] = 0
        OBVIOUS
      <3>1. r.steps[s].voided \in Nat
        BY <1>1, EntryTyped
      <3>2. p.steps[s].voided # r.steps[s].voided
        BY <3>1
      <3> QED
        BY <1>2, <3>2 DEF Near
    <2>2. r.steps[step].state # "succeeded"
      BY <1>3, <1>4 DEF Told
    <2> QED
      BY <1>2, <1>3, <2>1, <2>2 DEF Forward, Terminal
  <1>8. Current(p) = e
    BY <1>2 DEF Current
  <1> QED
    BY <1>2, <1>6, <1>7, <1>8 DEF p

\* A change of the step under way that settles it.
LEMMA StepSettles ==
    ASSUME NEW n \in [Steps -> Nat], NEW q, NEW r, Near(q, r), Tells(r, n),
           NEW step \in Steps, step = StepForPhase(r.phase),
           NEW e \in Entry, e.voided = q.steps[step].voided,
           step # "BASE_REFRESH" => e.state = "succeeded" /\ n[step] = 1
    PROVE  LET p == SetEntry(q, step, e, PhaseAfter(step))
           IN  /\ Tells(p, n) /\ Forward(r, p, n) /\ p.phase = PhaseAfter(step)
               /\ p \in Record
  <1> DEFINE p == SetEntry(q, step, e, PhaseAfter(step))
  <1>1. q \in Record /\ r \in Record /\ q.phase = r.phase /\ r.phase \in Phases
    BY DEF Near, Record
  <1>2. /\ r.phase \notin Terminal /\ step \notin Passed(r.phase)
        /\ Passed(PhaseAfter(step)) = Passed(r.phase) \cup {step}
        /\ PhaseAfter(step) \in Phases
        /\ PhaseAfter(step) \notin Terminal \cup {"AUTHORIZED"}
        /\ <<r.phase, PhaseAfter(step)>> \in AllowedTransitions
    BY <1>1, StepAhead
  <1>3. /\ p \in Record /\ p.phase = PhaseAfter(step) /\ p.revoked = r.revoked
        /\ p.steps[step] = e /\ \A s \in Steps : s # step => p.steps[s] = r.steps[s]
    BY <1>1, <1>2, SetEntryAt DEF Near
  <1> HIDE DEF p
  <1>4. \A s \in Steps : Told(r, s, n)
    BY <1>2 DEF Tells, Terminal
  <1>5. ASSUME NEW s \in Steps
        PROVE  Told(p, s, n)
    <2>1. CASE s = step
      BY <1>2, <1>3, <2>1 DEF Told
    <2>2. CASE s # step
      BY <1>2, <1>3, <1>4, <2>2 DEF Told
    <2> QED
      BY <2>1, <2>2
  <1>6. Tells(p, n)
    BY <1>2, <1>3, <1>5 DEF Tells
  <1>7. Forward(r, p, n)
    <2>1. \A s \in Steps : p.steps[s].voided = r.steps[s].voided
      BY <1>3 DEF Near
    <2>2. \A s \in Steps : r.steps[s].voided \in Nat
      BY <1>1, EntryTyped
    <2>3. r.steps[step].state # "succeeded"
      BY <1>2, <1>4 DEF Told
    <2>4. p.phase \notin {"BLOCKED", "REVOKED"}
      BY <1>2, <1>3 DEF Terminal
    <2>5. \A s \in Steps : ~(p.steps[s].voided > r.steps[s].voided)
      BY <2>1, <2>2
    <2> QED
      BY <1>2, <1>3, <2>3, <2>4, <2>5 DEF Forward
  <1> QED
    BY <1>3, <1>6, <1>7 DEF p
LEMMA LoneBlocked ==
    ASSUME NEW n \in [Steps -> Nat], NEW q, NEW r, Near(q, r), Tells(r, n),
           r.phase \notin Terminal,
           Mode = "pr_update" => r.phase \notin {"BASE_CURRENT", "PR_OPENED"}
    PROVE  Tells(BlockedRecord(q), n) /\ Forward(r, BlockedRecord(q), n)
  <1> DEFINE step == StepForPhase(r.phase)
             e == [q.steps[step] EXCEPT !.state = "blocked"]
             p == BlockedRecord(q)
  <1>1. q \in Record /\ r \in Record /\ q.phase = r.phase /\ r.phase \in Phases
        /\ step \in Steps \cup {"none"} /\ "BLOCKED" \in Phases
    BY StepTyped DEF Near, Record, Phases, Terminal
  <1>2. /\ p \in Record /\ p.phase = "BLOCKED" /\ p.revoked = r.revoked
        /\ \A s \in Steps : s # step => p.steps[s] = r.steps[s]
        /\ step \in Steps => /\ p.steps[step].voided = r.steps[step].voided
                             /\ p.steps[step].state = "succeeded" => FALSE
    <2>1. CASE step = "none" \/ q.steps[step].state = "succeeded"
      <3>1. p = [q EXCEPT !.phase = "BLOCKED"]
        BY <1>1, <2>1 DEF BlockedRecord
      <3>2. p \in Record /\ p.phase = "BLOCKED" /\ p.revoked = q.revoked /\ p.steps = q.steps
        BY <1>1, <3>1 DEF Record
      <3>3. step \in Steps => q.steps[step].state # "succeeded"
        BY <1>1, StepAhead DEF Near, Tells, Told, Terminal
      <3> QED
        BY <2>1, <3>2, <3>3 DEF Near, Steps
    <2>2. CASE ~(step = "none" \/ q.steps[step].state = "succeeded")
      <3>1. step \in Steps
        BY <1>1, <2>2
      <3>2. q.steps[step] \in Entry
        BY <1>1, <3>1, EntryTyped
      <3>3. e \in Entry /\ e.state = "blocked" /\ e.voided = q.steps[step].voided
        BY <3>2 DEF Entry, StepStates
      <3>4. p = SetEntry(q, step, e, "BLOCKED")
        BY <1>1, <2>2 DEF BlockedRecord
      <3> HIDE DEF e, p
      <3>5. /\ p \in Record /\ p.phase = "BLOCKED" /\ p.revoked = q.revoked
            /\ p.steps[step] = e /\ \A s \in Steps : s # step => p.steps[s] = q.steps[s]
        BY <1>1, <3>1, <3>3, <3>4, SetEntryAt
      <3> QED
        BY <3>1, <3>3, <3>5 DEF Near
    <2> QED
      BY <2>1, <2>2
  <1> HIDE DEF p
  <1>3. Tells(p, n)
    BY <1>2 DEF Tells
  <1>4. \A s \in Steps : p.steps[s].voided = r.steps[s].voided /\ r.steps[s].voided \in Nat
    BY <1>1, <1>2, EntryTyped
  <1>5. \A s \in Steps : ~(p.steps[s].voided > r.steps[s].voided)
    BY <1>4
  <1>6. step \in Steps => r.steps[step].state # "succeeded"
    BY <1>1, StepAhead DEF Tells, Told, Terminal
  <1>7. <<r.phase, "BLOCKED">> \in AllowedTransitions
    BY <1>1, ModeAssumption DEF AllowedTransitions
  <1>8. Forward(r, p, n)
    BY <1>2, <1>5, <1>6, <1>7 DEF Forward
  <1> QED
    BY <1>3, <1>8 DEF p

LEMMA LoneRetried ==
    ASSUME NEW n \in [Steps -> Nat], NEW q, NEW r, Near(q, r), Tells(r, n),
           r.phase \notin Terminal
    PROVE  Tells(Retried(q), n) /\ Forward(r, Retried(q), n)
  <1> DEFINE step == StepForPhase(r.phase)
             y == q.steps[step]
             e == RetriedEntry(y)
  <1>1. q \in Record /\ r \in Record /\ q.phase = r.phase /\ r.phase \in Phases
        /\ step \in Steps \cup {"none"}
    BY StepTyped DEF Near, Record
  <1>2. CASE step = "none"
    <2>1. Retried(q) = q
      BY <1>1, <1>2 DEF Retried
    <2>2. \A s \in Steps : q.steps[s] = r.steps[s] /\ r.steps[s].voided \in Nat
      BY <1>1, <1>2, EntryTyped DEF Near, Steps
    <2>3. \A s \in Steps : ~(q.steps[s].voided > r.steps[s].voided)
      BY <2>2
    <2>4. Tells(q, n)
      BY <1>1, <2>2 DEF Tells, Told, Near, Steps
    <2>5. Forward(r, q, n)
      BY <1>1, <2>2, <2>3 DEF Forward
    <2> QED
      BY <2>1, <2>4, <2>5
  <1>3. CASE step \in Steps
    <2>1. y \in Entry /\ y.receipt \in Receipt
      BY <1>1, <1>3, EntryTyped
    <2>2. Told(r, step, n) /\ step \notin Passed(r.phase)
      BY <1>1, <1>3, StepAhead DEF Tells, Terminal
    <2>3. y.state # "succeeded" /\ (n[step] = 0 \/ Unsettled(y.receipt))
      BY <1>3, <2>2 DEF Told, Near
    <2> HIDE DEF y
    <2>4. /\ e \in Entry /\ e.state # "succeeded" /\ e.voided = y.voided
          /\ e.receipt.from = y.receipt.from
          /\ e.receipt.state # "none" => y.receipt.state # "none"
          /\ Unsettled(y.receipt) => Unsettled(e.receipt)
      <3>1. CASE y.receipt.state = "executing"
        <4>1. e = Settled(y, "failed_retryable")
          BY <3>1 DEF RetriedEntry
        <4>2. /\ e \in Entry /\ e.state = "failed_retryable"
              /\ e.receipt.state = "failed_retryable"
              /\ e.receipt.from = y.receipt.from /\ e.voided = y.voided
          BY <2>1, <4>1, SettledEntry DEF ReceiptStates, StepStates
        <4> QED
          BY <3>1, <4>2 DEF Unsettled
      <3>2. CASE y.receipt.state \in {"none", "succeeded"} /\ y.state \notin {"succeeded", "not_needed"}
        <4>1. e = [y EXCEPT !.state = "pending"]
          BY <3>2 DEF RetriedEntry
        <4>2. e \in Entry /\ e.state = "pending" /\ e.receipt = y.receipt /\ e.voided = y.voided
          BY <2>1, <4>1 DEF Entry, StepStates
        <4> QED
          BY <4>2
      <3>3. CASE ~(y.receipt.state = "executing") /\
                 ~(y.receipt.state \in {"none", "succeeded"} /\ y.state \notin {"succeeded", "not_needed"})
        <4>1. e = y
          BY <3>3 DEF RetriedEntry
        <4> QED
          BY <2>1, <2>3, <4>1
      <3> QED
        BY <3>1, <3>2, <3>3
    <2>5. Retried(q) = SetEntry(q, step, e, q.phase)
      BY <1>1, <1>3 DEF Retried, Steps, y
    <2>6. step = "BASE_REFRESH" /\ y.receipt.state # "none" => y.receipt.from = Base(0)
      BY <1>1, <1>3, StepAhead DEF Near, Tells, y
    <2> HIDE DEF e
    <2>7. /\ n[step] = 0 \/ Unsettled(e.receipt)
          /\ e.voided = q.steps[step].voided
          /\ step = "BASE_REFRESH" /\ e.receipt.state # "none" => e.receipt.from = Base(0)
      BY <2>3, <2>4, <2>6 DEF y
    <2> QED
      BY <1>3, <2>4, <2>5, <2>7, StepStays
  <1> QED
    BY <1>1, <1>2, <1>3

-----------------------------------------------------------------------------
(* What the lone driver knows *)

LEMMA LoneFacts ==
    ASSUME IInv, LoneInv, NEW d \in Drivers, pc[d] \in Working
    PROVE  /\ Near(rec[d], disk) /\ Tells(disk, landed) /\ LoneAt(pc[d], disk, landed)
           /\ disk.phase \notin Terminal /\ disk \in Record /\ ~disk.revoked
           /\ StepOf(d) = StepForPhase(disk.phase)
           /\ EntryOf(d) = rec[d].steps[StepOf(d)]
           /\ pc[d] \notin TakenOver => rec[d] = disk
           /\ landed \in [Steps -> Nat]
  <1>1. LoneAt(pc[d], disk, landed) /\ Held(pc[d], rec[d]) /\ Tells(disk, landed)
    BY DEF LoneInv, LoneDriver
  <1>2. disk \in Record /\ landed \in [Steps -> Nat]
    BY DEF IInv, TypeOK
  <1>3. Reopened(disk, StepForPhase(disk.phase)).phase = disk.phase
    BY <1>2 DEF Reopened, SetEntry, Record
  <1>4. rec[d].phase = disk.phase
    BY <1>1, <1>3 DEF Held
  <1>5. pc[d] \in TakenOver => StepForPhase(disk.phase) \in Steps /\ Unsettled(Current(disk).receipt)
    BY <1>1, <1>4, StepFacts DEF StepOf, TakenOver, StepPcs, ReceiptPcs, LoneAt
  <1>6. Near(rec[d], disk)
    BY <1>1, <1>2, <1>5, NearHeld DEF Held
  <1> QED
    BY <1>1, <1>2, <1>4, <1>6 DEF LoneAt, Held, Working, StepOf, EntryOf, Tells

\* A receipt found absent names an effect that did not take place.
LEMMA AbsentMeans ==
    ASSUME IInv, LoneInv, NEW d \in Drivers, pc[d] = "dispatch",
           Unsettled(EntryOf(d).receipt), Absent(d)
    PROVE  landed[StepOf(d)] = 0
  <1> DEFINE x == EntryOf(d).receipt
             step == StepOf(d)
  <1>1. step \in Steps /\ GoodReceipt(step, x, base, Seen) /\ x.state # "none"
    BY StepFacts DEF StepPcs, Unsettled
  <1>2. /\ rec[d] = disk /\ Tells(disk, landed) /\ landed \in [Steps -> Nat]
        /\ step = StepForPhase(disk.phase) /\ x = disk.steps[step].receipt
        /\ disk.phase \in Phases
    BY LoneFacts, RecordFacts DEF Working, Pcs, TakenOver
  <1>3. WorldGood /\ LoneWorld /\ landed[step] \in Nat
    BY <1>1, <1>2 DEF IInv, LoneInv
  <1>4. CASE step = "BASE_REFRESH"
    <2>1. x.from = Base(0)
      BY <1>1, <1>2, <1>4, StepAhead DEF Tells
    <2> QED
      BY <1>3, <1>4, <2>1 DEF Absent, LoneWorld
  <1>5. CASE step = "COMMIT"
    BY <1>1, <1>3, <1>5 DEF Absent, GoodReceipt, WorldGood
  <1>6. CASE step = "PUSH"
    BY <1>1, <1>3, <1>6 DEF Absent, GoodReceipt, WorldGood
  <1>7. CASE step = "PR_CREATE"
    BY <1>3, <1>7 DEF Absent, LoneWorld
  <1> QED
    BY <1>1, <1>4, <1>5, <1>6, <1>7 DEF Steps

\* A receipt found present names an effect that did.
LEMMA PresentMeans ==
    ASSUME IInv, LoneInv, NEW d \in Drivers, pc[d] \in {"dispatch", "observe", "adopt"},
           EntryOf(d).receipt.state # "none", StepOf(d) # "BASE_REFRESH", Present(d)
    PROVE  landed[StepOf(d)] = 1
  <1> DEFINE x == EntryOf(d).receipt
             step == StepOf(d)
  <1>1. step \in Steps /\ GoodReceipt(step, x, base, Seen)
    BY StepFacts DEF StepPcs
  <1>2. /\ Tells(disk, landed) /\ landed \in [Steps -> Nat]
        /\ step = StepForPhase(disk.phase) /\ disk.phase \notin Terminal
        /\ disk.phase \in Phases
    BY LoneFacts, RecordFacts DEF Working, Pcs
  <1>3. WorldGood /\ LoneWorld
    BY DEF IInv, LoneInv
  <1>4. landed[step] \in {0, 1}
    BY <1>1, <1>2, StepAhead DEF Tells, Told, Terminal
  <1>5. CASE step = "COMMIT"
    BY <1>1, <1>3, <1>4, <1>5 DEF Present, GoodReceipt, WorldGood, Commit
  <1>6. CASE step = "PUSH"
    BY <1>1, <1>3, <1>4, <1>6 DEF Present, GoodReceipt, WorldGood
  <1>7. CASE step = "PR_CREATE"
    <2>1. Mode = "pull_request"
      BY <1>2, <1>7, ModeAssumption DEF StepForPhase
    <2>2. openPr.kind = "commit"
      BY <1>1, <1>3, <1>7 DEF Present, GoodReceipt, LoneWorld
    <2>3. openPr # NoOid
      BY <2>2 DEF NoOid
    <2> QED
      BY <1>3, <1>4, <1>7, <2>1, <2>3 DEF LoneWorld
  <1> QED
    BY <1>1, <1>5, <1>6, <1>7 DEF Steps
-----------------------------------------------------------------------------
(* The edges of the lone driver *)

\* Where an edge that saves nothing leads, but for the effect that lands on
\* the way.
LEMMA LoneGo ==
    ASSUME IInv, CopyInv, LoneInv, NEW d \in Drivers, NEW r, NEW at, GoEdge(d, r, at)
    PROVE  at \in Working /\ LoneAt(at, disk, landed) /\ Held(at, r)
  <1>1. /\ Tells(disk, landed) /\ disk \in Record /\ disk.phase \in Phases
        /\ landed \in [Steps -> Nat]
    BY RecordFacts DEF LoneInv, IInv, TypeOK
  <1>2. CASE /\ Loaded(d) /\ r = disk
             /\ at = IF StepForPhase(disk.phase) = "none" THEN "view" ELSE "dispatch"
    BY <1>2 DEF Loaded, Held, LoneAt, Working, Pcs, ReceiptPcs, StepPcs, EffectPcs
  <1>3. CASE pc[d] = "refresh" /\ r = Reread(d) /\ at = EffectPc(r)
    <2>1. /\ LoneAt("refresh", disk, landed) /\ rec[d] = disk /\ disk.phase \notin Terminal
      BY <1>3, LoneFacts DEF Working, Pcs, TakenOver
    <2>2. r = disk
      BY <1>1, <1>3, <2>1 DEF Reread, Record
    <2>3. StepForPhase(disk.phase) \in Steps
      BY <1>3, <2>1, StepFacts DEF StepPcs, StepOf
    <2>4. at \in {"readtree", "effect", "lookup"}
      BY <1>3, <2>2, <2>3 DEF EffectPc, Steps
    <2> QED
      BY <2>1, <2>2, <2>4 DEF Held, LoneAt, Working, Pcs, ReceiptPcs, StepPcs, EffectPcs
  <1>4. CASE /\ pc[d] = "dispatch" /\ Unsettled(EntryOf(d).receipt)
             /\ r = Reopened(rec[d], StepOf(d))
             /\ \/ StepOf(d) = "BASE_REFRESH" /\ at = "observe"
                \/ StepOf(d) = "BASE_REFRESH" /\ at = "effect" /\ Absent(d)
                \/ StepOf(d) = "PR_CREATE" /\ at = "adopt"
    <2>1. /\ rec[d] = disk /\ disk.phase \notin Terminal
          /\ StepOf(d) = StepForPhase(disk.phase) /\ EntryOf(d) = Current(disk)
      BY <1>4, LoneFacts DEF Working, Pcs, TakenOver, Current
    <2>2. Held(at, r)
      BY <1>4, <2>1 DEF Held, TakenOver
    <2>3. at = "effect" => landed[StepForPhase(disk.phase)] = 0
      BY <1>4, <2>1, AbsentMeans
    <2> QED
      BY <1>4, <2>1, <2>2, <2>3 DEF LoneAt, Working, Pcs, ReceiptPcs, StepPcs, EffectPcs
  <1>5. CASE /\ r = rec[d]
             /\ <<pc[d], at>> \in {<<"readtree", "effect">>, <<"effect", "observe">>,
                                   <<"lookup", "adopt">>, <<"lookup", "create">>,
                                   <<"relook", "adopt">>, <<"create", "relook">>}
    <2>1. pc[d] \in Working
      BY <1>5 DEF Working, Pcs
    <2>2. LoneAt(pc[d], disk, landed) /\ Held(pc[d], rec[d])
      BY <2>1 DEF LoneInv, LoneDriver
    <2>3. Held(at, r)
      BY <1>5, <2>2 DEF Held, TakenOver
    <2>4. LoneAt(at, disk, landed)
      BY <1>5, <2>2 DEF LoneAt, ReceiptPcs, StepPcs, EffectPcs
    <2> QED
      BY <1>5, <2>3, <2>4 DEF Working, Pcs
  <1> QED
    BY <1>2, <1>3, <1>4, <1>5 DEF GoEdge

\* Points that ask nothing of a copy that is due.
LEMMA DueAtRest ==
    ASSUME disk.phase \notin Terminal, NEW r, NEW n, Tells(r, n), Forward(disk, r, n),
           NEW at, at = "idle" \/ (at \in {"expire", "dispatch"} /\ r.phase \notin Terminal)
    PROVE  Due(r, at, n)
  BY DEF Due, LoneAt, TakenOver, ReceiptPcs, StepPcs, EffectPcs

\* The edges on which a step is given up, or settled.
LEMMA LoneStops ==
    ASSUME IInv, CopyInv, LoneInv, NEW d \in Drivers, NEW r,
           \/ Loaded(d) /\ r = BlockedRecord(disk)
           \/ pc[d] \in Working /\ (r = BlockedRecord(rec[d]) \/ r = Retried(rec[d]))
    PROVE  Due(r, "idle", landed)
  <1>1. /\ Tells(disk, landed) /\ disk \in Record /\ landed \in [Steps -> Nat]
        /\ Mode = "pr_update" => disk.phase \notin {"BASE_CURRENT", "PR_OPENED"}
    BY DEF LoneInv, IInv, TypeOK, CopyInv, CopiesValid, ValidAt
  <1>2. CASE Loaded(d) /\ r = BlockedRecord(disk)
    <2>1. Near(disk, disk) /\ disk.phase \notin Terminal
      BY <1>1, <1>2, NearHeld DEF Loaded
    <2> QED
      BY <1>1, <1>2, <2>1, LoneBlocked, DueAtRest
  <1>3. CASE pc[d] \in Working /\ (r = BlockedRecord(rec[d]) \/ r = Retried(rec[d]))
    <2>1. Near(rec[d], disk) /\ disk.phase \notin Terminal
      BY <1>3, LoneFacts
    <2> QED
      BY <1>1, <1>3, <2>1, LoneBlocked, LoneRetried, DueAtRest
  <1> QED
    BY <1>2, <1>3

LEMMA LoneStarts ==
    ASSUME IInv, CopyInv, LoneInv, NEW d \in Drivers, pc[d] \in {"dispatch", "tail"},
           pc[d] = "dispatch" => ~Unsettled(EntryOf(d).receipt), StepOf(d) \in Steps,
           NEW from \in Oid, NEW to \in Oid, Derived(rec[d], StepOf(d), from, to)
    PROVE  Due(Started(rec[d], StepOf(d), from, to), "refresh", landed)
  <1> DEFINE step == StepOf(d)
             x == [state |-> "executing", from |-> from, to |-> to]
             e == [state |-> "executing", receipt |-> x, voided |-> disk.steps[step].voided]
             p == SetEntry(disk, step, e, disk.phase)
  <1>1. /\ Near(disk, disk) /\ Tells(disk, landed) /\ LoneAt(pc[d], disk, landed)
        /\ disk.phase \notin Terminal /\ disk \in Record /\ disk.phase \in Phases
        /\ step = StepForPhase(disk.phase) /\ EntryOf(d) = Current(disk)
        /\ rec[d] = disk /\ landed \in [Steps -> Nat]
    BY LoneFacts, RecordFacts, NearHeld DEF Working, Pcs, TakenOver, Current
  <1>2. ~Unsettled(disk.steps[step].receipt)
    BY <1>1 DEF LoneAt, Current
  <1>3. landed[step] = 0
    BY <1>1, <1>2, StepAhead DEF Tells, Told, Terminal
  <1>4. x \in Receipt /\ disk.steps[step] \in Entry
    BY <1>1, EntryTyped DEF Receipt, ReceiptStates
  <1>5. e \in Entry
    BY <1>4 DEF Entry, StepStates
  <1>6. step = "BASE_REFRESH" => from = Base(0)
    BY <1>1, StepAhead DEF Derived, Tells
  <1>7. Started(rec[d], step, from, to) = p
    BY <1>1 DEF Started
  <1>8. /\ e.state # "succeeded" /\ e.voided = disk.steps[step].voided
        /\ e.receipt.from = from /\ e.receipt.state = "executing"
    OBVIOUS
  <1> HIDE DEF e, x
  <1>9. /\ Tells(p, landed) /\ Forward(disk, p, landed) /\ p.phase = disk.phase
        /\ Current(p) = e
    BY <1>1, <1>3, <1>5, <1>6, <1>8, StepStays
  <1> HIDE DEF p
  <1>10. LoneAt("refresh", p, landed)
    BY <1>1, <1>3, <1>8, <1>9 DEF LoneAt, Unsettled
  <1> QED
    BY <1>1, <1>7, <1>9, <1>10 DEF Due, TakenOver

\* The receipt is dropped, its effect being absent.
LEMMA LoneVoids ==
    ASSUME IInv, CopyInv, LoneInv, NEW d \in Drivers, pc[d] \in {"dispatch", "refresh"},
           landed[StepOf(d)] = 0, NEW at \in {"idle", "dispatch", "expire"}
    PROVE  Due(Voided(disk, StepOf(d)), at, landed)
  <1> DEFINE step == StepOf(d)
             e == [state |-> "pending", receipt |-> NoReceipt,
                   voided |-> Attempts(disk.steps[step])]
             p == SetEntry(disk, step, e, disk.phase)
  <1>1. /\ Near(disk, disk) /\ Tells(disk, landed) /\ disk.phase \notin Terminal
        /\ disk \in Record /\ step = StepForPhase(disk.phase) /\ step \in Steps
        /\ landed \in [Steps -> Nat] /\ GoodRecord(disk, base, Seen)
    BY LoneFacts, RecordFacts, NearHeld, StepFacts DEF Working, Pcs, TakenOver, StepPcs
  <1>2. disk.steps[step] \in Entry /\ GoodEntry(step, disk.steps[step], base, Seen)
    BY <1>1, EntryTyped DEF GoodRecord
  <1>3. Attempts(disk.steps[step]) \in 0 .. MaxAttempts
    BY <1>1, <1>2, EntryTyped, AttemptsAssumption DEF Attempts, GoodEntry
  <1>4. e \in Entry /\ e.state # "succeeded" /\ e.receipt.state = "none"
    BY <1>3, NoReceiptTyped DEF Entry, StepStates
  <1>5. Voided(disk, step) = p
    BY DEF Voided
  <1> HIDE DEF e
  <1>6. /\ Tells(p, landed) /\ Forward(disk, p, landed) /\ p.phase = disk.phase
    BY <1>1, <1>4, StepStays
  <1> HIDE DEF p
  <1> QED
    BY <1>1, <1>5, <1>6, DueAtRest
\* The step under way succeeds, its effect being present.
LEMMA LoneSucceeds ==
    ASSUME NEW n \in [Steps -> Nat], NEW q, Near(q, disk), Tells(disk, n),
           NEW step \in Steps, step = StepForPhase(disk.phase),
           step # "BASE_REFRESH" => n[step] = 1
    PROVE  /\ Tells(Succeeded(q, step), n) /\ Forward(disk, Succeeded(q, step), n)
           /\ Succeeded(q, step).phase = PhaseAfter(step)
           /\ Succeeded(q, step).phase \notin Terminal \cup {"AUTHORIZED"}
           /\ Succeeded(q, step) \in Record /\ disk.phase \notin Terminal
  <1> DEFINE y == q.steps[step]
             e == Settled(y, "succeeded")
  <1>1. q \in Record /\ disk.phase \in Phases
    BY DEF Near, Record
  <1>2. y \in Entry
    BY <1>1, EntryTyped
  <1>3. e \in Entry /\ e.state = "succeeded" /\ e.voided = y.voided
    BY <1>2, SettledEntry DEF ReceiptStates, StepStates
  <1>4. Succeeded(q, step) = SetEntry(q, step, e, PhaseAfter(step))
    BY DEF Succeeded
  <1> HIDE DEF e
  <1>5. disk.phase \notin Terminal /\ PhaseAfter(step) \notin Terminal \cup {"AUTHORIZED"}
    BY <1>1, StepAhead
  <1> QED
    BY <1>3, <1>4, <1>5, StepSettles

\* A due copy does not depend on the base once the delivery has begun.
LEMMA DueRebased ==
    ASSUME NEW r \in Record, NEW n, NEW b, r.phase # "AUTHORIZED",
           Tells(r, n), Forward(disk, r, n)
    PROVE  /\ Tells([r EXCEPT !.base = b], n) /\ Forward(disk, [r EXCEPT !.base = b], n)
           /\ [r EXCEPT !.base = b].phase = r.phase /\ [r EXCEPT !.base = b].steps = r.steps
  <1> DEFINE p == [r EXCEPT !.base = b]
  <1>1. p.phase = r.phase /\ p.steps = r.steps /\ p.revoked = r.revoked
    BY DEF Record
  <1> HIDE DEF p
  <1>2. Tells(p, n) /\ Forward(disk, p, n)
    BY <1>1 DEF Tells, Told, Forward
  <1> QED
    BY <1>1, <1>2 DEF p

LEMMA ForwardSelf ==
    ASSUME NEW r \in Record, NEW n
    PROVE  Forward(r, r, n) \/ r.phase \in {"BLOCKED", "REVOKED"}
  <1>1. \A s \in Steps : r.steps[s].voided \in Nat
    BY EntryTyped
  <1>2. \A s \in Steps : ~(r.steps[s].voided > r.steps[s].voided)
    BY <1>1
  <1> QED
    BY <1>2 DEF Forward

LEMMA LoneNotNeeded ==
    ASSUME IInv, CopyInv, LoneInv, NEW d \in Drivers, pc[d] = "dispatch",
           StepOf(d) = "BASE_REFRESH"
    PROVE  Due(NotNeeded(disk), "idle", landed)
  <1> DEFINE y == disk.steps["BASE_REFRESH"]
             e == [y EXCEPT !.state = "not_needed"]
  <1>1. /\ Near(disk, disk) /\ Tells(disk, landed) /\ disk.phase \notin Terminal
        /\ disk \in Record /\ StepForPhase(disk.phase) = "BASE_REFRESH"
        /\ landed \in [Steps -> Nat] /\ "BASE_REFRESH" \in Steps
    BY LoneFacts, NearHeld DEF Working, Pcs, TakenOver, Steps
  <1>2. y \in Entry
    BY <1>1, EntryTyped
  <1>3. e \in Entry /\ e.voided = y.voided
    BY <1>2 DEF Entry, StepStates
  <1>4. NotNeeded(disk) = SetEntry(disk, "BASE_REFRESH", e, PhaseAfter("BASE_REFRESH"))
    BY DEF NotNeeded, PhaseAfter
  <1> HIDE DEF e
  <1>5. Tells(NotNeeded(disk), landed) /\ Forward(disk, NotNeeded(disk), landed)
    BY <1>1, <1>3, <1>4, StepSettles
  <1> QED
    BY <1>1, <1>5, DueAtRest

\* The base moves on under a commit or a push that is recorded.
LEMMA LoneRebases ==
    ASSUME IInv, CopyInv, LoneInv, NEW d \in Drivers, pc[d] = "dispatch",
           StepOf(d) \in {"PUSH", "PR_CREATE"}, ~Unsettled(EntryOf(d).receipt)
    PROVE  Due([disk EXCEPT !.base = base], "tail", landed)
  <1> DEFINE p == [disk EXCEPT !.base = base]
  <1>1. /\ Tells(disk, landed) /\ disk.phase \notin Terminal /\ disk \in Record
        /\ StepOf(d) = StepForPhase(disk.phase) /\ EntryOf(d) = Current(disk)
        /\ disk.phase \in Phases
    BY LoneFacts, RecordFacts DEF Working, Pcs, TakenOver, Current
  <1>2. disk.phase # "AUTHORIZED"
    BY <1>1, ModeAssumption DEF StepForPhase
  <1>3. Forward(disk, disk, landed)
    BY <1>1, ForwardSelf DEF Terminal
  <1>4. Tells(p, landed) /\ Forward(disk, p, landed) /\ p.phase = disk.phase
        /\ p.steps = disk.steps
    BY <1>1, <1>2, <1>3, DueRebased
  <1> HIDE DEF p
  <1>5. LoneAt("tail", p, landed)
    BY <1>1, <1>4 DEF LoneAt, Current, ReceiptPcs, EffectPcs
  <1> QED
    BY <1>1, <1>4, <1>5 DEF Due, TakenOver, p

\* Everything is on record: the delivery completes.
LEMMA LoneCompletes ==
    ASSUME IInv, CopyInv, LoneInv, NEW d \in Drivers,
           pc[d] = "complete" \/ (pc[d] = "view" /\ Mode = "pr_update")
    PROVE  Due([disk EXCEPT !.phase = "COMPLETE"], "idle", landed)
  <1> DEFINE p == [disk EXCEPT !.phase = "COMPLETE"]
  <1>1. /\ Tells(disk, landed) /\ LoneAt(pc[d], disk, landed)
        /\ disk.phase \notin Terminal /\ disk \in Record /\ disk.phase \in Phases
        /\ ValidAt("idle", disk)
    BY LoneFacts, RecordFacts, CopyFacts DEF Working, Pcs
  <1>2. \/ Mode = "pull_request" /\ disk.phase = "PR_OPENED"
        \/ Mode = "pr_update" /\ disk.phase = "PUSHED"
    <2>1. CASE pc[d] = "complete"
      BY <1>1, <2>1, ModeAssumption DEF LoneAt, ValidAt
    <2>2. CASE pc[d] = "view" /\ Mode = "pr_update"
      BY <1>1, <2>2 DEF LoneAt, ValidAt, StepForPhase, Phases, Terminal
    <2> QED
      BY <2>1, <2>2
  <1>3. /\ p.phase = "COMPLETE" /\ p.revoked = disk.revoked /\ p.steps = disk.steps
    BY <1>1 DEF Record
  <1> HIDE DEF p
  <1>4. Passed("COMPLETE") = Passed(disk.phase)
    BY <1>2 DEF Passed, ExcludedSteps, Steps
  <1>5. StepForPhase(disk.phase) = "none" /\ StepForPhase("COMPLETE") = "none"
    BY <1>2, ModeAssumption DEF StepForPhase
  <1>6. Tells(p, landed)
    BY <1>1, <1>2, <1>3, <1>4, <1>5 DEF Tells, Told, Terminal
  <1>7. <<disk.phase, "COMPLETE">> \in AllowedTransitions
    BY <1>2 DEF AllowedTransitions
  <1>8. Forward(disk, disk, landed)
    BY <1>1, ForwardSelf DEF Terminal
  <1>9. Forward(disk, p, landed)
    BY <1>3, <1>7, <1>8 DEF Forward
  <1> QED
    BY <1>1, <1>6, <1>9, DueAtRest DEF p

\* Every save that an edge makes due moves the stored record forward.
LEMMA LoneSave ==
    ASSUME IInv, CopyInv, LoneInv, NEW d \in Drivers, NEW r, NEW at, SaveEdge(d, r, at)
    PROVE  Due(r, at, landed)
  <1> DEFINE step == StepOf(d)
             q == rec[d]
  <1>1. ~disk.revoked /\ disk \in Record /\ landed \in [Steps -> Nat]
    BY DEF LoneInv, Tells, IInv, TypeOK
  <1>2. ASSUME pc[d] \in Working
        PROVE  /\ Near(q, disk) /\ Tells(disk, landed) /\ disk.phase \notin Terminal
               /\ step = StepForPhase(disk.phase) /\ LoneAt(pc[d], disk, landed)
               /\ EntryOf(d) = q.steps[step]
               /\ pc[d] \notin TakenOver => q = disk
    BY <1>2, LoneFacts
  <1>3. ASSUME pc[d] \in StepPcs
        PROVE  pc[d] \in Working /\ step \in Steps
    BY <1>3, StepFacts DEF StepPcs, Working, Pcs
  <1>4. CASE /\ at = "idle"
             /\ \/ Loaded(d) /\ r = BlockedRecord(disk)
                \/ pc[d] \in Working /\ r = BlockedRecord(q)
                \/ pc[d] \in StepPcs \cup {"view"} /\ r = Retried(q)
    <2>1. pc[d] \in StepPcs \cup {"view"} => pc[d] \in Working
      BY <1>3 DEF Working, Pcs
    <2> QED
      BY <1>4, <2>1, LoneStops
  <1>5. CASE Loaded(d) /\ disk.revoked
    BY <1>1, <1>5
  <1>6. CASE pc[d] = "revoke"
    BY <1>2, <1>6 DEF Working, Pcs, LoneAt
  <1>7. CASE /\ pc[d] \in {"dispatch", "tail"}
             /\ pc[d] = "dispatch" => ~Unsettled(EntryOf(d).receipt)
             /\ step \in Steps /\ at = "refresh"
             /\ \E from, to \in Oid : r = Started(q, step, from, to) /\ Derived(q, step, from, to)
    BY <1>7, LoneStarts
  <1>8. CASE pc[d] = "refresh"
    <2>1. pc[d] \in Working /\ pc[d] \notin TakenOver /\ step \in Steps
          /\ landed[step] = 0 /\ q = disk
      BY <1>2, <1>3, <1>8 DEF StepPcs, TakenOver, LoneAt
    <2>2. Reread(d) = disk
      BY <1>1, <2>1 DEF Reread, Record
    <2>3. CASE /\ r = Voided(Reread(d), step)
               /\ at = IF disk.revoked THEN "revoke" ELSE "expire"
      BY <1>1, <1>8, <2>1, <2>2, <2>3, LoneVoids
    <2>4. CASE step = "PUSH" /\ EntryOf(d).receipt.from = EntryOf(d).receipt.to
      <3>1. EntryOf(d).receipt.state # "none" /\ GoodReceipt("PUSH", EntryOf(d).receipt, base, Seen)
        BY <1>8, <2>4, StepFacts DEF StepPcs, ReceiptPcs
      <3>2. Seen["PUSH"] >= 1
        BY <2>4, <3>1 DEF GoodReceipt
      <3>3. Seen["PUSH"] = landed["PUSH"]
        BY DEF Seen, Steps
      <3> QED
        BY <2>1, <2>4, <3>2, <3>3
    <2>5. CASE r = BlockedRecord(q) \/ r = Retried(q)
      <3>1. Due(r, "idle", landed)
        BY <2>1, <2>5, LoneStops
      <3> QED
        BY <1>4, <1>8, <2>1, <2>3, <2>4, <3>1 DEF SaveEdge, Loaded
    <2> QED
      BY <1>8, <2>3, <2>4, <2>5 DEF SaveEdge, Loaded
  <1>9. CASE /\ pc[d] = "dispatch" /\ Unsettled(EntryOf(d).receipt) /\ Absent(d)
             /\ r = Voided(q, step) /\ at \in {"idle", "dispatch"}
    <2>1. landed[step] = 0 /\ q = disk
      BY <1>2, <1>9, AbsentMeans DEF Working, Pcs, TakenOver
    <2> QED
      BY <1>9, <2>1, LoneVoids
  <1>10. CASE /\ pc[d] = "dispatch" /\ step \in {"COMMIT", "PUSH"}
              /\ Unsettled(EntryOf(d).receipt) /\ Present(d)
              /\ r = Succeeded(Reopened(q, step), step) /\ at = "idle"
    <2>1. /\ q = disk /\ step \in Steps /\ step = StepForPhase(disk.phase)
          /\ EntryOf(d) = disk.steps[step] /\ Tells(disk, landed)
      BY <1>2, <1>3, <1>10 DEF StepPcs, TakenOver
    <2>2. Near(Reopened(disk, step), disk)
      BY <1>1, <1>10, <2>1, NearReopened
    <2>3. landed[step] = 1
      BY <1>10, PresentMeans DEF Unsettled
    <2> QED
      BY <1>1, <1>10, <2>1, <2>2, <2>3, LoneSucceeds, DueAtRest
  <1>11. CASE /\ pc[d] = "observe" /\ step \in {"COMMIT", "PUSH"} /\ Present(d)
              /\ r = Succeeded(q, step) /\ at = "idle"
    <2>1. /\ Near(q, disk) /\ step \in Steps /\ step = StepForPhase(disk.phase)
          /\ Tells(disk, landed) /\ EntryOf(d).receipt.state # "none"
      BY <1>2, <1>3, <1>11, StepFacts DEF StepPcs, ReceiptPcs
    <2>2. landed[step] = 1
      BY <1>11, <2>1, PresentMeans
    <2> QED
      BY <1>1, <1>11, <2>1, <2>2, LoneSucceeds, DueAtRest
  <1>12. CASE /\ pc[d] = "observe" /\ step = "BASE_REFRESH" /\ at = "idle"
              /\ r = [Succeeded(q, step) EXCEPT !.base = EntryOf(d).receipt.to.tree]
    <2>1. /\ Near(q, disk) /\ step \in Steps /\ step = StepForPhase(disk.phase)
          /\ Tells(disk, landed)
      BY <1>2, <1>3, <1>12 DEF StepPcs
    <2>2. /\ Tells(Succeeded(q, step), landed) /\ Forward(disk, Succeeded(q, step), landed)
          /\ Succeeded(q, step).phase \notin Terminal \cup {"AUTHORIZED"}
          /\ Succeeded(q, step) \in Record /\ disk.phase \notin Terminal
      BY <1>1, <1>12, <2>1, LoneSucceeds
    <2>3. Tells(r, landed) /\ Forward(disk, r, landed)
      BY <1>12, <2>2, DueRebased
    <2> QED
      BY <1>12, <2>2, <2>3, DueAtRest
  <1>13. CASE pc[d] = "adopt" /\ Present(d) /\ r = Succeeded(q, "PR_CREATE") /\ at = "complete"
    <2>1. /\ Near(q, disk) /\ step \in Steps /\ step = StepForPhase(disk.phase)
          /\ Tells(disk, landed) /\ EntryOf(d).receipt.state # "none" /\ step = "PR_CREATE"
      BY <1>2, <1>3, <1>13, StepFacts DEF StepPcs, ReceiptPcs, PrPcs
    <2>2. landed[step] = 1
      BY <1>13, <2>1, PresentMeans
    <2>3. /\ Tells(r, landed) /\ Forward(disk, r, landed) /\ r.phase = "PR_OPENED"
          /\ disk.phase \notin Terminal
      BY <1>1, <1>13, <2>1, <2>2, LoneSucceeds DEF PhaseAfter
    <2> QED
      BY <1>13, <2>3 DEF Due, LoneAt, TakenOver, ReceiptPcs, StepPcs, EffectPcs, Terminal
  <1>14. CASE /\ pc[d] = "dispatch" /\ step = "BASE_REFRESH"
              /\ r = NotNeeded(q) /\ at = "idle"
    BY <1>2, <1>14, LoneNotNeeded DEF Working, Pcs, TakenOver
  <1>15. CASE /\ pc[d] = "dispatch" /\ step \in {"PUSH", "PR_CREATE"}
              /\ ~Unsettled(EntryOf(d).receipt)
              /\ r = [q EXCEPT !.base = base] /\ at = "tail"
    BY <1>2, <1>15, LoneRebases DEF Working, Pcs, TakenOver
  <1>16. CASE /\ pc[d] = "complete" \/ (pc[d] = "view" /\ Mode = "pr_update")
              /\ r = [q EXCEPT !.phase = "COMPLETE"] /\ at = "idle"
    BY <1>2, <1>16, LoneCompletes DEF Working, Pcs, TakenOver
  <1> QED
    BY <1>4, <1>5, <1>6, <1>7, <1>8, <1>9, <1>10, <1>11, <1>12, <1>13, <1>14, <1>15, <1>16
       DEF SaveEdge
-----------------------------------------------------------------------------
(* The invariant of the lone driver holds *)

LEMMA LoneEdge ==
    ASSUME IInv, NEW d \in Drivers, disk' = disk, NEW r, NEW at,
           \/ GoWith(d, r, at) /\ at \in Working /\ LoneAt(at, disk, landed') /\ Held(at, r)
           \/ SaveThen(d, r, at) /\ Due(r, at, landed')
           \/ Drop(d)
    PROVE  LoneDriver(d)'
  <1>1. ControlTyped
    BY RecordFacts
  <1>2. CASE GoWith(d, r, at) /\ at \in Working /\ LoneAt(at, disk, landed') /\ Held(at, r)
    <2>1. pc'[d] = at /\ rec'[d] = r /\ at # "save"
      BY <1>1, <1>2 DEF GoWith, ControlTyped, Working
    <2> QED
      BY <1>2, <2>1 DEF LoneDriver, Held
  <1>3. CASE SaveThen(d, r, at) /\ Due(r, at, landed')
    <2>1. pc'[d] = "save" /\ rec'[d] = r /\ cont'[d] = at
      BY <1>1, <1>3 DEF SaveThen, ControlTyped
    <2> QED
      BY <1>3, <2>1 DEF LoneDriver, Due, Working
  <1>4. CASE Drop(d)
    <2>1. pc'[d] = "idle"
      BY <1>1, <1>4 DEF Drop, ControlTyped
    <2> QED
      BY <2>1 DEF LoneDriver, Working
  <1> QED
    BY <1>2, <1>3, <1>4

LEMMA LoneParts ==
    ASSUME Alone, NEW d \in Drivers, Tells(disk, landed)', LoneWorld', LoneDriver(d)'
    PROVE  LoneInv'
  BY DEF LoneInv, Alone

\* A driver's step leaves what the ledger counts, or its effect lands.
LEMMA DriverWorld ==
    ASSUME NEW d \in Drivers, Drive(d) \/ ReadFault(d) \/ Crash(d)
    PROVE  \/ UNCHANGED <<landed, head, openPr, closedPrs>>
           \/ /\ pc[d] = "effect" /\ EffectLands(d) /\ disk' = disk
              /\ Go(d, "observe") \/ Retry(d, rec[d])
           \/ /\ pc[d] = "create" /\ PrLands /\ disk' = disk
              /\ Go(d, "relook") \/ Retry(d, rec[d])
  <1>1. CASE \/ Load(d) \/ Refresh(d) \/ Refused(d) \/ StepBaseRefresh(d) \/ Observe(d)
             \/ StepCommit(d) \/ StepPush(d) \/ Tail(d) \/ StepPrCreate(d) \/ LookUp(d)
             \/ AdoptPr(d) \/ Complete(d) \/ ViewPr(d) \/ ReadFault(d) \/ Crash(d)
             \/ Save(d) \/ Withdraw(d)
    BY <1>1 DEF Load, Refresh, Refused, StepBaseRefresh, Observe, StepCommit, StepPush,
       Tail, StepPrCreate, LookUp, AdoptPr, Complete, ViewPr, ReadFault, Crash, Save,
       Withdraw, world
  <1>2. CASE ReadTree(d)
    BY <1>2 DEF ReadTree
  <1>3. CASE Effect(d)
    BY <1>3 DEF Effect, world
  <1>4. CASE CreatePr(d)
    BY <1>4 DEF CreatePr, world
  <1> QED
    BY <1>1, <1>2, <1>3, <1>4 DEF Drive

\* An effect that lands is told by the receipt of its step.
LEMMA LoneLands ==
    ASSUME IInv, CopyInv, LoneInv, NEW d \in Drivers, disk' = disk,
           \/ pc[d] = "effect" /\ EffectLands(d)
           \/ pc[d] = "create" /\ PrLands
    PROVE  /\ Tells(disk, landed') /\ LoneWorld' /\ landed' \in [Steps -> Nat]
           /\ landed[StepOf(d)] = 0 /\ StepOf(d) \in Steps
           /\ landed' = [landed EXCEPT ![StepOf(d)] = 1]
  <1> DEFINE step == StepOf(d)
             x == EntryOf(d).receipt
  <1>1. /\ Tells(disk, landed) /\ LoneAt(pc[d], disk, landed) /\ disk.phase \notin Terminal
        /\ step = StepForPhase(disk.phase) /\ landed \in [Steps -> Nat]
        /\ disk.phase \in Phases
    BY LoneFacts, RecordFacts DEF Working, Pcs
  <1>2. step \in Steps /\ GoodReceipt(step, x, base, Seen)
        /\ (pc[d] = "create" => step = "PR_CREATE")
    BY StepFacts DEF StepPcs, ReceiptPcs, PrPcs
  <1>3. landed[step] = 0 /\ Unsettled(Current(disk).receipt)
    BY <1>1 DEF LoneAt, EffectPcs, ReceiptPcs, StepPcs
  <1>4. landed' = [landed EXCEPT ![step] = @ + 1]
    BY <1>2 DEF EffectLands, PrLands, Landed
  <1>5. landed'[step] = 1 /\ \A s \in Steps : s # step => landed'[s] = landed[s]
    BY <1>1, <1>2, <1>3, <1>4
  <1>6. landed' = [landed EXCEPT ![step] = 1] /\ landed' \in [Steps -> Nat]
    BY <1>1, <1>2, <1>3, <1>4
  <1>7. step \notin Passed(disk.phase) /\ \A s \in Steps : Told(disk, s, landed)
    BY <1>1, <1>2, StepAhead DEF Tells, Terminal
  <1>8. \A s \in Steps : Told(disk, s, landed')
    <2> SUFFICES ASSUME NEW s \in Steps PROVE Told(disk, s, landed')
      OBVIOUS
    <2>1. CASE s = step
      BY <1>1, <1>3, <1>5, <1>7, <2>1 DEF Told, Current
    <2>2. CASE s # step
      BY <1>5, <1>7, <2>2 DEF Told
    <2> QED
      BY <2>1, <2>2
  <1>9. Tells(disk, landed')
    BY <1>1, <1>8 DEF Tells
  <1>10. LoneWorld /\ WorldGood /\ "PUSH" \in Steps /\ "BASE_REFRESH" \in Steps
         /\ "PR_CREATE" \in Steps
    BY DEF LoneInv, IInv, Steps
  <1>11. LoneWorld'
    <2>1. CASE step = "BASE_REFRESH" /\ EffectLands(d)
      <3>1. head' = x.to /\ UNCHANGED <<openPr, closedPrs>>
        BY <2>1 DEF EffectLands
      <3>2. x.to.parent \in 1 .. base /\ x.to = Base(x.to.parent)
        BY <1>2, <2>1 DEF GoodReceipt
      <3>3. base \in Nat
        BY RecordFacts
      <3>4. head' # Base(0)
        BY <3>1, <3>2, <3>3 DEF Base
      <3> QED
        BY <1>5, <1>10, <2>1, <3>1, <3>4 DEF LoneWorld
    <2>2. CASE step = "COMMIT" /\ EffectLands(d)
      <3>1. head' = Commit(head.parent, index) /\ UNCHANGED <<openPr, closedPrs>>
        BY <2>2 DEF EffectLands
      <3>2. head' # Base(0)
        BY <3>1 DEF Commit, Base
      <3> QED
        BY <1>5, <1>10, <2>2, <3>1, <3>2 DEF LoneWorld
    <2>3. CASE step = "PUSH" /\ EffectLands(d)
      <3>1. UNCHANGED <<head, openPr, closedPrs>>
        BY <2>3 DEF EffectLands
      <3> QED
        BY <1>5, <1>10, <2>3, <3>1 DEF LoneWorld
    <2>4. CASE step = "PR_CREATE" /\ PrLands
      <3>1. Mode = "pull_request" /\ disk.phase = "PUSHED"
        BY <1>1, <2>4, ModeAssumption DEF StepForPhase
      <3>2. landed["PUSH"] = 1
        BY <1>7, <1>10, <3>1 DEF Told, Passed, ExcludedSteps
      <3>3. remote # NoOid
        BY <1>10, <3>2 DEF WorldGood, NoOid
      <3>4. openPr' = remote /\ UNCHANGED <<head, closedPrs>>
        BY <2>4 DEF PrLands
      <3> QED
        BY <1>5, <1>10, <2>4, <3>3, <3>4 DEF LoneWorld
    <2> QED
      BY <1>2, <2>1, <2>2, <2>3, <2>4 DEF EffectLands
  <1> QED
    BY <1>2, <1>3, <1>6, <1>9, <1>11

LEMMA LoneEffects ==
    ASSUME Alone, IInv, CopyInv, LoneInv, NEW d \in Drivers, disk' = disk,
           \/ /\ pc[d] = "effect" /\ EffectLands(d)
              /\ Go(d, "observe") \/ Retry(d, rec[d])
           \/ /\ pc[d] = "create" /\ PrLands
              /\ Go(d, "relook") \/ Retry(d, rec[d])
    PROVE  LoneInv'
  <1>1. Tells(disk, landed') /\ LoneWorld' /\ landed' \in [Steps -> Nat]
    BY LoneLands
  <1>2. /\ Near(rec[d], disk) /\ LoneAt(pc[d], disk, landed) /\ Held(pc[d], rec[d])
        /\ disk.phase \notin Terminal
    BY LoneFacts DEF LoneInv, LoneDriver, Working, Pcs
  <1>3. CASE Retry(d, rec[d])
    <2>1. Due(Retried(rec[d]), "idle", landed')
      BY <1>1, <1>2, LoneRetried, DueAtRest
    <2>2. LoneDriver(d)'
      BY <1>3, <2>1, LoneEdge DEF Retry
    <2> QED
      BY <1>1, <2>2, LoneParts
  <1>4. ASSUME NEW at, <<pc[d], at>> \in {<<"effect", "observe">>, <<"create", "relook">>},
               Go(d, at)
        PROVE  LoneInv'
    <2>1. LoneAt(at, disk, landed') /\ Held(at, rec[d]) /\ at \in Working
      BY <1>2, <1>4 DEF LoneAt, Held, TakenOver, ReceiptPcs, StepPcs, EffectPcs, Working, Pcs
    <2>2. LoneDriver(d)'
      BY <1>4, <2>1, LoneEdge DEF Go
    <2> QED
      BY <1>1, <2>2, LoneParts
  <1> QED
    BY <1>3, <1>4

LEMMA LoneSaved ==
    ASSUME Alone, IInv, LoneInv, NEW d \in Drivers, Save(d)
    PROVE  LoneInv'
  <1>1. /\ pc[d] = "save" /\ disk' = rec[d] /\ Due(rec[d], cont[d], landed)
        /\ UNCHANGED <<landed, head, openPr, closedPrs>> /\ ControlTyped
    BY RecordFacts DEF Save, LoneInv, LoneDriver, world
  <1>2. Tells(disk, landed)' /\ LoneWorld'
    BY <1>1 DEF Due, LoneInv, LoneWorld
  <1>3. LoneDriver(d)'
    <2>1. CASE Drop(d)
      <3>1. pc'[d] = "idle"
        BY <1>1, <2>1 DEF Drop, ControlTyped
      <3> QED
        BY <3>1 DEF LoneDriver, Working
    <2>2. CASE pc' = [pc EXCEPT ![d] = cont[d]] /\ UNCHANGED rec
      <3>1. pc'[d] = cont[d] /\ rec'[d] = rec[d]
        BY <1>1, <2>2 DEF ControlTyped
      <3> QED
        BY <1>1, <3>1 DEF LoneDriver, Due, Held
    <2> QED
      BY <2>1, <2>2 DEF Save
  <1> QED
    BY <1>2, <1>3, LoneParts

\* Nobody else revokes, and nobody else moves the pull request; the branches
\* may move.
LEMMA LoneOutside ==
    ASSUME Alone, IInv, LoneInv, Outside
    PROVE  LoneInv' /\ disk' = disk /\ landed' = landed
  <1>1. /\ UNCHANGED <<disk, landed, closedPrs, pc, rec, cont>>
        /\ head' \in {head, Foreign} /\ openPr' \in {openPr, remote}
        /\ openPr' # openPr => openPr # NoOid
    BY DEF Outside, Alone, Disturb, Revoke, Expire, MoveBase, MoveRef, MovePr,
       GithubCatchesUp, world, control, human
  <1>2. openPr # NoOid => remote # NoOid
    BY DEF IInv, WorldGood
  <1>3. LoneWorld'
    BY <1>1, <1>2 DEF LoneInv, LoneWorld, Foreign, Base
  <1> QED
    BY <1>1, <1>3 DEF LoneInv, LoneDriver, Due, Held

LEMMA InitAlone == Init => LoneInv
  <1> SUFFICES ASSUME Init PROVE LoneInv
    OBVIOUS
  <1>1. /\ \A s \in Steps : landed[s] = 0
        /\ "BASE_REFRESH" \in Steps /\ "PR_CREATE" \in Steps
    BY DEF Init, Steps
  <1>2. ASSUME NEW s \in Steps
        PROVE  Told(NewRecord, s, landed)
    BY <1>1, <1>2 DEF Told, Passed, NewRecord, NewEntry
  <1>3. Tells(NewRecord, landed)
    BY <1>1, <1>2 DEF Tells, NewRecord, NewEntry, NoReceipt
  <1>4. LoneWorld
    BY <1>1 DEF LoneWorld, Init
  <1> QED
    BY <1>3, <1>4 DEF LoneInv, LoneDriver, Working, Init

LEMMA LoneHolds ==
    ASSUME Alone
    PROVE  IInv /\ CopyInv /\ LoneInv /\ [Next]_vars => LoneInv'
  <1> SUFFICES ASSUME IInv, CopyInv, LoneInv, [Next]_vars PROVE LoneInv'
    OBVIOUS
  <1>1. ASSUME NEW d \in Drivers, Confirm(d) \/ Withdraw(d)
        PROVE  LoneInv'
    BY <1>1 DEF Confirm, Withdraw, LoneInv, LoneDriver, LoneWorld, Due, Held, world
  <1>2. ASSUME NEW d \in Drivers, Drive(d) \/ ReadFault(d) \/ Crash(d), ~Withdraw(d), ~Save(d)
        PROVE  LoneInv'
    <2>1. Edge(d) /\ disk' = disk
      BY <1>2, DriverEdges
    <2>2. CASE UNCHANGED <<landed, head, openPr, closedPrs>>
      <3>1. Tells(disk, landed)' /\ LoneWorld' /\ landed' = landed
        BY <2>1, <2>2 DEF LoneInv, LoneWorld
      <3>2. LoneDriver(d)'
        <4>1. CASE Drop(d)
          BY <2>1, <4>1, LoneEdge
        <4>2. ASSUME NEW r, NEW at, GoEdge(d, r, at), GoWith(d, r, at)
              PROVE  LoneDriver(d)'
          BY <2>1, <3>1, <4>2, LoneGo, LoneEdge
        <4>3. ASSUME NEW r, NEW at, SaveEdge(d, r, at), SaveThen(d, r, at)
              PROVE  LoneDriver(d)'
          BY <2>1, <3>1, <4>3, LoneSave, LoneEdge
        <4> QED
          BY <2>1, <4>1, <4>2, <4>3 DEF Edge
      <3> QED
        BY <3>1, <3>2, LoneParts
    <2> QED
      BY <1>2, <2>1, <2>2, DriverWorld, LoneEffects
  <1>3. ASSUME NEW d \in Drivers, Save(d)
        PROVE  LoneInv'
    BY <1>3, LoneSaved
  <1>4. CASE Outside
    BY <1>4, LoneOutside
  <1>5. CASE UNCHANGED vars
    BY <1>5 DEF vars, control, world, LoneInv, LoneDriver, LoneWorld, Due, Held
  <1> QED
    BY <1>1, <1>2, <1>3, <1>4, <1>5 DEF Next

THEOREM LoneInvariance ==
    ASSUME Alone
    PROVE  Spec => [](IInv /\ CopyInv /\ LoneInv)
  BY InitHolds, StepHolds, InitCopies, CopyHolds, InitAlone, LoneHolds, PTL DEF Spec
\* What a step does to the stored record: nothing, or a save moves it forward.
LEMMA DiskSteps ==
    ASSUME Alone, IInv, CopyInv, LoneInv, [Next]_vars
    PROVE  \/ disk' = disk
           \/ /\ disk.phase \notin Terminal /\ disk' \in Record /\ landed' = landed
              /\ Tells(disk', landed) /\ Forward(disk, disk', landed)
  <1>1. ASSUME NEW d \in Drivers, Save(d)
        PROVE  /\ disk.phase \notin Terminal /\ disk' \in Record /\ landed' = landed
               /\ Tells(disk', landed) /\ Forward(disk, disk', landed)
    BY <1>1, RecordFacts DEF Save, LoneInv, LoneDriver, Due, world
  <1>2. ASSUME NEW d \in Drivers, Drive(d) \/ ReadFault(d) \/ Crash(d), ~Save(d)
        PROVE  disk' = disk
    BY <1>2, DriverEdges DEF Withdraw
  <1>3. ASSUME NEW d \in Drivers, Confirm(d)
        PROVE  disk' = disk
    BY <1>3 DEF Confirm
  <1>4. CASE Outside
    BY <1>4, LoneOutside
  <1>5. CASE UNCHANGED vars
    BY <1>5 DEF vars
  <1> QED
    BY <1>1, <1>2, <1>3, <1>4, <1>5 DEF Next

\* However the one process crashes and its calls fail, a receipt is voided
\* only when its effect did not take place (_void and its callers).
THEOREM VoidsSafe ==
    ASSUME Alone
    PROVE  Spec => VoidsOnlyAbsent
  <1> DEFINE A == \A s \in Steps :
                    disk'.steps[s].voided > disk.steps[s].voided => landed[s] = 0
  <1>1. IInv /\ CopyInv /\ LoneInv /\ [Next]_vars => [A]_vars
    <2> SUFFICES ASSUME IInv, CopyInv, LoneInv, [Next]_vars PROVE A
      OBVIOUS
    <2>1. \A s \in Steps : disk.steps[s].voided \in Nat
      BY EntryTyped DEF IInv, TypeOK
    <2>2. CASE disk' = disk
      BY <2>1, <2>2
    <2>3. CASE Forward(disk, disk', landed)
      BY <2>3 DEF Forward
    <2> QED
      BY <2>2, <2>3, DiskSteps
  <1> QED
    BY <1>1, LoneInvariance, PTL DEF Spec, VoidsOnlyAbsent

\* What the record shows as succeeded stays as it is, and the stored phase
\* moves along the kind's transition table only (_succeed, _block, _persist).
THEOREM ProvenSafe ==
    ASSUME Alone
    PROVE  Spec => ProvenStays
  <1> DEFINE A == /\ \A s \in Steps :
                       disk.steps[s].state = "succeeded" => disk'.steps[s] = disk.steps[s]
                  /\ disk'.phase # disk.phase =>
                       <<disk.phase, disk'.phase>> \in AllowedTransitions
  <1>1. IInv /\ CopyInv /\ LoneInv /\ [Next]_vars => [A]_vars
    <2> SUFFICES ASSUME IInv, CopyInv, LoneInv, [Next]_vars PROVE A
      OBVIOUS
    <2>1. CASE disk' = disk
      BY <2>1
    <2>2. CASE Forward(disk, disk', landed)
      BY <2>2 DEF Forward
    <2> QED
      BY <2>1, <2>2, DiskSteps
  <1> QED
    BY <1>1, LoneInvariance, PTL DEF Spec, ProvenStays

-----------------------------------------------------------------------------
(* The delivery implements the ledger *)

Effects == {"COMMIT", "PUSH", "PR_CREATE"}

\* What the record shows of the effects, for the phase it is in.
Shown(phase, s) ==
    CASE s = "COMMIT" -> phase \in Committed \cup {"COMPLETE"}
      [] s = "PUSH" -> phase \in {"PUSHED", "PR_OPENED", "COMPLETE"}
      [] s = "PR_CREATE" -> Mode = "pull_request" /\ phase \in {"PR_OPENED", "COMPLETE"}

LEMMA ToldShown ==
    ASSUME NEW n \in [Steps -> Nat], NEW r \in Record, Tells(r, n),
           r.phase \notin {"BLOCKED", "REVOKED"}, NEW s \in Effects
    PROVE  /\ r.steps[s].state = "succeeded" <=> Shown(r.phase, s)
           /\ Shown(r.phase, s) => n[s] = 1
           /\ ~Shown(r.phase, s) /\ s # StepForPhase(r.phase) => n[s] = 0
  <1>1. s \in Steps /\ Told(r, s, n) /\ s # "BASE_REFRESH" /\ r.phase \in Phases
    BY DEF Effects, Steps, Tells, Record
  <1>2. s \in Passed(r.phase) <=> Shown(r.phase, s)
    BY <1>1, ModeAssumption DEF Passed, Shown, Effects, Committed, Phases, Terminal,
       ExcludedSteps, Steps
  <1> QED
    BY <1>1, <1>2 DEF Told
Done == landed["COMMIT"] + landed["PUSH"] + landed["PR_CREATE"]
Noted == OnRecord("COMMIT") + OnRecord("PUSH") + OnRecord("PR_CREATE")
Total == IF Mode = "pr_update" THEN 2 ELSE 3
Outcome ==
    CASE disk.phase = "COMPLETE" -> "complete"
      [] disk.phase \in {"BLOCKED", "REVOKED"} -> "stopped"
      [] OTHER -> "open"

\* The record and the effects, step by step of the delivery.
LEMMA Tally ==
    ASSUME IInv, LoneInv, disk.phase \notin {"BLOCKED", "REVOKED"}
    PROVE  /\ Noted = (IF Shown(disk.phase, "COMMIT") THEN 1 ELSE 0)
                       + (IF Shown(disk.phase, "PUSH") THEN 1 ELSE 0)
                       + (IF Shown(disk.phase, "PR_CREATE") THEN 1 ELSE 0)
           /\ disk.phase = "COMPLETE" => Noted = Total
  <1>1. disk \in Record /\ landed \in [Steps -> Nat] /\ Tells(disk, landed)
    BY DEF IInv, TypeOK, LoneInv
  <1>2. \A s \in Effects : OnRecord(s) = IF Shown(disk.phase, s) THEN 1 ELSE 0
    BY <1>1, ToldShown DEF OnRecord
  <1>3. "COMMIT" \in Effects /\ "PUSH" \in Effects /\ "PR_CREATE" \in Effects
    BY DEF Effects
  <1>4. Noted = (IF Shown(disk.phase, "COMMIT") THEN 1 ELSE 0)
                + (IF Shown(disk.phase, "PUSH") THEN 1 ELSE 0)
                + (IF Shown(disk.phase, "PR_CREATE") THEN 1 ELSE 0)
    BY <1>2, <1>3 DEF Noted
  <1>5. disk.phase = "COMPLETE" =>
          /\ Shown(disk.phase, "COMMIT") /\ Shown(disk.phase, "PUSH")
          /\ Shown(disk.phase, "PR_CREATE") <=> Mode = "pull_request"
    BY DEF Shown
  <1>6. disk.phase = "COMPLETE" => Noted = Total
    BY <1>4, <1>5, ModeAssumption DEF Total
  <1> QED
    BY <1>4, <1>6

\* An effect lands when every earlier one is on record.
LEMMA LandsPerforms ==
    ASSUME IInv, CopyInv, LoneInv, NEW d \in Drivers, disk' = disk,
           \/ pc[d] = "effect" /\ EffectLands(d)
           \/ pc[d] = "create" /\ PrLands
    PROVE  \/ UNCHANGED <<Done, Noted, Outcome>>
           \/ /\ Outcome = "open" /\ Noted = Done /\ Done < Total
              /\ Done' = Done + 1 /\ UNCHANGED <<Noted, Outcome>>
  <1> DEFINE step == StepOf(d)
  <1>1. /\ landed[step] = 0 /\ step \in Steps /\ landed' = [landed EXCEPT ![step] = 1]
        /\ disk \in Record /\ landed \in [Steps -> Nat] /\ Tells(disk, landed)
        /\ step = StepForPhase(disk.phase) /\ disk.phase \notin Terminal
    BY LoneLands, LoneFacts DEF Working, Pcs
  <1>2. UNCHANGED <<Noted, Outcome>>
    BY DEF Noted, Outcome, OnRecord
  <1>3. "COMMIT" \in Effects /\ "PUSH" \in Effects /\ "PR_CREATE" \in Effects
        /\ Effects \subseteq Steps
    BY DEF Effects, Steps
  <1>4. CASE step = "BASE_REFRESH"
    <2>1. \A s \in Effects : landed'[s] = landed[s]
      BY <1>1, <1>3, <1>4 DEF Effects
    <2> QED
      BY <1>2, <1>3, <2>1 DEF Done
  <1>5. CASE step \in Effects
    <2>1. landed'[step] = 1 /\ \A s \in Effects : s # step => landed'[s] = landed[s]
      BY <1>1, <1>3
    <2>2. \A s \in Effects : s # step =>
            landed[s] = IF Shown(disk.phase, s) THEN 1 ELSE 0
      BY <1>1, ToldShown DEF Terminal
    <2>3. ~Shown(disk.phase, step)
      BY <1>1, <1>5, ToldShown DEF Terminal
    <2>4. \A s \in Effects : landed[s] = IF Shown(disk.phase, s) THEN 1 ELSE 0
      BY <1>1, <2>2, <2>3
    <2>5. Noted = Done
      BY <1>1, <1>3, <2>4, Tally DEF Done, Terminal
    <2>6. Done' = Done + 1
      BY <1>1, <1>3, <1>5, <2>1 DEF Done, Effects
    <2>7. Outcome = "open"
      BY <1>1 DEF Outcome, Terminal
    <2>8. Done < Total
      <3>1. step = "PR_CREATE" => Mode = "pull_request"
        BY <1>1, ModeAssumption DEF StepForPhase
      <3>2. Mode = "pr_update" => ~Shown(disk.phase, "PR_CREATE")
        BY DEF Shown
      <3> QED
        BY <1>3, <1>5, <2>3, <2>4, <3>1, <3>2, ModeAssumption DEF Done, Total, Effects
    <2> QED
      BY <1>2, <2>5, <2>6, <2>7, <2>8
  <1> QED
    BY <1>1, <1>4, <1>5 DEF Steps, Effects

\* A save puts the one effect that is not on record there, or ends the
\* delivery, or tells the ledger nothing.
LEMMA SaveNotes ==
    ASSUME IInv, IInv', CopyInv, LoneInv, LoneInv',
           disk.phase \notin Terminal, landed' = landed, Forward(disk, disk', landed)
    PROVE  \/ UNCHANGED <<Done, Noted, Outcome>>
           \/ /\ Outcome = "open" /\ Noted < Done /\ Noted' = Done
              /\ UNCHANGED <<Done, Outcome>>
           \/ /\ Outcome = "open"
              /\ Outcome' \in IF Noted = Total THEN {"complete", "stopped"} ELSE {"stopped"}
              /\ UNCHANGED <<Done, Noted>>
  <1>1. /\ disk \in Record /\ disk' \in Record /\ landed \in [Steps -> Nat]
        /\ Tells(disk, landed) /\ Tells(disk', landed)
        /\ disk.phase \in Phases /\ disk'.phase \in Phases
    BY DEF IInv, TypeOK, LoneInv, Record
  <1>2. Done' = Done /\ Outcome = "open"
    BY DEF Done, Outcome, Terminal
  <1>3. "COMMIT" \in Effects /\ "PUSH" \in Effects /\ "PR_CREATE" \in Effects
        /\ Effects \subseteq Steps
    BY DEF Effects, Steps
  <1>4. disk.phase \notin {"BLOCKED", "REVOKED"}
    BY DEF Terminal
  <1>5. CASE disk'.phase \in {"BLOCKED", "REVOKED"}
    <2>1. \A s \in Steps : disk'.steps[s].state = "succeeded" <=> disk.steps[s].state = "succeeded"
      BY <1>5 DEF Forward
    <2>2. Noted' = Noted
      BY <1>3, <2>1 DEF Noted, OnRecord
    <2>3. Outcome' = "stopped"
      BY <1>5 DEF Outcome
    <2> QED
      BY <1>2, <2>2, <2>3
  <1>6. CASE disk'.phase = disk.phase
    <2>1. disk'.phase \notin {"BLOCKED", "REVOKED"}
      BY <1>4, <1>6
    <2>2. Noted' = Noted
      <3>1. \A s \in Effects : disk.steps[s].state = "succeeded" <=> Shown(disk.phase, s)
        BY <1>1, <1>4, ToldShown
      <3>2. \A s \in Effects : disk'.steps[s].state = "succeeded" <=> Shown(disk'.phase, s)
        BY <1>1, <2>1, ToldShown
      <3> QED
        BY <1>3, <1>6, <3>1, <3>2 DEF Noted, OnRecord
    <2>3. Outcome' = Outcome
      BY <1>6 DEF Outcome
    <2> QED
      BY <1>2, <2>2, <2>3
  <1>7. CASE disk'.phase # disk.phase /\ disk'.phase \notin {"BLOCKED", "REVOKED"}
    <2>1. <<disk.phase, disk'.phase>> \in AllowedTransitions
      BY <1>7 DEF Forward
    <2>2. \A s \in Effects : /\ disk.steps[s].state = "succeeded" <=> Shown(disk.phase, s)
                             /\ Shown(disk.phase, s) => landed[s] = 1
                             /\ ~Shown(disk.phase, s) /\ s # StepForPhase(disk.phase)
                                  => landed[s] = 0
      BY <1>1, <1>4, ToldShown
    <2>3. \A s \in Effects : /\ disk'.steps[s].state = "succeeded" <=> Shown(disk'.phase, s)
                             /\ Shown(disk'.phase, s) => landed[s] = 1
      BY <1>1, <1>7, ToldShown
    <2>4. CASE StepForPhase(disk.phase) # "none" /\ disk'.phase = PhaseAfter(StepForPhase(disk.phase))
      <3> DEFINE step == StepForPhase(disk.phase)
      <3>1. \/ /\ Mode = "pull_request"
               /\ <<disk.phase, step, disk'.phase>> \in
                    {<<"AUTHORIZED", "BASE_REFRESH", "BASE_CURRENT">>,
                     <<"BASE_CURRENT", "COMMIT", "COMMITTED">>,
                     <<"COMMITTED", "PUSH", "PUSHED">>,
                     <<"PUSHED", "PR_CREATE", "PR_OPENED">>}
            \/ /\ Mode = "pr_update"
               /\ <<disk.phase, step, disk'.phase>> \in
                    {<<"AUTHORIZED", "COMMIT", "COMMITTED">>, <<"COMMITTED", "PUSH", "PUSHED">>}
        BY <2>4, ModeAssumption DEF StepForPhase, PhaseAfter
      <3>2. Outcome' = "open"
        BY <3>1 DEF Outcome
      <3>3. CASE step = "BASE_REFRESH"
        <4>1. \A s \in Effects : ~Shown(disk.phase, s) /\ ~Shown(disk'.phase, s)
          BY <3>1, <3>3 DEF Shown, Effects, Committed
        <4>2. Noted' = Noted
          BY <1>3, <2>2, <2>3, <4>1 DEF Noted, OnRecord
        <4> QED
          BY <1>2, <3>2, <4>2
      <3>4. ASSUME NEW c \in Effects, c = step
            PROVE  Noted < Done /\ Noted' = Done
        <4>1. /\ ~Shown(disk.phase, c) /\ Shown(disk'.phase, c)
              /\ \A s \in Effects : s # c => (Shown(disk.phase, s) <=> Shown(disk'.phase, s))
          BY <3>1, <3>4 DEF Shown, Effects, Committed
        <4>2. OnRecord(c) = 0 /\ OnRecord(c)' = 1 /\ landed[c] = 1
          BY <2>2, <2>3, <4>1 DEF OnRecord
        <4>3. \A s \in Effects : s # c =>
                OnRecord(s) = landed[s] /\ OnRecord(s)' = landed[s]
          BY <2>2, <2>3, <3>4, <4>1 DEF OnRecord
        <4>4. \A s \in Effects : landed[s] \in Nat
          BY <1>1, <1>3
        <4>5. \A s \in Effects : OnRecord(s)' = landed[s]
          BY <4>2, <4>3
        <4>6. Noted' = Done
          BY <1>3, <4>5 DEF Noted, Done
        <4>7. Noted + 1 = Done
          <5>1. CASE c = "COMMIT"
            BY <1>3, <4>2, <4>3, <4>4, <5>1 DEF Noted, Done
          <5>2. CASE c = "PUSH"
            BY <1>3, <4>2, <4>3, <4>4, <5>2 DEF Noted, Done
          <5>3. CASE c = "PR_CREATE"
            BY <1>3, <4>2, <4>3, <4>4, <5>3 DEF Noted, Done
          <5> QED
            BY <5>1, <5>2, <5>3 DEF Effects
        <4>8. Done \in Nat
          BY <1>3, <4>4 DEF Done
        <4>9. Noted \in Nat
          BY DEF Noted, OnRecord
        <4> QED
          BY <4>6, <4>7, <4>8, <4>9
      <3>5. step = "BASE_REFRESH" \/ step \in Effects
        BY <3>1 DEF Effects
      <3> QED
        BY <1>2, <3>2, <3>3, <3>4, <3>5
    <2>5. CASE disk'.phase = "COMPLETE"
      <3>1. \/ Mode = "pull_request" /\ disk.phase = "PR_OPENED"
            \/ Mode = "pr_update" /\ disk.phase = "PUSHED"
        BY <2>1, <2>5, ModeAssumption DEF AllowedTransitions, PhaseAfter, StepForPhase
      <3>2. \A s \in Effects : Shown(disk.phase, s) <=> Shown(disk'.phase, s)
        BY <2>5, <3>1 DEF Shown, Effects, Committed
      <3>3. Noted' = Noted
        BY <1>3, <2>2, <2>3, <3>2 DEF Noted, OnRecord
      <3>4. Noted = Total
        BY <1>4, <3>1, Tally DEF Shown, Committed, Total
      <3>5. Outcome' = "complete"
        BY <2>5 DEF Outcome
      <3> QED
        BY <1>2, <3>3, <3>4, <3>5
    <2> QED
      BY <1>7, <2>1, <2>4, <2>5 DEF AllowedTransitions
  <1> QED
    BY <1>5, <1>6, <1>7

\* A delivery that one process drives, and that is stopped and resumed any
\* number of times, has its effects once each, in order, and each on record
\* before the next begins (advance_once and every handler under it).
THEOREM LedgerImplemented ==
    ASSUME Alone
    PROVE  Spec => LedgerSpec
  <1>1. Init => Ledger!Init
    <2> SUFFICES ASSUME Init PROVE Ledger!Init
      OBVIOUS
    <2>1. "COMMIT" \in Steps /\ "PUSH" \in Steps /\ "PR_CREATE" \in Steps
      BY DEF Steps
    <2> QED
      BY <2>1 DEF Init, Ledger!Init, NewRecord, NewEntry, OnRecord
  <1>2. IInv /\ CopyInv /\ LoneInv /\ IInv' /\ LoneInv' /\ [Next]_vars
          => [Ledger!Next]_<<Done, Noted, Outcome>>
    <2> SUFFICES ASSUME IInv, CopyInv, LoneInv, IInv', LoneInv', [Next]_vars
                 PROVE  [Ledger!Next]_<<Done, Noted, Outcome>>
      OBVIOUS
    <2>1. CASE landed' = landed /\ disk' = disk
      BY <2>1 DEF Done, Noted, Outcome, OnRecord
    <2>2. ASSUME NEW d \in Drivers, disk' = disk,
                 \/ pc[d] = "effect" /\ EffectLands(d)
                 \/ pc[d] = "create" /\ PrLands
          PROVE  [Ledger!Next]_<<Done, Noted, Outcome>>
      BY <2>2, LandsPerforms
         DEF Ledger!Next, Ledger!Perform, Done, Noted, Outcome, Total
    <2>3. CASE disk.phase \notin Terminal /\ landed' = landed /\ Forward(disk, disk', landed)
      BY <2>3, SaveNotes
         DEF Ledger!Next, Ledger!Note, Ledger!Finish, Done, Noted, Outcome, Total
    <2>4. CASE disk' = disk /\ landed' # landed
      <3>1. PICK d \in Drivers : Drive(d) \/ ReadFault(d) \/ Crash(d)
        BY <2>4, LoneOutside DEF Next, vars, world, Confirm
      <3> QED
        BY <2>2, <2>4, <3>1, DriverWorld
    <2> QED
      BY <2>1, <2>3, <2>4, DiskSteps
  <1> QED
    BY <1>1, <1>2, LoneInvariance, PTL
       DEF Spec, LedgerSpec, Ledger!Spec, Done, Noted, Outcome, Total
=============================================================================
