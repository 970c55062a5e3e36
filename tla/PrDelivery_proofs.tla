------------------------- MODULE PrDelivery_proofs -------------------------
(***************************************************************************)
(* What holds of the delivery machine for every set of drivers, whatever   *)
(* crashes, fails or is changed from outside: the record, its copies and   *)
(* the world keep their types, the delivery's commit carries the candidate *)
(* on its own parent, it is made and pushed at most once, and a step       *)
(* recorded as succeeded did take place.                                   *)
(*                                                                         *)
(* None of these is inductive alone.  A stale copy of the record may be    *)
(* saved at any time, so the invariant says of EVERY copy, and not only of *)
(* the record in the store, what makes its receipts safe to act on.        *)
(***************************************************************************)
EXTENDS PrDelivery, TLAPS

-----------------------------------------------------------------------------
(* The invariant *)

\* What a receipt binds, by step.  b is the target base, n the number of
\* times each step's effect has been seen.
GoodReceipt(s, x, b, n) ==
    /\ s = "BASE_REFRESH" =>
         x.from.kind = "base" /\ x.to = Base(x.to.parent) /\ x.to.parent \in 1 .. b
    /\ s = "COMMIT" =>
         x.from.kind = "base" /\ x.to = Commit(x.from.parent, x.from.parent)
    /\ s = "PUSH" =>
         /\ x.to.kind = "commit"
         /\ x.from.kind \in {"none", "base"} \/ (x.from = x.to /\ n["PUSH"] >= 1)
    /\ s = "PR_CREATE" => x.to.kind = "commit"

\* A derived receipt counts as an attempt; a settled step took place.
GoodEntry(s, e, b, n) ==
    /\ e.receipt.state # "none" => e.voided < MaxAttempts /\ GoodReceipt(s, e.receipt, b, n)
    /\ e.state = "succeeded" => n[s] >= 1

Committed == {"COMMITTED", "PUSHED", "PR_OPENED"}

GoodRecord(r, b, n) ==
    /\ r \in Record
    /\ r.base <= b
    /\ \A s \in Steps : GoodEntry(s, r.steps[s], b, n)
    /\ r.phase \in Committed => r.steps["COMMIT"].receipt.state # "none"

\* The effects there are: those that landed, and a pull request of the
\* branches whoever opened it.
Seen ==
    [s \in Steps |-> IF s = "PR_CREATE" /\ (openPr # NoOid \/ closedPrs # {})
                     THEN landed[s] + 1 ELSE landed[s]]

Good(r) == GoodRecord(r, base, Seen)

RecordsGood == Good(disk) /\ \A d \in Drivers : Good(rec[d])

\* Control points at which the record selects a step, those at which its
\* receipt exists, those of the ref moves and those of the pull request.
StepPcs == {"dispatch", "tail", "refresh", "readtree", "effect", "observe",
            "lookup", "create", "relook", "adopt"}
ReceiptPcs == StepPcs \ {"dispatch", "tail"}
RefPcs == {"readtree", "effect", "observe"}
PrPcs == {"lookup", "create", "relook", "adopt"}

GoodAt(at, r, n) ==
    LET step == StepForPhase(r.phase) IN
      /\ at \in StepPcs => step \in Steps
      /\ at = "tail" => step \in {"PUSH", "PR_CREATE"}
      /\ at \in PrPcs => step = "PR_CREATE"
      /\ at \in RefPcs => step # "PR_CREATE"
      /\ at \in ReceiptPcs => r.steps[step].receipt.state # "none"
      /\ at = "observe" /\ step = "BASE_REFRESH" => n["BASE_REFRESH"] >= 1

\* Where driver d is, or is going once its save is done.
At(p, c, d) == IF p[d] = "save" THEN c[d] ELSE p[d]

ControlGood == \A d \in Drivers : GoodAt(At(pc, cont, d), rec[d], Seen)

WorldGood ==
    /\ head.kind \in {"base", "commit", "foreign"}
    /\ head.kind = "base" =>
         head = Base(head.parent) /\ (head.parent > 0 => landed["BASE_REFRESH"] >= 1)
    /\ head.kind = "commit" => landed["COMMIT"] >= 1
    /\ landed["COMMIT"] >= 1 => head.kind # "base"
    /\ remote.kind = "commit" => landed["PUSH"] >= 1
    /\ landed["PUSH"] >= 1 => remote.kind \in {"commit", "foreign"}
    /\ openPr # NoOid => remote # NoOid

IInv ==
    /\ TypeOK
    /\ RecordsGood
    /\ ControlGood
    /\ WorldGood
    /\ CandidateOnItsBase
    /\ OneCommitOnePush

-----------------------------------------------------------------------------
(* The changes to a working copy *)

LEMMA StepTyped ==
    ASSUME NEW phase \in Phases
    PROVE  /\ StepForPhase(phase) \in Steps \cup {"none"}
           /\ StepForPhase(phase) \in {"PUSH", "PR_CREATE"} => phase \in Committed
           /\ StepForPhase(phase) \in {"BASE_REFRESH", "COMMIT"} => phase \notin Committed
  BY ModeAssumption DEF StepForPhase, Steps, Phases, Terminal, Committed

LEMMA OidTyped ==
    ASSUME NEW b \in Bases, NEW t \in Bases
    PROVE  NoOid \in Oid /\ Foreign \in Oid /\ Base(b) \in Oid /\ Commit(b, t) \in Oid
  BY BaseAssumption DEF Oid, NoOid, Foreign, Base, Commit, Bases

LEMMA NoReceiptTyped == NoReceipt \in Receipt /\ NoReceipt.state = "none" /\ NoOid \in Oid
  <1>1. NoOid \in Oid
    BY OidTyped, BaseAssumption DEF Bases
  <1> QED
    BY <1>1 DEF NoReceipt, Receipt, ReceiptStates

\* A good record stays good while the world only grows.
LEMMA GoodGrows ==
    ASSUME NEW r, NEW b \in Nat, NEW c \in Nat, b <= c,
           NEW n \in [Steps -> Nat], NEW m \in [Steps -> Nat],
           \A s \in Steps : n[s] <= m[s],
           GoodRecord(r, b, n)
    PROVE  GoodRecord(r, c, m)
  <1>1. r.base \in Nat /\ r.base <= c
    BY BaseAssumption DEF GoodRecord, Record, Bases
  <1>2. 1 .. b \subseteq 1 .. c /\ "PUSH" \in Steps
    BY DEF Steps
  <1>3. ASSUME NEW s \in Steps
        PROVE  GoodEntry(s, r.steps[s], c, m)
    <2>1. GoodEntry(s, r.steps[s], b, n) /\ n[s] <= m[s] /\ n["PUSH"] <= m["PUSH"]
      BY <1>2, <1>3 DEF GoodRecord
    <2>2. n[s] \in Nat /\ m[s] \in Nat /\ n["PUSH"] \in Nat /\ m["PUSH"] \in Nat
      BY <1>2, <1>3
    <2> QED
      BY <1>2, <2>1, <2>2 DEF GoodEntry, GoodReceipt
  <1> QED
    BY <1>1, <1>3 DEF GoodRecord

LEMMA EntryTyped ==
    ASSUME NEW r \in Record, NEW step \in Steps
    PROVE  /\ r.steps[step] \in Entry
           /\ r.steps[step].receipt \in Receipt
           /\ r.steps[step].voided \in Nat /\ r.steps[step].voided <= MaxAttempts
           /\ r.phase \in Phases
           /\ r.base \in Nat
  BY AttemptsAssumption, BaseAssumption DEF Record, Entry, Bases

\* SetEntry replaces the entry of one step and the phase and nothing else.
LEMMA SetEntryTyped ==
    ASSUME NEW r \in Record, NEW step \in Steps, NEW e \in Entry, NEW phase \in Phases
    PROVE  /\ SetEntry(r, step, e, phase) \in Record
           /\ SetEntry(r, step, e, phase).phase = phase
           /\ SetEntry(r, step, e, phase).base = r.base
           /\ SetEntry(r, step, e, phase).steps = [r.steps EXCEPT ![step] = e]
  BY DEF SetEntry, Record

LEMMA SetEntryGood ==
    ASSUME NEW r, NEW b \in Nat, NEW n \in [Steps -> Nat],
           GoodRecord(r, b, n),
           NEW step \in Steps, NEW e \in Entry, GoodEntry(step, e, b, n),
           NEW phase \in Phases,
           phase \in Committed =>
             IF step = "COMMIT" THEN e.receipt.state # "none"
                                ELSE r.steps["COMMIT"].receipt.state # "none"
    PROVE  /\ GoodRecord(SetEntry(r, step, e, phase), b, n)
           /\ SetEntry(r, step, e, phase).phase = phase
           /\ SetEntry(r, step, e, phase).steps[step] = e
           /\ SetEntry(r, step, e, phase).base = r.base
  <1> DEFINE q == SetEntry(r, step, e, phase)
  <1>1. r \in Record /\ r.steps \in [Steps -> Entry] /\ "COMMIT" \in Steps
    BY DEF GoodRecord, Record, Steps
  <1>2. /\ q \in Record /\ q.phase = phase /\ q.base = r.base
        /\ q.steps = [r.steps EXCEPT ![step] = e]
    BY <1>1, SetEntryTyped
  <1> HIDE DEF q
  <1>3. q.steps[step] = e /\ \A s \in Steps : s # step => q.steps[s] = r.steps[s]
    BY <1>1, <1>2
  <1>4. GoodRecord(q, b, n)
    BY <1>1, <1>2, <1>3 DEF GoodRecord
  <1> QED
    BY <1>2, <1>3, <1>4 DEF q

LEMMA StartedGood ==
    ASSUME NEW r, NEW b \in Nat, NEW n \in [Steps -> Nat],
           GoodRecord(r, b, n),
           NEW step \in Steps, step = StepForPhase(r.phase),
           Attempts(r.steps[step]) < MaxAttempts,
           NEW from \in Oid, NEW to \in Oid,
           NEW x, x = [state |-> "executing", from |-> from, to |-> to],
           GoodReceipt(step, x, b, n)
    PROVE  /\ GoodRecord(Started(r, step, from, to), b, n)
           /\ Started(r, step, from, to).phase = r.phase
           /\ Started(r, step, from, to).steps[step].receipt.state = "executing"
  <1> DEFINE e == [state |-> "executing", receipt |-> x, voided |-> r.steps[step].voided]
  <1>1. r \in Record
    BY DEF GoodRecord
  <1>2. x \in Receipt
    BY DEF Receipt, ReceiptStates
  <1>3. r.steps[step].voided \in 0 .. MaxAttempts /\ r.steps[step].voided < MaxAttempts
    BY <1>1, EntryTyped, AttemptsAssumption DEF Attempts, Receipt
  <1>4. e \in Entry
    BY <1>2, <1>3 DEF Entry, StepStates
  <1>5. GoodEntry(step, e, b, n)
    BY <1>3 DEF GoodEntry
  <1>6. r.phase \in Phases /\ (r.phase \in Committed => r.steps["COMMIT"].receipt.state # "none")
    BY <1>1, EntryTyped DEF GoodRecord
  <1> HIDE DEF e
  <1>7. e.receipt.state = "executing"
    BY DEF e
  <1>8. Started(r, step, from, to) = SetEntry(r, step, e, r.phase)
    BY DEF Started, e
  <1> QED
    BY <1>4, <1>5, <1>6, <1>7, <1>8, SetEntryGood

LEMMA ReopenedGood ==
    ASSUME NEW r, NEW b \in Nat, NEW n \in [Steps -> Nat],
           GoodRecord(r, b, n),
           NEW step \in Steps, r.steps[step].receipt.state # "none"
    PROVE  /\ GoodRecord(Reopened(r, step), b, n)
           /\ Reopened(r, step).phase = r.phase
           /\ Reopened(r, step).steps[step].receipt.state # "none"
  <1> DEFINE y == r.steps[step]
             e == [y EXCEPT !.receipt = [@ EXCEPT !.state = "executing"]]
  <1>1. y \in Entry /\ y.receipt \in Receipt /\ r.phase \in Phases
    BY EntryTyped DEF GoodRecord
  <1>2. GoodEntry(step, y, b, n)
    BY DEF GoodRecord
  <1>3. y.receipt.state # "none"
    OBVIOUS
  <1>4. r.phase \in Committed => r.steps["COMMIT"].receipt.state # "none"
    BY DEF GoodRecord
  <1> HIDE DEF y
  <1>5. e \in Entry /\ e.receipt.state = "executing" /\ e.state = y.state
        /\ e.voided = y.voided
        /\ e.receipt.from = y.receipt.from /\ e.receipt.to = y.receipt.to
    BY <1>1 DEF Entry, Receipt, ReceiptStates
  <1>6. Reopened(r, step) = SetEntry(r, step, e, r.phase)
    BY DEF Reopened, y
  <1> HIDE DEF e
  <1>7. GoodEntry(step, e, b, n)
    BY <1>2, <1>3, <1>5 DEF GoodEntry, GoodReceipt
  <1> QED
    BY <1>1, <1>4, <1>5, <1>6, <1>7, SetEntryGood

LEMMA VoidedGood ==
    ASSUME NEW r, NEW b \in Nat, NEW n \in [Steps -> Nat],
           GoodRecord(r, b, n),
           NEW step \in Steps, step = StepForPhase(r.phase)
    PROVE  GoodRecord(Voided(r, step), b, n) /\ Voided(r, step).phase = r.phase
  <1> DEFINE e == [state |-> "pending", receipt |-> NoReceipt,
                   voided |-> Attempts(r.steps[step])]
  <1>1. r \in Record /\ r.phase \in Phases /\ r.steps[step] \in Entry
        /\ GoodEntry(step, r.steps[step], b, n)
    BY EntryTyped DEF GoodRecord
  <1>2. Attempts(r.steps[step]) \in 0 .. MaxAttempts
    BY <1>1, EntryTyped, AttemptsAssumption DEF Attempts, GoodEntry
  <1>3. NoReceipt \in Receipt /\ NoReceipt.state = "none"
    BY NoReceiptTyped
  <1>4. e \in Entry
    BY <1>2, <1>3 DEF Entry, StepStates
  <1>5. GoodEntry(step, e, b, n)
    BY <1>3 DEF GoodEntry
  <1>6. r.phase \in Committed => step # "COMMIT" /\ r.steps["COMMIT"].receipt.state # "none"
    BY <1>1, StepTyped DEF GoodRecord
  <1> HIDE DEF e
  <1>7. Voided(r, step) = SetEntry(r, step, e, r.phase)
    BY DEF Voided, e
  <1> QED
    BY <1>1, <1>4, <1>5, <1>6, <1>7, SetEntryGood

\* Settling an entry changes its two states and nothing else.
LEMMA SettledEntry ==
    ASSUME NEW e \in Entry, NEW state \in ReceiptStates \cap StepStates
    PROVE  /\ Settled(e, state) \in Entry
           /\ Settled(e, state).state = state
           /\ Settled(e, state).receipt.state = state
           /\ Settled(e, state).receipt.from = e.receipt.from
           /\ Settled(e, state).receipt.to = e.receipt.to
           /\ Settled(e, state).voided = e.voided
  BY DEF Settled, Entry, Receipt

LEMMA SucceededGood ==
    ASSUME NEW r, NEW b \in Nat, NEW n \in [Steps -> Nat],
           GoodRecord(r, b, n),
           NEW step \in Steps, step = StepForPhase(r.phase),
           r.steps[step].receipt.state # "none",
           n[step] >= 1
    PROVE  GoodRecord(Succeeded(r, step), b, n) /\ Succeeded(r, step).base = r.base
  <1> DEFINE y == r.steps[step]
             e == Settled(y, "succeeded")
  <1>1. y \in Entry /\ r.phase \in Phases /\ GoodEntry(step, y, b, n)
    BY EntryTyped DEF GoodRecord
  <1>2. /\ e \in Entry /\ e.state = "succeeded" /\ e.receipt.state = "succeeded"
        /\ e.receipt.from = y.receipt.from /\ e.receipt.to = y.receipt.to
        /\ e.voided = y.voided
    BY <1>1, SettledEntry DEF ReceiptStates, StepStates
  <1>3. GoodEntry(step, e, b, n)
    BY <1>1, <1>2 DEF GoodEntry, GoodReceipt
  <1>4. PhaseAfter(step) \in Phases /\ (PhaseAfter(step) \in Committed => step # "BASE_REFRESH")
    BY DEF PhaseAfter, Phases, Committed, Steps
  <1>5. step \in {"PUSH", "PR_CREATE"} => r.steps["COMMIT"].receipt.state # "none"
    BY <1>1, StepTyped DEF GoodRecord
  <1>6. Succeeded(r, step) = SetEntry(r, step, e, PhaseAfter(step))
    BY DEF Succeeded
  <1> HIDE DEF e
  <1>7. PhaseAfter(step) \in Committed =>
            IF step = "COMMIT" THEN e.receipt.state # "none"
                               ELSE r.steps["COMMIT"].receipt.state # "none"
    BY <1>2, <1>4, <1>5 DEF Steps
  <1> QED
    BY <1>2, <1>3, <1>4, <1>6, <1>7, SetEntryGood

\* A step that is pending or blocked, or whose receipt changed its state.
LEMMA BlockedGood ==
    ASSUME NEW r, NEW b \in Nat, NEW n \in [Steps -> Nat],
           GoodRecord(r, b, n)
    PROVE  GoodRecord(BlockedRecord(r), b, n)
  <1> DEFINE step == StepForPhase(r.phase)
             y == r.steps[step]
             e == [y EXCEPT !.state = "blocked"]
  <1>1. r \in Record /\ r.phase \in Phases /\ step \in Steps \cup {"none"}
    BY EntryTyped, StepTyped DEF GoodRecord, Record
  <1>2. "BLOCKED" \in Phases \ Committed
    BY DEF Phases, Terminal, Committed
  <1>3. CASE step = "none" \/ r.steps[step].state = "succeeded"
    <2>1. BlockedRecord(r) = [r EXCEPT !.phase = "BLOCKED"]
      BY <1>3 DEF BlockedRecord
    <2> QED
      BY <1>1, <1>2, <2>1 DEF GoodRecord, Record
  <1>4. CASE ~(step = "none" \/ r.steps[step].state = "succeeded")
    <2>1. step \in Steps
      BY <1>1, <1>4
    <2>2. y \in Entry /\ GoodEntry(step, y, b, n)
      BY <1>1, <2>1, EntryTyped DEF GoodRecord
    <2>3. BlockedRecord(r) = SetEntry(r, step, e, "BLOCKED")
      BY <1>4 DEF BlockedRecord
    <2>4. e \in Entry /\ e.state = "blocked" /\ e.receipt = y.receipt /\ e.voided = y.voided
      BY <2>2 DEF Entry, StepStates
    <2> HIDE DEF e
    <2>5. GoodEntry(step, e, b, n)
      BY <2>2, <2>4 DEF GoodEntry
    <2> QED
      BY <1>2, <2>1, <2>3, <2>4, <2>5, SetEntryGood
  <1> QED
    BY <1>3, <1>4

LEMMA RetriedGood ==
    ASSUME NEW r, NEW b \in Nat, NEW n \in [Steps -> Nat],
           GoodRecord(r, b, n)
    PROVE  GoodRecord(Retried(r), b, n)
  <1> DEFINE step == StepForPhase(r.phase)
             y == r.steps[step]
             e == RetriedEntry(y)
  <1>1. r \in Record /\ r.phase \in Phases /\ step \in Steps \cup {"none"}
    BY EntryTyped, StepTyped DEF GoodRecord, Record
  <1>2. CASE step = "none"
    BY <1>2 DEF Retried
  <1>3. CASE step # "none"
    <2>1. step \in Steps
      BY <1>1, <1>3
    <2>2. y \in Entry /\ y.receipt \in Receipt /\ GoodEntry(step, y, b, n)
      BY <1>1, <2>1, EntryTyped DEF GoodRecord
    <2>3. Retried(r) = SetEntry(r, step, e, r.phase)
      BY <1>3 DEF Retried
    <2>4. /\ e \in Entry /\ e.voided = y.voided
          /\ e.receipt.from = y.receipt.from /\ e.receipt.to = y.receipt.to
          /\ e.receipt.state = "none" <=> y.receipt.state = "none"
          /\ e.state = "succeeded" => y.state = "succeeded"
      <3>1. CASE y.receipt.state = "executing"
        <4>1. e = Settled(y, "failed_retryable")
          BY <3>1 DEF RetriedEntry
        <4> QED
          BY <2>2, <3>1, <4>1, SettledEntry DEF ReceiptStates, StepStates
      <3>2. CASE y.receipt.state \in {"none", "succeeded"} /\ y.state \notin {"succeeded", "not_needed"}
        <4>1. e = [y EXCEPT !.state = "pending"]
          BY <3>2 DEF RetriedEntry
        <4> QED
          BY <2>2, <3>2, <4>1 DEF Entry, StepStates
      <3>3. CASE ~(y.receipt.state = "executing") /\
                 ~(y.receipt.state \in {"none", "succeeded"} /\ y.state \notin {"succeeded", "not_needed"})
        <4>1. e = y
          BY <3>3 DEF RetriedEntry
        <4> QED
          BY <2>2, <4>1
      <3> QED
        BY <3>1, <3>2, <3>3
    <2> HIDE DEF e
    <2>5. GoodEntry(step, e, b, n)
      BY <2>2, <2>4 DEF GoodEntry, GoodReceipt
    <2>6. r.phase \in Committed => step # "COMMIT" /\ r.steps["COMMIT"].receipt.state # "none"
      BY <1>1, StepTyped DEF GoodRecord
    <2> QED
      BY <1>1, <2>1, <2>3, <2>4, <2>5, <2>6, SetEntryGood
  <1> QED
    BY <1>2, <1>3

LEMMA RevokedGood ==
    ASSUME NEW r, NEW b \in Nat, NEW n \in [Steps -> Nat],
           GoodRecord(r, b, n)
    PROVE  GoodRecord(Revoked(r), b, n)
  BY DEF GoodRecord, Record, Revoked, Phases, Terminal, Committed

LEMMA NewRecordGood ==
    ASSUME NEW b \in Nat, NEW n \in [Steps -> Nat]
    PROVE  GoodRecord(NewRecord, b, n)
  <1>1. \A s \in Steps : NewEntry(s) \in Entry /\ NewEntry(s).receipt.state = "none"
                         /\ NewEntry(s).state # "succeeded"
    BY AttemptsAssumption, NoReceiptTyped DEF NewEntry, Entry, StepStates
  <1>2. NewRecord \in Record
    BY <1>1, BaseAssumption DEF NewRecord, Record, Phases, Bases
  <1> QED
    BY <1>1, <1>2 DEF GoodRecord, GoodEntry, NewRecord, Committed

LEMMA RebasedGood ==
    ASSUME NEW r, NEW b \in Nat, NEW n \in [Steps -> Nat],
           GoodRecord(r, b, n), NEW c \in Bases, c <= b
    PROVE  GoodRecord([r EXCEPT !.base = c], b, n)
  BY DEF GoodRecord, Record

LEMMA RefreshedGood ==
    ASSUME NEW r, NEW b \in Nat, NEW n \in [Steps -> Nat],
           GoodRecord(r, b, n), NEW revoked \in BOOLEAN
    PROVE  GoodRecord([r EXCEPT !.revoked = revoked], b, n)
  BY DEF GoodRecord, Record

LEMMA CompletedGood ==
    ASSUME NEW r, NEW b \in Nat, NEW n \in [Steps -> Nat], GoodRecord(r, b, n)
    PROVE  GoodRecord([r EXCEPT !.phase = "COMPLETE"], b, n)
  BY DEF GoodRecord, Record, Phases, Terminal, Committed

\* A base refresh that is not needed.
LEMMA NotNeededGood ==
    ASSUME NEW r, NEW b \in Nat, NEW n \in [Steps -> Nat], GoodRecord(r, b, n)
    PROVE  GoodRecord(NotNeeded(r), b, n)
  <1> DEFINE y == r.steps["BASE_REFRESH"]
             e == [y EXCEPT !.state = "not_needed"]
  <1>1. r \in Record /\ "BASE_REFRESH" \in Steps
    BY DEF GoodRecord, Steps
  <1>2. y \in Entry /\ GoodEntry("BASE_REFRESH", y, b, n)
    BY <1>1, EntryTyped DEF GoodRecord
  <1>3. e \in Entry /\ e.state = "not_needed" /\ e.receipt = y.receipt /\ e.voided = y.voided
    BY <1>2 DEF Entry, StepStates
  <1> HIDE DEF e
  <1>4. GoodEntry("BASE_REFRESH", e, b, n)
    BY <1>2, <1>3 DEF GoodEntry
  <1>5. "BASE_CURRENT" \in Phases \ Committed
    BY DEF Phases, Committed, Terminal
  <1>6. GoodRecord(SetEntry(r, "BASE_REFRESH", e, "BASE_CURRENT"), b, n)
    BY <1>1, <1>3, <1>4, <1>5, SetEntryGood
  <1> QED
    BY <1>6 DEF NotNeeded, e

-----------------------------------------------------------------------------
(* Moves of a driver's control *)

ControlTyped ==
    /\ pc \in [Drivers -> Pcs] /\ cont \in [Drivers -> Pcs] /\ rec \in [Drivers -> Record]
    /\ confirmed \in [Drivers -> Steps \cup {"none"}]

\* Driver d goes to the control point at with the copy r; no other moves.
Moves(d, r, at) ==
    /\ rec' = [rec EXCEPT ![d] = r]
    /\ pc' \in [Drivers -> Pcs] /\ cont' \in [Drivers -> Pcs]
    /\ At(pc', cont', d) = at
    /\ confirmed' \in [Drivers -> Steps \cup {"none"}]
    /\ \A o \in Drivers \ {d} : pc'[o] = pc[o] /\ cont'[o] = cont[o]

\* A move with which the invariant's part on records and control survives in
\* a world with base b and effects n.
Safe(d, b, n) ==
    \E r \in Record, at \in Pcs :
        Moves(d, r, at) /\ GoodRecord(r, b, n) /\ GoodAt(at, r, n)

\* Points at which nothing is asked of the record.
LEMMA FreePoint ==
    ASSUME NEW at \in Pcs \ StepPcs, NEW r, NEW n
    PROVE  GoodAt(at, r, n)
  BY DEF GoodAt, StepPcs, ReceiptPcs, RefPcs, PrPcs

LEMMA GoSafe ==
    ASSUME ControlTyped, NEW d \in Drivers, NEW b \in Nat, NEW n \in [Steps -> Nat],
           NEW r, GoodRecord(r, b, n), NEW to \in Pcs \ {"save"}, GoodAt(to, r, n),
           GoWith(d, r, to)
    PROVE  Safe(d, b, n)
  <1>1. r \in Record
    BY DEF GoodRecord
  <1>2. Moves(d, r, to)
    BY DEF Moves, GoWith, At, ControlTyped
  <1> QED
    BY <1>1, <1>2 DEF Safe

LEMMA SaveSafe ==
    ASSUME ControlTyped, NEW d \in Drivers, NEW b \in Nat, NEW n \in [Steps -> Nat],
           NEW r, GoodRecord(r, b, n), NEW to \in Pcs, GoodAt(to, r, n),
           SaveThen(d, r, to)
    PROVE  Safe(d, b, n)
  <1>1. r \in Record
    BY DEF GoodRecord
  <1>2. Moves(d, r, to)
    BY DEF Moves, SaveThen, At, ControlTyped, Pcs
  <1> QED
    BY <1>1, <1>2 DEF Safe

LEMMA DropSafe ==
    ASSUME ControlTyped, NEW d \in Drivers, NEW b \in Nat, NEW n \in [Steps -> Nat],
           Drop(d)
    PROVE  Safe(d, b, n)
  <1>1. GoodRecord(NewRecord, b, n) /\ NewRecord \in Record
    BY NewRecordGood DEF GoodRecord
  <1>2. "idle" \in Pcs \ StepPcs
    BY DEF Pcs, StepPcs
  <1>3. Moves(d, NewRecord, "idle")
    BY <1>2 DEF Moves, Drop, At, ControlTyped
  <1> QED
    BY <1>1, <1>2, <1>3, FreePoint DEF Safe

LEMMA BlockSafe ==
    ASSUME ControlTyped, NEW d \in Drivers, NEW b \in Nat, NEW n \in [Steps -> Nat],
           NEW r, GoodRecord(r, b, n), Block(d, r)
    PROVE  Safe(d, b, n)
  <1>1. "idle" \in Pcs \ StepPcs
    BY DEF Pcs, StepPcs
  <1> QED
    BY <1>1, BlockedGood, FreePoint, SaveSafe DEF Block

LEMMA RetrySafe ==
    ASSUME ControlTyped, NEW d \in Drivers, NEW b \in Nat, NEW n \in [Steps -> Nat],
           NEW r, GoodRecord(r, b, n), Retry(d, r)
    PROVE  Safe(d, b, n)
  <1>1. "idle" \in Pcs \ StepPcs
    BY DEF Pcs, StepPcs
  <1> QED
    BY <1>1, RetriedGood, FreePoint, SaveSafe DEF Retry

LEMMA StartSafe ==
    ASSUME ControlTyped, NEW d \in Drivers, NEW b \in Nat, NEW n \in [Steps -> Nat],
           NEW r, GoodRecord(r, b, n), NEW step \in Steps, step = StepForPhase(r.phase),
           NEW from \in Oid, NEW to \in Oid,
           NEW x, x = [state |-> "executing", from |-> from, to |-> to],
           GoodReceipt(step, x, b, n),
           Start(d, r, step, from, to)
    PROVE  Safe(d, b, n)
  <1> DEFINE q == Started(r, step, from, to)
  <1>1. CASE expired \/ Attempts(r.steps[step]) >= MaxAttempts
    BY <1>1, BlockSafe DEF Start
  <1>2. CASE ~(expired \/ Attempts(r.steps[step]) >= MaxAttempts)
    <2>1. Attempts(r.steps[step]) < MaxAttempts
      BY <1>2, EntryTyped, AttemptsAssumption DEF Attempts, GoodRecord
    <2>2. GoodRecord(q, b, n) /\ q.phase = r.phase /\ q.steps[step].receipt.state = "executing"
      BY <2>1, StartedGood
    <2>3. SaveThen(d, q, "refresh")
      BY <1>2 DEF Start
    <2>4. "refresh" \in Pcs
      BY DEF Pcs
    <2> HIDE DEF q
    <2>5. GoodAt("refresh", q, n)
      BY <2>2 DEF GoodAt, StepPcs, ReceiptPcs, RefPcs, PrPcs
    <2> QED
      BY <2>2, <2>3, <2>4, <2>5, SaveSafe
  <1> QED
    BY <1>1, <1>2

-----------------------------------------------------------------------------
(* What the invariant gives a handler *)

LEMMA RecordFacts ==
    ASSUME IInv, NEW d \in Drivers
    PROVE  /\ ControlTyped
           /\ base \in Nat /\ base \in Bases /\ index \in Bases
           /\ Seen \in [Steps -> Nat]
           /\ GoodRecord(rec[d], base, Seen) /\ rec[d] \in Record
           /\ GoodRecord(disk, base, Seen) /\ disk \in Record
           /\ GoodAt(At(pc, cont, d), rec[d], Seen)
           /\ head \in Oid /\ remote \in Oid /\ openPr \in Oid
           /\ disk.phase \in Phases /\ rec[d].phase \in Phases
  <1>1. TypeOK /\ RecordsGood /\ ControlGood
    BY DEF IInv
  <1>2. base \in Nat /\ base \in Bases /\ index \in Bases
    BY <1>1, BaseAssumption DEF TypeOK, Bases
  <1>3. Seen \in [Steps -> Nat]
    BY <1>1 DEF TypeOK, Seen
  <1>4. /\ ControlTyped /\ rec[d] \in Record /\ disk \in Record
        /\ head \in Oid /\ remote \in Oid /\ openPr \in Oid
    BY <1>1 DEF TypeOK, ControlTyped
  <1>5. GoodRecord(rec[d], base, Seen) /\ GoodRecord(disk, base, Seen)
    BY <1>1 DEF RecordsGood, Good
  <1>6. GoodAt(At(pc, cont, d), rec[d], Seen)
    BY <1>1 DEF ControlGood
  <1> QED
    BY <1>2, <1>3, <1>4, <1>5, <1>6 DEF Record

LEMMA WorldFacts ==
    ASSUME IInv
    PROVE  /\ head.kind = "base" =>
                head = Base(head.parent) /\ (head.parent > 0 => Seen["BASE_REFRESH"] >= 1)
           /\ head.kind = "commit" => Seen["COMMIT"] >= 1
           /\ remote.kind = "commit" => Seen["PUSH"] >= 1
           /\ openPr # NoOid \/ closedPrs # {} => Seen["PR_CREATE"] >= 1
  BY DEF IInv, TypeOK, WorldGood, Seen, Steps

\* At a control point of a step the record selects that step; at a later one
\* its receipt exists and is good.
LEMMA StepFacts ==
    ASSUME IInv, NEW d \in Drivers, pc[d] \in StepPcs
    PROVE  /\ StepOf(d) \in Steps
           /\ EntryOf(d) \in Entry /\ EntryOf(d).receipt \in Receipt
           /\ EntryOf(d) = rec[d].steps[StepOf(d)]
           /\ EntryOf(d).receipt.state # "none" =>
                GoodReceipt(StepOf(d), EntryOf(d).receipt, base, Seen)
           /\ pc[d] = "tail" => StepOf(d) \in {"PUSH", "PR_CREATE"}
           /\ pc[d] \in PrPcs => StepOf(d) = "PR_CREATE"
           /\ pc[d] \in RefPcs => StepOf(d) # "PR_CREATE"
           /\ pc[d] \in ReceiptPcs => EntryOf(d).receipt.state # "none"
           /\ pc[d] = "observe" /\ StepOf(d) = "BASE_REFRESH" => Seen["BASE_REFRESH"] >= 1
           /\ rec[d].phase \in Committed =>
                Delivered(rec[d]).kind = "commit" /\ Delivered(rec[d]) \in Oid
  <1>1. GoodAt(pc[d], rec[d], Seen)
    BY RecordFacts DEF At, StepPcs
  <1>2. StepOf(d) \in Steps
    BY <1>1 DEF GoodAt, StepOf
  <1>3. rec[d] \in Record /\ GoodRecord(rec[d], base, Seen) /\ "COMMIT" \in Steps
    BY RecordFacts DEF Steps
  <1>4. EntryOf(d) \in Entry /\ EntryOf(d).receipt \in Receipt
    BY <1>2, <1>3, EntryTyped DEF EntryOf
  <1>5. GoodEntry(StepOf(d), EntryOf(d), base, Seen)
    BY <1>2, <1>3 DEF GoodRecord, EntryOf
  <1>6. rec[d].phase \in Committed =>
          Delivered(rec[d]).kind = "commit" /\ Delivered(rec[d]) \in Oid
    <2>1. rec[d].steps["COMMIT"].receipt \in Receipt
      BY <1>3, EntryTyped
    <2>2. rec[d].phase \in Committed =>
            GoodReceipt("COMMIT", rec[d].steps["COMMIT"].receipt, base, Seen)
      BY <1>3 DEF GoodRecord, GoodEntry
    <2> QED
      BY <2>1, <2>2 DEF GoodReceipt, Commit, Delivered, Receipt
  <1> QED
    BY <1>1, <1>2, <1>4, <1>5, <1>6
       DEF GoodAt, GoodEntry, EntryOf, StepOf, StepPcs, ReceiptPcs, RefPcs, PrPcs

-----------------------------------------------------------------------------
(* The handlers that leave the world as it is *)

LEMMA LoadSafe ==
    ASSUME IInv, NEW d \in Drivers, Load(d)
    PROVE  Safe(d, base, Seen)
  <1>1. /\ ControlTyped /\ base \in Nat /\ Seen \in [Steps -> Nat]
        /\ GoodRecord(disk, base, Seen) /\ disk.phase \in Phases
    BY RecordFacts
  <1>2. "idle" \in Pcs \ StepPcs /\ "view" \in Pcs \ (StepPcs \cup {"save"})
        /\ "dispatch" \in Pcs \ {"save"}
    BY DEF Pcs, StepPcs
  <1>3. CASE SaveThen(d, Revoked(disk), "idle")
    BY <1>1, <1>2, <1>3, RevokedGood, FreePoint, SaveSafe
  <1>4. CASE Block(d, disk)
    BY <1>1, <1>4, BlockSafe
  <1>5. CASE GoWith(d, disk, IF StepForPhase(disk.phase) = "none" THEN "view" ELSE "dispatch")
    <2>1. CASE StepForPhase(disk.phase) = "none"
      BY <1>1, <1>2, <1>5, <2>1, FreePoint, GoSafe
    <2>2. CASE StepForPhase(disk.phase) # "none"
      <3>1. GoodAt("dispatch", disk, Seen)
        BY <1>1, <2>2, StepTyped DEF GoodAt, ReceiptPcs, RefPcs, PrPcs
      <3> QED
        BY <1>1, <1>2, <1>5, <2>2, <3>1, GoSafe
    <2> QED
      BY <2>1, <2>2
  <1> QED
    BY <1>3, <1>4, <1>5 DEF Load

LEMMA RefreshSafe ==
    ASSUME IInv, NEW d \in Drivers, Refresh(d)
    PROVE  Safe(d, base, Seen)
  <1> DEFINE r == [rec[d] EXCEPT !.revoked = disk.revoked]
             step == StepOf(d)
             receipt == EntryOf(d).receipt
  <1>1. /\ ControlTyped /\ base \in Nat /\ Seen \in [Steps -> Nat]
        /\ GoodRecord(rec[d], base, Seen) /\ rec[d] \in Record
        /\ disk.revoked \in BOOLEAN
    BY RecordFacts DEF Record
  <1>2. pc[d] = "refresh" /\ pc[d] \in ReceiptPcs /\ pc[d] \in StepPcs
    BY DEF Refresh, ReceiptPcs, StepPcs
  <1>3. step \in Steps /\ receipt.state # "none" /\ GoodReceipt(step, receipt, base, Seen)
        /\ rec[d].steps[step].receipt = receipt
    BY <1>2, StepFacts
  <1>4. /\ GoodRecord(r, base, Seen) /\ r.phase = rec[d].phase
        /\ r.steps = rec[d].steps
    BY <1>1, RefreshedGood DEF Record
  <1>5. /\ {"idle", "revoke", "expire"} \subseteq Pcs \ StepPcs
        /\ {"readtree", "effect", "lookup"} \subseteq Pcs \ {"save"}
    BY DEF Pcs, StepPcs
  <1> HIDE DEF r
  <1>6. step = StepForPhase(r.phase)
    BY <1>4 DEF StepOf
  <1>7. CASE SaveThen(d, Voided(r, step), IF r.revoked THEN "revoke" ELSE "expire")
    <2>1. GoodRecord(Voided(r, step), base, Seen)
      BY <1>1, <1>3, <1>4, <1>6, VoidedGood
    <2>2. CASE r.revoked
      BY <1>1, <1>5, <1>7, <2>1, <2>2, FreePoint, SaveSafe
    <2>3. CASE ~r.revoked
      BY <1>1, <1>5, <1>7, <2>1, <2>3, FreePoint, SaveSafe
    <2> QED
      BY <2>2, <2>3
  <1>8. CASE step = "PUSH" /\ receipt.from = receipt.to /\ SaveThen(d, Succeeded(r, "PUSH"), "idle")
    <2>1. Seen["PUSH"] >= 1
      BY <1>3, <1>8 DEF GoodReceipt
    <2>2. r.steps["PUSH"].receipt.state # "none"
      BY <1>3, <1>4, <1>8
    <2>3. GoodRecord(Succeeded(r, "PUSH"), base, Seen)
      BY <1>1, <1>3, <1>4, <1>6, <1>8, <2>1, <2>2, SucceededGood
    <2> QED
      BY <1>1, <1>5, <1>8, <2>3, FreePoint, SaveSafe
  <1>9. CASE GoWith(d, r, EffectPc(r))
    <2>1. EffectPc(r) \in {"readtree", "effect", "lookup"}
          /\ (EffectPc(r) = "lookup" <=> step = "PR_CREATE")
      BY <1>3, <1>6 DEF EffectPc, Steps
    <2>2. GoodAt(EffectPc(r), r, Seen)
      BY <1>3, <1>4, <1>6, <2>1 DEF GoodAt, StepPcs, ReceiptPcs, RefPcs, PrPcs
    <2> QED
      BY <1>1, <1>4, <1>5, <1>9, <2>1, <2>2, GoSafe
  <1> QED
    BY <1>7, <1>8, <1>9 DEF Refresh, r

LEMMA RefusedSafe ==
    ASSUME IInv, NEW d \in Drivers, Refused(d)
    PROVE  Safe(d, base, Seen)
  <1>1. /\ ControlTyped /\ base \in Nat /\ Seen \in [Steps -> Nat]
        /\ GoodRecord(rec[d], base, Seen)
    BY RecordFacts
  <1>2. "idle" \in Pcs \ StepPcs
    BY DEF Pcs, StepPcs
  <1>3. CASE SaveThen(d, Revoked(rec[d]), "idle")
    BY <1>1, <1>2, <1>3, RevokedGood, FreePoint, SaveSafe
  <1>4. CASE Block(d, rec[d])
    BY <1>1, <1>4, BlockSafe
  <1> QED
    BY <1>3, <1>4 DEF Refused

LEMMA StepBaseRefreshSafe ==
    ASSUME IInv, NEW d \in Drivers, StepBaseRefresh(d)
    PROVE  Safe(d, base, Seen)
  <1> DEFINE r == rec[d]
             receipt == EntryOf(d).receipt
             q == Reopened(r, "BASE_REFRESH")
  <1>1. /\ ControlTyped /\ base \in Nat /\ base \in Bases /\ Seen \in [Steps -> Nat]
        /\ GoodRecord(r, base, Seen) /\ r \in Record /\ r.base \in Bases
        /\ "BASE_REFRESH" \in Steps
    BY RecordFacts DEF Steps, Record
  <1>2. pc[d] = "dispatch" /\ pc[d] \in StepPcs /\ StepOf(d) = "BASE_REFRESH"
    BY DEF StepBaseRefresh, StepPcs
  <1>3. StepForPhase(r.phase) = "BASE_REFRESH" /\ r.steps["BASE_REFRESH"].receipt = receipt
    BY <1>2, StepFacts DEF StepOf
  <1>4. "idle" \in Pcs \ StepPcs /\ "observe" \in Pcs \ {"save"} /\ "effect" \in Pcs \ {"save"}
    BY DEF Pcs, StepPcs
  <1>5. CASE Unsettled(receipt) /\ ReconcileBaseRefresh(d)
    <2>1. receipt.state # "none" /\ GoodReceipt("BASE_REFRESH", receipt, base, Seen)
      BY <1>2, <1>5, StepFacts DEF Unsettled
    <2>2. /\ GoodRecord(q, base, Seen) /\ q.phase = r.phase
          /\ q.steps["BASE_REFRESH"].receipt.state # "none"
      BY <1>1, <1>3, <2>1, ReopenedGood
    <2>3. head = receipt.to => Seen["BASE_REFRESH"] >= 1
      BY <2>1, WorldFacts DEF GoodReceipt, Base
    <2> HIDE DEF q
    <2>4. GoodAt("effect", q, Seen)
          /\ (head = receipt.to => GoodAt("observe", q, Seen))
      BY <1>1, <1>3, <2>2, <2>3 DEF GoodAt, StepPcs, ReceiptPcs, RefPcs, PrPcs
    <2>5. CASE head = receipt.to /\ GoWith(d, q, "observe")
      BY <1>1, <1>4, <2>2, <2>4, <2>5, GoSafe
    <2>6. CASE GoWith(d, q, "effect")
      BY <1>1, <1>4, <2>2, <2>4, <2>6, GoSafe
    <2>7. CASE SaveThen(d, Voided(r, "BASE_REFRESH"), "idle")
      BY <1>1, <1>3, <1>4, <2>7, VoidedGood, FreePoint, SaveSafe
    <2>8. CASE Block(d, r)
      BY <1>1, <2>8, BlockSafe
    <2> QED
      BY <1>5, <2>5, <2>6, <2>7, <2>8 DEF ReconcileBaseRefresh, q
  <1>6. CASE ExamineBaseRefresh(d)
    <2>1. CASE Block(d, r)
      BY <1>1, <2>1, BlockSafe
    <2>2. CASE SaveThen(d, NotNeeded(r), "idle")
      BY <1>1, <1>4, <2>2, NotNeededGood, FreePoint, SaveSafe
    <2>3. CASE base # r.base /\ Start(d, r, "BASE_REFRESH", Base(r.base), Base(base))
      <3> DEFINE x == [state |-> "executing", from |-> Base(r.base), to |-> Base(base)]
      <3>1. base \in 1 .. base
        BY <1>1, <2>3, BaseAssumption DEF GoodRecord, Bases
      <3>2. GoodReceipt("BASE_REFRESH", x, base, Seen)
        BY <3>1 DEF GoodReceipt, Base
      <3>3. Base(r.base) \in Oid /\ Base(base) \in Oid
        BY <1>1, OidTyped
      <3> HIDE DEF x
      <3>4. x = [state |-> "executing", from |-> Base(r.base), to |-> Base(base)]
        BY DEF x
      <3> QED
        BY <1>1, <1>3, <2>3, <3>2, <3>3, <3>4, StartSafe
    <2> QED
      BY <1>6, <2>1, <2>2, <2>3 DEF ExamineBaseRefresh
  <1> QED
    BY <1>5, <1>6 DEF StepBaseRefresh

LEMMA StepCommitSafe ==
    ASSUME IInv, NEW d \in Drivers, StepCommit(d)
    PROVE  Safe(d, base, Seen)
  <1> DEFINE r == rec[d]
             receipt == EntryOf(d).receipt
             q == Reopened(r, "COMMIT")
             v == Voided(r, "COMMIT")
  <1>1. /\ ControlTyped /\ base \in Nat /\ index \in Bases /\ Seen \in [Steps -> Nat]
        /\ GoodRecord(r, base, Seen) /\ r \in Record /\ r.base \in Bases
        /\ "COMMIT" \in Steps
    BY RecordFacts DEF Steps, Record
  <1>2. pc[d] = "dispatch" /\ pc[d] \in StepPcs /\ StepOf(d) = "COMMIT"
    BY DEF StepCommit, StepPcs
  <1>3. StepForPhase(r.phase) = "COMMIT" /\ r.steps["COMMIT"].receipt = receipt
    BY <1>2, StepFacts DEF StepOf
  <1>4. "idle" \in Pcs \ StepPcs /\ "dispatch" \in Pcs
    BY DEF Pcs, StepPcs
  <1>5. CASE Unsettled(receipt) /\ ReconcileCommit(d)
    <2>1. receipt.state # "none" /\ GoodReceipt("COMMIT", receipt, base, Seen)
      BY <1>2, <1>5, StepFacts DEF Unsettled
    <2>2. /\ GoodRecord(q, base, Seen) /\ q.phase = r.phase
          /\ q.steps["COMMIT"].receipt.state # "none"
      BY <1>1, <1>3, <2>1, ReopenedGood
    <2>3. head = receipt.to => Seen["COMMIT"] >= 1
      BY <2>1, WorldFacts DEF GoodReceipt, Commit
    <2>4. GoodRecord(v, base, Seen) /\ v.phase = r.phase
      BY <1>1, <1>3, VoidedGood
    <2> HIDE DEF q, v
    <2>5. GoodAt("dispatch", v, Seen)
      BY <1>1, <1>3, <2>4 DEF GoodAt, ReceiptPcs, RefPcs, PrPcs
    <2>6. CASE SaveThen(d, v, "dispatch")
      BY <1>1, <1>4, <2>4, <2>5, <2>6, SaveSafe
    <2>7. CASE head = receipt.to /\ SaveThen(d, Succeeded(q, "COMMIT"), "idle")
      <3>1. GoodRecord(Succeeded(q, "COMMIT"), base, Seen)
        BY <1>1, <1>3, <2>2, <2>3, <2>7, SucceededGood
      <3> QED
        BY <1>1, <1>4, <2>7, <3>1, FreePoint, SaveSafe
    <2>8. CASE Block(d, r)
      BY <1>1, <2>8, BlockSafe
    <2> QED
      BY <1>5, <2>6, <2>7, <2>8 DEF ReconcileCommit, q, v
  <1>6. CASE ExamineCommit(d)
    <2>1. CASE Block(d, r)
      BY <1>1, <2>1, BlockSafe
    <2>2. CASE index = r.base /\ Start(d, r, "COMMIT", Base(r.base), Commit(r.base, index))
      <3> DEFINE x == [state |-> "executing", from |-> Base(r.base),
                       to |-> Commit(r.base, index)]
      <3>1. GoodReceipt("COMMIT", x, base, Seen)
        BY <2>2 DEF GoodReceipt, Base, Commit
      <3>2. Base(r.base) \in Oid /\ Commit(r.base, index) \in Oid
        BY <1>1, OidTyped
      <3> HIDE DEF x
      <3>3. x = [state |-> "executing", from |-> Base(r.base), to |-> Commit(r.base, index)]
        BY DEF x
      <3> QED
        BY <1>1, <1>3, <2>2, <3>1, <3>2, <3>3, StartSafe
    <2> QED
      BY <1>6, <2>1, <2>2 DEF ExamineCommit
  <1> QED
    BY <1>5, <1>6 DEF StepCommit

LEMMA DerivePushSafe ==
    ASSUME IInv, NEW d \in Drivers, pc[d] \in StepPcs, StepOf(d) = "PUSH", DerivePush(d)
    PROVE  Safe(d, base, Seen)
  <1> DEFINE r == rec[d]
             commit == Delivered(r)
             x == [state |-> "executing", from |-> remote, to |-> commit]
  <1>1. /\ ControlTyped /\ base \in Nat /\ Seen \in [Steps -> Nat]
        /\ GoodRecord(r, base, Seen) /\ remote \in Oid
        /\ "PUSH" \in Steps /\ StepForPhase(r.phase) = "PUSH" /\ r.phase \in Phases
    BY RecordFacts DEF Steps, StepOf
  <1>2. commit.kind = "commit" /\ commit \in Oid
    BY <1>1, StepFacts, StepTyped
  <1>3. CASE Block(d, r)
    BY <1>1, <1>3, BlockSafe
  <1>4. CASE /\ remote \in {NoOid, commit} \/ remote.kind = "base"
             /\ Start(d, r, "PUSH", remote, commit)
    <2>1. remote.kind \in {"none", "base"} \/ (remote = commit /\ Seen["PUSH"] >= 1)
      BY <1>2, <1>4, WorldFacts DEF NoOid
    <2>2. GoodReceipt("PUSH", x, base, Seen)
      BY <1>2, <2>1 DEF GoodReceipt
    <2> HIDE DEF x
    <2>3. x = [state |-> "executing", from |-> remote, to |-> commit]
      BY DEF x
    <2> QED
      BY <1>1, <1>2, <1>4, <2>2, <2>3, StartSafe
  <1> QED
    BY <1>3, <1>4 DEF DerivePush, UpdateIdentity, Base

LEMMA DerivePrCreateSafe ==
    ASSUME IInv, NEW d \in Drivers, pc[d] \in StepPcs, StepOf(d) = "PR_CREATE",
           DerivePrCreate(d)
    PROVE  Safe(d, base, Seen)
  <1> DEFINE r == rec[d]
             commit == Delivered(r)
             x == [state |-> "executing", from |-> NoOid, to |-> commit]
  <1>1. /\ ControlTyped /\ base \in Nat /\ Seen \in [Steps -> Nat]
        /\ GoodRecord(r, base, Seen)
        /\ "PR_CREATE" \in Steps /\ StepForPhase(r.phase) = "PR_CREATE" /\ r.phase \in Phases
    BY RecordFacts DEF Steps, StepOf
  <1>2. commit.kind = "commit" /\ commit \in Oid /\ NoOid \in Oid
    BY <1>1, StepFacts, StepTyped, NoReceiptTyped
  <1>3. CASE Block(d, r)
    BY <1>1, <1>3, BlockSafe
  <1>4. CASE Start(d, r, "PR_CREATE", NoOid, commit)
    <2>1. GoodReceipt("PR_CREATE", x, base, Seen)
      BY <1>2 DEF GoodReceipt
    <2> HIDE DEF x
    <2>2. x = [state |-> "executing", from |-> NoOid, to |-> commit]
      BY DEF x
    <2> QED
      BY <1>1, <1>2, <1>4, <2>1, <2>2, StartSafe
  <1> QED
    BY <1>3, <1>4 DEF DerivePrCreate

\* A recorded base advance is saved, and the step goes on from there.
LEMMA TailSafe ==
    ASSUME IInv, NEW d \in Drivers, pc[d] \in StepPcs, StepOf(d) \in {"PUSH", "PR_CREATE"},
           SaveThen(d, [rec[d] EXCEPT !.base = base], "tail")
    PROVE  Safe(d, base, Seen)
  <1> DEFINE q == [rec[d] EXCEPT !.base = base]
  <1>1. /\ ControlTyped /\ base \in Nat /\ base \in Bases /\ Seen \in [Steps -> Nat]
        /\ GoodRecord(rec[d], base, Seen) /\ rec[d] \in Record
    BY RecordFacts
  <1>2. GoodRecord(q, base, Seen)
    BY <1>1, RebasedGood
  <1>3. q.phase = rec[d].phase
    BY <1>1 DEF Record
  <1>4. "tail" \in Pcs
    BY DEF Pcs
  <1>5. StepForPhase(rec[d].phase) \in {"PUSH", "PR_CREATE"}
    BY DEF StepOf
  <1> HIDE DEF q
  <1>6. GoodAt("tail", q, Seen)
    BY <1>3, <1>5 DEF GoodAt, ReceiptPcs, RefPcs, PrPcs, StepOf, Steps
  <1> QED
    BY <1>1, <1>2, <1>4, <1>6, SaveSafe DEF q

LEMMA StepPushSafe ==
    ASSUME IInv, NEW d \in Drivers, StepPush(d)
    PROVE  Safe(d, base, Seen)
  <1> DEFINE r == rec[d]
             receipt == EntryOf(d).receipt
             q == Reopened(r, "PUSH")
             v == Voided(r, "PUSH")
  <1>1. /\ ControlTyped /\ base \in Nat /\ Seen \in [Steps -> Nat]
        /\ GoodRecord(r, base, Seen) /\ "PUSH" \in Steps
    BY RecordFacts DEF Steps
  <1>2. pc[d] = "dispatch" /\ pc[d] \in StepPcs /\ StepOf(d) = "PUSH"
    BY DEF StepPush, StepPcs
  <1>3. StepForPhase(r.phase) = "PUSH" /\ r.steps["PUSH"].receipt = receipt
    BY <1>2, StepFacts DEF StepOf
  <1>4. "idle" \in Pcs \ StepPcs /\ "dispatch" \in Pcs
    BY DEF Pcs, StepPcs
  <1>5. CASE Unsettled(receipt) /\ ReconcilePush(d)
    <2>1. receipt.state # "none" /\ GoodReceipt("PUSH", receipt, base, Seen)
      BY <1>2, <1>5, StepFacts DEF Unsettled
    <2>2. /\ GoodRecord(q, base, Seen) /\ q.phase = r.phase
          /\ q.steps["PUSH"].receipt.state # "none"
      BY <1>1, <1>3, <2>1, ReopenedGood
    <2>3. remote = receipt.to => Seen["PUSH"] >= 1
      BY <2>1, WorldFacts DEF GoodReceipt
    <2>4. GoodRecord(v, base, Seen) /\ v.phase = r.phase
      BY <1>1, <1>3, VoidedGood
    <2> HIDE DEF q, v
    <2>5. GoodAt("dispatch", v, Seen)
      BY <1>1, <1>3, <2>4 DEF GoodAt, ReceiptPcs, RefPcs, PrPcs
    <2>6. CASE SaveThen(d, v, "dispatch")
      BY <1>1, <1>4, <2>4, <2>5, <2>6, SaveSafe
    <2>7. CASE remote = receipt.to /\ SaveThen(d, Succeeded(q, "PUSH"), "idle")
      <3>1. GoodRecord(Succeeded(q, "PUSH"), base, Seen)
        BY <1>1, <1>3, <2>2, <2>3, <2>7, SucceededGood
      <3> QED
        BY <1>1, <1>4, <2>7, <3>1, FreePoint, SaveSafe
    <2>8. CASE Block(d, r)
      BY <1>1, <2>8, BlockSafe
    <2> QED
      BY <1>5, <2>6, <2>7, <2>8 DEF ReconcilePush, q, v
  <1>6. CASE Block(d, r)
    BY <1>1, <1>6, BlockSafe
  <1>7. CASE DerivePush(d)
    BY <1>2, <1>7, DerivePushSafe
  <1>8. CASE SaveThen(d, [r EXCEPT !.base = base], "tail")
    BY <1>2, <1>8, TailSafe
  <1> QED
    BY <1>5, <1>6, <1>7, <1>8 DEF StepPush, AfterBaseAdvance

LEMMA StepPrCreateSafe ==
    ASSUME IInv, NEW d \in Drivers, StepPrCreate(d)
    PROVE  Safe(d, base, Seen)
  <1> DEFINE r == rec[d]
             receipt == EntryOf(d).receipt
             q == Reopened(r, "PR_CREATE")
             v == Voided(r, "PR_CREATE")
             found == Disposition(receipt.to)
  <1>1. /\ ControlTyped /\ base \in Nat /\ Seen \in [Steps -> Nat]
        /\ GoodRecord(r, base, Seen) /\ "PR_CREATE" \in Steps
    BY RecordFacts DEF Steps
  <1>2. pc[d] = "dispatch" /\ pc[d] \in StepPcs /\ StepOf(d) = "PR_CREATE"
    BY DEF StepPrCreate, StepPcs
  <1>3. StepForPhase(r.phase) = "PR_CREATE" /\ r.steps["PR_CREATE"].receipt = receipt
    BY <1>2, StepFacts DEF StepOf
  <1>4. "idle" \in Pcs \ StepPcs /\ "dispatch" \in Pcs /\ "adopt" \in Pcs \ {"save"}
    BY DEF Pcs, StepPcs
  <1>5. CASE Unsettled(receipt) /\ ReconcilePrCreate(d)
    <2>1. receipt.state # "none"
      BY <1>5 DEF Unsettled
    <2>2. /\ GoodRecord(q, base, Seen) /\ q.phase = r.phase
          /\ q.steps["PR_CREATE"].receipt.state # "none"
      BY <1>1, <1>3, <2>1, ReopenedGood
    <2>3. GoodRecord(v, base, Seen) /\ v.phase = r.phase
      BY <1>1, <1>3, VoidedGood
    <2>4. found \in {"stop", "adopt", "absent"}
      BY DEF Disposition
    <2> HIDE DEF q, v, found
    <2>5. GoodAt("dispatch", v, Seen) /\ GoodAt("adopt", q, Seen)
      BY <1>1, <1>3, <2>2, <2>3 DEF GoodAt, ReceiptPcs, RefPcs, PrPcs
    <2>6. CASE SaveThen(d, v, "dispatch")
      BY <1>1, <1>4, <2>3, <2>5, <2>6, SaveSafe
    <2>7. CASE GoWith(d, q, "adopt")
      BY <1>1, <1>4, <2>2, <2>5, <2>7, GoSafe
    <2>8. CASE Block(d, r)
      BY <1>1, <2>8, BlockSafe
    <2> QED
      BY <1>5, <2>4, <2>6, <2>7, <2>8 DEF ReconcilePrCreate, q, v, found
  <1>6. CASE Block(d, r)
    BY <1>1, <1>6, BlockSafe
  <1>7. CASE DerivePrCreate(d)
    BY <1>2, <1>7, DerivePrCreateSafe
  <1>8. CASE SaveThen(d, [r EXCEPT !.base = base], "tail")
    BY <1>2, <1>8, TailSafe
  <1> QED
    BY <1>5, <1>6, <1>7, <1>8 DEF StepPrCreate, AfterBaseAdvance

LEMMA StepTailSafe ==
    ASSUME IInv, NEW d \in Drivers, Tail(d)
    PROVE  Safe(d, base, Seen)
  <1>1. pc[d] = "tail" /\ pc[d] \in StepPcs /\ StepOf(d) \in {"PUSH", "PR_CREATE"}
    BY StepFacts DEF Tail, StepPcs
  <1>2. CASE StepOf(d) = "PUSH"
    BY <1>1, <1>2, DerivePushSafe DEF Tail
  <1>3. CASE StepOf(d) = "PR_CREATE"
    BY <1>1, <1>3, DerivePrCreateSafe DEF Tail
  <1> QED
    BY <1>1, <1>2, <1>3

LEMMA ObserveSafe ==
    ASSUME IInv, NEW d \in Drivers, Observe(d)
    PROVE  Safe(d, base, Seen)
  <1> DEFINE r == rec[d]
             step == StepOf(d)
             receipt == EntryOf(d).receipt
             settled == Succeeded(r, step)
             rebased == [settled EXCEPT !.base = receipt.to.tree]
  <1>1. /\ ControlTyped /\ base \in Nat /\ base \in Bases /\ Seen \in [Steps -> Nat]
        /\ GoodRecord(r, base, Seen)
    BY RecordFacts
  <1>2. pc[d] = "observe" /\ pc[d] \in StepPcs /\ pc[d] \in ReceiptPcs /\ pc[d] \in RefPcs
    BY DEF Observe, StepPcs, ReceiptPcs, RefPcs
  <1>3. /\ step \in {"BASE_REFRESH", "COMMIT", "PUSH"} /\ step \in Steps
        /\ step = StepForPhase(r.phase)
        /\ receipt.state # "none" /\ GoodReceipt(step, receipt, base, Seen)
        /\ r.steps[step].receipt = receipt
        /\ receipt \in Receipt
        /\ step = "BASE_REFRESH" => Seen["BASE_REFRESH"] >= 1
    BY <1>2, StepFacts DEF Steps, StepOf
  <1>4. "idle" \in Pcs \ StepPcs
    BY DEF Pcs, StepPcs
  <1>5. ASSUME Seen[step] >= 1
        PROVE  GoodRecord(settled, base, Seen)
    BY <1>1, <1>3, <1>5, SucceededGood
  <1>6. ASSUME step = "BASE_REFRESH"
        PROVE  GoodRecord(rebased, base, Seen)
    <2>1. receipt.to.tree \in Bases /\ receipt.to.tree <= base
      BY <1>1, <1>3, <1>6, BaseAssumption DEF GoodReceipt, Base, Bases
    <2>2. GoodRecord(settled, base, Seen)
      BY <1>3, <1>5, <1>6
    <2> HIDE DEF settled
    <2> QED
      BY <1>1, <2>1, <2>2, RebasedGood
  <1>7. step = "COMMIT" /\ head = receipt.to => Seen["COMMIT"] >= 1
    BY <1>3, WorldFacts DEF GoodReceipt, Commit
  <1>8. step = "PUSH" /\ remote = receipt.to => Seen["PUSH"] >= 1
    BY <1>3, WorldFacts DEF GoodReceipt
  <1> HIDE DEF settled, rebased
  <1>9. CASE Block(d, r)
    BY <1>1, <1>9, BlockSafe
  <1>10. CASE step = "BASE_REFRESH" /\ SaveThen(d, rebased, "idle")
    BY <1>1, <1>4, <1>6, <1>10, FreePoint, SaveSafe
  <1>11. CASE step = "COMMIT" /\ head = receipt.to /\ SaveThen(d, settled, "idle")
    BY <1>1, <1>4, <1>5, <1>7, <1>11, FreePoint, SaveSafe
  <1>12. CASE step = "PUSH" /\ remote = receipt.to /\ SaveThen(d, settled, "idle")
    BY <1>1, <1>4, <1>5, <1>8, <1>12, FreePoint, SaveSafe
  <1> QED
    BY <1>3, <1>9, <1>10, <1>11, <1>12 DEF Observe, settled, rebased

LEMMA LookUpSafe ==
    ASSUME IInv, NEW d \in Drivers, LookUp(d)
    PROVE  Safe(d, base, Seen)
  <1> DEFINE found == Disposition(EntryOf(d).receipt.to)
  <1>1. /\ ControlTyped /\ base \in Nat /\ Seen \in [Steps -> Nat]
        /\ GoodRecord(rec[d], base, Seen)
    BY RecordFacts
  <1>2. pc[d] \in {"lookup", "relook"} /\ pc[d] \in StepPcs \cap ReceiptPcs \cap PrPcs
    BY DEF LookUp, StepPcs, ReceiptPcs, PrPcs
  <1>3. GoodAt(pc[d], rec[d], Seen)
    BY <1>2, RecordFacts DEF At
  <1>4. GoodAt("adopt", rec[d], Seen) /\ GoodAt("create", rec[d], Seen)
        /\ {"adopt", "create"} \subseteq Pcs \ {"save"}
    BY <1>2, <1>3 DEF GoodAt, StepPcs, ReceiptPcs, RefPcs, PrPcs, Pcs
  <1>5. found \in {"stop", "adopt", "absent"}
    BY DEF Disposition
  <1> HIDE DEF found
  <1>6. CASE Go(d, "adopt") \/ Go(d, "create")
    BY <1>1, <1>4, <1>6, GoSafe DEF Go
  <1>7. CASE Block(d, rec[d])
    BY <1>1, <1>7, BlockSafe
  <1> QED
    BY <1>2, <1>5, <1>6, <1>7 DEF LookUp, found

LEMMA AdoptPrSafe ==
    ASSUME IInv, NEW d \in Drivers, AdoptPr(d)
    PROVE  Safe(d, base, Seen)
  <1> DEFINE r == rec[d]
             commit == EntryOf(d).receipt.to
  <1>1. /\ ControlTyped /\ base \in Nat /\ Seen \in [Steps -> Nat]
        /\ GoodRecord(r, base, Seen) /\ "PR_CREATE" \in Steps
    BY RecordFacts DEF Steps
  <1>2. pc[d] = "adopt" /\ pc[d] \in StepPcs \cap ReceiptPcs \cap PrPcs
    BY DEF AdoptPr, StepPcs, ReceiptPcs, PrPcs
  <1>3. /\ StepForPhase(r.phase) = "PR_CREATE"
        /\ r.steps["PR_CREATE"].receipt.state # "none"
        /\ commit.kind = "commit"
    BY <1>2, StepFacts DEF StepOf, GoodReceipt
  <1>4. "complete" \in Pcs \ StepPcs
    BY DEF Pcs, StepPcs
  <1>5. CASE (openPr = commit \/ commit \in closedPrs)
             /\ SaveThen(d, Succeeded(r, "PR_CREATE"), "complete")
    <2>1. Seen["PR_CREATE"] >= 1
      BY <1>3, <1>5, WorldFacts DEF NoOid
    <2>2. GoodRecord(Succeeded(r, "PR_CREATE"), base, Seen)
      BY <1>1, <1>3, <2>1, SucceededGood
    <2> QED
      BY <1>1, <1>4, <1>5, <2>2, FreePoint, SaveSafe
  <1>6. CASE Block(d, r)
    BY <1>1, <1>6, BlockSafe
  <1> QED
    BY <1>5, <1>6 DEF AdoptPr

LEMMA CompleteSafe ==
    ASSUME IInv, NEW d \in Drivers, Complete(d)
    PROVE  Safe(d, base, Seen)
  <1>1. "idle" \in Pcs \ StepPcs
    BY DEF Pcs, StepPcs
  <1> QED
    BY <1>1, RecordFacts, CompletedGood, FreePoint, SaveSafe DEF Complete

LEMMA ViewPrSafe ==
    ASSUME IInv, NEW d \in Drivers, ViewPr(d)
    PROVE  Safe(d, base, Seen)
  <1> DEFINE r == rec[d]
  <1>1. /\ ControlTyped /\ base \in Nat /\ Seen \in [Steps -> Nat]
        /\ GoodRecord(r, base, Seen)
    BY RecordFacts
  <1>2. "idle" \in Pcs \ StepPcs
    BY DEF Pcs, StepPcs
  <1>3. CASE Block(d, r)
    BY <1>1, <1>3, BlockSafe
  <1>4. CASE Drop(d)
    BY <1>1, <1>4, DropSafe
  <1>5. CASE SaveThen(d, [r EXCEPT !.phase = "COMPLETE"], "idle")
    BY <1>1, <1>2, <1>5, CompletedGood, FreePoint, SaveSafe
  <1>6. CASE Retry(d, r)
    BY <1>1, <1>6, RetrySafe
  <1> QED
    BY <1>3, <1>4, <1>5, <1>6 DEF ViewPr

LEMMA ReadFaultSafe ==
    ASSUME IInv, NEW d \in Drivers, ReadFault(d)
    PROVE  Safe(d, base, Seen)
  BY RecordFacts, RetrySafe DEF ReadFault

LEMMA CrashSafe ==
    ASSUME IInv, NEW d \in Drivers, Crash(d)
    PROVE  Safe(d, base, Seen)
  BY RecordFacts, DropSafe DEF Crash

-----------------------------------------------------------------------------
(* A step of one driver keeps the invariant *)

\* The records and the control, in whatever world the step leads to.
LEMMA MoveKeeps ==
    ASSUME IInv, NEW d \in Drivers,
           NEW b \in Nat, base <= b,
           NEW n \in [Steps -> Nat], \A s \in Steps : Seen[s] <= n[s],
           Safe(d, b, n)
    PROVE  /\ ControlTyped'
           /\ \A o \in Drivers : GoodRecord(rec'[o], b, n)
           /\ \A o \in Drivers : GoodAt(At(pc', cont', o), rec'[o], n)
  <1>1. PICK r \in Record, at \in Pcs :
          Moves(d, r, at) /\ GoodRecord(r, b, n) /\ GoodAt(at, r, n)
    BY DEF Safe
  <1>2. ControlTyped /\ base \in Nat /\ Seen \in [Steps -> Nat]
    BY RecordFacts
  <1>3. /\ rec' = [rec EXCEPT ![d] = r] /\ rec \in [Drivers -> Record]
        /\ rec'[d] = r /\ \A o \in Drivers \ {d} : rec'[o] = rec[o]
    BY <1>1, <1>2 DEF Moves, ControlTyped
  <1>4. ControlTyped'
    BY <1>1, <1>3 DEF Moves, ControlTyped
  <1>5. ASSUME NEW o \in Drivers
        PROVE  GoodRecord(rec'[o], b, n) /\ GoodAt(At(pc', cont', o), rec'[o], n)
    <2>1. CASE o = d
      BY <1>1, <1>3, <2>1 DEF Moves
    <2>2. CASE o # d
      <3>1. rec'[o] = rec[o] /\ At(pc', cont', o) = At(pc, cont, o)
        BY <1>1, <1>3, <2>2 DEF Moves, At
      <3>2. GoodRecord(rec[o], base, Seen) /\ GoodAt(At(pc, cont, o), rec[o], Seen)
        BY <1>5, RecordFacts
      <3>3. GoodRecord(rec[o], b, n)
        BY <1>2, <3>2, GoodGrows
      <3>4. Seen["BASE_REFRESH"] \in Nat /\ n["BASE_REFRESH"] \in Nat
            /\ Seen["BASE_REFRESH"] <= n["BASE_REFRESH"]
        BY <1>2 DEF Steps
      <3>5. GoodAt(At(pc, cont, o), rec[o], n)
        BY <3>2, <3>4 DEF GoodAt
      <3> QED
        BY <3>1, <3>3, <3>5
    <2> QED
      BY <2>1, <2>2
  <1> QED
    BY <1>4, <1>5

WorldTyped ==
    /\ head \in Oid /\ remote \in Oid /\ openPr \in Oid
    /\ index \in Bases /\ base \in Bases
    /\ closedPrs \subseteq Oid
    /\ clash \in BOOLEAN
    /\ landed \in [Steps -> Nat]

HumanTyped == expired \in BOOLEAN /\ recalled \in BOOLEAN /\ budget \in Nat

\* What the invariant says of the world alone.
WorldInv == WorldTyped /\ WorldGood /\ CandidateOnItsBase /\ OneCommitOnePush

\* The world of a step: what took place stays.
Grows ==
    /\ base \in Nat /\ base' \in Nat /\ base <= base'
    /\ Seen \in [Steps -> Nat] /\ Seen' \in [Steps -> Nat]
    /\ \A s \in Steps : Seen[s] <= Seen'[s]

LEMMA Parts ==
    IInv <=> /\ disk \in Record /\ ControlTyped /\ HumanTyped
             /\ RecordsGood /\ ControlGood /\ WorldInv
  BY DEF IInv, TypeOK, ControlTyped, HumanTyped, WorldInv, WorldTyped

LEMMA DriverStep ==
    ASSUME IInv, NEW d \in Drivers, Grows, Safe(d, base', Seen'),
           GoodRecord(disk', base', Seen'), WorldInv', HumanTyped'
    PROVE  IInv'
  <1>1. /\ ControlTyped'
        /\ \A o \in Drivers : GoodRecord(rec'[o], base', Seen')
        /\ \A o \in Drivers : GoodAt(At(pc', cont', o), rec'[o], Seen')
    BY MoveKeeps DEF Grows
  <1>2. disk' \in Record
    BY DEF GoodRecord
  <1>3. RecordsGood'
    BY <1>1 DEF RecordsGood, Good
  <1>4. ControlGood'
    BY <1>1 DEF ControlGood
  <1> QED
    BY <1>1, <1>2, <1>3, <1>4, Parts DEF IInv, TypeOK, ControlTyped, HumanTyped,
       WorldInv, WorldTyped

\* The world and the record in the store are left alone.
LEMMA QuietStep ==
    ASSUME IInv, NEW d \in Drivers, Safe(d, base, Seen), UNCHANGED <<disk, world>>,
           HumanTyped'
    PROVE  IInv'
  <1>1. Seen' = Seen /\ base' = base /\ disk' = disk
    BY DEF world, Seen
  <1>2. WorldInv'
    BY Parts DEF WorldInv, WorldTyped, WorldGood, CandidateOnItsBase, OneCommitOnePush, world
  <1>3. Grows
    BY <1>1, RecordFacts DEF Grows
  <1>4. GoodRecord(disk', base', Seen') /\ Safe(d, base', Seen')
    BY <1>1, RecordFacts
  <1> QED
    BY <1>2, <1>3, <1>4, DriverStep

LEMMA SaveStep ==
    ASSUME IInv, NEW d \in Drivers, Save(d)
    PROVE  IInv'
  <1>1. /\ ControlTyped /\ base \in Nat /\ Seen \in [Steps -> Nat]
        /\ GoodRecord(rec[d], base, Seen)
        /\ GoodAt(At(pc, cont, d), rec[d], Seen)
    BY RecordFacts
  <1>2. pc[d] = "save" /\ cont[d] \in Pcs
    BY <1>1 DEF Save, ControlTyped
  <1>3. Seen' = Seen /\ base' = base
    BY DEF Save, world, Seen
  <1>4. Safe(d, base, Seen)
    <2>1. CASE cont[d] = "idle"
      BY <1>1, <2>1, DropSafe DEF Save
    <2>2. CASE cont[d] # "idle"
      <3>1. /\ pc' = [pc EXCEPT ![d] = cont[d]]
            /\ cont' = [cont EXCEPT ![d] = "idle"] /\ rec' = rec
            /\ confirmed' = confirmed
        BY <2>2 DEF Save
      <3>2. "idle" \in Pcs \ StepPcs
        BY DEF Pcs, StepPcs
      <3>3. rec[d] \in Record /\ rec = [rec EXCEPT ![d] = rec[d]]
        BY <1>1 DEF ControlTyped
      <3>4. CASE cont[d] = "save"
        <4>1. Moves(d, rec[d], "idle")
          BY <1>1, <1>2, <3>1, <3>2, <3>3, <3>4 DEF Moves, At, ControlTyped
        <4> QED
          BY <1>1, <3>2, <3>3, <4>1, FreePoint DEF Safe
      <3>5. CASE cont[d] # "save"
        <4>1. Moves(d, rec[d], cont[d])
          BY <1>1, <1>2, <3>1, <3>2, <3>3, <3>5 DEF Moves, At, ControlTyped
        <4>2. GoodAt(cont[d], rec[d], Seen)
          BY <1>1, <1>2 DEF At
        <4> QED
          BY <1>1, <1>2, <3>3, <4>1, <4>2 DEF Safe
      <3> QED
        BY <3>4, <3>5
    <2> QED
      BY <2>1, <2>2
  <1>5. GoodRecord(disk', base', Seen')
    BY <1>1, <1>3 DEF Save
  <1>6. WorldInv' /\ HumanTyped'
    BY Parts DEF Save, WorldInv, WorldTyped, WorldGood, CandidateOnItsBase,
       OneCommitOnePush, world, human, HumanTyped
  <1>7. Grows
    BY <1>1, <1>3 DEF Grows
  <1> QED
    BY <1>3, <1>4, <1>5, <1>6, <1>7, DriverStep

\* Every driver step that leaves the world and the store as they are.
LEMMA QuietSteps ==
    ASSUME IInv, NEW d \in Drivers,
           \/ Load(d) \/ Refresh(d) \/ Refused(d) \/ StepBaseRefresh(d) \/ Observe(d)
           \/ StepCommit(d) \/ StepPush(d) \/ Tail(d) \/ StepPrCreate(d) \/ LookUp(d)
           \/ AdoptPr(d) \/ Complete(d) \/ ViewPr(d) \/ ReadFault(d) \/ Crash(d)
    PROVE  IInv'
  <1>1. Safe(d, base, Seen)
    BY LoadSafe, RefreshSafe, RefusedSafe, StepBaseRefreshSafe, ObserveSafe, StepCommitSafe,
       StepPushSafe, StepTailSafe, StepPrCreateSafe, LookUpSafe, AdoptPrSafe, CompleteSafe,
       ViewPrSafe, ReadFaultSafe, CrashSafe
  <1>2. UNCHANGED <<disk, world>>
    BY DEF Load, Refresh, Refused, StepBaseRefresh, Observe, StepCommit, StepPush, Tail,
       StepPrCreate, LookUp, AdoptPr, Complete, ViewPr, ReadFault, Crash
  <1>3. HumanTyped
    BY Parts
  <1>4. HumanTyped'
    <2>1. CASE Observe(d) \/ ReadFault(d) \/ Crash(d)
      <3>1. UNCHANGED <<expired, recalled>>
        BY <2>1 DEF Observe, ReadFault, Crash
      <3>2. budget' = budget \/ (budget > 0 /\ budget' = budget - 1)
        BY <2>1 DEF Observe, ReadFault, Crash, Disturb
      <3> QED
        BY <1>3, <3>1, <3>2 DEF HumanTyped
    <2>2. CASE ~(Observe(d) \/ ReadFault(d) \/ Crash(d))
      <3>1. UNCHANGED human
        BY <2>2 DEF Load, Refresh, Refused, StepBaseRefresh, StepCommit, StepPush, Tail,
           StepPrCreate, LookUp, AdoptPr, Complete, ViewPr
      <3> QED
        BY <1>3, <3>1 DEF HumanTyped, human
    <2> QED
      BY <2>1, <2>2
  <1> QED
    BY <1>1, <1>2, <1>4, QuietStep

-----------------------------------------------------------------------------
(* The effects *)

LEMMA ReadTreeStep ==
    ASSUME IInv, NEW d \in Drivers, ReadTree(d)
    PROVE  IInv'
  <1> DEFINE r == rec[d]
             receipt == EntryOf(d).receipt
  <1>1. /\ ControlTyped /\ base \in Nat /\ Seen \in [Steps -> Nat]
        /\ GoodRecord(r, base, Seen) /\ GoodRecord(disk, base, Seen)
    BY RecordFacts
  <1>2. pc[d] = "readtree" /\ pc[d] \in StepPcs \cap ReceiptPcs \cap RefPcs
    BY DEF ReadTree, StepPcs, ReceiptPcs, RefPcs
  <1>3. Seen' = Seen /\ base' = base /\ disk' = disk
    BY DEF ReadTree, Seen
  <1>4. receipt \in Receipt /\ receipt.to.tree \in Bases
    BY <1>2, StepFacts DEF Receipt, Oid
  <1>5. Safe(d, base, Seen)
    <2>1. CASE Go(d, "effect")
      <3>1. GoodAt("effect", r, Seen)
        BY <1>2, RecordFacts DEF At, GoodAt, StepPcs, ReceiptPcs, RefPcs, PrPcs
      <3>2. "effect" \in Pcs \ {"save"}
        BY DEF Pcs
      <3> QED
        BY <1>1, <2>1, <3>1, <3>2, GoSafe DEF Go
    <2>2. CASE Retry(d, r)
      BY <1>1, <2>2, RetrySafe
    <2> QED
      BY <2>1, <2>2 DEF ReadTree
  <1>6. WorldInv'
    BY <1>4, Parts DEF ReadTree, WorldInv, WorldTyped, WorldGood, CandidateOnItsBase,
       OneCommitOnePush
  <1>7. HumanTyped'
    BY Parts DEF ReadTree, HumanTyped, Disturb
  <1>8. Grows
    BY <1>1, <1>3 DEF Grows
  <1> QED
    BY <1>1, <1>3, <1>5, <1>6, <1>7, <1>8, DriverStep

\* A COMMIT receipt the hook accepts starts from the branch, on a base.
LEMMA CommitAllowedFacts ==
    ASSUME IInv, CommitAllowed
    PROVE  head.kind = "base" /\ head.parent = index
  <1> DEFINE x == disk.steps["COMMIT"].receipt
  <1>1. TypeOK /\ RecordsGood /\ "COMMIT" \in Steps
    BY DEF IInv, Steps
  <1>2. GoodEntry("COMMIT", disk.steps["COMMIT"], base, Seen)
    BY <1>1 DEF RecordsGood, Good, GoodRecord
  <1>3. GoodReceipt("COMMIT", x, base, Seen)
    BY <1>2 DEF GoodEntry, CommitAllowed, ReceiptInForce
  <1> QED
    BY <1>3 DEF GoodReceipt, CommitAllowed, Commit

\* A PUSH the hook accepts finds no branch of this delivery on the remote.
LEMMA PushAllowedFacts ==
    ASSUME IInv, PushAllowed
    PROVE  head.kind = "commit" /\ remote.kind \in {"none", "base"}
  <1> DEFINE x == disk.steps["PUSH"].receipt
  <1>1. TypeOK /\ RecordsGood /\ "PUSH" \in Steps
    BY DEF IInv, Steps
  <1>2. GoodEntry("PUSH", disk.steps["PUSH"], base, Seen)
    BY <1>1 DEF RecordsGood, Good, GoodRecord
  <1>3. GoodReceipt("PUSH", x, base, Seen)
    BY <1>2 DEF GoodEntry, PushAllowed, ReceiptInForce
  <1> QED
    BY <1>3 DEF GoodReceipt, PushAllowed

LEMMA LandedGrows ==
    ASSUME IInv, NEW step \in Steps, Landed(step),
           openPr # NoOid \/ closedPrs # {} => (openPr # NoOid \/ closedPrs # {})',
           UNCHANGED base
    PROVE  /\ landed' \in [Steps -> Nat] /\ landed'[step] = landed[step] + 1
           /\ \A s \in Steps : s # step => landed'[s] = landed[s]
           /\ Grows /\ Seen'[step] >= 1
  <1>1. landed \in [Steps -> Nat] /\ base \in Nat
    BY RecordFacts, BaseAssumption DEF IInv, TypeOK, Bases
  <1>2. /\ landed' \in [Steps -> Nat] /\ landed'[step] = landed[step] + 1
        /\ \A s \in Steps : s # step => landed'[s] = landed[s]
    BY <1>1 DEF Landed
  <1>3. Seen \in [Steps -> Nat] /\ Seen' \in [Steps -> Nat]
    BY <1>1, <1>2 DEF Seen
  <1>4. \A s \in Steps : Seen[s] <= Seen'[s]
    BY <1>1, <1>2 DEF Seen
  <1>5. Seen'[step] >= 1
    BY <1>1, <1>2 DEF Seen
  <1> QED
    BY <1>1, <1>2, <1>3, <1>4, <1>5 DEF Grows

\* An effect that lands, seen from the driver it belongs to.
LEMMA EffectLandsKeeps ==
    ASSUME IInv, NEW d \in Drivers, pc[d] = "effect", EffectLands(d)
    PROVE  Grows /\ WorldInv' /\ base' = base /\ Seen'[StepOf(d)] >= 1
  <1> DEFINE step == StepOf(d)
             receipt == EntryOf(d).receipt
  <1>1. pc[d] \in StepPcs \cap ReceiptPcs
    BY DEF StepPcs, ReceiptPcs
  <1>2. step \in Steps /\ GoodReceipt(step, receipt, base, Seen)
        /\ receipt.to \in Oid /\ receipt.from \in Oid
    BY <1>1, StepFacts DEF Receipt
  <1>3. WorldInv
    BY Parts
  <1>4. /\ Landed(step)
        /\ UNCHANGED <<index, base, openPr, closedPrs, clash>>
    BY DEF EffectLands
  <1>5. /\ landed' \in [Steps -> Nat] /\ landed'[step] = landed[step] + 1
        /\ \A s \in Steps : s # step => landed'[s] = landed[s]
        /\ Grows /\ Seen'[step] >= 1
    BY <1>2, <1>4, LandedGrows
  <1>6. /\ landed \in [Steps -> Nat]
        /\ {"BASE_REFRESH", "COMMIT", "PUSH", "PR_CREATE"} \subseteq Steps
    BY <1>3 DEF WorldInv, WorldTyped, Steps
  <1>7. CASE step = "BASE_REFRESH" /\ head = receipt.from /\ head' = receipt.to
             /\ UNCHANGED remote
    <2>1. head.kind = "base" /\ head' = Base(head'.parent) /\ head' \in Oid
      BY <1>2, <1>7 DEF GoodReceipt
    <2>2. landed["COMMIT"] < 1 /\ landed'["COMMIT"] = landed["COMMIT"]
          /\ landed'["PUSH"] = landed["PUSH"] /\ landed'["BASE_REFRESH"] >= 1
      BY <1>3, <1>5, <1>6, <1>7, <2>1 DEF WorldInv, WorldGood
    <2>3. head'.kind = "base"
      BY <2>1 DEF Base
    <2> QED
      BY <1>3, <1>4, <1>5, <1>7, <2>1, <2>2, <2>3
         DEF WorldInv, WorldTyped, WorldGood, CandidateOnItsBase, OneCommitOnePush
  <1>8. CASE step = "COMMIT" /\ CommitAllowed
             /\ head' = Commit(head.parent, index) /\ UNCHANGED remote
    <2>1. head.kind = "base" /\ head.parent = index
      BY <1>8, CommitAllowedFacts
    <2>2. index \in Bases /\ head' = Commit(index, index) /\ head' \in Oid
      BY <1>3, <1>8, <2>1, OidTyped DEF WorldInv, WorldTyped
    <2>3. head'.kind = "commit" /\ head'.parent = head'.tree
      BY <2>2 DEF Commit
    <2>4. landed["COMMIT"] = 0 /\ landed'["COMMIT"] = 1 /\ landed'["PUSH"] = landed["PUSH"]
      BY <1>3, <1>5, <1>6, <1>8, <2>1 DEF WorldInv, WorldGood
    <2> QED
      BY <1>3, <1>4, <1>5, <1>8, <2>2, <2>3, <2>4
         DEF WorldInv, WorldTyped, WorldGood, CandidateOnItsBase, OneCommitOnePush
  <1>9. CASE step = "PUSH" /\ PushAllowed /\ remote' = head /\ UNCHANGED head
    <2>1. head.kind = "commit" /\ remote.kind \in {"none", "base"}
      BY <1>9, PushAllowedFacts
    <2>2. landed["PUSH"] = 0 /\ landed'["PUSH"] = 1 /\ landed'["COMMIT"] = landed["COMMIT"]
      BY <1>3, <1>5, <1>6, <1>9, <2>1 DEF WorldInv, WorldGood
    <2>3. remote' # NoOid
      BY <1>9, <2>1 DEF NoOid
    <2> QED
      BY <1>3, <1>4, <1>5, <1>9, <2>1, <2>2, <2>3
         DEF WorldInv, WorldTyped, WorldGood, CandidateOnItsBase, OneCommitOnePush
  <1>10. base' = base
    BY <1>4
  <1> QED
    BY <1>5, <1>7, <1>8, <1>9, <1>10 DEF EffectLands

LEMMA EffectStep ==
    ASSUME IInv, NEW d \in Drivers, Effect(d)
    PROVE  IInv'
  <1>1. /\ ControlTyped /\ base \in Nat /\ Seen \in [Steps -> Nat]
        /\ GoodRecord(rec[d], base, Seen) /\ GoodRecord(disk, base, Seen)
    BY RecordFacts
  <1>2. pc[d] = "effect" /\ disk' = disk
    BY DEF Effect
  <1>3. HumanTyped
    BY Parts
  <1>4. HumanTyped'
    <2>1. UNCHANGED <<expired, recalled>>
      BY DEF Effect
    <2>2. budget' = budget \/ (budget > 0 /\ budget' = budget - 1)
      BY DEF Effect, Disturb
    <2> QED
      BY <1>3, <2>1, <2>2 DEF HumanTyped
  <1>5. CASE UNCHANGED world /\ Retry(d, rec[d])
    <2>1. Safe(d, base, Seen)
      BY <1>1, <1>5, RetrySafe
    <2> QED
      BY <1>2, <1>4, <1>5, <2>1, QuietStep
  <1>6. CASE EffectLands(d) /\ (Go(d, "observe") \/ Retry(d, rec[d]))
    <2>1. Grows /\ WorldInv' /\ base' = base /\ Seen'[StepOf(d)] >= 1
      BY <1>2, <1>6, EffectLandsKeeps
    <2>2. GoodRecord(rec[d], base', Seen') /\ GoodRecord(disk', base', Seen')
      BY <1>1, <1>2, <2>1, GoodGrows DEF Grows
    <2>3. Safe(d, base', Seen')
      <3>1. CASE Go(d, "observe")
        <4>1. GoodAt("observe", rec[d], Seen')
          BY <1>2, <2>1, RecordFacts
             DEF At, GoodAt, StepPcs, ReceiptPcs, RefPcs, PrPcs, StepOf
        <4>2. "observe" \in Pcs \ {"save"}
          BY DEF Pcs
        <4> QED
          BY <1>1, <2>1, <2>2, <3>1, <4>1, <4>2, GoSafe DEF Go, Grows
      <3>2. CASE Retry(d, rec[d])
        BY <1>1, <2>1, <2>2, <3>2, RetrySafe DEF Grows
      <3> QED
        BY <1>6, <3>1, <3>2
    <2> QED
      BY <1>4, <2>1, <2>2, <2>3, DriverStep
  <1> QED
    BY <1>5, <1>6 DEF Effect

LEMMA CreatePrStep ==
    ASSUME IInv, NEW d \in Drivers, CreatePr(d)
    PROVE  IInv'
  <1>1. /\ ControlTyped /\ base \in Nat /\ Seen \in [Steps -> Nat]
        /\ GoodRecord(rec[d], base, Seen) /\ GoodRecord(disk, base, Seen)
    BY RecordFacts
  <1>2. pc[d] = "create" /\ disk' = disk
    BY DEF CreatePr
  <1>3. HumanTyped /\ WorldInv
    BY Parts
  <1>4. HumanTyped'
    <2>1. UNCHANGED <<expired, recalled>>
      BY DEF CreatePr
    <2>2. budget' = budget \/ (budget > 0 /\ budget' = budget - 1)
      BY DEF CreatePr, Disturb
    <2> QED
      BY <1>3, <2>1, <2>2 DEF HumanTyped
  <1>5. CASE UNCHANGED world /\ Retry(d, rec[d])
    <2>1. Safe(d, base, Seen)
      BY <1>1, <1>5, RetrySafe
    <2> QED
      BY <1>2, <1>4, <1>5, <2>1, QuietStep
  <1>6. CASE PrLands /\ (Go(d, "relook") \/ Retry(d, rec[d]))
    <2>1. /\ openPr = NoOid /\ openPr' = remote /\ Landed("PR_CREATE")
          /\ UNCHANGED <<head, index, base, remote, closedPrs, clash>>
      BY <1>6 DEF PrLands
    <2>2. /\ landed' \in [Steps -> Nat] /\ Grows
          /\ \A s \in Steps : s # "PR_CREATE" => landed'[s] = landed[s]
      BY <2>1, LandedGrows DEF Steps
    <2>3. /\ landed'["COMMIT"] = landed["COMMIT"] /\ landed'["PUSH"] = landed["PUSH"]
          /\ landed'["BASE_REFRESH"] = landed["BASE_REFRESH"]
      BY <2>2 DEF Steps
    <2>4. WorldInv'
      BY <1>3, <2>1, <2>2, <2>3
         DEF WorldInv, WorldTyped, WorldGood, CandidateOnItsBase, OneCommitOnePush
    <2>5. GoodRecord(rec[d], base', Seen') /\ GoodRecord(disk', base', Seen')
      BY <1>1, <1>2, <2>2, GoodGrows DEF Grows
    <2>6. Safe(d, base', Seen')
      <3>1. CASE Go(d, "relook")
        <4>1. GoodAt("relook", rec[d], Seen')
          BY <1>2, RecordFacts DEF At, GoodAt, StepPcs, ReceiptPcs, RefPcs, PrPcs
        <4>2. "relook" \in Pcs \ {"save"}
          BY DEF Pcs
        <4> QED
          BY <1>1, <2>2, <2>5, <3>1, <4>1, <4>2, GoSafe DEF Go, Grows
      <3>2. CASE Retry(d, rec[d])
        BY <1>1, <2>2, <2>5, <3>2, RetrySafe DEF Grows
      <3> QED
        BY <1>6, <3>1, <3>2
    <2> QED
      BY <1>4, <2>2, <2>4, <2>5, <2>6, DriverStep
  <1> QED
    BY <1>5, <1>6 DEF CreatePr

-----------------------------------------------------------------------------
(* Outside events *)

LEMMA OutsideStep ==
    ASSUME IInv, UNCHANGED <<pc, rec, cont>>,
           confirmed' \in [Drivers -> Steps \cup {"none"}],
           Grows, GoodRecord(disk', base', Seen'), WorldInv', HumanTyped'
    PROVE  IInv'
  <1>1. ControlTyped
    BY Parts
  <1>2. ASSUME NEW o \in Drivers
        PROVE  GoodRecord(rec[o], base', Seen') /\ GoodAt(At(pc, cont, o), rec[o], Seen')
    <2>1. GoodRecord(rec[o], base, Seen) /\ GoodAt(At(pc, cont, o), rec[o], Seen)
      BY RecordFacts
    <2>2. GoodRecord(rec[o], base', Seen')
      BY <2>1, GoodGrows DEF Grows
    <2>3. Seen["BASE_REFRESH"] \in Nat /\ Seen'["BASE_REFRESH"] \in Nat
          /\ Seen["BASE_REFRESH"] <= Seen'["BASE_REFRESH"]
      BY DEF Grows, Steps
    <2> QED
      BY <2>1, <2>2, <2>3 DEF GoodAt
  <1>3. pc' = pc /\ cont' = cont /\ rec' = rec
    OBVIOUS
  <1>4. RecordsGood' /\ ControlGood'
    BY <1>2, <1>3 DEF RecordsGood, Good, ControlGood
  <1>5. disk' \in Record
    BY DEF GoodRecord
  <1> QED
    BY <1>1, <1>3, <1>4, <1>5 DEF IInv, TypeOK, ControlTyped, HumanTyped, WorldInv, WorldTyped

LEMMA OutsideSteps ==
    ASSUME IInv, Outside
    PROVE  IInv'
  <1>1. /\ base \in Nat /\ base \in Bases /\ Seen \in [Steps -> Nat]
        /\ GoodRecord(disk, base, Seen)
    BY BaseAssumption DEF IInv, TypeOK, RecordsGood, Good, Seen, Bases
  <1>2. HumanTyped /\ WorldInv /\ confirmed \in [Drivers -> Steps \cup {"none"}]
    BY Parts DEF ControlTyped
  <1>3. Foreign \in Oid /\ Foreign.kind = "foreign" /\ Foreign # NoOid
    BY OidTyped, BaseAssumption DEF Bases, Foreign, NoOid
  <1>4. CASE Revoke
    <2>1. UNCHANGED <<control, world>> /\ disk' = Revoked(disk)
          /\ recalled' = TRUE /\ expired' = expired /\ budget > 0 /\ budget' = budget - 1
      BY <1>4 DEF Revoke, Disturb
    <2>2. Seen' = Seen /\ base' = base
      BY <2>1 DEF world, Seen
    <2>3. GoodRecord(disk', base', Seen') /\ Grows
      BY <1>1, <2>1, <2>2, RevokedGood DEF Grows
    <2>4. WorldInv' /\ HumanTyped'
      BY <1>2, <2>1 DEF WorldInv, WorldTyped, WorldGood, CandidateOnItsBase,
         OneCommitOnePush, world, HumanTyped
    <2> QED
      BY <1>2, <2>1, <2>3, <2>4, OutsideStep DEF control
  <1>5. CASE Expire
    <2>1. UNCHANGED <<disk, control, world>>
          /\ expired' = TRUE /\ recalled' = recalled /\ budget > 0 /\ budget' = budget - 1
      BY <1>5 DEF Expire, Disturb
    <2>2. Seen' = Seen /\ base' = base
      BY <2>1 DEF world, Seen
    <2>3. GoodRecord(disk', base', Seen') /\ Grows
      BY <1>1, <2>1, <2>2 DEF Grows
    <2>4. WorldInv' /\ HumanTyped'
      BY <1>2, <2>1 DEF WorldInv, WorldTyped, WorldGood, CandidateOnItsBase,
         OneCommitOnePush, world, HumanTyped
    <2> QED
      BY <1>2, <2>1, <2>3, <2>4, OutsideStep DEF control
  <1>6. CASE MoveBase
    <2>1. /\ UNCHANGED <<disk, control>> /\ expired' = expired /\ recalled' = recalled
          /\ budget > 0 /\ budget' = budget - 1
          /\ base < MaxBase /\ base' = base + 1 /\ (clash' = clash \/ clash' = TRUE)
          /\ UNCHANGED <<head, index, remote, openPr, closedPrs, landed>>
      BY <1>6 DEF MoveBase, Disturb
    <2>2. Seen' = Seen /\ base' \in Bases /\ base' \in Nat /\ base <= base'
      BY <1>1, <2>1, BaseAssumption DEF Seen, Bases
    <2>3. Grows
      BY <1>1, <2>2 DEF Grows
    <2>4. GoodRecord(disk', base', Seen')
      BY <1>1, <2>1, <2>3, GoodGrows DEF Grows
    <2>5. WorldTyped' /\ HumanTyped'
      <3>1. clash \in BOOLEAN
        BY <1>2 DEF WorldInv, WorldTyped
      <3>2. clash' \in BOOLEAN
        BY <2>1, <3>1, Zenon
      <3>3. WorldTyped'
        BY <1>2, <2>1, <2>2, <3>2, Zenon DEF WorldInv, WorldTyped
      <3>4. HumanTyped'
        BY <1>2, <2>1 DEF HumanTyped
      <3> QED
        BY <3>3, <3>4
    <2>6. WorldGood' /\ CandidateOnItsBase' /\ OneCommitOnePush'
      BY <1>2, <2>1 DEF WorldInv, WorldGood, CandidateOnItsBase, OneCommitOnePush
    <2> QED
      BY <1>2, <2>1, <2>3, <2>4, <2>5, <2>6, OutsideStep DEF WorldInv, control
  <1>7. CASE MoveRef
    <2>1. /\ UNCHANGED <<disk, control>> /\ expired' = expired /\ recalled' = recalled
          /\ budget > 0 /\ budget' = budget - 1
          /\ head' \in {head, Foreign} /\ remote' \in {remote, Foreign}
          /\ UNCHANGED <<index, base, openPr, closedPrs, clash, landed>>
      BY <1>7 DEF MoveRef, Disturb
    <2>2. Seen' = Seen /\ base' = base
      BY <2>1 DEF Seen
    <2>3. GoodRecord(disk', base', Seen') /\ Grows
      BY <1>1, <2>1, <2>2 DEF Grows
    <2>4. WorldInv' /\ HumanTyped'
      BY <1>2, <1>3, <2>1 DEF WorldInv, WorldTyped, WorldGood, CandidateOnItsBase,
         OneCommitOnePush, HumanTyped
    <2> QED
      BY <1>2, <2>1, <2>3, <2>4, OutsideStep DEF control
  <1>8. CASE MovePr \/ GithubCatchesUp
    <2>1. /\ UNCHANGED <<disk, control>> /\ expired' = expired /\ recalled' = recalled
          /\ budget' = budget \/ (budget > 0 /\ budget' = budget - 1)
          /\ UNCHANGED <<head, index, base, remote, clash, landed>>
      BY <1>8 DEF MovePr, GithubCatchesUp, Disturb, human
    <2>2. /\ openPr' \in {openPr, remote, NoOid} /\ (openPr' # NoOid => remote # NoOid)
          /\ closedPrs' = closedPrs \cup {openPr} \/ closedPrs' = closedPrs
          /\ openPr # NoOid \/ closedPrs # {} => openPr' # NoOid \/ closedPrs' # {}
      BY <1>2, <1>8 DEF MovePr, GithubCatchesUp, WorldInv, WorldGood
    <2>3. Grows
      BY <1>1, <1>2, <2>1, <2>2 DEF Grows, Seen, WorldInv, WorldTyped
    <2>4. GoodRecord(disk', base', Seen')
      BY <1>1, <2>1, <2>3, GoodGrows DEF Grows
    <2>5. NoOid \in Oid
      BY NoReceiptTyped
    <2>6. WorldInv' /\ HumanTyped'
      BY <1>2, <2>1, <2>2, <2>5 DEF WorldInv, WorldTyped, WorldGood, CandidateOnItsBase,
         OneCommitOnePush, HumanTyped
    <2> QED
      BY <1>2, <2>1, <2>3, <2>4, <2>6, OutsideStep DEF control
  <1> QED
    BY <1>4, <1>5, <1>6, <1>7, <1>8 DEF Outside

\* A confirmation is given or refused: nothing else changes.
LEMMA ConfirmationStep ==
    ASSUME IInv, NEW d \in Drivers, Confirm(d) \/ Withdraw(d)
    PROVE  IInv'
  <1>1. UNCHANGED <<disk, pc, rec, cont, world, human>>
    BY DEF Confirm, Withdraw
  <1>2. /\ confirmed \in [Drivers -> Steps \cup {"none"}]
        /\ GoodRecord(disk, base, Seen) /\ base \in Nat /\ Seen \in [Steps -> Nat]
        /\ WorldInv /\ HumanTyped
    BY RecordFacts, Parts DEF ControlTyped
  <1>3. confirmed' \in [Drivers -> Steps \cup {"none"}]
    <2>1. PICK v \in Steps \cup {"none"} : confirmed' = [confirmed EXCEPT ![d] = v]
      BY DEF Confirm, Withdraw, OfficeSteps, Steps
    <2> QED
      BY <1>2, <2>1
  <1>4. Seen' = Seen /\ base' = base /\ disk' = disk
    BY <1>1 DEF world, Seen
  <1>5. Grows /\ GoodRecord(disk', base', Seen')
    BY <1>2, <1>4 DEF Grows
  <1>6. WorldInv' /\ HumanTyped'
    BY <1>1, <1>2 DEF WorldInv, WorldTyped, WorldGood, CandidateOnItsBase,
       OneCommitOnePush, world, human, HumanTyped
  <1> QED
    BY <1>1, <1>3, <1>5, <1>6, OutsideStep

-----------------------------------------------------------------------------
(* The invariant holds *)

LEMMA InitHolds == Init => IInv
  <1> SUFFICES ASSUME Init PROVE IInv
    OBVIOUS
  <1>1. NoOid \in Oid /\ Base(0) \in Oid /\ 0 \in Bases /\ base \in Nat
    BY OidTyped, BaseAssumption DEF Bases, Init
  <1>2. Seen \in [Steps -> Nat] /\ landed \in [Steps -> Nat]
    BY DEF Init, Seen
  <1>3. GoodRecord(NewRecord, base, Seen) /\ NewRecord \in Record
    BY <1>1, <1>2, NewRecordGood DEF GoodRecord
  <1>4. RecordsGood
    BY <1>3 DEF RecordsGood, Good, Init
  <1>5. "idle" \in Pcs \ StepPcs
    BY DEF Pcs, StepPcs
  <1>6. ControlGood
    BY <1>5, FreePoint DEF ControlGood, At, Init
  <1>7. ControlTyped /\ HumanTyped
    BY <1>3, <1>5, DisturbedAssumption DEF ControlTyped, HumanTyped, Init
  <1>8. WorldInv
    <2>1. WorldTyped
      BY <1>1, <1>2 DEF Init, WorldTyped
    <2>2. /\ head = Base(0) /\ head.kind = "base" /\ head.parent = 0
          /\ remote = NoOid \/ remote = Base(0)
          /\ remote.kind \in {"none", "base"} /\ openPr = remote
          /\ landed["COMMIT"] = 0 /\ landed["PUSH"] = 0
      BY DEF Init, Base, NoOid, Steps
    <2>3. WorldGood
      BY <2>2 DEF WorldGood
    <2> QED
      BY <2>1, <2>2, <2>3 DEF WorldInv, CandidateOnItsBase, OneCommitOnePush
  <1>9. disk \in Record
    BY <1>3 DEF Init
  <1> QED
    BY <1>4, <1>6, <1>7, <1>8, <1>9, Parts

LEMMA StepHolds == IInv /\ [Next]_vars => IInv'
  <1> SUFFICES ASSUME IInv, [Next]_vars PROVE IInv'
    OBVIOUS
  <1>1. CASE UNCHANGED vars
    BY <1>1 DEF vars, control, world, human, IInv, TypeOK, RecordsGood, Good, ControlGood,
       WorldGood, CandidateOnItsBase, OneCommitOnePush, Seen
  <1>2. ASSUME NEW d \in Drivers, Confirm(d) \/ Drive(d) \/ ReadFault(d) \/ Crash(d)
        PROVE  IInv'
    BY <1>2, ConfirmationStep, QuietSteps, SaveStep, ReadTreeStep, EffectStep, CreatePrStep DEF Drive
  <1>3. CASE Outside
    BY <1>3, OutsideSteps
  <1> QED
    BY <1>1, <1>2, <1>3 DEF Next

THEOREM Invariance == Spec => []IInv
  BY InitHolds, StepHolds, PTL DEF Spec

\* The store, the copies and the world keep their types whatever the drivers
\* and the outside do (machine.py advance_once; validate_authorization).
THEOREM TypeCorrect == Spec => []TypeOK
  <1>1. IInv => TypeOK
    BY DEF IInv
  <1> QED
    BY <1>1, Invariance, PTL

\* Whatever drives, crashes or is retried, the delivery's commit carries the
\* candidate on its own parent (_step_commit, receipts.guard_decision).
THEOREM CandidateSafe == Spec => []CandidateOnItsBase
  <1>1. IInv => CandidateOnItsBase
    BY DEF IInv
  <1> QED
    BY <1>1, Invariance, PTL

\* However many processes drive the delivery, the hook lets one commit and
\* one push through (receipts.guard_decision under the git ref lock).
THEOREM EffectsOnce == Spec => []OneCommitOnePush
  <1>1. IInv => OneCommitOnePush
    BY DEF IInv
  <1> QED
    BY <1>1, Invariance, PTL

\* A step is recorded as succeeded only when its effect exists (_succeed and
\* the reconciliations that reach it).
THEOREM RecordTruthful == Spec => []RecordedIsReal
  <1>1. IInv => RecordedIsReal
    <2> SUFFICES ASSUME IInv, NEW s \in Steps, disk.steps[s].state = "succeeded"
                 PROVE  landed[s] >= 1 \/ (s = "PR_CREATE" /\ (openPr # NoOid \/ closedPrs # {}))
      BY DEF RecordedIsReal
    <2>1. GoodEntry(s, disk.steps[s], base, Seen)
      BY DEF IInv, RecordsGood, Good, GoodRecord
    <2> QED
      BY <2>1 DEF GoodEntry, Seen
  <1> QED
    BY <1>1, Invariance, PTL

\* A push that lands found no foreign branch on the remote: the hook binds the
\* old value the receipt names (receipts.guard_decision, PUSH).
THEOREM PushSafe == Spec => PushNeverOverwrites
  <1> DEFINE A == landed'["PUSH"] > landed["PUSH"] => remote # Foreign
  <1>1. IInv /\ [Next]_vars => [A]_vars
    <2> SUFFICES ASSUME IInv, [Next]_vars PROVE A
      OBVIOUS
    <2>1. landed["PUSH"] \in Nat /\ landed \in [Steps -> Nat] /\ "PUSH" \in Steps
      BY DEF IInv, TypeOK, Steps
    <2>2. ASSUME landed' = landed
          PROVE  A
      BY <2>1, <2>2
    <2>3. ASSUME NEW d \in Drivers, CreatePr(d)
          PROVE  A
      <3>1. UNCHANGED world \/ landed' = [landed EXCEPT !["PR_CREATE"] = @ + 1]
        BY <2>3 DEF CreatePr, PrLands, Landed
      <3>2. landed'["PUSH"] = landed["PUSH"]
        BY <2>1, <3>1 DEF world
      <3> QED
        BY <2>1, <3>2
    <2>4. ASSUME NEW d \in Drivers, Effect(d)
          PROVE  A
      <3>1. CASE UNCHANGED world
        BY <2>2, <3>1 DEF world
      <3>2. CASE EffectLands(d) /\ PushAllowed
        BY <3>2, PushAllowedFacts DEF Foreign
      <3>3. CASE EffectLands(d) /\ StepOf(d) # "PUSH"
        <4>1. landed' = [landed EXCEPT ![StepOf(d)] = @ + 1]
          BY <3>3 DEF EffectLands, Landed
        <4>2. landed'["PUSH"] = landed["PUSH"]
          BY <2>1, <3>3, <4>1
        <4> QED
          BY <2>1, <4>2
      <3> QED
        BY <2>4, <3>1, <3>2, <3>3 DEF Effect, EffectLands
    <2>5. ASSUME NEW d \in Drivers,
                 \/ Load(d) \/ Refresh(d) \/ Refused(d) \/ StepBaseRefresh(d) \/ Observe(d)
                 \/ StepCommit(d) \/ StepPush(d) \/ Tail(d) \/ StepPrCreate(d) \/ LookUp(d)
                 \/ AdoptPr(d) \/ Complete(d) \/ ViewPr(d) \/ ReadFault(d) \/ Crash(d)
                 \/ Save(d) \/ ReadTree(d) \/ Confirm(d) \/ Withdraw(d)
          PROVE  landed' = landed
      BY <2>5 DEF Load, Refresh, Refused, StepBaseRefresh, Observe, StepCommit, StepPush,
         Tail, StepPrCreate, LookUp, AdoptPr, Complete, ViewPr, ReadFault, Crash, Save,
         ReadTree, Confirm, Withdraw, world
    <2>6. ASSUME Outside
          PROVE  landed' = landed
      BY <2>6 DEF Outside, Revoke, Expire, MoveBase, MoveRef, MovePr, GithubCatchesUp, world
    <2>7. CASE UNCHANGED vars
      BY <2>2, <2>7 DEF vars, world
    <2> QED
      BY <2>2, <2>3, <2>4, <2>5, <2>6, <2>7 DEF Next, Drive
  <1> QED
    BY <1>1, Invariance, PTL DEF Spec, PushNeverOverwrites
=============================================================================
