------------------------------ MODULE Retention -----------------------------
(***************************************************************************)
(* Local retention over one state directory: a mission that is over for    *)
(* long enough is reclaimed by a sweep, and one that is over may be        *)
(* deleted by its owner.  Both reduce three stores, one after the other,   *)
(* each under the store's own lock, and may die between two of them; the   *)
(* retention record says beforehand what is being done, and a later sweep  *)
(* goes on with it.                                                        *)
(*                                                                         *)
(* `keeper` is the sweep or the deletion that holds retention's own lock.  *)
(***************************************************************************)
EXTENDS PanelJournal

CONSTANT MaxReclaims    \* missions one sweep reclaims at most

ASSUME RetentionAssumption == MaxReclaims \in Nat \ {0}

VARIABLES
    record,     \* retention's record of each mission
    texts,      \* what is left of the diagnostic texts in the mission's run
    keeper      \* the sweep or the deletion under way

retention == <<record, texts, keeper>>
vars == <<turns, up, registry, sender, running, submit, requests, mission,
          faults, record, texts, keeper>>

ReducedPhases == {"reclaiming", "reclaimed", "deleting", "deleted"}
Over == {"over", "due"}

NoRecord == [phase |-> "intact", summary |-> FALSE, kept |-> {}]

\* `life` and `seen` are what was loaded of the missions and of the journal,
\* `release` the conversations judged, `prior` the record before a deletion.
Rest == [op |-> "none", at |-> "idle"]
Begun(op, at, r) ==
    [op |-> op, at |-> at, ref |-> r, done |-> 0, life |-> mission, seen |-> NoTurns,
     release |-> {}, kept |-> {}, bound |-> FALSE, prior |-> NoRecord]

\* Faulty variant: what was reclaimed before keeps its mark.
MarkedOnce(words, outcome) == IF words = "kept" THEN outcome ELSE words
\* A deletion overwrites the mark of a reclamation; nothing else is marked again.
Marked(words, outcome) ==
    IF words = "kept" \/ outcome = "deleted" THEN outcome ELSE words

Outcome(r) == IF record[r].phase = "deleting" THEN "deleted" ELSE "reclaimed"

-----------------------------------------------------------------------------
(* What a loaded journal says of missions and conversations.               *)

ConversationsOf(j, r) == {j[t].conversation : t \in {u \in Turn : j[u].ref = r}}

\* The missions a conversation produced, as far as its submissions name them.
Named(j, c) == {j[t].ref : t \in Of(j, c)} \ {None}

\* The turns of some conversations, byte for byte.
Part(j, conversations) ==
    [t \in Turn |-> IF j[t].conversation \in conversations THEN j[t] ELSE NoTurn]

\* A mission's words may go when it is over, and due or reduced before.
Safe(life, r) ==
    /\ requests[r].bound
    /\ life[r] \in Over
    /\ \/ record[r].phase \in ReducedPhases
       \/ record[r].phase = "observed" /\ life[r] = "due"

-----------------------------------------------------------------------------
(* A sweep takes the missions in the order of their keys.                  *)

\* Every mission found over is put on record first.
SweepStarts ==
    /\ keeper = Rest
    /\ record' = [r \in Ref |-> IF mission[r] \in Over /\ record[r].phase = "intact"
                                THEN [record[r] EXCEPT !.phase = "observed"] ELSE record[r]]
    /\ keeper' = Begun("sweep", "next", 1)
    /\ UNCHANGED <<journal, texts>>

\* Faulty variant: what was interrupted is left as it is.
WantedFresh(r) ==
    \/ record[r].phase = "observed" /\ keeper.life[r] = "due"
    \/ record[r].phase = "reclaimed" /\ record[r].kept # {}

\* One that was interrupted, is due, or is still kept for another mission.
Wanted(r) ==
    \/ record[r].phase \in {"reclaiming", "deleting"}
    \/ record[r].phase = "observed" /\ keeper.life[r] = "due"
    \/ record[r].phase = "reclaimed" /\ record[r].kept # {}

\* The bound counts every mission the sweep went through with.
Turned(done) ==
    keeper' = [Begun("sweep", "next", keeper.ref + 1)
               EXCEPT !.done = done, !.life = keeper.life]

\* Those beyond the bound are left to the next sweep, and so is one whose run
\* guard is held elsewhere.
SweepTakes ==
    /\ keeper.at = "next"
    /\ IF keeper.ref > MaxRef THEN keeper' = Rest /\ NoFault
       ELSE IF Wanted(keeper.ref) /\ keeper.done < MaxReclaims
       THEN \/ keeper' = [keeper EXCEPT !.at = "read"] /\ NoFault
            \/ Turned(keeper.done) /\ Fault
       ELSE Turned(keeper.done) /\ NoFault
    /\ UNCHANGED <<turns, up, registry, sender, running, submit, requests, mission,
                   record, texts>>

\* The owner asks to delete a mission that is over.
DeleteStarts(r) ==
    /\ up
    /\ keeper = Rest
    /\ mission[r] \in Over
    /\ record[r].phase # "deleted"
    /\ keeper' = Begun("delete", "read", r)
    /\ UNCHANGED <<journal, record, texts>>

\* The journal is loaded before the requests.
Reads ==
    /\ keeper.at = "read"
    /\ keeper' = [keeper EXCEPT !.at = "judge", !.seen = turns]
    /\ UNCHANGED <<journal, record, texts>>

Reduces(release, kept) ==
    keeper' = [keeper EXCEPT !.at = "journal", !.seen = Part(@, release),
                             !.release = release, !.kept = kept,
                             !.bound = requests[keeper.ref].bound,
                             !.prior = IF keeper.op = "delete" THEN record[keeper.ref] ELSE @]

\* A conversation goes once every mission it produced is safe, and until then the
\* mission is kept for those that are not; a deletion that was interrupted waits
\* for them.  The summary is taken before anything is reduced.
SweepJudges ==
    LET r == keeper.ref
        mine == IF requests[r].bound THEN ConversationsOf(keeper.seen, r) ELSE {}
        unsafe(c) == {s \in Named(keeper.seen, c) \ {r} : ~Safe(keeper.life, s)}
        kept == UNION {unsafe(c) : c \in mine}
    IN
    /\ keeper.op = "sweep" /\ keeper.at = "judge"
    /\ IF record[r].phase = "deleting" /\ kept # {}
       THEN Turned(keeper.done) /\ record' = record
       ELSE /\ Reduces({c \in mine : unsafe(c) = {}}, kept)
            /\ record' = IF record[r].phase = "observed"
                         THEN [record EXCEPT ![r].phase = "reclaiming", ![r].summary = TRUE]
                         ELSE record
    /\ UNCHANGED <<journal, texts>>

\* The owner deletes a mission this panel submitted whose conversation produced no
\* other; otherwise, or while its run guard is held, nothing is done.  The
\* intent is saved first, and the summary goes with it.
DeleteJudges ==
    LET r == keeper.ref
        mine == ConversationsOf(keeper.seen, r)
        others == (UNION {Named(keeper.seen, c) : c \in mine}) \ {r}
    IN
    /\ keeper.op = "delete" /\ keeper.at = "judge"
    /\ \/ /\ requests[r].bound /\ mine # {} /\ others = {}
          /\ Reduces(mine, {})
          /\ record' = [record EXCEPT ![r] = [NoRecord EXCEPT !.phase = "deleting"]]
       \/ keeper' = Rest /\ record' = record
    /\ UNCHANGED <<journal, texts>>

-----------------------------------------------------------------------------
(* The reduction.                                                          *)

\* Faulty variant: the journal reduces what it holds now.
UnchangedSinceAny == TRUE
\* Nothing of the conversations was written since they were judged.
UnchangedSince == Part(turns, keeper.release) = keeper.seen

Quiet == \A t \in Turn : turns[t].conversation \in keeper.release => ~InFlight(turns, t)

\* The check and the reduction are one step, under the journal's lock.  A refused
\* sweep goes on with the next mission, a refused deletion is withdrawn.
ReduceJournal ==
    LET outcome == Outcome(keeper.ref) IN
    /\ keeper.at = "journal"
    /\ IF Quiet /\ UnchangedSince
       THEN /\ turns' = [t \in Turn |->
                IF turns[t].conversation \in keeper.release
                THEN [turns[t] EXCEPT !.words = Marked(@, outcome)] ELSE turns[t]]
            /\ keeper' = [keeper EXCEPT !.at = "requests", !.seen = NoTurns, !.release = {},
                                        !.prior = NoRecord]
       ELSE /\ turns' = turns
            /\ IF keeper.op = "sweep" THEN Turned(keeper.done)
               ELSE keeper' = [keeper EXCEPT !.at = "withdraw", !.seen = NoTurns,
                                             !.release = {}]
    /\ UNCHANGED <<up, registry, sender, running, submit, requests, mission,
                   faults, record, texts>>

\* The record is put back as it was before the refused deletion.
Withdraw ==
    /\ keeper.at = "withdraw"
    /\ record' = [record EXCEPT ![keeper.ref] = keeper.prior]
    /\ keeper' = Rest
    /\ UNCHANGED <<journal, texts>>

ReduceRequests ==
    LET r == keeper.ref IN
    /\ keeper.at = "requests"
    /\ requests' = IF keeper.bound
                   THEN [requests EXCEPT ![r].words = Marked(@, Outcome(r))] ELSE requests
    /\ keeper' = [keeper EXCEPT !.at = "texts"]
    /\ UNCHANGED <<turns, up, registry, sender, running, submit, mission, faults,
                   record, texts>>

ReduceTexts ==
    LET r == keeper.ref IN
    /\ keeper.at = "texts"
    /\ texts' = [texts EXCEPT ![r] = Marked(@, Outcome(r))]
    /\ keeper' = [keeper EXCEPT !.at = "close"]
    /\ UNCHANGED <<journal, record>>

Close ==
    LET r == keeper.ref IN
    /\ keeper.at = "close"
    /\ record' = [record EXCEPT ![r] =
                    [phase |-> Outcome(r), kept |-> keeper.kept,
                     summary |-> record[r].summary /\ Outcome(r) = "reclaimed"]]
    /\ IF keeper.op = "sweep" THEN Turned(keeper.done + 1) ELSE keeper' = Rest
    /\ UNCHANGED <<journal, texts>>

KeeperProceeds ==
    \/ SweepTakes \/ Reads \/ SweepJudges \/ DeleteJudges
    \/ ReduceJournal \/ Withdraw \/ ReduceRequests \/ ReduceTexts \/ Close

\* A write fails, which a sweep reports before it goes on with the next mission,
\* or the process of the sweep or of the deletion dies.
KeeperFails ==
    /\ keeper # Rest
    /\ Fault
    /\ \/ keeper' = Rest
       \/ keeper.op = "sweep" /\ keeper.at # "next" /\ Turned(keeper.done)
    /\ UNCHANGED <<turns, up, registry, sender, running, submit, requests, mission,
                   record, texts>>

-----------------------------------------------------------------------------

Init ==
    /\ JournalInit
    /\ record = [r \in Ref |-> NoRecord]
    /\ texts = [r \in Ref |-> "kept"]
    /\ keeper = Rest

\* A deletion is a thread of the panel and dies with it.
Dies ==
    \/ KeeperFails
    \/ /\ PanelDies
       /\ keeper' = IF keeper.op = "delete" THEN Rest ELSE keeper
       /\ UNCHANGED <<record, texts>>

Next ==
    \/ JournalNext /\ UNCHANGED retention
    \/ SweepStarts \/ (\E r \in Ref : DeleteStarts(r)) \/ KeeperProceeds
    \/ Dies

Spec == Init /\ [][Next]_vars

\* Sweeps come again and again, a thread that began goes on unless it dies, and a
\* panel that died is started again.
FairSpec ==
    /\ Spec
    /\ SF_vars(SweepStarts) /\ WF_vars(KeeperProceeds)
    /\ WF_vars((SendReserves \/ PanelStarts) /\ UNCHANGED retention)
    /\ \A t \in Turn : WF_vars(Proceeds(t) /\ UNCHANGED retention)

-----------------------------------------------------------------------------

\* A mission's words may go when it is long over, or when it is over and was reduced.
Needed(r) == ~(mission[r] = "due" \/ (mission[r] = "over" /\ record[r].phase \in ReducedPhases))

\* No conversation loses its words while a mission the journal names as its own
\* still needs them, however turns and submissions interleave with the reduction.
NamedWordsKept ==
    \A t \in Turn : Reduced(turns, t) =>
        \A r \in Named(turns, turns[t].conversation) : ~Needed(r)

\* The retention record never claims less than was done, and never more.
RecordTells ==
    \A r \in Ref :
        LET phase == record[r].phase
            all == {requests[r].words, texts[r]}
                   \cup {turns[t].words : t \in {u \in Turn :
                            turns[u].conversation \in ConversationsOf(turns, r)}}
        IN
        /\ phase \in {"intact", "observed"} => requests[r].words = "kept" /\ texts[r] = "kept"
        /\ phase \in {"reclaiming", "reclaimed"} <=> record[r].summary
        /\ (\E t \in Turn : turns[t].ref = r) =>
              /\ phase = "reclaimed" /\ record[r].kept = {} => "kept" \notin all
              /\ phase = "deleted" => all = {"deleted"}

\* A turn of its conversation is with the provider, or being submitted, or was left
\* in flight when the save of its end failed, until somebody sends again.
InUse(r) ==
    \E c \in ConversationsOf(turns, r) : \E t \in Of(turns, c) : InFlight(turns, t)

Shares(r) ==
    \E c \in ConversationsOf(turns, r) : \E s \in Named(turns, c) \ {r} : mission[s] # "due"

\* A sweep spends its bound on those it keeps for others, too.
Waiting == {r \in Ref : record[r].phase = "reclaimed" /\ record[r].kept # {}}

\* A mission that is due, or whose reduction was interrupted, is reduced in the
\* end, unless its conversation is used again and again, or is kept for a mission
\* that is not due, or every sweep spends its bound on missions that wait.
ReductionEnds ==
    \A r \in Ref :
        <>[](/\ mission[r] = "due" \/ record[r].phase \in {"reclaiming", "deleting"}
             /\ ~InUse(r) /\ ~Shares(r)
             /\ Cardinality(Waiting) < MaxReclaims)
            => []<>(record[r].phase \in {"reclaimed", "deleted"})
=============================================================================
