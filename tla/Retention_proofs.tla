-------------------------- MODULE Retention_proofs --------------------------
(***************************************************************************)
(* That a draft becomes one request at most, that no conversation loses    *)
(* its words while a mission the journal names in it needs them, and that  *)
(* the retention record says neither less nor more than was reduced: for   *)
(* any conversations, turns, requests, bounds, deaths and failed calls.    *)
(*                                                                         *)
(* The words rest on two facts of different kinds.  JournalGood says that  *)
(* a conversation is reduced as a whole and never while anything of it is  *)
(* in flight, so that no mission is named in it afterwards.  KeeperGood    *)
(* says that what a keeper judged from its own copies stays true of the    *)
(* missions while the panel goes on, since a mission that is over stays    *)
(* over; the comparison under the journal's lock ties it to the journal.   *)
(*                                                                         *)
(* The record rests on TellInv, in the second half.                        *)
(***************************************************************************)
EXTENDS Retention, TLAPS

-----------------------------------------------------------------------------
(* The invariant                                                           *)

Words == {"kept", "reclaimed", "deleted"}
Lives == {"none", "open", "over", "due"}
Outcomes == {"SUBMITTED", "REFUSED", "UNCERTAIN"}

Turns == [conversation : Conversation \cup {None},
          state : {"unused", "RESERVED", "DRAFTED", "ENDED"},
          submission : {"none", "RESERVED"} \cup Outcomes,
          ref : Ref \cup {None}, words : Words]
Requests == [turn : Turn \cup {None}, bound : BOOLEAN, words : Words]
Records == [phase : {"intact", "observed"} \cup ReducedPhases, summary : BOOLEAN,
            kept : SUBSET Ref]

Asking == {"register", "withdraw", "ask"}
Submits == [at : {"idle"} \cup Asking]
           \cup [at : {"bind"}, ref : Ref]
           \cup [at : {"finish"}, outcome : Outcomes, ref : Ref \cup {None}]
Senders == [at : {"idle"}]
           \cup [at : {"reserve"}, conversation : Conversation, known : SUBSET Turn]

KeeperSteps == {"read", "judge", "journal", "requests", "texts", "close", "withdraw"}
Keepers == [op : {"sweep", "delete"}, at : {"next"} \cup KeeperSteps, ref : Nat \ {0},
            done : Nat, life : [Ref -> Lives], seen : [Turn -> Turns],
            release : SUBSET (Conversation \cup {None}), kept : SUBSET Ref,
            bound : BOOLEAN, prior : Records]

JournalTyped ==
    /\ turns \in [Turn -> Turns]
    /\ registry \subseteq Turn /\ running \subseteq Turn
    /\ sender \in Senders
    /\ submit \in [Turn -> Submits]
    /\ requests \in [Ref -> Requests]
    /\ mission \in [Ref -> Lives]

KeeperTyped ==
    /\ record \in [Ref -> Records]
    /\ texts \in [Ref -> Words]
    /\ keeper = Rest \/ keeper \in Keepers
    /\ keeper.at \in KeeperSteps => keeper.ref \in Ref

Runs == \A t \in running : turns[t].state # "unused"

\* A conversation is reduced as a whole, and nothing of it is in flight then.
JournalGood ==
    /\ \A t \in Turn : turns[t].state = "unused" =>
          turns[t].conversation = None /\ turns[t].submission = "none"
    /\ \A t, u \in Turn : Reduced(turns, t) /\ turns[u].conversation = turns[t].conversation
          => Reduced(turns, u) /\ ~InFlight(turns, u)

Drafts(t) == \E r \in Ref : requests[r].turn = t

\* A draft whose submission has asked for a request is settled as such, or as
\* uncertain; neither is submitted again.
DraftGood ==
    /\ \A t \in Turn : Drafts(t) =>
          turns[t].submission \in {"RESERVED", "UNCERTAIN", "SUBMITTED"}
    /\ \A t \in Turn : submit[t].at # "idle" => turns[t].submission \in {"RESERVED", "UNCERTAIN"}
    /\ \A t \in Turn : submit[t].at \in Asking => ~Drafts(t)
    /\ \A t \in Turn : submit[t].at = "finish" /\ submit[t].outcome = "REFUSED" => ~Drafts(t)

\* What a keeper was told of a mission is still so, or more so.
Ahead(life) ==
    \A r \in Ref : /\ life[r] = "due" => mission[r] = "due"
                   /\ life[r] = "over" => mission[r] \in Over

\* The refused deletion may be withdrawn: nothing of the mission was reduced that
\* its record did not tell before.
Withdrawable(r, prior) ==
    mission[r] = "due" \/ prior.phase \in ReducedPhases
    \/ \A t \in Turn : Reduced(turns, t) => r \notin Named(turns, turns[t].conversation)

KeeperGood ==
    /\ \A r \in Ref : record[r].phase # "intact" => mission[r] \in Over
    /\ keeper # Rest => Ahead(keeper.life)
    /\ keeper.at \in KeeperSteps => mission[keeper.ref] \in Over
    /\ keeper.at \in {"read", "judge"} /\ keeper.op = "sweep" => Wanted(keeper.ref)
    /\ keeper.at = "journal" =>
          \A c \in keeper.release : \A r \in Named(keeper.seen, c) : ~Needed(r)
    /\ keeper.at \in {"journal", "withdraw"} /\ keeper.op = "delete" =>
          Withdrawable(keeper.ref, keeper.prior)
    /\ keeper.at = "withdraw" => keeper.op = "delete"

Typed == JournalTyped /\ KeeperTyped

Inv == Typed /\ Runs /\ JournalGood /\ DraftGood /\ KeeperGood /\ DraftOnce /\ NamedWordsKept

-----------------------------------------------------------------------------
(* The steps of the panel                                                  *)

\* What a step of the panel leaves to retention: nothing is reduced, no mission is
\* named in what is reduced, and a mission that is over stays over.
Flows ==
    /\ \A t \in Turn : Reduced(turns', t) =>
          /\ Reduced(turns, t)
          /\ turns'[t].conversation = turns[t].conversation
          /\ Named(turns', turns[t].conversation) \subseteq Named(turns, turns[t].conversation)
    /\ \A r \in Ref : /\ mission[r] = "due" => mission'[r] = "due"
                      /\ mission[r] = "over" => mission'[r] \in Over

Kept == JournalTyped' /\ Runs' /\ JournalGood' /\ DraftGood' /\ DraftOnce' /\ Flows

LEMMA NoConversation == None \notin Conversation
  BY JournalAssumption DEF None

\* Steps that leave the turns and the requests alone.
LEMMA ElsewhereKept ==
    ASSUME Inv, turns' = turns, requests' = requests, mission' = mission,
           JournalTyped', running' \subseteq running,
           \A t \in Turn : submit'[t] = submit[t] \/ submit'[t].at = "idle"
    PROVE  Kept
  <1>1. JournalGood' /\ Runs'
    BY DEF Inv, Runs, JournalGood, Reduced, InFlight
  <1>2. DraftGood' /\ DraftOnce'
    BY DEF Inv, DraftGood, DraftOnce, Drafts, Held, Asking
  <1>3. Flows
    BY DEF Flows, Reduced, Over
  <1> QED BY <1>1, <1>2, <1>3 DEF Kept

LEMMA SendReadsKept == ASSUME Inv, NEW c \in Conversation, SendReads(c) PROVE Kept
  <1>1. JournalTyped'
    BY DEF Inv, Typed, JournalTyped, SendReads, Senders
  <1> QED BY <1>1, ElsewhereKept DEF SendReads

LEMMA PanelDiesKept == ASSUME Inv, PanelDies PROVE Kept
  <1>1. JournalTyped'
    BY DEF Inv, Typed, JournalTyped, PanelDies, Senders, Submits, Idle
  <1> QED BY <1>1, ElsewhereKept DEF PanelDies, Idle

\* What a settlement leaves.
LEMMA SettledIs ==
    ASSUME turns \in [Turn -> Turns], NEW known \in SUBSET Turn
    PROVE  LET j == Settled(turns, known) IN
           /\ j \in [Turn -> Turns]
           /\ \A t \in Turn :
                 /\ j[t].conversation = turns[t].conversation
                 /\ j[t].ref = turns[t].ref /\ j[t].words = turns[t].words
                 /\ j[t].state = "unused" <=> turns[t].state = "unused"
                 /\ InFlight(j, t) => InFlight(turns, t)
                 /\ \/ j[t].submission = turns[t].submission
                    \/ turns[t].submission = "RESERVED" /\ j[t].submission = "UNCERTAIN"
  <1> DEFINE e(t) == [turns[t] EXCEPT
                 !.state = IF @ = "RESERVED" THEN "ENDED" ELSE @,
                 !.submission = IF @ = "RESERVED" THEN "UNCERTAIN" ELSE @]
  <1>1. \A t \in Turn : e(t) \in Turns
    BY DEF Turns, Outcomes
  <1>2. \A t \in Turn : /\ e(t).conversation = turns[t].conversation
                        /\ e(t).ref = turns[t].ref /\ e(t).words = turns[t].words
                        /\ e(t).state = IF turns[t].state = "RESERVED" THEN "ENDED"
                                        ELSE turns[t].state
                        /\ e(t).submission = IF turns[t].submission = "RESERVED"
                                        THEN "UNCERTAIN" ELSE turns[t].submission
    BY DEF Turns
  <1>3. Settled(turns, known) = [t \in Turn |-> IF t \in known THEN turns[t] ELSE e(t)]
    BY DEF Settled
  <1> HIDE DEF e
  <1> QED BY <1>1, <1>2, <1>3 DEF InFlight

\* A journal that differs from the last in what is settled only.
LEMMA SettlingKept ==
    ASSUME Inv, NEW known \in SUBSET Turn, turns' = Settled(turns, known),
           requests' = requests, mission' = mission, submit' = submit,
           running' = running, JournalTyped'
    PROVE  Kept
  <1>1. turns \in [Turn -> Turns]
    BY DEF Inv, Typed, JournalTyped
  <1>2. JournalGood'
    BY <1>1, SettledIs DEF Inv, JournalGood, Reduced
  <1>3. DraftGood' /\ DraftOnce'
    BY <1>1, SettledIs DEF Inv, DraftGood, DraftOnce, Drafts, Held
  <1>4. Flows
    <2>1. ASSUME NEW c PROVE Named(turns', c) \subseteq Named(turns, c)
      BY <1>1, SettledIs DEF Named, Of, Used
    <2> QED BY <1>1, <2>1, SettledIs DEF Flows, Reduced, Over
  <1>5. Runs'
    BY <1>1, SettledIs DEF Inv, Runs, Typed, JournalTyped
  <1> QED BY <1>2, <1>3, <1>4, <1>5 DEF Kept

LEMMA PanelStartsKept == ASSUME Inv, PanelStarts PROVE Kept
  <1>1. JournalTyped'
    BY SettledIs DEF Inv, Typed, JournalTyped, PanelStarts
  <1> QED BY <1>1, SettlingKept DEF PanelStarts

LEMMA SendReservesKept == ASSUME Inv, SendReserves PROVE Kept
  <1> DEFINE c == sender.conversation
             settled == Settled(turns, sender.known)
             fresh == CHOOSE t \in Turn : t \notin Used(turns)
  <1>1. /\ turns \in [Turn -> Turns] /\ c \in Conversation /\ sender.known \in SUBSET Turn
        /\ sender' \in Senders
    BY DEF Inv, Typed, JournalTyped, SendReserves, Senders, Idle
  <1>2. CASE UNCHANGED <<turns, registry, running>>
    <2>1. JournalTyped' /\ submit' = submit
      BY <1>1, <1>2 DEF Inv, Typed, JournalTyped, SendReserves
    <2>2. /\ turns' = turns /\ requests' = requests /\ mission' = mission
          /\ running' = running
      BY <1>2 DEF SendReserves
    <2> QED BY <2>1, <2>2, ElsewhereKept
  <1>3. ASSUME Turn \ Used(turns) # {},
               \A t \in Of(turns, c) : ~Reduced(turns, t),
               turns' = [settled EXCEPT ![fresh] = NewTurn(c)],
               registry' = registry \cup {fresh}, running' = running \cup {fresh}
        PROVE  Kept
    <2>1. fresh \in Turn /\ turns[fresh].state = "unused"
      BY <1>3 DEF Used
    <2> HIDE DEF fresh
    <2>2. /\ NewTurn(c) \in Turns
          /\ NewTurn(c).conversation = c /\ NewTurn(c).state = "RESERVED"
          /\ NewTurn(c).submission = "none" /\ NewTurn(c).ref = None
          /\ NewTurn(c).words = "kept"
      BY <1>1 DEF NewTurn, Turns, Words
    <2>3. /\ settled \in [Turn -> Turns]
          /\ \A t \in Turn :
                /\ settled[t].conversation = turns[t].conversation
                /\ settled[t].ref = turns[t].ref /\ settled[t].words = turns[t].words
                /\ settled[t].state = "unused" <=> turns[t].state = "unused"
                /\ InFlight(settled, t) => InFlight(turns, t)
                /\ \/ settled[t].submission = turns[t].submission
                   \/ turns[t].submission = "RESERVED" /\ settled[t].submission = "UNCERTAIN"
      BY <1>1, SettledIs
    <2> HIDE DEF settled
    <2>4. /\ turns' \in [Turn -> Turns] /\ turns'[fresh] = NewTurn(c)
          /\ \A t \in Turn \ {fresh} : turns'[t] = settled[t]
      BY <1>3, <2>1, <2>2, <2>3
    <2>5. JournalTyped'
      BY <1>1, <1>3, <2>1, <2>4 DEF Inv, Typed, JournalTyped, SendReserves
    <2>6. \A t \in Turn : turns[t].conversation = c => ~Reduced(turns, t) /\ t # fresh
      BY <1>1, <1>3, <2>1, NoConversation DEF Of, Used, Inv, JournalGood
    <2>7. JournalGood'
      <3>1. ASSUME NEW t \in Turn, NEW u \in Turn, Reduced(turns', t),
                   turns'[u].conversation = turns'[t].conversation
            PROVE  Reduced(turns', u) /\ ~InFlight(turns', u)
        <4>1. t # fresh /\ Reduced(turns, t) /\ turns'[t].conversation = turns[t].conversation
          BY <3>1, <2>2, <2>3, <2>4 DEF Reduced
        <4>2. u # fresh /\ turns'[u] = settled[u]
          BY <3>1, <4>1, <2>2, <2>4, <2>6
        <4> QED BY <3>1, <4>1, <4>2, <2>3 DEF Inv, JournalGood, Reduced, InFlight
      <3> QED BY <3>1, <2>2, <2>3, <2>4 DEF Inv, JournalGood
    <2>8. ~Drafts(fresh) /\ submit[fresh].at = "idle"
      BY <2>1 DEF Inv, JournalGood, DraftGood
    <2>9. DraftGood' /\ DraftOnce'
      BY <2>3, <2>4, <2>8 DEF Inv, DraftGood, DraftOnce, Drafts, Held, SendReserves, Asking
    <2>10. Flows
      <3>1. ASSUME NEW t \in Turn, Reduced(turns', t)
            PROVE  /\ Reduced(turns, t)
                   /\ turns'[t].conversation = turns[t].conversation
                   /\ Named(turns', turns[t].conversation)
                        \subseteq Named(turns, turns[t].conversation)
        <4>1. t # fresh /\ Reduced(turns, t) /\ turns[t].conversation # c
          BY <3>1, <2>2, <2>3, <2>4, <2>6 DEF Reduced
        <4>2. Named(turns', turns[t].conversation) \subseteq Named(turns, turns[t].conversation)
          BY <4>1, <2>2, <2>3, <2>4 DEF Named, Of, Used
        <4> QED BY <3>1, <4>1, <4>2, <2>3, <2>4
      <3> QED BY <3>1 DEF Flows, SendReserves, Over
    <2>11. Runs'
      BY <1>3, <2>2, <2>3, <2>4 DEF Inv, Typed, JournalTyped, Runs
    <2> QED BY <2>5, <2>7, <2>9, <2>10, <2>11 DEF Kept
  <1> QED BY <1>2, <1>3 DEF SendReserves

\* The draft of one turn is taken up, or its submission settled: nothing of the
\* conversation may be reduced.
LEMMA SubmissionKept ==
    ASSUME Inv, NEW t \in Turn, NEW submission \in {"RESERVED"} \cup Outcomes,
           NEW ref \in Ref \cup {None},
           turns' = [turns EXCEPT ![t].submission = submission, ![t].ref = ref],
           \A u \in Turn : Reduced(turns, u) => turns[u].conversation # turns[t].conversation,
           turns[t].state # "unused", mission' = mission, running' = running
    PROVE  turns' \in [Turn -> Turns] /\ JournalGood' /\ Runs' /\ Flows
  <1> DEFINE e == [turns[t] EXCEPT !.submission = submission, !.ref = ref]
  <1>1. /\ turns \in [Turn -> Turns] /\ turns[t] \in Turns
        /\ JournalGood
    BY DEF Inv, Typed, JournalTyped
  <1>2. /\ e \in Turns /\ e.conversation = turns[t].conversation
        /\ e.words = turns[t].words /\ e.state = turns[t].state
    BY <1>1 DEF Turns
  <1>3. turns' = [turns EXCEPT ![t] = e]
    BY <1>1
  <1> HIDE DEF e
  <1>4. /\ turns' \in [Turn -> Turns] /\ turns'[t] = e
        /\ \A u \in Turn \ {t} : turns'[u] = turns[u]
    BY <1>1, <1>2, <1>3
  <1>5. JournalGood'
    <2>1. ASSUME NEW u \in Turn, NEW v \in Turn, Reduced(turns', u),
                 turns'[v].conversation = turns'[u].conversation
          PROVE  Reduced(turns', v) /\ ~InFlight(turns', v)
      <3>1. u # t /\ v # t
        BY <2>1, <1>2, <1>4 DEF Reduced
      <3> QED BY <3>1, <2>1, <1>1, <1>4 DEF JournalGood, Reduced, InFlight
    <2> QED BY <2>1, <1>1, <1>2, <1>4 DEF JournalGood
  <1>6. Flows
    <2>1. ASSUME NEW u \in Turn, Reduced(turns', u)
          PROVE  /\ Reduced(turns, u)
                 /\ turns'[u].conversation = turns[u].conversation
                 /\ Named(turns', turns[u].conversation)
                      \subseteq Named(turns, turns[u].conversation)
      <3>1. Reduced(turns, u) /\ turns'[u].conversation = turns[u].conversation
        BY <2>1, <1>2, <1>4 DEF Reduced
      <3>2. turns[u].conversation # turns[t].conversation
        BY <3>1
      <3>3. Named(turns', turns[u].conversation) \subseteq Named(turns, turns[u].conversation)
        BY <3>2, <1>2, <1>4 DEF Named, Of, Used
      <3> QED BY <3>1, <3>3
    <2> QED BY <2>1 DEF Flows, Over
  <1>7. Runs'
    BY <1>1, <1>2, <1>4 DEF Inv, Typed, JournalTyped, Runs
  <1> QED BY <1>4, <1>5, <1>6, <1>7

LEMMA SubmitReservesKept == ASSUME Inv, NEW t \in Turn, SubmitReserves(t) PROVE Kept
  <1>1. /\ turns' = [turns EXCEPT ![t].submission = "RESERVED", ![t].ref = None]
        /\ submit' = [submit EXCEPT ![t] = [at |-> "register"]]
        /\ turns[t].state = "DRAFTED" /\ ~Reduced(turns, t)
        /\ turns[t].submission \in {"none", "REFUSED"}
        /\ UNCHANGED <<up, registry, sender, running, requests, mission, faults>>
    BY DEF SubmitReserves, Submittable
  <1>2. \A u \in Turn : Reduced(turns, u) => turns[u].conversation # turns[t].conversation
    BY <1>1 DEF Inv, JournalGood
  <1>3. turns' \in [Turn -> Turns] /\ JournalGood' /\ Runs' /\ Flows
    BY <1>1, <1>2, SubmissionKept, "RESERVED" \in {"RESERVED"} \cup Outcomes
  <1>4. turns \in [Turn -> Turns] /\ submit \in [Turn -> Submits]
    BY DEF Inv, Typed, JournalTyped
  <1>5. /\ turns'[t].submission = "RESERVED" /\ submit'[t] = [at |-> "register"]
        /\ \A u \in Turn \ {t} : turns'[u] = turns[u] /\ submit'[u] = submit[u]
    BY <1>1, <1>4 DEF Turns
  <1>6. JournalTyped'
    BY <1>1, <1>3, <1>4 DEF Inv, Typed, JournalTyped, Submits, Asking
  <1>7. ~Drafts(t)
    BY <1>1 DEF Inv, DraftGood
  <1>8. DraftGood' /\ DraftOnce'
    BY <1>1, <1>5, <1>7 DEF Inv, DraftGood, DraftOnce, Drafts, Held
  <1> QED BY <1>3, <1>6, <1>8 DEF Kept

LEMMA SubmitFinishesKept == ASSUME Inv, NEW t \in Turn, SubmitFinishes(t) PROVE Kept
  <1>1. /\ submit[t].at = "finish" /\ submit \in [Turn -> Submits]
        /\ submit[t].outcome \in Outcomes /\ submit[t].ref \in Ref \cup {None}
        /\ turns \in [Turn -> Turns]
    <2>1. submit[t] \in Submits /\ submit[t].at = "finish"
      BY DEF SubmitFinishes, Inv, Typed, JournalTyped
    <2> QED BY <2>1 DEF Submits, Inv, Typed, JournalTyped, Asking
  <1>2. /\ submit' = [submit EXCEPT ![t] = Idle] /\ registry' = registry \ {t}
        /\ UNCHANGED <<up, sender, running, requests, mission>>
    BY DEF SubmitFinishes
  <1>3. /\ submit' \in [Turn -> Submits] /\ submit'[t].at = "idle"
        /\ \A u \in Turn \ {t} : submit'[u] = submit[u]
    BY <1>1, <1>2 DEF Submits, Idle
  <1>4. CASE turns' = turns
    <2>1. JournalTyped'
      BY <1>2, <1>3, <1>4 DEF Inv, Typed, JournalTyped
    <2> QED BY <2>1, <1>2, <1>3, <1>4, ElsewhereKept
  <1>5. CASE /\ turns[t].submission = "RESERVED"
             /\ turns' = [turns EXCEPT ![t].submission = submit[t].outcome,
                                      ![t].ref = submit[t].ref]
    <2>1. InFlight(turns, t) /\ turns[t].state # "unused"
      BY <1>5 DEF InFlight, Inv, JournalGood
    <2>2. \A u \in Turn : Reduced(turns, u) => turns[u].conversation # turns[t].conversation
      BY <2>1 DEF Inv, JournalGood
    <2>3. turns' \in [Turn -> Turns] /\ JournalGood' /\ Runs' /\ Flows
      BY <1>1, <1>2, <1>5, <2>1, <2>2, SubmissionKept
    <2>4. JournalTyped'
      BY <1>2, <1>3, <2>3 DEF Inv, Typed, JournalTyped
    <2>5. /\ turns'[t].submission = submit[t].outcome
          /\ \A u \in Turn \ {t} : turns'[u] = turns[u]
      BY <1>1, <1>5 DEF Turns
    <2>6. Drafts(t) => submit[t].outcome \in {"UNCERTAIN", "SUBMITTED"}
      BY <1>1 DEF Inv, DraftGood, Outcomes
    <2>7. DraftGood' /\ DraftOnce'
      BY <1>2, <1>3, <2>5, <2>6 DEF Inv, DraftGood, DraftOnce, Drafts, Held, Asking
    <2> QED BY <2>3, <2>4, <2>7 DEF Kept
  <1> QED BY <1>4, <1>5 DEF SubmitFinishes

LEMMA TurnEndsKept == ASSUME Inv, NEW t \in Turn, TurnEnds(t) PROVE Kept
  <1>1. /\ running' = running \ {t} /\ registry' = registry \ {t}
        /\ UNCHANGED <<up, sender, submit, requests, mission>>
    BY DEF TurnEnds
  <1>2. CASE turns' = turns
    <2>1. JournalTyped'
      BY <1>1, <1>2 DEF Inv, Typed, JournalTyped
    <2> QED BY <2>1, <1>1, <1>2, ElsewhereKept
  <1>3. ASSUME NEW s \in {"DRAFTED", "ENDED"}, turns' = [turns EXCEPT ![t].state = s]
        PROVE  Kept
    <2>1. turns \in [Turn -> Turns] /\ turns[t] \in Turns
      BY DEF Inv, Typed, JournalTyped
    <2>2. /\ turns' \in [Turn -> Turns]
          /\ turns'[t] = [turns[t] EXCEPT !.state = s]
          /\ \A u \in Turn \ {t} : turns'[u] = turns[u]
      BY <1>3, <2>1 DEF Turns
    <2>3. /\ turns'[t].conversation = turns[t].conversation
          /\ turns'[t].submission = turns[t].submission /\ turns'[t].ref = turns[t].ref
          /\ turns'[t].words = turns[t].words /\ turns'[t].state = s
      BY <2>1, <2>2 DEF Turns
    <2>4. JournalTyped'
      BY <1>1, <2>2 DEF Inv, Typed, JournalTyped
    <2>5. JournalGood'
      <3>1. ASSUME NEW u \in Turn
            PROVE  /\ turns'[u].conversation = turns[u].conversation
                   /\ Reduced(turns', u) <=> Reduced(turns, u)
                   /\ InFlight(turns', u) => InFlight(turns, u)
                   /\ turns'[u].submission = turns[u].submission
                   /\ turns'[u].state = "unused" => turns[u].state = "unused"
        BY <2>2, <2>3 DEF Reduced, InFlight
      <3> QED BY <3>1 DEF Inv, JournalGood
    <2>6. DraftGood' /\ DraftOnce'
      <3>1. \A u \in Turn : turns'[u].submission = turns[u].submission
        BY <2>2, <2>3
      <3> QED BY <1>1, <3>1 DEF Inv, DraftGood, DraftOnce, Drafts, Held
    <2>7. Flows
      <3>1. turns[t].state # "unused"
        BY DEF TurnEnds, Inv, Runs
      <3>2. ASSUME NEW c PROVE Named(turns', c) \subseteq Named(turns, c)
        <4>1. \A u \in Turn : /\ turns'[u].conversation = turns[u].conversation
                              /\ turns'[u].ref = turns[u].ref
                              /\ turns'[u].state # "unused" => turns[u].state # "unused"
          BY <2>2, <2>3, <3>1
        <4> QED BY <4>1 DEF Named, Of, Used
      <3>3. \A u \in Turn : /\ turns'[u].conversation = turns[u].conversation
                            /\ turns'[u].words = turns[u].words
        BY <2>2, <2>3
      <3> QED BY <1>1, <3>2, <3>3 DEF Flows, Reduced, Over
    <2>8. Runs'
      BY <1>1, <2>2, <2>3 DEF Inv, Typed, JournalTyped, Runs
    <2> QED BY <2>4, <2>5, <2>6, <2>7, <2>8 DEF Kept
  <1> QED BY <1>2, <1>3 DEF TurnEnds

\* Steps that leave the turns alone, but not the requests or the missions.
LEMMA BesideKept ==
    ASSUME Inv, turns' = turns, running' = running, JournalTyped', DraftGood', DraftOnce',
           \A r \in Ref : /\ mission[r] = "due" => mission'[r] = "due"
                          /\ mission[r] = "over" => mission'[r] \in Over
    PROVE  Kept
  <1>1. JournalGood' /\ Runs'
    BY DEF Inv, Runs, JournalGood, Reduced, InFlight
  <1>2. ASSUME NEW c PROVE Named(turns', c) \subseteq Named(turns, c)
    BY DEF Named, Of, Used
  <1>3. \A t \in Turn : Reduced(turns', t) <=> Reduced(turns, t)
    BY DEF Reduced
  <1>4. ASSUME NEW t \in Turn, Reduced(turns', t)
        PROVE  /\ Reduced(turns, t)
               /\ turns'[t].conversation = turns[t].conversation
               /\ Named(turns', turns[t].conversation)
                    \subseteq Named(turns, turns[t].conversation)
    <2>1. Reduced(turns, t) /\ turns'[t].conversation = turns[t].conversation
      BY <1>3, <1>4
    <2> QED BY <1>2, <2>1
  <1>5. Flows
    BY <1>4 DEF Flows
  <1> QED BY <1>1, <1>5 DEF Kept

\* A request that is bound is the same request.
LEMMA BoundIs ==
    ASSUME requests \in [Ref -> Requests], NEW r \in Ref
    PROVE  LET bound == [requests EXCEPT ![r].bound = TRUE] IN
           /\ bound \in [Ref -> Requests]
           /\ \A s \in Ref : bound[s].turn = requests[s].turn
  <1> DEFINE e == [requests[r] EXCEPT !.bound = TRUE]
  <1>1. e \in Requests /\ e.turn = requests[r].turn
    BY DEF Requests
  <1>2. [requests EXCEPT ![r].bound = TRUE] = [requests EXCEPT ![r] = e]
    OBVIOUS
  <1> HIDE DEF e
  <1> QED BY <1>1, <1>2

LEMMA SubmitRegistersKept == ASSUME Inv, NEW t \in Turn, SubmitRegisters(t) PROVE Kept
  <1>1. /\ submit[t].at = "register" /\ submit' = [submit EXCEPT ![t] = [at |-> "withdraw"]]
        /\ submit \in [Turn -> Submits]
    BY DEF SubmitRegisters, Inv, Typed, JournalTyped
  <1>2. /\ submit' \in [Turn -> Submits] /\ submit'[t].at = "withdraw"
        /\ \A u \in Turn \ {t} : submit'[u] = submit[u]
    BY <1>1 DEF Submits, Asking
  <1>3. JournalTyped'
    BY <1>2 DEF SubmitRegisters, Inv, Typed, JournalTyped
  <1>4. DraftGood' /\ DraftOnce'
    BY <1>1, <1>2 DEF SubmitRegisters, Inv, DraftGood, DraftOnce, Drafts, Held, Asking
  <1> QED BY <1>3, <1>4, BesideKept DEF SubmitRegisters, Over

\* Where a submission goes from asking.
LEMMA AnsweredIs ==
    ASSUME Inv, NEW t \in Turn, NEW outcome \in Outcomes, Answered(t, outcome)
    PROVE  /\ submit' \in [Turn -> Submits]
           /\ submit'[t].at = "finish" /\ submit'[t].outcome = outcome
           /\ \A u \in Turn \ {t} : submit'[u] = submit[u]
  BY DEF Inv, Typed, JournalTyped, Answered, Submits

LEMMA SubmitWithdrawsKept ==
    ASSUME Inv, NEW t \in Turn, NEW old \in Ref, SubmitWithdraws(t, old) PROVE Kept
  <1> DEFINE withdrawn == IF mission[old] = "open" THEN [mission EXCEPT ![old] = "over"]
                          ELSE mission
  <1>1. /\ submit[t].at = "withdraw" /\ UNCHANGED <<turns, registry, sender, running, requests>>
        /\ submit \in [Turn -> Submits] /\ mission \in [Ref -> Lives]
    BY DEF SubmitWithdraws, Inv, Typed, JournalTyped
  <1>2. mission' \in {mission, withdrawn}
    BY DEF SubmitWithdraws
  <1>3. /\ mission' \in [Ref -> Lives]
        /\ \A r \in Ref : /\ mission[r] = "due" => mission'[r] = "due"
                          /\ mission[r] = "over" => mission'[r] \in Over
    BY <1>1, <1>2 DEF Lives, Over
  <1>4. /\ submit' \in [Turn -> Submits]
        /\ submit'[t].at = "ask" \/ submit'[t].at = "finish"
        /\ \A u \in Turn \ {t} : submit'[u] = submit[u]
    <2>1. CASE submit' = [submit EXCEPT ![t] = [at |-> "ask"]]
      BY <1>1, <2>1 DEF Submits, Asking
    <2>2. CASE Answered(t, "REFUSED") \/ Answered(t, "UNCERTAIN")
      BY <2>2, AnsweredIs DEF Outcomes
    <2> QED BY <2>1, <2>2 DEF SubmitWithdraws
  <1>5. JournalTyped'
    BY <1>1, <1>3, <1>4 DEF Inv, Typed, JournalTyped
  <1>6. DraftGood' /\ DraftOnce'
    BY <1>1, <1>4 DEF Inv, DraftGood, DraftOnce, Drafts, Held, Asking
  <1> QED BY <1>1, <1>3, <1>5, <1>6, BesideKept

LEMMA SubmitAsksKept == ASSUME Inv, NEW t \in Turn, SubmitAsks(t) PROVE Kept
  <1>1. /\ submit[t].at \in Asking /\ UNCHANGED <<turns, registry, sender, running, mission>>
        /\ submit \in [Turn -> Submits] /\ requests \in [Ref -> Requests]
        /\ ~Drafts(t) /\ turns[t].submission \in {"RESERVED", "UNCERTAIN"}
    BY DEF SubmitAsks, Inv, Typed, JournalTyped, DraftGood, Asking
  <1>2. CASE requests' = requests /\ (Answered(t, "REFUSED") \/ Answered(t, "UNCERTAIN"))
    <2>1. /\ submit' \in [Turn -> Submits] /\ submit'[t].at = "finish"
          /\ \A u \in Turn \ {t} : submit'[u] = submit[u]
      BY <1>2, AnsweredIs DEF Outcomes
    <2>2. JournalTyped'
      BY <1>1, <1>2, <2>1 DEF Inv, Typed, JournalTyped
    <2>3. DraftGood' /\ DraftOnce'
      BY <1>1, <1>2, <2>1 DEF Inv, DraftGood, DraftOnce, Drafts, Held, Asking
    <2> QED BY <1>1, <2>2, <2>3, BesideKept DEF Over
  <1>3. ASSUME NEW r \in Ref, requests' = [requests EXCEPT ![r].turn = t],
               \/ submit' = [submit EXCEPT ![t] = [at |-> "bind", ref |-> r]]
               \/ Answered(t, "UNCERTAIN"),
               ~Held(r)
        PROVE  Kept
    <2>1. /\ submit' \in [Turn -> Submits]
          /\ submit'[t].at = "bind" \/ (submit'[t].at = "finish" /\ submit'[t].outcome = "UNCERTAIN")
          /\ \A u \in Turn \ {t} : submit'[u] = submit[u]
      <3>1. CASE submit' = [submit EXCEPT ![t] = [at |-> "bind", ref |-> r]]
        BY <1>1, <3>1 DEF Submits
      <3>2. CASE Answered(t, "UNCERTAIN")
        BY <3>2, AnsweredIs DEF Outcomes
      <3> QED BY <1>3, <3>1, <3>2
    <2>2. /\ requests' \in [Ref -> Requests] /\ requests'[r].turn = t
          /\ \A s \in Ref \ {r} : requests'[s] = requests[s]
      BY <1>1, <1>3 DEF Requests
    <2>3. JournalTyped'
      BY <1>1, <2>1, <2>2 DEF Inv, Typed, JournalTyped
    <2>4. \A u \in Turn \ {t} : Drafts(u)' => Drafts(u)
      BY <2>2 DEF Drafts
    <2>5. DraftGood'
      BY <1>1, <2>1, <2>4 DEF Inv, DraftGood, Asking
    <2>6. DraftOnce'
      BY <1>1, <2>2 DEF Inv, DraftOnce, Drafts, Held
    <2> QED BY <1>1, <2>3, <2>5, <2>6, BesideKept DEF Over
  <1> QED BY <1>2, <1>3 DEF SubmitAsks

LEMMA SubmitBindsKept == ASSUME Inv, NEW t \in Turn, SubmitBinds(t) PROVE Kept
  <1> DEFINE r == submit[t].ref
             made == [mission EXCEPT ![r] = IF @ = "none" THEN "open" ELSE @]
  <1>1. /\ submit[t].at = "bind" /\ UNCHANGED <<turns, registry, sender, running>>
        /\ submit \in [Turn -> Submits] /\ requests \in [Ref -> Requests]
        /\ mission \in [Ref -> Lives] /\ mission' \in {mission, made}
        /\ requests' \in {requests, [requests EXCEPT ![r].bound = TRUE]}
    BY DEF SubmitBinds, Inv, Typed, JournalTyped
  <1>2. r \in Ref
    BY <1>1 DEF Submits, Asking
  <1>3. /\ mission' \in [Ref -> Lives]
        /\ \A s \in Ref : /\ mission[s] = "due" => mission'[s] = "due"
                          /\ mission[s] = "over" => mission'[s] \in Over
    BY <1>1, <1>2 DEF Lives, Over
  <1>4. /\ requests' \in [Ref -> Requests]
        /\ \A s \in Ref : requests'[s].turn = requests[s].turn
    BY <1>1, <1>2, BoundIs
  <1>5. /\ submit' \in [Turn -> Submits]
        /\ submit'[t].at = "finish" /\ submit'[t].outcome # "REFUSED"
        /\ \A u \in Turn \ {t} : submit'[u] = submit[u]
    <2>1. CASE submit' = [submit EXCEPT ![t] = [at |-> "finish", outcome |-> "SUBMITTED",
                                              ref |-> r]]
      BY <1>1, <1>2, <2>1 DEF Submits, Outcomes
    <2>2. CASE Answered(t, "UNCERTAIN")
      BY <2>2, AnsweredIs DEF Outcomes
    <2> QED BY <2>1, <2>2 DEF SubmitBinds
  <1> HIDE DEF r, made
  <1>6. JournalTyped'
    BY <1>1, <1>3, <1>4, <1>5 DEF Inv, Typed, JournalTyped
  <1>7. DraftGood' /\ DraftOnce'
    BY <1>1, <1>4, <1>5 DEF Inv, DraftGood, DraftOnce, Drafts, Held, Asking
  <1> QED BY <1>1, <1>3, <1>6, <1>7, BesideKept

LEMMA AroundKept ==
    ASSUME Inv, NEW r \in Ref, Recover(r) \/ MissionGoes(r) PROVE Kept
  <1>1. /\ UNCHANGED <<turns, registry, sender, running, submit>>
        /\ requests \in [Ref -> Requests] /\ mission \in [Ref -> Lives]
    BY DEF Recover, MissionGoes, Inv, Typed, JournalTyped
  <1>2. /\ mission' \in [Ref -> Lives]
        /\ \A s \in Ref : /\ mission[s] = "due" => mission'[s] = "due"
                          /\ mission[s] = "over" => mission'[s] \in Over
    BY <1>1 DEF Recover, MissionGoes, Lives, Over
  <1>3. /\ requests' \in [Ref -> Requests]
        /\ \A s \in Ref : requests'[s].turn = requests[s].turn
    BY <1>1, BoundIs DEF Recover, MissionGoes
  <1>4. JournalTyped'
    BY <1>1, <1>2, <1>3 DEF Inv, Typed, JournalTyped
  <1>5. DraftGood' /\ DraftOnce'
    BY <1>1, <1>3 DEF Inv, DraftGood, DraftOnce, Drafts, Held
  <1> QED BY <1>1, <1>2, <1>4, <1>5, BesideKept

LEMMA JournalKept == ASSUME Inv, JournalNext PROVE Kept
  BY SendReadsKept, SubmitReservesKept, SubmitWithdrawsKept, SendReservesKept, TurnEndsKept,
     SubmitRegistersKept, SubmitAsksKept, SubmitBindsKept, SubmitFinishesKept,
     PanelStartsKept, AroundKept DEF JournalNext, JournalThreads, Proceeds

-----------------------------------------------------------------------------
(* What the panel leaves to retention                                      *)

\* A keeper between two missions, or none.
Resting ==
    keeper = Rest \/ (keeper \in Keepers /\ keeper.at = "next" /\ Ahead(keeper.life))

Panel == <<turns, registry, sender, running, submit, requests, mission>>

Recorded == \A r \in Ref : record[r].phase # "intact" => mission[r] \in Over

LEMMA NotRest == ASSUME NEW k \in Keepers PROVE k # Rest
  BY DEF Keepers, Rest

LEMMA AtWork == ASSUME Inv, keeper # Rest PROVE keeper \in Keepers /\ Ahead(keeper.life)
  BY DEF Inv, Typed, KeeperTyped, KeeperGood

LEMMA RestingIs ==
    ASSUME record' \in [Ref -> Records], texts' \in [Ref -> Words], Recorded', Resting'
    PROVE  KeeperTyped' /\ KeeperGood'
  <1>1. keeper'.at \notin KeeperSteps
    BY DEF Resting, Rest, KeeperSteps
  <1> QED BY <1>1 DEF Resting, KeeperTyped, KeeperGood, Recorded, KeeperSteps

\* Whatever the panel does, what a keeper judged and what is reduced stay right.
LEMMA CarriedKept ==
    ASSUME Inv, Kept, record' = record, texts' = texts,
           keeper' = keeper \/ keeper' = Rest
    PROVE  Inv'
  <1>1. ASSUME NEW r \in Ref PROVE /\ mission[r] \in Over => mission'[r] \in Over
                                   /\ ~Needed(r) => ~Needed(r)'
    BY <1>1 DEF Kept, Flows, Needed, Over
  <1>2. KeeperTyped'
    BY DEF Inv, Typed, KeeperTyped, Rest, KeeperSteps
  <1>3. NamedWordsKept'
    <2>1. ASSUME NEW t \in Turn, Reduced(turns', t),
                 NEW r \in Named(turns', turns'[t].conversation)
          PROVE  ~Needed(r)'
      <3>1. Reduced(turns, t) /\ r \in Named(turns, turns[t].conversation)
        BY <2>1 DEF Kept, Flows
      <3>2. r \in Ref
        BY <3>1 DEF Inv, Typed, JournalTyped, Named, Of, Used, Turns
      <3> QED BY <3>1, <3>2, <1>1 DEF Inv, NamedWordsKept
    <2> QED BY <2>1 DEF NamedWordsKept
  <1>6. Recorded'
    BY <1>1 DEF Inv, KeeperGood, Recorded
  <1>4. ASSUME keeper' = Rest PROVE KeeperGood'
    BY <1>2, <1>4, <1>6, RestingIs DEF Resting, KeeperTyped
  <1>5. ASSUME keeper' = keeper PROVE KeeperGood'
    <2>2. keeper # Rest => Ahead(keeper.life)'
      BY <1>1, <1>5 DEF Inv, KeeperGood, Ahead, Kept, Flows
    <2>3. keeper.at \in KeeperSteps => mission'[keeper.ref] \in Over
      BY <1>1 DEF Inv, KeeperGood, Typed, KeeperTyped
    <2>4. Wanted(keeper.ref) => Wanted(keeper.ref)'
      BY <1>5 DEF Wanted
    <2>5. ASSUME keeper.at = "journal", NEW c \in keeper.release,
                 NEW r \in Named(keeper.seen, c)
          PROVE  ~Needed(r)'
      <3>1. keeper \in Keepers
        BY <2>5 DEF Inv, Typed, KeeperTyped, Rest
      <3>2. r \in Ref
        BY <3>1, <2>5 DEF Keepers, Named, Of, Used, Turns
      <3> QED BY <2>5, <3>2, <1>1 DEF Inv, KeeperGood
    <2>6. ASSUME keeper.at \in {"journal", "withdraw"}, Withdrawable(keeper.ref, keeper.prior)
          PROVE  Withdrawable(keeper.ref, keeper.prior)'
      <3>1. keeper.ref \in Ref
        BY <2>6 DEF Inv, Typed, KeeperTyped, KeeperSteps
      <3>2. \A t \in Turn : Reduced(turns', t) =>
               /\ Reduced(turns, t)
               /\ Named(turns', turns'[t].conversation)
                    \subseteq Named(turns, turns[t].conversation)
        BY DEF Kept, Flows
      <3> QED BY <2>6, <3>1, <3>2, <1>5 DEF Withdrawable, Kept, Flows
    <2>7. keeper.at = "journal" =>
             \A c \in keeper.release : \A r \in Named(keeper.seen, c) : ~Needed(r)'
      BY <2>5
    <2> QED BY <1>5, <1>6, <2>2, <2>3, <2>4, <2>6, <2>7 DEF Inv, KeeperGood, Recorded
  <1> QED BY <1>2, <1>3, <1>4, <1>5 DEF Inv, Kept, Typed

-----------------------------------------------------------------------------
(* The steps of a keeper                                                   *)

LEMMA TypedRecords == NoTurn \in Turns /\ NoTurns \in [Turn -> Turns] /\ NoRecord \in Records
  BY DEF NoTurn, NoTurns, NewTurn, Turns, Words, NoRecord, Records

LEMMA SweepBegins ==
    ASSUME NEW r \in Nat \ {0}, mission \in [Ref -> Lives]
    PROVE  /\ Begun("sweep", "next", r) \in Keepers
           /\ Begun("sweep", "next", r).at = "next"
           /\ Begun("sweep", "next", r).life = mission
  <1>1. 0 \in Nat /\ {} \in SUBSET (Conversation \cup {None}) /\ {} \in SUBSET Ref
    OBVIOUS
  <1> QED BY <1>1, TypedRecords, Zenon DEF Begun, Keepers

LEMMA TurnedIs ==
    ASSUME Inv, keeper # Rest, NEW done \in Nat, Turned(done), mission' = mission
    PROVE  Resting'
  <1>1. keeper \in Keepers /\ Ahead(keeper.life) /\ mission \in [Ref -> Lives]
    BY AtWork DEF Inv, Typed, JournalTyped
  <1> DEFINE b == Begun("sweep", "next", keeper.ref + 1)
  <1>2. b \in Keepers /\ b.at = "next"
    <2>1. keeper.ref + 1 \in Nat \ {0}
      BY <1>1 DEF Keepers
    <2> QED BY <1>1, <2>1, SweepBegins
  <1>3. keeper' = [b EXCEPT !.done = done, !.life = keeper.life]
    BY DEF Turned
  <1>4. keeper.life \in [Ref -> Lives]
    BY <1>1 DEF Keepers
  <1> HIDE DEF b
  <1>5. keeper' \in Keepers /\ keeper'.at = "next" /\ keeper'.life = keeper.life
    BY <1>2, <1>3, <1>4 DEF Keepers
  <1> QED BY <1>1, <1>5 DEF Resting, Ahead

\* A step that leaves the panel alone, and no record of what is reduced.
LEMMA StandsKept ==
    ASSUME Inv, UNCHANGED Panel, KeeperTyped', KeeperGood',
           \A r \in Ref : record[r].phase \in ReducedPhases
                            => record'[r].phase \in ReducedPhases
    PROVE  Inv'
  <1>1. JournalTyped' /\ Runs' /\ JournalGood' /\ DraftGood' /\ DraftOnce'
    BY DEF Panel, Inv, Typed, JournalTyped, Runs, JournalGood, Reduced, InFlight, DraftGood,
           Drafts, DraftOnce, Held, Asking
  <1>2. NamedWordsKept'
    <2>1. ASSUME NEW t \in Turn, Reduced(turns, t),
                 NEW r \in Named(turns, turns[t].conversation)
          PROVE  ~Needed(r)'
      <3>1. r \in Ref
        BY DEF Inv, Typed, JournalTyped, Named, Of, Used, Turns
      <3> QED BY <2>1, <3>1 DEF Inv, NamedWordsKept, Needed, Panel
    <2> QED BY <2>1 DEF NamedWordsKept, Panel
  <1> QED BY <1>1, <1>2 DEF Inv, Typed

LEMMA SweepStartsKept == ASSUME Inv, SweepStarts PROVE Inv'
  <1> DEFINE seen(r) == [record[r] EXCEPT !.phase = "observed"]
  <1>1. /\ record \in [Ref -> Records] /\ mission \in [Ref -> Lives] /\ Recorded
        /\ texts \in [Ref -> Words] /\ UNCHANGED Panel /\ texts' = texts
    BY DEF Inv, Typed, JournalTyped, KeeperTyped, KeeperGood, Recorded, SweepStarts, journal,
           Panel
  <1>2. \A r \in Ref : seen(r) \in Records /\ seen(r).phase = "observed"
    BY <1>1 DEF Records
  <1>3. record' = [r \in Ref |-> IF mission[r] \in Over /\ record[r].phase = "intact"
                                 THEN seen(r) ELSE record[r]]
    BY DEF SweepStarts
  <1> HIDE DEF seen
  <1>4. record' \in [Ref -> Records] /\ Recorded'
    BY <1>1, <1>2, <1>3 DEF Recorded, Panel
  <1>5. Resting'
    <2> DEFINE b == Begun("sweep", "next", 1)
    <2>1. b \in Keepers /\ b.at = "next" /\ b.life = mission
      <3>1. 1 \in Nat \ {0}
        OBVIOUS
      <3> QED BY <1>1, <3>1, SweepBegins, Zenon
    <2>2. keeper' = b /\ mission' = mission
      BY <1>1 DEF SweepStarts, Panel
    <2> HIDE DEF b
    <2> QED BY <2>1, <2>2 DEF Resting, Ahead, Over
  <1>6. \A r \in Ref : record[r].phase \in ReducedPhases => record'[r] = record[r]
    BY <1>3 DEF ReducedPhases
  <1> QED BY <1>1, <1>4, <1>5, <1>6, RestingIs, StandsKept

\* A keeper that moves on, and writes nothing.
LEMMA GoesOnKept ==
    ASSUME Inv, UNCHANGED Panel, record' = record, texts' = texts, Resting'
    PROVE  Inv'
  <1>1. record' \in [Ref -> Records] /\ texts' \in [Ref -> Words] /\ Recorded'
    BY DEF Inv, Typed, KeeperTyped, KeeperGood, Recorded, Panel
  <1> QED BY <1>1, RestingIs, StandsKept

LEMMA Done == ASSUME Inv, keeper # Rest
              PROVE  keeper.done \in Nat /\ keeper.done + 1 \in Nat /\ keeper.ref \in Nat \ {0}
  BY AtWork DEF Keepers

LEMMA SweepTakesKept == ASSUME Inv, SweepTakes PROVE Inv'
  <1>1. /\ UNCHANGED Panel /\ record' = record /\ texts' = texts /\ mission' = mission
        /\ keeper # Rest /\ keeper.at = "next"
    BY DEF SweepTakes, Panel, Rest
  <1>2. CASE keeper' = Rest \/ Turned(keeper.done)
    <2>1. Resting'
      BY <1>1, <1>2, Done, TurnedIs DEF Resting
    <2> QED BY <1>1, <2>1, GoesOnKept
  <1>3. CASE /\ ~(keeper.ref > MaxRef) /\ Wanted(keeper.ref)
             /\ keeper' = [keeper EXCEPT !.at = "read"]
    <2>1. keeper \in Keepers /\ Ahead(keeper.life) /\ keeper.ref \in Ref
      BY <1>1, <1>3, AtWork, Done, JournalAssumption DEF Ref
    <2>2. /\ keeper' \in Keepers /\ keeper'.at = "read" /\ keeper'.ref = keeper.ref
          /\ keeper'.life = keeper.life
      BY <1>3, <2>1 DEF Keepers, KeeperSteps
    <2>3. mission[keeper.ref] \in Over
      BY <1>3, <2>1 DEF Inv, KeeperGood, Wanted
    <2>4. KeeperTyped'
      BY <1>1, <2>1, <2>2 DEF Inv, Typed, KeeperTyped
    <2>5. KeeperGood'
      BY <1>1, <1>3, <2>1, <2>2, <2>3 DEF Inv, KeeperGood, Ahead, Wanted, Panel
    <2> QED BY <1>1, <2>4, <2>5, StandsKept
  <1> QED BY <1>2, <1>3 DEF SweepTakes

LEMMA DeleteStartsKept == ASSUME Inv, NEW r \in Ref, DeleteStarts(r) PROVE Inv'
  <1>1. /\ UNCHANGED Panel /\ record' = record /\ texts' = texts /\ mission[r] \in Over
        /\ keeper' = Begun("delete", "read", r) /\ mission \in [Ref -> Lives]
    BY DEF DeleteStarts, Panel, journal, Inv, Typed, JournalTyped
  <1>2. r \in Nat \ {0} /\ "read" \in {"next"} \cup KeeperSteps
        /\ "delete" \in {"sweep", "delete"}
    BY JournalAssumption DEF Ref, KeeperSteps
  <1>3. /\ keeper' \in Keepers /\ keeper'.op = "delete" /\ keeper'.at = "read"
        /\ keeper'.ref = r /\ keeper'.life = mission
    <2> DEFINE k == Begun("delete", "read", r)
    <2>1. 0 \in Nat /\ {} \in SUBSET (Conversation \cup {None}) /\ {} \in SUBSET Ref
      OBVIOUS
    <2>2. k \in Keepers /\ k.op = "delete" /\ k.at = "read" /\ k.ref = r /\ k.life = mission
      BY <1>1, <1>2, <2>1, TypedRecords, Zenon DEF Begun, Keepers
    <2> QED BY <1>1, <2>2
  <1>4. KeeperTyped'
    BY <1>1, <1>3 DEF Inv, Typed, KeeperTyped
  <1>5. Ahead(keeper.life)' /\ Recorded' /\ mission' = mission
    BY <1>1, <1>3 DEF Inv, KeeperGood, Ahead, Panel, Recorded, Over
  <1>6. KeeperGood'
    BY <1>1, <1>3, <1>5 DEF KeeperGood, Recorded
  <1> QED BY <1>1, <1>4, <1>6, StandsKept

LEMMA ReadsKept == ASSUME Inv, Reads PROVE Inv'
  <1>1. /\ UNCHANGED Panel /\ record' = record /\ texts' = texts /\ keeper.at = "read"
        /\ keeper' = [keeper EXCEPT !.at = "judge", !.seen = turns]
        /\ turns \in [Turn -> Turns] /\ keeper # Rest
    BY DEF Reads, Panel, journal, Inv, Typed, JournalTyped, Rest
  <1>2. keeper \in Keepers /\ Ahead(keeper.life) /\ keeper.ref \in Ref
    BY <1>1, AtWork DEF Inv, Typed, KeeperTyped, KeeperSteps
  <1>3. /\ keeper' \in Keepers /\ keeper'.at = "judge" /\ keeper'.ref = keeper.ref
        /\ keeper'.life = keeper.life /\ keeper'.op = keeper.op
    BY <1>1, <1>2 DEF Keepers, KeeperSteps
  <1>4. KeeperTyped'
    BY <1>1, <1>2, <1>3 DEF Inv, Typed, KeeperTyped
  <1>5. mission[keeper.ref] \in Over /\ (keeper.op = "sweep" => Wanted(keeper.ref))
    BY <1>1 DEF Inv, KeeperGood, KeeperSteps
  <1>6. KeeperGood'
    BY <1>1, <1>2, <1>3, <1>5 DEF Inv, KeeperGood, Ahead, Panel, Wanted
  <1> QED BY <1>1, <1>4, <1>6, StandsKept

\* The part of a journal names no mission the journal does not name.
LEMMA PartNames ==
    ASSUME NEW j \in [Turn -> Turns], NEW cs, NEW c
    PROVE  /\ Part(j, cs) \in [Turn -> Turns]
           /\ Named(Part(j, cs), c) \subseteq Named(j, c)
           /\ Named(j, c) \subseteq Ref
  <1>1. Part(j, cs) \in [Turn -> Turns]
    BY TypedRecords DEF Part
  <1>2. NoTurn.state = "unused"
    BY DEF NoTurn, NewTurn
  <1>3. Named(Part(j, cs), c) \subseteq Named(j, c)
    BY <1>2 DEF Part, Named, Of, Used
  <1>4. Named(j, c) \subseteq Ref
    BY DEF Named, Of, Used, Turns
  <1> QED BY <1>1, <1>3, <1>4

LEMMA ReducesIs ==
    ASSUME Inv, keeper.at = "judge", NEW release \in SUBSET (Conversation \cup {None}),
           NEW kept \in SUBSET Ref, Reduces(release, kept)
    PROVE  /\ keeper' \in Keepers /\ keeper'.at = "journal"
           /\ keeper'.op = keeper.op /\ keeper'.ref = keeper.ref
           /\ keeper'.life = keeper.life /\ keeper'.release = release
           /\ keeper'.seen = Part(keeper.seen, release)
           /\ keeper.op = "delete" => keeper'.prior = record[keeper.ref]
  <1>1. keeper \in Keepers /\ keeper.ref \in Ref
    BY AtWork DEF Inv, Typed, KeeperTyped, Rest, KeeperSteps
  <1>2. record[keeper.ref] \in Records /\ requests[keeper.ref].bound \in BOOLEAN
    BY <1>1 DEF Inv, Typed, JournalTyped, KeeperTyped, Requests
  <1>3. Part(keeper.seen, release) \in [Turn -> Turns] /\ keeper.prior \in Records
    BY <1>1, PartNames DEF Keepers
  <1> DEFINE bound == requests[keeper.ref].bound
             seen == Part(keeper.seen, release)
             prior == IF keeper.op = "delete" THEN record[keeper.ref] ELSE keeper.prior
  <1>4. keeper' = [keeper EXCEPT !.at = "journal", !.seen = seen, !.release = release,
                                 !.kept = kept, !.bound = bound, !.prior = prior]
    BY DEF Reduces
  <1>5. prior \in Records /\ seen \in [Turn -> Turns] /\ bound \in BOOLEAN
        /\ (keeper.op = "delete" => prior = record[keeper.ref])
    BY <1>2, <1>3
  <1> HIDE DEF bound, seen, prior
  <1>6. /\ keeper' \in Keepers /\ keeper'.at = "journal"
        /\ keeper'.op = keeper.op /\ keeper'.ref = keeper.ref
        /\ keeper'.life = keeper.life /\ keeper'.release = release
        /\ keeper'.seen = seen /\ keeper'.prior = prior
    BY <1>1, <1>4, <1>5, Zenon DEF Keepers, KeeperSteps
  <1> QED BY <1>5, <1>6 DEF seen

\* The record of one mission over, replaced.
LEMMA RecordIs ==
    ASSUME Inv, NEW r \in Ref, NEW e \in Records, record' = [record EXCEPT ![r] = e],
           mission[r] \in Over, mission' = mission
    PROVE  /\ record' \in [Ref -> Records] /\ Recorded' /\ record'[r] = e
           /\ \A s \in Ref \ {r} : record'[s] = record[s]
  BY DEF Inv, Typed, KeeperTyped, KeeperGood, Recorded

\* A mission a keeper judged safe needs its words no more.
LEMMA SafeIs ==
    ASSUME NEW life, Ahead(life), NEW s \in Ref, Safe(life, s)
    PROVE  ~Needed(s) /\ (record[s].phase \in ReducedPhases \/ mission[s] = "due")
  BY DEF Ahead, Safe, Needed, Over

LEMMA SweepJudgesKept == ASSUME Inv, SweepJudges PROVE Inv'
  <1> DEFINE r == keeper.ref
             mine == IF requests[r].bound THEN ConversationsOf(keeper.seen, r) ELSE {}
             unsafe(c) == {s \in Named(keeper.seen, c) \ {r} : ~Safe(keeper.life, s)}
             kept == UNION {unsafe(c) : c \in mine}
             release == {c \in mine : unsafe(c) = {}}
             e == [record[r] EXCEPT !.phase = "reclaiming", !.summary = TRUE]
  <1>1. /\ UNCHANGED Panel /\ texts' = texts /\ mission' = mission
        /\ keeper.at = "judge" /\ keeper.op = "sweep" /\ keeper # Rest
    BY DEF SweepJudges, Panel, journal, Rest
  <1>2. /\ keeper \in Keepers /\ Ahead(keeper.life) /\ r \in Ref
        /\ mission[r] \in Over /\ Wanted(r) /\ record \in [Ref -> Records]
    BY <1>1, AtWork DEF Inv, Typed, KeeperTyped, KeeperGood, KeeperSteps
  <1>3. CASE Turned(keeper.done) /\ record' = record
    BY <1>1, <1>3, Done, TurnedIs, GoesOnKept
  <1>4. ASSUME Reduces(release, kept),
               record' = IF record[r].phase = "observed"
                         THEN [record EXCEPT ![r].phase = "reclaiming", ![r].summary = TRUE]
                         ELSE record
        PROVE  Inv'
    <2>1. keeper.seen \in [Turn -> Turns]
      BY <1>2 DEF Keepers
    <2>2. release \in SUBSET (Conversation \cup {None})
      BY <2>1 DEF ConversationsOf, Turns
    <2>3. kept \in SUBSET Ref
      BY <2>1, PartNames
    <2>4. /\ keeper' \in Keepers /\ keeper'.at = "journal"
          /\ keeper'.op = keeper.op /\ keeper'.ref = r
          /\ keeper'.life = keeper.life /\ keeper'.release = release
          /\ keeper'.seen = Part(keeper.seen, release)
      BY <1>1, <1>4, <2>2, <2>3, ReducesIs
    <2>5. /\ record' \in [Ref -> Records] /\ Recorded'
          /\ \A s \in Ref : record[s].phase \in ReducedPhases
                              => record'[s].phase \in ReducedPhases
          /\ mission[r] = "due" \/ record'[r].phase \in ReducedPhases
      <3>1. CASE record[r].phase # "observed"
        <4>1. mission[r] = "due" \/ record[r].phase \in ReducedPhases
          BY <1>2, <3>1 DEF Wanted, ReducedPhases
        <4> QED BY <1>1, <1>2, <1>4, <3>1, <4>1 DEF Inv, KeeperGood, Recorded
      <3>2. CASE record[r].phase = "observed"
        <4>1. e \in Records /\ e.phase = "reclaiming"
          BY <1>2 DEF Records, ReducedPhases
        <4>2. record' = [record EXCEPT ![r] = e]
          BY <1>4, <3>2
        <4> HIDE DEF e
        <4> QED BY <1>1, <1>2, <4>1, <4>2, RecordIs DEF ReducedPhases
      <3> QED BY <3>1, <3>2
    <2>6. ASSUME NEW c \in release, NEW s \in Named(Part(keeper.seen, release), c)
          PROVE  ~Needed(s)'
      <3>1. s \in Ref /\ s \in Named(keeper.seen, c)
        BY <2>1, <2>6, PartNames
      <3>2. CASE s = r
        BY <1>1, <1>2, <2>5, <3>2 DEF Needed, Over
      <3>3. CASE s # r
        <4>1. Safe(keeper.life, s)
          BY <2>6, <3>1, <3>3
        <4>2. mission[s] \in Over /\ (record[s].phase \in ReducedPhases \/ mission[s] = "due")
          BY <1>2, <3>1, <4>1, SafeIs DEF Safe, Ahead, Over
        <4> QED BY <1>1, <2>5, <3>1, <4>2 DEF Needed, Over
      <3> QED BY <3>2, <3>3
    <2>7. KeeperTyped'
      BY <1>1, <1>2, <2>4, <2>5 DEF Inv, Typed, KeeperTyped
    <2>8. KeeperGood'
      <3>1. Ahead(keeper.life)' /\ mission'[keeper'.ref] \in Over
        BY <1>1, <1>2, <2>4 DEF Ahead
      <3>2. \A c \in keeper'.release : \A s \in Named(keeper'.seen, c) : ~Needed(s)'
        BY <2>4, <2>6
      <3> HIDE DEF release
      <3> QED BY <1>1, <2>4, <2>5, <3>1, <3>2 DEF KeeperGood, Recorded
    <2> QED BY <1>1, <2>5, <2>7, <2>8, StandsKept
  <1> QED BY <1>3, <1>4 DEF SweepJudges

LEMMA DeleteJudgesKept == ASSUME Inv, DeleteJudges PROVE Inv'
  <1> DEFINE r == keeper.ref
             mine == ConversationsOf(keeper.seen, r)
             others == (UNION {Named(keeper.seen, c) : c \in mine}) \ {r}
             e == [NoRecord EXCEPT !.phase = "deleting"]
  <1>1. /\ UNCHANGED Panel /\ texts' = texts /\ mission' = mission
        /\ keeper.at = "judge" /\ keeper.op = "delete" /\ keeper # Rest
    BY DEF DeleteJudges, Panel, journal, Rest
  <1>2. /\ keeper \in Keepers /\ Ahead(keeper.life) /\ r \in Ref
        /\ mission[r] \in Over /\ record \in [Ref -> Records]
        /\ keeper.seen \in [Turn -> Turns]
    BY <1>1, AtWork DEF Inv, Typed, KeeperTyped, KeeperGood, KeeperSteps, Keepers
  <1>3. CASE keeper' = Rest /\ record' = record
    BY <1>1, <1>3, GoesOnKept DEF Resting
  <1>4. ASSUME others = {}, Reduces(mine, {}), record' = [record EXCEPT ![r] = e]
        PROVE  Inv'
    <2>1. mine \in SUBSET (Conversation \cup {None}) /\ {} \in SUBSET Ref
      BY <1>2 DEF ConversationsOf, Turns
    <2>2. /\ keeper' \in Keepers /\ keeper'.at = "journal"
          /\ keeper'.op = keeper.op /\ keeper'.ref = r
          /\ keeper'.life = keeper.life /\ keeper'.release = mine
          /\ keeper'.seen = Part(keeper.seen, mine) /\ keeper'.prior = record[r]
      BY <1>1, <1>4, <2>1, ReducesIs
    <2>3. e \in Records /\ e.phase \in ReducedPhases /\ e.phase = "deleting"
      BY DEF NoRecord, Records, ReducedPhases
    <2> HIDE DEF e
    <2>4. /\ record' \in [Ref -> Records] /\ Recorded' /\ record'[r].phase \in ReducedPhases
          /\ \A s \in Ref : record[s].phase \in ReducedPhases
                              => record'[s].phase \in ReducedPhases
      BY <1>1, <1>2, <1>4, <2>3, RecordIs
    <2>5. ASSUME NEW c \in mine, NEW s \in Named(Part(keeper.seen, mine), c)
          PROVE  ~Needed(s)'
      <3>1. s = r
        <4>1. s \in Named(keeper.seen, c)
          BY <1>2, <2>5, PartNames
        <4>2. s \in UNION {Named(keeper.seen, d) : d \in mine}
          BY <4>1
        <4> QED BY <1>4, <4>2
      <3> QED BY <1>1, <1>2, <2>4, <3>1 DEF Needed, Over
    <2>6. Withdrawable(keeper.ref, keeper.prior)'
      <3>1. ASSUME NEW t \in Turn, Reduced(turns, t),
                   r \in Named(turns, turns[t].conversation)
            PROVE  mission[r] = "due" \/ record[r].phase \in ReducedPhases
        BY <3>1, <1>2 DEF Inv, NamedWordsKept, Needed
      <3> QED BY <1>1, <2>2, <3>1 DEF Withdrawable, Panel
    <2>7. KeeperTyped'
      BY <1>1, <1>2, <2>2, <2>4 DEF Inv, Typed, KeeperTyped
    <2>8. KeeperGood'
      <3>1. Ahead(keeper.life)' /\ mission'[keeper'.ref] \in Over
        BY <1>1, <1>2, <2>2 DEF Ahead
      <3>2. \A c \in keeper'.release : \A s \in Named(keeper'.seen, c) : ~Needed(s)'
        BY <2>2, <2>5
      <3> HIDE DEF mine
      <3> QED BY <1>1, <2>2, <2>4, <2>6, <3>1, <3>2 DEF KeeperGood, Recorded
    <2> QED BY <1>1, <2>4, <2>7, <2>8, StandsKept
  <1> QED BY <1>3, <1>4 DEF DeleteJudges

LEMMA MarkedIs ==
    ASSUME NEW w \in Words, NEW outcome \in {"reclaimed", "deleted"}
    PROVE  Marked(w, outcome) \in Words \ {"kept"}
  BY DEF Marked, Words

LEMMA OutcomeIs == ASSUME NEW r PROVE Outcome(r) \in {"reclaimed", "deleted"}
  BY DEF Outcome

\* A conversation is reduced under the journal's lock: it is the one that was
\* judged, and nothing of it is in flight.
LEMMA JournalReducedKept ==
    ASSUME Inv, ReduceJournal, Quiet, UnchangedSince,
           turns' = [t \in Turn |->
               IF turns[t].conversation \in keeper.release
               THEN [turns[t] EXCEPT !.words = Marked(@, Outcome(keeper.ref))] ELSE turns[t]],
           keeper' = [keeper EXCEPT !.at = "requests", !.seen = NoTurns, !.release = {},
                                    !.prior = NoRecord]
    PROVE  Inv'
  <1> DEFINE e(t) == [turns[t] EXCEPT !.words = Marked(@, Outcome(keeper.ref))]
             released(t) == turns[t].conversation \in keeper.release
  <1>1. /\ UNCHANGED <<registry, sender, running, submit, requests, mission, record, texts>>
        /\ keeper.at = "journal" /\ keeper # Rest /\ turns \in [Turn -> Turns]
    BY DEF ReduceJournal, Rest, Inv, Typed, JournalTyped
  <1>2. keeper \in Keepers /\ keeper.ref \in Ref /\ Ahead(keeper.life)
    BY <1>1, AtWork DEF Inv, Typed, KeeperTyped, KeeperSteps
  <1>3. ASSUME NEW t \in Turn
        PROVE  /\ e(t) \in Turns /\ e(t).words # "kept" /\ e(t).state = turns[t].state
               /\ e(t).conversation = turns[t].conversation /\ e(t).ref = turns[t].ref
               /\ e(t).submission = turns[t].submission
    <2> DEFINE w == Marked(turns[t].words, Outcome(keeper.ref))
    <2>1. turns[t] \in Turns /\ w \in Words \ {"kept"}
      BY <1>1, MarkedIs, OutcomeIs DEF Turns
    <2>2. e(t) = [turns[t] EXCEPT !.words = w]
      BY <2>1 DEF Turns
    <2> HIDE DEF w, e
    <2> QED BY <2>1, <2>2 DEF Turns
  <1>4. turns' = [t \in Turn |-> IF released(t) THEN e(t) ELSE turns[t]]
    OBVIOUS
  <1> HIDE DEF e
  <1>5. /\ turns' \in [Turn -> Turns]
        /\ \A t \in Turn :
              /\ turns'[t].conversation = turns[t].conversation
              /\ turns'[t].state = turns[t].state /\ turns'[t].ref = turns[t].ref
              /\ turns'[t].submission = turns[t].submission
              /\ Reduced(turns', t) <=> Reduced(turns, t) \/ released(t)
              /\ InFlight(turns', t) <=> InFlight(turns, t)
    BY <1>1, <1>3, <1>4 DEF Reduced, InFlight
  <1> HIDE DEF released
  <1>6. JournalTyped' /\ Runs' /\ DraftGood' /\ DraftOnce'
    BY <1>1, <1>5 DEF Inv, Typed, JournalTyped, Runs, DraftGood, Drafts, DraftOnce, Held
  <1>7. JournalGood'
    BY <1>5 DEF Inv, JournalGood, Quiet, released
  <1>8. \A c : Named(turns', c) = Named(turns, c)
    BY <1>5 DEF Named, Of, Used
  <1>9. NamedWordsKept'
    <2>1. ASSUME NEW t \in Turn, Reduced(turns', t),
                 NEW r \in Named(turns', turns'[t].conversation)
          PROVE  ~Needed(r)
      <3>1. r \in Named(turns, turns[t].conversation)
        BY <2>1, <1>5, <1>8
      <3>2. CASE Reduced(turns, t)
        BY <3>1, <3>2 DEF Inv, NamedWordsKept
      <3>3. CASE released(t)
        <4>1. ASSUME NEW u \in Turn, turns[u].conversation = turns[t].conversation
              PROVE  keeper.seen[u] = turns[u]
          BY <3>3, <4>1 DEF UnchangedSince, Part, released
        <4>2. r \in Named(keeper.seen, turns[t].conversation)
          BY <3>1, <4>1 DEF Named, Of, Used
        <4> QED BY <3>3, <4>2, <1>1 DEF Inv, KeeperGood, released
      <3> QED BY <2>1, <1>5, <3>2, <3>3
    <2>2. ASSUME NEW r PROVE Needed(r)' <=> Needed(r)
      BY <1>1 DEF Needed
    <2> QED BY <2>1, <2>2 DEF NamedWordsKept
  <1>10. /\ keeper' \in Keepers /\ keeper'.at = "requests" /\ keeper'.ref = keeper.ref
         /\ keeper'.life = keeper.life
    BY <1>2, TypedRecords DEF Keepers, KeeperSteps
  <1>11. KeeperTyped'
    BY <1>1, <1>2, <1>10 DEF Inv, Typed, KeeperTyped
  <1>12. KeeperGood'
    <2>1. Ahead(keeper.life)' /\ mission'[keeper'.ref] \in Over /\ Recorded'
      BY <1>1, <1>2, <1>10 DEF Ahead, Inv, KeeperGood, KeeperSteps, Recorded
    <2> QED BY <1>10, <2>1 DEF KeeperGood, Recorded
  <1> QED BY <1>6, <1>7, <1>9, <1>11, <1>12 DEF Inv, Typed

LEMMA ReduceJournalKept == ASSUME Inv, ReduceJournal PROVE Inv'
  <1>1. /\ record' = record /\ texts' = texts /\ mission' = mission
        /\ keeper.at = "journal" /\ keeper # Rest
    BY DEF ReduceJournal, Rest
  <1>2. CASE turns' = turns /\ keeper.op = "sweep" /\ Turned(keeper.done)
    <2>1. UNCHANGED Panel
      BY <1>2 DEF ReduceJournal, Panel
    <2> QED BY <2>1, <1>1, <1>2, Done, TurnedIs, GoesOnKept
  <1>3. CASE /\ turns' = turns /\ keeper.op # "sweep"
             /\ keeper' = [keeper EXCEPT !.at = "withdraw", !.seen = NoTurns, !.release = {}]
    <2>1. UNCHANGED Panel
      BY <1>3 DEF ReduceJournal, Panel
    <2>2. /\ keeper \in Keepers /\ keeper.ref \in Ref /\ Ahead(keeper.life)
          /\ keeper.op = "delete"
      BY <1>1, <1>3, AtWork DEF Inv, Typed, KeeperTyped, KeeperSteps, Keepers
    <2>3. /\ keeper' \in Keepers /\ keeper'.at = "withdraw" /\ keeper'.ref = keeper.ref
          /\ keeper'.op = keeper.op /\ keeper'.life = keeper.life
          /\ keeper'.prior = keeper.prior
      BY <1>3, <2>2, TypedRecords DEF Keepers, KeeperSteps
    <2>4. KeeperTyped'
      BY <1>1, <2>2, <2>3 DEF Inv, Typed, KeeperTyped
    <2>5. /\ Ahead(keeper.life)' /\ mission'[keeper'.ref] \in Over /\ Recorded'
          /\ Withdrawable(keeper.ref, keeper.prior)'
      BY <1>1, <1>3, <2>2, <2>3
         DEF Ahead, Inv, KeeperGood, KeeperSteps, Recorded, Withdrawable
    <2>6. KeeperGood'
      BY <2>2, <2>3, <2>5 DEF KeeperGood, Recorded
    <2> QED BY <1>1, <2>1, <2>4, <2>6, StandsKept
  <1> QED BY <1>2, <1>3, JournalReducedKept DEF ReduceJournal

\* A record that is put back is that of a mission nothing was reduced of, or its
\* reduction was on record before.
LEMMA WithdrawKept == ASSUME Inv, Withdraw PROVE Inv'
  <1> DEFINE r == keeper.ref
  <1>1. /\ UNCHANGED Panel /\ texts' = texts /\ keeper' = Rest
        /\ record' = [record EXCEPT ![r] = keeper.prior]
        /\ keeper.at = "withdraw" /\ keeper # Rest /\ mission' = mission /\ turns' = turns
    BY DEF Withdraw, Panel, journal, Rest
  <1>2. /\ keeper.prior \in Records /\ r \in Ref /\ mission[r] \in Over
        /\ Withdrawable(r, keeper.prior)
    BY <1>1, AtWork DEF Inv, Typed, KeeperTyped, KeeperGood, KeeperSteps, Keepers
  <1>3. /\ record' \in [Ref -> Records] /\ Recorded' /\ record'[r] = keeper.prior
        /\ \A s \in Ref \ {r} : record'[s] = record[s]
    BY <1>1, <1>2, RecordIs
  <1>4. KeeperTyped' /\ KeeperGood'
    BY <1>1, <1>3, RestingIs DEF Resting, Inv, Typed, KeeperTyped
  <1>5. JournalTyped' /\ Runs' /\ JournalGood' /\ DraftGood' /\ DraftOnce'
    BY <1>1 DEF Panel, Inv, Typed, JournalTyped, Runs, JournalGood, Reduced, InFlight,
                DraftGood, Drafts, DraftOnce, Held, Asking
  <1>6. NamedWordsKept'
    <2>1. ASSUME NEW t \in Turn, Reduced(turns, t),
                 NEW s \in Named(turns, turns[t].conversation)
          PROVE  ~Needed(s)'
      <3>1. s \in Ref
        BY DEF Inv, Typed, JournalTyped, Named, Of, Used, Turns
      <3>2. CASE s = r
        BY <1>1, <1>2, <1>3, <2>1, <3>2 DEF Withdrawable, Needed, Over
      <3>3. CASE s # r
        BY <1>1, <1>3, <2>1, <3>1, <3>3 DEF Inv, NamedWordsKept, Needed
      <3> QED BY <3>2, <3>3
    <2> QED BY <1>1, <2>1 DEF NamedWordsKept
  <1> QED BY <1>4, <1>5, <1>6 DEF Inv, Typed

\* A keeper past the journal that goes on to the next store.
LEMMA MovesOn ==
    ASSUME Inv, keeper # Rest, keeper.at \in KeeperSteps, NEW at \in {"texts", "close"},
           keeper' = [keeper EXCEPT !.at = at], record' = record, mission' = mission,
           texts' \in [Ref -> Words]
    PROVE  KeeperTyped' /\ KeeperGood'
  <1>1. keeper \in Keepers /\ Ahead(keeper.life) /\ keeper.ref \in Ref
    BY AtWork DEF Inv, Typed, KeeperTyped
  <1>2. /\ keeper' \in Keepers /\ keeper'.at = at /\ keeper'.ref = keeper.ref
        /\ keeper'.life = keeper.life
    BY <1>1, Zenon DEF Keepers, KeeperSteps
  <1>3. KeeperTyped'
    BY <1>1, <1>2 DEF Inv, Typed, KeeperTyped
  <1>4. Ahead(keeper.life)' /\ mission'[keeper'.ref] \in Over /\ Recorded'
    BY <1>1, <1>2 DEF Ahead, Inv, KeeperGood, Recorded
  <1>5. KeeperGood'
    BY <1>2, <1>4 DEF KeeperGood, Recorded
  <1> QED BY <1>3, <1>5

LEMMA ReduceRequestsKept == ASSUME Inv, ReduceRequests PROVE Inv'
  <1> DEFINE r == keeper.ref
             e == [requests[r] EXCEPT !.words = Marked(@, Outcome(r))]
  <1>1. /\ UNCHANGED <<turns, registry, sender, running, submit, mission, record, texts>>
        /\ keeper.at = "requests" /\ keeper # Rest
        /\ keeper' = [keeper EXCEPT !.at = "texts"]
        /\ requests' = IF keeper.bound THEN [requests EXCEPT ![r] = e] ELSE requests
    BY DEF ReduceRequests, Rest
  <1>2. /\ requests \in [Ref -> Requests] /\ texts' \in [Ref -> Words] /\ r \in Ref
        /\ keeper.at \in KeeperSteps
    BY <1>1 DEF Inv, Typed, JournalTyped, KeeperTyped, KeeperSteps
  <1>3. e \in Requests /\ e.turn = requests[r].turn
    <2> DEFINE w == Marked(requests[r].words, Outcome(r))
    <2>1. requests[r] \in Requests /\ w \in Words
      BY <1>2, MarkedIs, OutcomeIs DEF Requests
    <2>2. e = [requests[r] EXCEPT !.words = w]
      BY <2>1, Zenon DEF Requests
    <2> HIDE DEF w, e
    <2> QED BY <2>1, <2>2, Zenon DEF Requests
  <1> HIDE DEF e
  <1>4. /\ requests' \in [Ref -> Requests]
        /\ \A s \in Ref : requests'[s].turn = requests[s].turn
    BY <1>1, <1>2, <1>3
  <1>5. KeeperTyped' /\ KeeperGood'
    BY <1>1, <1>2, MovesOn
  <1>6. JournalTyped' /\ Runs' /\ JournalGood' /\ DraftGood' /\ DraftOnce'
    BY <1>1, <1>4 DEF Inv, Typed, JournalTyped, Runs, JournalGood, Reduced, InFlight,
                      DraftGood, Drafts, DraftOnce, Held, Asking
  <1>7. NamedWordsKept'
    BY <1>1 DEF Inv, NamedWordsKept, Needed, Reduced
  <1> QED BY <1>5, <1>6, <1>7 DEF Inv, Typed

LEMMA ReduceTextsKept == ASSUME Inv, ReduceTexts PROVE Inv'
  <1> DEFINE r == keeper.ref
  <1>1. /\ UNCHANGED Panel /\ record' = record /\ mission' = mission
        /\ keeper.at = "texts" /\ keeper # Rest
        /\ keeper' = [keeper EXCEPT !.at = "close"]
        /\ texts' = [texts EXCEPT ![r] = Marked(@, Outcome(r))]
    BY DEF ReduceTexts, Panel, journal, Rest
  <1>2. texts \in [Ref -> Words] /\ r \in Ref /\ keeper.at \in KeeperSteps
    BY <1>1 DEF Inv, Typed, KeeperTyped, KeeperSteps
  <1>3. texts' \in [Ref -> Words]
    BY <1>1, <1>2, MarkedIs, OutcomeIs
  <1>4. KeeperTyped' /\ KeeperGood'
    BY <1>1, <1>2, <1>3, MovesOn
  <1> QED BY <1>1, <1>4, StandsKept

LEMMA CloseKept == ASSUME Inv, Close PROVE Inv'
  <1> DEFINE r == keeper.ref
             told == record[r].summary /\ Outcome(r) = "reclaimed"
             e == [phase |-> Outcome(r), kept |-> keeper.kept, summary |-> told]
  <1>1. /\ UNCHANGED Panel /\ texts' = texts /\ mission' = mission
        /\ keeper.at = "close" /\ keeper # Rest
        /\ record' = [record EXCEPT ![r] = e]
        /\ \/ Turned(keeper.done + 1)
           \/ keeper' = Rest
    BY DEF Close, Panel, journal, Rest
  <1>2. /\ record \in [Ref -> Records] /\ r \in Ref /\ mission[r] \in Over
        /\ keeper.kept \in SUBSET Ref /\ texts \in [Ref -> Words]
    BY <1>1, AtWork DEF Inv, Typed, KeeperTyped, KeeperGood, KeeperSteps, Keepers
  <1>3. e \in Records /\ e.phase \in ReducedPhases
    <2>1. told \in BOOLEAN /\ record[r] \in Records
      BY <1>2
    <2>2. Outcome(r) \in ReducedPhases
      BY OutcomeIs DEF ReducedPhases
    <2> HIDE DEF told
    <2> QED BY <1>2, <2>1, <2>2, Zenon DEF Records
  <1> HIDE DEF e
  <1>4. /\ record' \in [Ref -> Records] /\ Recorded'
        /\ \A s \in Ref : record[s].phase \in ReducedPhases
                            => record'[s].phase \in ReducedPhases
    BY <1>1, <1>2, <1>3, RecordIs
  <1>5. Resting'
    BY <1>1, Done, TurnedIs DEF Resting
  <1>6. KeeperTyped' /\ KeeperGood'
    BY <1>1, <1>2, <1>4, <1>5, RestingIs
  <1> QED BY <1>1, <1>4, <1>6, StandsKept

LEMMA KeeperFailsKept == ASSUME Inv, KeeperFails PROVE Inv'
  <1>1. /\ UNCHANGED Panel /\ record' = record /\ texts' = texts /\ mission' = mission
        /\ keeper # Rest
        /\ keeper' = Rest \/ Turned(keeper.done)
    BY DEF KeeperFails, Panel
  <1>2. Resting'
    BY <1>1, Done, TurnedIs DEF Resting
  <1> QED BY <1>1, <1>2, GoesOnKept

\* Every step keeps the invariant.
LEMMA NextKept == ASSUME Inv, Next PROVE Inv'
  <1>1. CASE JournalNext /\ UNCHANGED retention
    BY <1>1, JournalKept, CarriedKept DEF retention
  <1>2. CASE /\ PanelDies
             /\ keeper' = IF keeper.op = "delete" THEN Rest ELSE keeper
             /\ UNCHANGED <<record, texts>>
    BY <1>2, PanelDiesKept, CarriedKept
  <1>3. CASE SweepStarts \/ (\E r \in Ref : DeleteStarts(r)) \/ KeeperProceeds \/ KeeperFails
    BY <1>3, SweepStartsKept, DeleteStartsKept, SweepTakesKept, ReadsKept, SweepJudgesKept,
       DeleteJudgesKept, ReduceJournalKept, WithdrawKept, ReduceRequestsKept,
       ReduceTextsKept, CloseKept, KeeperFailsKept DEF KeeperProceeds
  <1> QED BY <1>1, <1>2, <1>3 DEF Next, Dies

LEMMA StutterKept == ASSUME Inv, UNCHANGED vars PROVE Inv'
  <1>1. UNCHANGED Panel /\ record' = record /\ texts' = texts /\ keeper' = keeper
    BY DEF vars, Panel
  <1>2. KeeperTyped'
    BY <1>1 DEF Inv, Typed, KeeperTyped
  <1>3. KeeperGood'
    BY <1>1 DEF Inv, KeeperGood, Panel, Ahead, Wanted, Needed, Withdrawable
  <1> QED BY <1>1, <1>2, <1>3, StandsKept

LEMMA InitInv == ASSUME Init PROVE Inv
  <1>1. /\ turns = NoTurns /\ registry = {} /\ sender = Idle /\ running = {}
        /\ submit = [t \in Turn |-> Idle] /\ requests = [r \in Ref |-> NoRequest]
        /\ mission = [r \in Ref |-> "none"] /\ record = [r \in Ref |-> NoRecord]
        /\ texts = [r \in Ref |-> "kept"] /\ keeper = Rest
    BY DEF Init, JournalInit
  <1>2. /\ NoTurn.state = "unused" /\ NoTurn.conversation = None /\ NoTurn.words = "kept"
        /\ NoTurn.submission = "none"
    BY DEF NoTurn, NewTurn
  <1>3. /\ NoRequest \in Requests /\ NoRequest.turn = None /\ NoRecord.phase = "intact"
        /\ Idle \in Senders /\ Idle \in Submits /\ Idle.at = "idle"
    BY DEF NoRequest, Requests, NoRecord, Idle, Senders, Submits, Words
  <1>4. JournalTyped
    BY <1>1, <1>3, TypedRecords DEF JournalTyped, Lives
  <1>5. KeeperTyped /\ KeeperGood
    <2>1. keeper.at \notin KeeperSteps
      BY <1>1 DEF Rest, KeeperSteps
    <2> QED BY <1>1, <1>3, <2>1, TypedRecords DEF KeeperTyped, KeeperGood, KeeperSteps, Words
  <1>6. Runs /\ JournalGood /\ NamedWordsKept
    BY <1>1, <1>2 DEF Runs, JournalGood, NamedWordsKept, Reduced, NoTurns
  <1>7. DraftGood /\ DraftOnce
    <2>1. \A r \in Ref : requests[r].turn \notin Turn
      BY <1>1, <1>3, JournalAssumption DEF Turn, None
    <2>2. \A r \in Ref : ~Held(r)
      BY <1>1, <1>3 DEF Held
    <2> QED BY <1>1, <1>3, <2>1, <2>2 DEF DraftGood, DraftOnce, Drafts, Asking
  <1> QED BY <1>4, <1>5, <1>6, <1>7 DEF Inv, Typed

-----------------------------------------------------------------------------
(* The theorems                                                            *)

\* The panel and retention stay within their types, a conversation is reduced as a
\* whole and with nothing in flight, and what a keeper judged stays so until it
\* reduces.
THEOREM InvariantHolds == Spec => []Inv
  <1>1. Init => Inv
    BY InitInv
  <1>2. Inv /\ [Next]_vars => Inv'
    BY NextKept, StutterKept
  <1> QED BY <1>1, <1>2, PTL DEF Spec

\* submit_draft makes one request of a draft at most, however its submission is
\* settled, fails or dies, and whatever other threads of the panel do.
THEOREM OneRequestPerDraft == Spec => []DraftOnce
  <1>1. Inv => DraftOnce
    BY DEF Inv
  <1> QED BY <1>1, InvariantHolds, PTL

\* reclaim_conversations never takes the words of a conversation while a mission
\* the journal names in it needs them, though sweep and delete judge from copies.
THEOREM WordsAreKept == Spec => []NamedWordsKept
  <1>1. Inv => NamedWordsKept
    BY DEF Inv
  <1> QED BY <1>1, InvariantHolds, PTL

-----------------------------------------------------------------------------
(* What the retention record tells: the invariant                          *)
(*                                                                         *)
(* The record is written before and after what it speaks of, and the three *)
(* stores between are another lock's.  ClaimGood says how far the work of  *)
(* a keeper is at each store; NamesGood says that no turn comes to name a  *)
(* mission that is being reduced, so that what was judged is all there is. *)

\* The thread of a submission still has to name the mission in the journal.
Awaited(r) == \E t \in Turn : submit[t].at \in {"bind", "finish"} /\ submit[t].ref = r

IsNamed(r) == \E t \in Turn : turns[t].ref = r

\* Nothing is left of the words, or only what a deletion leaves.
Gone(words, outcome) == words # "kept" /\ (outcome = "deleted" => words = "deleted")

TurnsGone(r, outcome) ==
    \A u \in Turn : turns[u].conversation \in ConversationsOf(turns, r)
                      => Gone(turns[u].words, outcome)

\* What a record of the mission says is so.
Tells(r, rec) ==
    /\ rec.phase \in {"intact", "observed"} => requests[r].words = "kept" /\ texts[r] = "kept"
    /\ rec.phase \in {"reclaiming", "reclaimed"} <=> rec.summary
    /\ IsNamed(r) /\ rec.phase = "reclaimed" /\ rec.kept = {} =>
          /\ TurnsGone(r, "reclaimed")
          /\ Gone(requests[r].words, "reclaimed") /\ Gone(texts[r], "reclaimed")
    /\ IsNamed(r) /\ rec.phase = "deleted" =>
          /\ TurnsGone(r, "deleted")
          /\ Gone(requests[r].words, "deleted") /\ Gone(texts[r], "deleted")

\* A turn names the one request that was made of it, and a mission that is due is
\* named by then or never.
NamesGood ==
    /\ \A t \in Turn : turns[t].ref # None =>
          /\ turns[t].submission = "SUBMITTED"
          /\ requests[turns[t].ref].turn = t /\ requests[turns[t].ref].bound
    /\ \A t \in Turn : submit[t].at \in {"bind", "finish"} /\ submit[t].ref # None =>
          /\ requests[submit[t].ref].turn = t
          /\ submit[t].at = "finish" => requests[submit[t].ref].bound
    /\ \A t \in Turn : submit[t].at = "finish" =>
          (submit[t].outcome = "SUBMITTED" <=> submit[t].ref # None)
    /\ \A r \in Ref : mission[r] # "none" => Held(r)
    /\ \A r \in Ref : mission[r] = "due" => ~Awaited(r)

RecordGood ==
    \A r \in Ref : /\ Tells(r, record[r])
                   /\ record[r].phase \in ReducedPhases => ~Awaited(r)

Working == {"journal", "requests", "texts", "close"}

ClaimGood ==
    LET r == keeper.ref IN
    /\ keeper.at = "judge" =>
          /\ \A t \in Turn : keeper.seen[t].ref = r =>
                turns[t].ref = r /\ turns[t].conversation = keeper.seen[t].conversation
          /\ \A t \in Turn : keeper.op = "sweep" /\ turns[t].ref = r =>
                keeper.seen[t].ref = r /\ keeper.seen[t].conversation = turns[t].conversation
    /\ keeper.at \in Working =>
          /\ record[r].phase \in {"reclaiming", "reclaimed", "deleting"}
          /\ record[r].phase = "reclaimed" => record[r].kept # {}
          /\ record[r].phase = "deleting" => keeper.kept = {}
          /\ IsNamed(r) => keeper.bound
    /\ keeper.at \in Working \cup {"withdraw"} /\ keeper.op = "delete"
          => record[r].phase = "deleting"
    /\ keeper.at \in {"journal", "withdraw"} /\ keeper.op = "delete" => Tells(r, keeper.prior)
    /\ keeper.at = "journal" /\ keeper.kept = {} =>
          ConversationsOf(turns, r) \subseteq keeper.release
    /\ keeper.at \in {"requests", "texts", "close"} /\ keeper.kept = {} =>
          TurnsGone(r, Outcome(r))
    /\ keeper.at \in {"texts", "close"} /\ IsNamed(r) => Gone(requests[r].words, Outcome(r))
    /\ keeper.at = "close" => Gone(texts[r], Outcome(r))

TellInv == NamesGood /\ RecordGood /\ ClaimGood

-----------------------------------------------------------------------------
(* The steps of the panel, and who is named                                *)

\* What a step of the panel leaves to the record: a turn names what its thread was
\* about to name, no words change, and nothing joins a conversation that is reduced.
Follows ==
    /\ \A r \in Ref : requests'[r].words = requests[r].words
    /\ \A t \in Turn : turns'[t].ref # turns[t].ref =>
          turns[t].ref = None /\ Awaited(turns'[t].ref)
    /\ \A t \in Turn :
          \/ turns'[t].conversation = turns[t].conversation /\ turns'[t].words = turns[t].words
          \/ /\ turns[t].state = "unused"
             /\ \A u \in Turn : turns[u].state # "unused"
                                /\ turns[u].conversation = turns'[t].conversation
                                  => ~Reduced(turns, u)
    /\ \A r \in Ref : Awaited(r)' => Awaited(r) \/ ~Held(r)

Followed == NamesGood' /\ Follows

LEMMA NoneIsNoRef == None \notin Ref /\ None \notin Turn
  BY JournalAssumption DEF None, Ref, Turn

LEMMA BoundWords ==
    ASSUME requests \in [Ref -> Requests], NEW r \in Ref
    PROVE  LET bound == [requests EXCEPT ![r].bound = TRUE] IN
           \A s \in Ref : /\ bound[s].turn = requests[s].turn
                          /\ requests[s].bound => bound[s].bound
                          /\ bound[s].words = requests[s].words
                          /\ bound[r].bound
  <1> DEFINE e == [requests[r] EXCEPT !.bound = TRUE]
  <1>1. e.turn = requests[r].turn /\ e.bound /\ e.words = requests[r].words
    BY DEF Requests
  <1>2. [requests EXCEPT ![r].bound = TRUE] = [requests EXCEPT ![r] = e]
    OBVIOUS
  <1> HIDE DEF e
  <1> QED BY <1>1, <1>2

\* Steps that name nothing and ask for nothing.
LEMMA QuietNames ==
    ASSUME Inv, NamesGood, JournalTyped',
           \A t \in Turn : /\ turns'[t].ref = turns[t].ref
                           /\ turns[t].ref # None => turns'[t].submission = turns[t].submission,
           \A r \in Ref : /\ requests'[r].turn = requests[r].turn
                          /\ requests[r].bound => requests'[r].bound,
           \A t \in Turn :
              \/ submit'[t] = submit[t]
              \/ submit'[t].at \notin {"bind", "finish"}
              \/ /\ submit'[t].at = "finish" /\ submit'[t].outcome # "SUBMITTED"
                 /\ submit'[t].ref = None,
           \A r \in Ref : mission'[r] # "none" => mission[r] # "none" \/ Held(r),
           \A r \in Ref : mission'[r] = "due" => mission[r] = "due" \/ ~Awaited(r)
    PROVE  NamesGood' /\ \A r \in Ref : Awaited(r)' => Awaited(r)
  <1>1. \A t \in Turn : turns[t].ref # None => turns[t].ref \in Ref
    BY DEF Inv, Typed, JournalTyped, Turns
  <1>2. ASSUME NEW t \in Turn, submit[t].at \in {"bind", "finish"}, submit[t].ref # None
        PROVE  submit[t].ref \in Ref
    <2>1. submit[t] \in Submits
      BY DEF Inv, Typed, JournalTyped
    <2> QED BY <1>2, <2>1 DEF Submits, Asking
  <1>3. \A r \in Ref : Awaited(r)' => Awaited(r)
    BY NoneIsNoRef DEF Awaited
  <1>4. \A t \in Turn : turns'[t].ref # None =>
          /\ turns'[t].submission = "SUBMITTED"
          /\ requests'[turns'[t].ref].turn = t /\ requests'[turns'[t].ref].bound
    BY <1>1 DEF NamesGood
  <1>5. \A t \in Turn : submit'[t].at \in {"bind", "finish"} /\ submit'[t].ref # None =>
          /\ requests'[submit'[t].ref].turn = t
          /\ submit'[t].at = "finish" => requests'[submit'[t].ref].bound
    BY <1>2 DEF NamesGood
  <1>6. \A t \in Turn : submit'[t].at = "finish" =>
          (submit'[t].outcome = "SUBMITTED" <=> submit'[t].ref # None)
    BY DEF NamesGood
  <1>7. \A r \in Ref : mission'[r] # "none" => Held(r)'
    BY DEF NamesGood, Held
  <1>8. \A r \in Ref : mission'[r] = "due" => ~Awaited(r)'
    BY <1>3 DEF NamesGood
  <1> QED BY <1>3, <1>4, <1>5, <1>6, <1>7, <1>8 DEF NamesGood

\* Steps that leave the turns and the requests alone, and no thread nearer to a name.
LEMMA BesideFollowed ==
    ASSUME Inv, NamesGood, JournalTyped', turns' = turns, requests' = requests,
           \A t \in Turn :
              \/ submit'[t] = submit[t]
              \/ submit'[t].at \notin {"bind", "finish"}
              \/ /\ submit'[t].at = "finish" /\ submit'[t].outcome # "SUBMITTED"
                 /\ submit'[t].ref = None,
           \A r \in Ref : mission'[r] # "none" => mission[r] # "none" \/ Held(r),
           \A r \in Ref : mission'[r] = "due" => mission[r] = "due" \/ ~Awaited(r)
    PROVE  Followed
  BY QuietNames DEF Followed, Follows

LEMMA AnsweredNames ==
    ASSUME Inv, NEW t \in Turn, NEW outcome \in Outcomes, Answered(t, outcome)
    PROVE  /\ submit'[t].at = "finish" /\ submit'[t].outcome = outcome /\ submit'[t].ref = None
           /\ \A u \in Turn \ {t} : submit'[u] = submit[u]
  BY DEF Inv, Typed, JournalTyped, Answered

LEMMA SendReadsFollowed ==
    ASSUME Inv, NamesGood, JournalTyped', NEW c \in Conversation, SendReads(c) PROVE Followed
  BY BesideFollowed DEF SendReads

LEMMA PanelDiesFollowed == ASSUME Inv, NamesGood, JournalTyped', PanelDies PROVE Followed
  BY BesideFollowed DEF PanelDies, Idle

LEMMA SubmitRegistersFollowed ==
    ASSUME Inv, NamesGood, JournalTyped', NEW t \in Turn, SubmitRegisters(t) PROVE Followed
  <1>1. \A u \in Turn : submit'[u] = submit[u] \/ submit'[u].at \notin {"bind", "finish"}
    BY DEF SubmitRegisters, Inv, Typed, JournalTyped
  <1> QED BY <1>1, BesideFollowed DEF SubmitRegisters

LEMMA SubmitWithdrawsFollowed ==
    ASSUME Inv, NamesGood, JournalTyped', NEW t \in Turn, NEW old \in Ref,
           SubmitWithdraws(t, old)
    PROVE  Followed
  <1>1. mission' \in {mission, IF mission[old] = "open" THEN [mission EXCEPT ![old] = "over"]
                               ELSE mission}
        /\ mission \in [Ref -> Lives]
    BY DEF SubmitWithdraws, Inv, Typed, JournalTyped
  <1>2. \A r \in Ref : /\ mission'[r] # "none" => mission[r] # "none"
                       /\ mission'[r] = "due" => mission[r] = "due"
    BY <1>1
  <1>3. \A u \in Turn :
              \/ submit'[u] = submit[u]
              \/ submit'[u].at \notin {"bind", "finish"}
              \/ /\ submit'[u].at = "finish" /\ submit'[u].outcome # "SUBMITTED"
                 /\ submit'[u].ref = None
    <2>1. CASE submit' = [submit EXCEPT ![t] = [at |-> "ask"]]
      BY <2>1 DEF Inv, Typed, JournalTyped
    <2>2. CASE Answered(t, "REFUSED") \/ Answered(t, "UNCERTAIN")
      BY <2>2, AnsweredNames DEF Outcomes
    <2> QED BY <2>1, <2>2 DEF SubmitWithdraws
  <1> QED BY <1>2, <1>3, BesideFollowed DEF SubmitWithdraws

LEMMA AroundFollowed ==
    ASSUME Inv, NamesGood, JournalTyped', NEW r \in Ref, Recover(r) \/ MissionGoes(r)
    PROVE  Followed
  <1>1. /\ turns' = turns /\ submit' = submit
        /\ requests \in [Ref -> Requests] /\ mission \in [Ref -> Lives]
    BY DEF Recover, MissionGoes, Inv, Typed, JournalTyped
  <1>2. CASE MissionGoes(r)
    <2>1. \A s \in Ref : /\ mission'[s] # "none" => mission[s] # "none"
                         /\ mission'[s] = "due" => mission[s] = "due" \/ ~Awaited(s)
      BY <1>1, <1>2 DEF MissionGoes, Awaited
    <2>2. requests' = requests
      BY <1>2 DEF MissionGoes
    <2> QED BY <1>1, <2>1, <2>2, BesideFollowed
  <1>3. CASE Recover(r)
    <2>1. \A s \in Ref : /\ mission'[s] # "none" => mission[s] # "none" \/ Held(s)
                         /\ mission'[s] = "due" => mission[s] = "due"
      BY <1>1, <1>3 DEF Recover
    <2>2. \A s \in Ref : /\ requests'[s].turn = requests[s].turn
                         /\ requests[s].bound => requests'[s].bound
                         /\ requests'[s].words = requests[s].words
      BY <1>1, <1>3, BoundWords DEF Recover
    <2> QED BY <1>1, <2>1, <2>2, QuietNames DEF Followed, Follows
  <1> QED BY <1>2, <1>3

LEMMA TurnEndsFollowed ==
    ASSUME Inv, NamesGood, JournalTyped', NEW t \in Turn, TurnEnds(t) PROVE Followed
  <1>1. /\ submit' = submit /\ requests' = requests /\ mission' = mission
        /\ turns \in [Turn -> Turns]
    BY DEF TurnEnds, Inv, Typed, JournalTyped
  <1>2. \A u \in Turn : /\ turns'[u].ref = turns[u].ref
                        /\ turns'[u].submission = turns[u].submission
                        /\ turns'[u].conversation = turns[u].conversation
                        /\ turns'[u].words = turns[u].words
    BY <1>1 DEF TurnEnds, Turns
  <1> QED BY <1>1, <1>2, QuietNames DEF Followed, Follows

\* What a settlement leaves named stays named.
LEMMA SettledNames ==
    ASSUME Inv, NamesGood, NEW known \in SUBSET Turn, NEW t \in Turn
    PROVE  LET j == Settled(turns, known) IN
           /\ j[t].ref = turns[t].ref /\ j[t].words = turns[t].words
           /\ j[t].conversation = turns[t].conversation
           /\ turns[t].ref # None => j[t].submission = turns[t].submission
  <1>1. turns \in [Turn -> Turns]
    BY DEF Inv, Typed, JournalTyped
  <1> QED BY <1>1, SettledIs DEF NamesGood

LEMMA PanelStartsFollowed ==
    ASSUME Inv, NamesGood, JournalTyped', PanelStarts PROVE Followed
  <1>1. /\ submit' = submit /\ requests' = requests /\ mission' = mission
        /\ turns' = Settled(turns, {})
    BY DEF PanelStarts
  <1> HIDE DEF NamesGood
  <1>2. \A t \in Turn : /\ turns'[t].ref = turns[t].ref /\ turns'[t].words = turns[t].words
                        /\ turns'[t].conversation = turns[t].conversation
                        /\ turns[t].ref # None => turns'[t].submission = turns[t].submission
    BY <1>1, SettledNames
  <1> QED BY <1>1, <1>2, QuietNames DEF Followed, Follows

LEMMA SendReservesFollowed ==
    ASSUME Inv, NamesGood, JournalTyped', SendReserves PROVE Followed
  <1> DEFINE c == sender.conversation
             settled == Settled(turns, sender.known)
             fresh == CHOOSE t \in Turn : t \notin Used(turns)
  <1>1. /\ turns \in [Turn -> Turns] /\ sender.known \in SUBSET Turn
        /\ submit' = submit /\ requests' = requests /\ mission' = mission
    BY DEF Inv, Typed, JournalTyped, SendReserves, Senders, Idle
  <1>2. CASE turns' = turns
    BY <1>1, <1>2, BesideFollowed
  <1>3. ASSUME Turn \ Used(turns) # {},
               \A t \in Of(turns, c) : ~Reduced(turns, t),
               turns' = [settled EXCEPT ![fresh] = NewTurn(c)]
        PROVE  Followed
    <2>1. fresh \in Turn /\ turns[fresh].state = "unused"
      BY <1>3 DEF Used
    <2> HIDE DEF fresh
    <2>2. NewTurn(c).ref = None /\ NewTurn(c).conversation = c
      BY DEF NewTurn
    <2>3. turns[fresh].ref = None
      BY <2>1 DEF Inv, JournalGood, NamesGood
    <2>4. \A t \in Turn : /\ settled[t].ref = turns[t].ref
                          /\ settled[t].words = turns[t].words
                          /\ settled[t].conversation = turns[t].conversation
                          /\ turns[t].ref # None => settled[t].submission = turns[t].submission
      BY <1>1, SettledNames
    <2>5. settled \in [Turn -> Turns]
      BY <1>1, SettledIs
    <2> HIDE DEF settled
    <2>6. /\ turns'[fresh] = NewTurn(c)
          /\ \A t \in Turn \ {fresh} : turns'[t] = settled[t]
      BY <1>3, <2>1, <2>5
    <2>7. \A t \in Turn : /\ turns'[t].ref = turns[t].ref
                          /\ turns[t].ref # None => turns'[t].submission = turns[t].submission
      BY <2>2, <2>3, <2>4, <2>6
    <2>8. \A u \in Turn : turns[u].state # "unused" /\ turns[u].conversation = c
                            => ~Reduced(turns, u)
      BY <1>3 DEF Of, Used
    <2>9. \A t \in Turn :
            \/ turns'[t].conversation = turns[t].conversation /\ turns'[t].words = turns[t].words
            \/ /\ turns[t].state = "unused"
               /\ turns'[t].conversation = c
      BY <2>1, <2>2, <2>4, <2>6
    <2> QED BY <1>1, <2>7, <2>8, <2>9, QuietNames DEF Followed, Follows
  <1> QED BY <1>2, <1>3 DEF SendReserves

LEMMA SubmitReservesFollowed ==
    ASSUME Inv, NamesGood, JournalTyped', NEW t \in Turn, SubmitReserves(t) PROVE Followed
  <1>1. /\ turns' = [turns EXCEPT ![t].submission = "RESERVED", ![t].ref = None]
        /\ submit' = [submit EXCEPT ![t] = [at |-> "register"]]
        /\ turns[t].submission \in {"none", "REFUSED"}
        /\ requests' = requests /\ mission' = mission
        /\ turns \in [Turn -> Turns] /\ submit \in [Turn -> Submits]
    BY DEF SubmitReserves, Submittable, Inv, Typed, JournalTyped
  <1>2. turns[t].ref = None
    BY <1>1 DEF NamesGood
  <1>3. \A u \in Turn : /\ turns'[u].ref = turns[u].ref
                        /\ turns[u].ref # None => turns'[u].submission = turns[u].submission
                        /\ turns'[u].conversation = turns[u].conversation
                        /\ turns'[u].words = turns[u].words
    BY <1>1, <1>2 DEF Turns
  <1>4. \A u \in Turn : submit'[u] = submit[u] \/ submit'[u].at \notin {"bind", "finish"}
    BY <1>1
  <1> QED BY <1>1, <1>3, <1>4, QuietNames DEF Followed, Follows
\* A request that is free is bound by nobody, named by nobody, and of no mission.
LEMMA FreeIs ==
    ASSUME Inv, NamesGood, NEW r \in Ref, ~Held(r)
    PROVE  /\ \A t \in Turn : turns[t].ref # r
           /\ \A t \in Turn : submit[t].at \in {"bind", "finish"} => submit[t].ref # r
           /\ mission[r] = "none"
  BY NoneIsNoRef DEF NamesGood, Held

LEMMA SubmitAsksFollowed ==
    ASSUME Inv, NamesGood, JournalTyped', NEW t \in Turn, SubmitAsks(t) PROVE Followed
  <1>1. /\ submit[t].at \in Asking /\ turns' = turns /\ mission' = mission
        /\ submit \in [Turn -> Submits] /\ requests \in [Ref -> Requests]
    BY DEF SubmitAsks, Inv, Typed, JournalTyped, Asking
  <1>2. CASE requests' = requests /\ (Answered(t, "REFUSED") \/ Answered(t, "UNCERTAIN"))
    <2>1. \A u \in Turn :
              \/ submit'[u] = submit[u]
              \/ /\ submit'[u].at = "finish" /\ submit'[u].outcome # "SUBMITTED"
                 /\ submit'[u].ref = None
      BY <1>2, AnsweredNames DEF Outcomes
    <2> QED BY <1>1, <1>2, <2>1, BesideFollowed
  <1>3. ASSUME NEW r \in Ref, requests' = [requests EXCEPT ![r].turn = t],
               \/ submit' = [submit EXCEPT ![t] = [at |-> "bind", ref |-> r]]
               \/ Answered(t, "UNCERTAIN"),
               ~Held(r)
        PROVE  Followed
    <2>1. /\ \/ submit'[t].at = "bind" /\ submit'[t].ref = r
             \/ /\ submit'[t].at = "finish" /\ submit'[t].outcome = "UNCERTAIN"
                /\ submit'[t].ref = None
          /\ \A u \in Turn \ {t} : submit'[u] = submit[u]
      <3>1. CASE submit' = [submit EXCEPT ![t] = [at |-> "bind", ref |-> r]]
        BY <1>1, <3>1
      <3>2. CASE Answered(t, "UNCERTAIN")
        BY <3>2, AnsweredNames DEF Outcomes
      <3> QED BY <1>3, <3>1, <3>2
    <2>2. /\ requests'[r].turn = t /\ requests'[r].words = requests[r].words
          /\ \A s \in Ref \ {r} : requests'[s] = requests[s]
      BY <1>1, <1>3 DEF Requests
    <2>3. \A s \in Ref : Awaited(s)' => Awaited(s) \/ s = r
      BY <2>1, NoneIsNoRef DEF Awaited
    <2>4. \A u \in Turn : turns[u].ref # None => turns[u].ref \in Ref \ {r}
      BY <1>3, FreeIs DEF Inv, Typed, JournalTyped, Turns
    <2>5. \A u \in Turn : submit[u].at \in {"bind", "finish"} /\ submit[u].ref # None
                            => submit[u].ref \in Ref \ {r}
      BY <1>1, <1>3, FreeIs DEF Submits, Asking
    <2>6. NamesGood'
      <3>1. \A u \in Turn : turns'[u].ref # None =>
              /\ turns'[u].submission = "SUBMITTED"
              /\ requests'[turns'[u].ref].turn = u /\ requests'[turns'[u].ref].bound
        BY <1>1, <2>2, <2>4 DEF NamesGood
      <3>2. \A u \in Turn : submit'[u].at \in {"bind", "finish"} /\ submit'[u].ref # None =>
              /\ requests'[submit'[u].ref].turn = u
              /\ submit'[u].at = "finish" => requests'[submit'[u].ref].bound
        BY <2>1, <2>2, <2>5 DEF NamesGood
      <3>3. \A u \in Turn : submit'[u].at = "finish" =>
              (submit'[u].outcome = "SUBMITTED" <=> submit'[u].ref # None)
        BY <2>1 DEF NamesGood
      <3>4. \A s \in Ref : mission'[s] # "none" => Held(s)'
        BY <1>1, <2>2, NoneIsNoRef DEF NamesGood, Held
      <3>5. \A s \in Ref : mission'[s] = "due" => ~Awaited(s)'
        BY <1>1, <1>3, <2>3, FreeIs DEF NamesGood
      <3> QED BY <3>1, <3>2, <3>3, <3>4, <3>5 DEF NamesGood
    <2>7. \A s \in Ref : requests'[s].words = requests[s].words
      BY <2>2
    <2> QED BY <1>1, <1>3, <2>3, <2>6, <2>7 DEF Followed, Follows
  <1> QED BY <1>2, <1>3 DEF SubmitAsks

LEMMA SubmitBindsFollowed ==
    ASSUME Inv, NamesGood, JournalTyped', NEW t \in Turn, SubmitBinds(t) PROVE Followed
  <1> DEFINE r == submit[t].ref
             made == [mission EXCEPT ![r] = IF @ = "none" THEN "open" ELSE @]
  <1>1. /\ submit[t].at = "bind" /\ turns' = turns
        /\ submit \in [Turn -> Submits] /\ requests \in [Ref -> Requests]
        /\ mission \in [Ref -> Lives] /\ mission' \in {mission, made}
    BY DEF SubmitBinds, Inv, Typed, JournalTyped
  <1>2. r \in Ref
    BY <1>1 DEF Submits, Asking
  <1>3. requests[r].turn = t /\ Held(r)
    BY <1>1, <1>2, NoneIsNoRef DEF NamesGood, Held
  <1>4. \A s \in Ref : /\ mission'[s] # "none" => mission[s] # "none" \/ Held(s)
                       /\ mission'[s] = "due" => mission[s] = "due"
    BY <1>1, <1>2, <1>3
  <1> HIDE DEF made
  <1>5. CASE requests' = requests /\ Answered(t, "UNCERTAIN")
    <2>1. \A u \in Turn :
              \/ submit'[u] = submit[u]
              \/ /\ submit'[u].at = "finish" /\ submit'[u].outcome # "SUBMITTED"
                 /\ submit'[u].ref = None
      BY <1>5, AnsweredNames DEF Outcomes
    <2> QED BY <1>1, <1>4, <1>5, <2>1, BesideFollowed
  <1>6. CASE /\ requests' = [requests EXCEPT ![r].bound = TRUE]
             /\ submit' = [submit EXCEPT ![t] = [at |-> "finish", outcome |-> "SUBMITTED",
                                                 ref |-> r]]
    <2>1. /\ \A s \in Ref : /\ requests'[s].turn = requests[s].turn
                            /\ requests[s].bound => requests'[s].bound
                            /\ requests'[s].words = requests[s].words
          /\ requests'[r].bound
      BY <1>1, <1>2, <1>6, BoundWords
    <2>2. /\ submit'[t].at = "finish" /\ submit'[t].outcome = "SUBMITTED" /\ submit'[t].ref = r
          /\ \A u \in Turn \ {t} : submit'[u] = submit[u]
      BY <1>1, <1>6
    <2>3. \A s \in Ref : Awaited(s)' => Awaited(s)
      BY <1>1, <2>2 DEF Awaited
    <2>4. \A u \in Turn : turns[u].ref # None => turns[u].ref \in Ref
      BY DEF Inv, Typed, JournalTyped, Turns
    <2>5. \A u \in Turn : submit[u].at \in {"bind", "finish"} /\ submit[u].ref # None
                            => submit[u].ref \in Ref
      BY <1>1 DEF Submits, Asking
    <2> HIDE DEF r
    <2>6. NamesGood'
      <3>1. \A u \in Turn : turns'[u].ref # None =>
              /\ turns'[u].submission = "SUBMITTED"
              /\ requests'[turns'[u].ref].turn = u /\ requests'[turns'[u].ref].bound
        BY <1>1, <2>1, <2>4 DEF NamesGood
      <3>2. \A u \in Turn : submit'[u].at \in {"bind", "finish"} /\ submit'[u].ref # None =>
              /\ requests'[submit'[u].ref].turn = u
              /\ submit'[u].at = "finish" => requests'[submit'[u].ref].bound
        BY <1>2, <1>3, <2>1, <2>2, <2>5 DEF NamesGood
      <3>3. \A u \in Turn : submit'[u].at = "finish" =>
              (submit'[u].outcome = "SUBMITTED" <=> submit'[u].ref # None)
        BY <1>2, <2>2, NoneIsNoRef DEF NamesGood
      <3>4. \A s \in Ref : mission'[s] # "none" => Held(s)'
        BY <1>4, <2>1 DEF NamesGood, Held
      <3>5. \A s \in Ref : mission'[s] = "due" => ~Awaited(s)'
        BY <1>4, <2>3 DEF NamesGood
      <3> QED BY <3>1, <3>2, <3>3, <3>4, <3>5 DEF NamesGood
    <2> QED BY <1>1, <2>1, <2>3, <2>6 DEF Followed, Follows
  <1> QED BY <1>5, <1>6 DEF SubmitBinds

LEMMA SubmitFinishesFollowed ==
    ASSUME Inv, NamesGood, JournalTyped', NEW t \in Turn, SubmitFinishes(t) PROVE Followed
  <1>1. /\ submit[t].at = "finish" /\ submit \in [Turn -> Submits]
        /\ turns \in [Turn -> Turns] /\ requests' = requests /\ mission' = mission
        /\ submit' = [submit EXCEPT ![t] = Idle]
    BY DEF SubmitFinishes, Inv, Typed, JournalTyped
  <1>2. /\ submit'[t].at = "idle"
        /\ \A u \in Turn \ {t} : submit'[u] = submit[u]
    BY <1>1 DEF Idle
  <1>3. CASE turns' = turns
    <2>1. \A u \in Turn : submit'[u] = submit[u] \/ submit'[u].at \notin {"bind", "finish"}
      BY <1>2
    <2> QED BY <1>1, <1>3, <2>1, BesideFollowed
  <1>4. CASE /\ turns[t].submission = "RESERVED"
             /\ turns' = [turns EXCEPT ![t].submission = submit[t].outcome,
                                       ![t].ref = submit[t].ref]
    <2>1. /\ turns'[t].submission = submit[t].outcome /\ turns'[t].ref = submit[t].ref
          /\ turns'[t].conversation = turns[t].conversation
          /\ turns'[t].words = turns[t].words
          /\ \A u \in Turn \ {t} : turns'[u] = turns[u]
      BY <1>1, <1>4 DEF Turns
    <2>2. turns[t].ref = None
      BY <1>4 DEF NamesGood
    <2>3. \A s \in Ref : Awaited(s)' => Awaited(s)
      BY <1>2 DEF Awaited
    <2>4. NamesGood'
      <3>1. \A u \in Turn : turns'[u].ref # None =>
              /\ turns'[u].submission = "SUBMITTED"
              /\ requests'[turns'[u].ref].turn = u /\ requests'[turns'[u].ref].bound
        BY <1>1, <2>1 DEF NamesGood
      <3>2. \A u \in Turn : submit'[u].at \in {"bind", "finish"} /\ submit'[u].ref # None =>
              /\ requests'[submit'[u].ref].turn = u
              /\ submit'[u].at = "finish" => requests'[submit'[u].ref].bound
        BY <1>1, <1>2 DEF NamesGood
      <3>3. \A u \in Turn : submit'[u].at = "finish" =>
              (submit'[u].outcome = "SUBMITTED" <=> submit'[u].ref # None)
        BY <1>2 DEF NamesGood
      <3>4. \A s \in Ref : mission'[s] # "none" => Held(s)'
        BY <1>1 DEF NamesGood, Held
      <3>5. \A s \in Ref : mission'[s] = "due" => ~Awaited(s)'
        BY <1>1, <2>3 DEF NamesGood
      <3> QED BY <3>1, <3>2, <3>3, <3>4, <3>5 DEF NamesGood
    <2>5. \A u \in Turn : turns'[u].ref # turns[u].ref =>
            turns[u].ref = None /\ Awaited(turns'[u].ref)
      BY <1>1, <2>1, <2>2 DEF Awaited
    <2>6. \A u \in Turn : turns'[u].conversation = turns[u].conversation
                          /\ turns'[u].words = turns[u].words
      BY <2>1
    <2> QED BY <1>1, <2>3, <2>4, <2>5, <2>6 DEF Followed, Follows
  <1> QED BY <1>3, <1>4 DEF SubmitFinishes

LEMMA JournalFollowed ==
    ASSUME Inv, NamesGood, JournalTyped', JournalNext PROVE Followed
  BY SendReadsFollowed, SubmitReservesFollowed, SubmitWithdrawsFollowed,
     SendReservesFollowed, TurnEndsFollowed, SubmitRegistersFollowed, SubmitAsksFollowed,
     SubmitBindsFollowed, SubmitFinishesFollowed, PanelStartsFollowed, AroundFollowed
     DEF JournalNext, JournalThreads, Proceeds
-----------------------------------------------------------------------------
(* What the panel leaves to the record                                     *)

\* Nobody comes to name a mission that is not awaited, nor ceases to.
LEMMA NamesStay ==
    ASSUME Inv, NamesGood, Follows, NEW r \in Ref, ~Awaited(r)
    PROVE  /\ \A t \in Turn : turns'[t].ref = r <=> turns[t].ref = r
           /\ \A t \in Turn : turns[t].ref = r =>
                 turns[t].state # "unused" /\ turns'[t].conversation = turns[t].conversation
           /\ IsNamed(r)' <=> IsNamed(r)
           /\ ConversationsOf(turns', r) = ConversationsOf(turns, r)
  <1>1. \A t \in Turn : turns'[t].ref = r <=> turns[t].ref = r
    BY NoneIsNoRef DEF Follows
  <1>2. \A t \in Turn : turns[t].ref = r => turns[t].state # "unused"
    BY NoneIsNoRef DEF NamesGood, Inv, JournalGood
  <1>3. \A t \in Turn : turns[t].ref = r => turns'[t].conversation = turns[t].conversation
    BY <1>2 DEF Follows
  <1>4. IsNamed(r)' <=> IsNamed(r)
    BY <1>1 DEF IsNamed
  <1>5. ConversationsOf(turns', r) = ConversationsOf(turns, r)
    BY <1>1, <1>3 DEF ConversationsOf
  <1> QED BY <1>1, <1>2, <1>3, <1>4, <1>5

\* What is gone of a mission's conversations stays gone, and nothing is added.
LEMMA GoneStays ==
    ASSUME Inv, NamesGood, Follows, NEW r \in Ref, ~Awaited(r), NEW o, TurnsGone(r, o)
    PROVE  TurnsGone(r, o)'
  <1>1. ASSUME NEW u \in Turn, turns'[u].conversation \in ConversationsOf(turns', r)
        PROVE  Gone(turns'[u].words, o)
    <2>1. turns'[u].conversation \in ConversationsOf(turns, r)
      BY <1>1, NamesStay
    <2>2. CASE turns'[u].conversation = turns[u].conversation /\ turns'[u].words = turns[u].words
      BY <2>1, <2>2 DEF TurnsGone
    <2>3. CASE \A v \in Turn : turns[v].state # "unused"
                               /\ turns[v].conversation = turns'[u].conversation
                                 => ~Reduced(turns, v)
      <3>1. PICK v \in Turn : turns[v].ref = r /\ turns[v].conversation = turns'[u].conversation
        BY <2>1 DEF ConversationsOf
      <3>2. turns[v].state # "unused" /\ Gone(turns[v].words, o)
        BY <2>1, <3>1, NamesStay DEF TurnsGone
      <3> QED BY <2>3, <3>1, <3>2 DEF Reduced, Gone
    <2> QED BY <2>2, <2>3 DEF Follows
  <1> QED BY <1>1 DEF TurnsGone

LEMMA TellsStays ==
    ASSUME Inv, NamesGood, Follows, NEW r \in Ref, texts' = texts,
           NEW rec, Tells(r, rec), rec.phase \in ReducedPhases => ~Awaited(r)
    PROVE  Tells(r, rec)'
  <1>1. requests'[r].words = requests[r].words
    BY DEF Follows
  <1>2. CASE rec.phase \in ReducedPhases
    <2>1. IsNamed(r)' <=> IsNamed(r)
      BY <1>2, NamesStay
    <2>2. /\ TurnsGone(r, "reclaimed") => TurnsGone(r, "reclaimed")'
          /\ TurnsGone(r, "deleted") => TurnsGone(r, "deleted")'
      BY <1>2, GoneStays
    <2> QED BY <1>1, <2>1, <2>2 DEF Tells
  <1>3. CASE rec.phase \notin ReducedPhases
    BY <1>1, <1>3 DEF Tells, ReducedPhases
  <1> QED BY <1>2, <1>3

\* A mission that is being reduced is not awaited, and comes not to be.
LEMMA UnawaitedStays ==
    ASSUME Inv, NamesGood, Follows, NEW r \in Ref, mission[r] # "none", ~Awaited(r)
    PROVE  ~Awaited(r)'
  BY DEF NamesGood, Follows

LEMMA OverIsKnown == ASSUME NEW r, mission[r] \in Over PROVE mission[r] # "none"
  BY DEF Over

\* A sweep took up the mission because nobody is to name it any more.
LEMMA SweptUnawaited ==
    ASSUME Inv, TellInv, keeper.at \in {"read", "judge"}, keeper.op = "sweep"
    PROVE  ~Awaited(keeper.ref) /\ keeper.ref \in Ref
  <1>1. /\ Wanted(keeper.ref) /\ keeper.ref \in Ref /\ Ahead(keeper.life)
    BY AtWork DEF Inv, KeeperGood, Typed, KeeperTyped, KeeperSteps, Rest
  <1> QED BY <1>1 DEF Wanted, Ahead, TellInv, RecordGood, NamesGood, ReducedPhases

LEMMA RecordCarried ==
    ASSUME Inv, TellInv, Followed, record' = record, texts' = texts
    PROVE  RecordGood'
  <1>1. ASSUME NEW r \in Ref
        PROVE  /\ Tells(r, record[r])'
               /\ record'[r].phase \in ReducedPhases => ~Awaited(r)'
    <2>1. ASSUME NEW rec, rec = record[r] PROVE Tells(r, rec)'
      BY <2>1, TellsStays DEF TellInv, RecordGood, Followed
    <2>2. Tells(r, record[r])'
      BY <2>1 DEF Tells
    <2>3. record[r].phase \in ReducedPhases => mission[r] # "none" /\ ~Awaited(r)
      BY OverIsKnown DEF Inv, KeeperGood, ReducedPhases, TellInv, RecordGood
    <2> QED BY <2>2, <2>3, UnawaitedStays DEF TellInv, Followed
  <1> QED BY <1>1 DEF RecordGood

\* No keeper has begun to judge, or it is done.
Unclaimed == keeper.at \notin {"judge", "withdraw"} \cup Working

LEMMA UnclaimedIs == ASSUME Unclaimed' PROVE ClaimGood'
  BY DEF Unclaimed, ClaimGood, Working

LEMMA ClaimCarried ==
    ASSUME Inv, TellInv, Followed, record' = record, texts' = texts, keeper' = keeper
    PROVE  ClaimGood'
  <1> SUFFICES ASSUME keeper.at \in {"judge", "withdraw"} \cup Working PROVE ClaimGood'
    BY UnclaimedIs DEF Unclaimed
  <1>1. keeper.ref \in Ref /\ keeper \in Keepers
    BY AtWork DEF Inv, Typed, KeeperTyped, KeeperSteps, Working, Rest
  <1>2. PICK r \in Ref : r = keeper.ref
    BY <1>1
  <1>3. PICK o : o = Outcome(r)
    OBVIOUS
  <1>4. Outcome(r)' = o
    BY <1>3 DEF Outcome
  <1>5. NamesGood /\ Follows /\ RecordGood /\ ClaimGood
    BY DEF TellInv, Followed
  <1>6. CASE keeper.at = "judge"
    <2>1. \A t \in Turn : keeper.seen[t].ref = r =>
             turns'[t].ref = r /\ turns'[t].conversation = keeper.seen[t].conversation
      <3>1. \A t \in Turn : turns[t].ref = r =>
              turns'[t].ref = r /\ turns'[t].conversation = turns[t].conversation
        BY <1>5, NoneIsNoRef DEF NamesGood, Inv, JournalGood, Follows
      <3> QED BY <1>2, <1>5, <1>6, <3>1 DEF ClaimGood
    <2>2. \A t \in Turn : keeper.op = "sweep" /\ turns'[t].ref = r =>
             keeper.seen[t].ref = r /\ keeper.seen[t].conversation = turns'[t].conversation
      <3>1. keeper.op = "sweep" => ~Awaited(r)
        BY <1>2, <1>6, SweptUnawaited
      <3> QED BY <1>2, <1>5, <1>6, <3>1, NamesStay DEF ClaimGood
    <2> QED BY <1>2, <1>6, <2>1, <2>2 DEF ClaimGood, Working
  <1>7. CASE keeper.at \in Working \cup {"withdraw"}
    <2>1. record[r].phase \in ReducedPhases
      <3>1. keeper.at = "withdraw" => keeper.op = "delete"
        BY DEF Inv, KeeperGood
      <3> QED BY <1>2, <1>5, <1>7, <3>1 DEF ClaimGood, ReducedPhases
    <2>2. ~Awaited(r)
      BY <1>5, <2>1 DEF RecordGood
    <2>3. /\ IsNamed(r)' <=> IsNamed(r)
          /\ ConversationsOf(turns', r) = ConversationsOf(turns, r)
          /\ TurnsGone(r, o) => TurnsGone(r, o)'
      BY <1>5, <2>2, NamesStay, GoneStays
    <2>4. requests'[r].words = requests[r].words
      BY <1>5 DEF Follows
    <2>5. ASSUME keeper.at \in {"journal", "withdraw"}, keeper.op = "delete"
          PROVE  Tells(r, keeper.prior)'
      <3>1. ASSUME NEW rec, rec = keeper.prior PROVE Tells(r, rec)'
        <4>1. Tells(r, rec)
          BY <1>2, <1>5, <2>5, <3>1 DEF ClaimGood
        <4> QED BY <1>5, <2>2, <4>1, TellsStays
      <3> QED BY <3>1 DEF Tells
    <2>6. /\ record[r].phase = "reclaimed" => record'[r].kept = record[r].kept
          /\ record'[r].phase = record[r].phase
      OBVIOUS
    <2>7. keeper.at \in {"requests", "texts", "close"} /\ keeper.kept = {} => TurnsGone(r, o)'
      BY <1>2, <1>3, <1>5, <2>3 DEF ClaimGood
    <2>8. TurnsGone(r, o)' <=> TurnsGone(r, Outcome(r))'
      BY <1>4 DEF TurnsGone
    <2>9. keeper.at \in Working =>
            /\ record[r].phase \in {"reclaiming", "reclaimed", "deleting"}
            /\ record[r].phase = "reclaimed" => record[r].kept # {}
            /\ record[r].phase = "deleting" => keeper.kept = {}
            /\ IsNamed(r)' => keeper.bound
      BY <1>2, <1>5, <2>3 DEF ClaimGood
    <2>10. keeper.op = "delete" => record[r].phase = "deleting"
      BY <1>2, <1>5, <1>7 DEF ClaimGood
    <2>11. keeper.at = "journal" /\ keeper.kept = {}
             => ConversationsOf(turns', r) \subseteq keeper.release
      BY <1>2, <1>5, <2>3 DEF ClaimGood
    <2>12. /\ keeper.at \in {"texts", "close"} /\ IsNamed(r)' => Gone(requests'[r].words, o)
           /\ keeper.at = "close" => Gone(texts[r], o)
      BY <1>2, <1>3, <1>5, <2>3, <2>4 DEF ClaimGood
    <2>13. keeper'.at # "judge" /\ keeper'.ref = r
      BY <1>2, <1>7 DEF Working
    <2> QED BY <1>4, <2>5, <2>7, <2>8, <2>9, <2>10, <2>11, <2>12, <2>13 DEF ClaimGood
  <1> QED BY <1>6, <1>7
-----------------------------------------------------------------------------
(* What the steps of a keeper leave to the record                          *)

LEMMA StillFollowed == ASSUME Inv, NamesGood, UNCHANGED Panel PROVE Followed
  <1>1. \A r : Awaited(r)' <=> Awaited(r)
    BY DEF Awaited, Panel
  <1>2. NamesGood'
    BY <1>1 DEF NamesGood, Panel, Held
  <1> QED BY <1>1, <1>2 DEF Followed, Follows, Panel

LEMMA RestingUnclaimed == ASSUME Resting' PROVE Unclaimed'
  BY DEF Resting, Unclaimed, Rest, Working

\* A keeper that moves on or begins, and writes nothing.
LEMMA StillTells ==
    ASSUME Inv, TellInv, UNCHANGED Panel, record' = record, texts' = texts, ClaimGood'
    PROVE  TellInv'
  BY StillFollowed, RecordCarried DEF TellInv, Followed

LEMMA BetweenTells ==
    ASSUME Inv, TellInv,
           SweepTakes \/ (\E r \in Ref : DeleteStarts(r)) \/ KeeperFails \/ Reads
    PROVE  TellInv'
  <1>1. UNCHANGED Panel /\ record' = record /\ texts' = texts /\ mission' = mission
    BY DEF SweepTakes, DeleteStarts, KeeperFails, Reads, Panel, journal
  <1>2. CASE SweepTakes
    <2>1. keeper # Rest
      BY <1>2 DEF SweepTakes, Rest
    <2>2. CASE keeper' = Rest \/ Turned(keeper.done)
      <3>1. Resting'
        BY <1>1, <2>1, <2>2, Done, TurnedIs DEF Resting
      <3> QED BY <1>1, <3>1, RestingUnclaimed, UnclaimedIs, StillTells
    <2>3. CASE keeper' = [keeper EXCEPT !.at = "read"]
      <3>1. keeper'.at = "read"
        BY <2>1, <2>3, AtWork DEF Keepers
      <3> QED BY <1>1, <3>1, UnclaimedIs, StillTells DEF Unclaimed, Working
    <2> QED BY <1>2, <2>2, <2>3 DEF SweepTakes
  <1>3. CASE \E r \in Ref : DeleteStarts(r)
    <2>1. keeper'.at = "read"
      BY <1>3 DEF DeleteStarts, Begun
    <2> QED BY <1>1, <2>1, UnclaimedIs, StillTells DEF Unclaimed, Working
  <1>4. CASE KeeperFails
    <2>1. Resting'
      BY <1>1, <1>4, Done, TurnedIs DEF Resting, KeeperFails
    <2> QED BY <1>1, <2>1, RestingUnclaimed, UnclaimedIs, StillTells
  <1>5. CASE Reads
    <2>1. keeper # Rest
      BY <1>5 DEF Reads, Rest
    <2>2. /\ keeper'.at = "judge" /\ keeper'.seen = turns /\ keeper'.ref = keeper.ref
      BY <1>5, <2>1, AtWork DEF Reads, Keepers
    <2>3. ClaimGood'
      BY <1>1, <2>2 DEF ClaimGood, Working, Panel
    <2> QED BY <1>1, <2>3, StillTells
  <1> QED BY <1>2, <1>3, <1>4, <1>5

\* One record is written: what the new one says is so.
LEMMA WrittenTells ==
    ASSUME Inv, TellInv, UNCHANGED Panel, texts' = texts, NEW r \in Ref, NEW e,
           record'[r] = e, \A s \in Ref \ {r} : record'[s] = record[s],
           Tells(r, e), e.phase \in ReducedPhases => ~Awaited(r)
    PROVE  NamesGood' /\ RecordGood' /\ Tells(r, e)'
  <1>1. NamesGood' /\ Follows
    BY StillFollowed DEF TellInv, Followed
  <1>2. \A s \in Ref : ~Awaited(s) => ~Awaited(s)'
    BY DEF Panel, Awaited
  <1>3. Tells(r, e)'
    BY <1>1, TellsStays DEF TellInv
  <1>4. ASSUME NEW s \in Ref
        PROVE  /\ Tells(s, record[s])'
               /\ record'[s].phase \in ReducedPhases => ~Awaited(s)'
    <2>1. ASSUME NEW rec, rec = record'[s], Tells(s, rec)' PROVE Tells(s, record[s])'
      BY <2>1 DEF Tells
    <2>2. CASE s = r
      BY <1>2, <1>3, <2>1, <2>2
    <2>3. CASE s # r
      <3>1. ASSUME NEW rec, rec = record'[s] PROVE Tells(s, rec)'
        BY <1>1, <2>3, <3>1, TellsStays DEF TellInv, RecordGood
      <3> QED BY <1>2, <2>1, <2>3, <3>1 DEF TellInv, RecordGood
    <2> QED BY <2>2, <2>3
  <1> QED BY <1>1, <1>3, <1>4 DEF RecordGood

LEMMA SweepStartsTells == ASSUME Inv, TellInv, SweepStarts PROVE TellInv'
  <1> DEFINE seen(r) == [record[r] EXCEPT !.phase = "observed"]
  <1>1. /\ record \in [Ref -> Records] /\ UNCHANGED Panel /\ texts' = texts
        /\ record' = [r \in Ref |-> IF mission[r] \in Over /\ record[r].phase = "intact"
                                    THEN seen(r) ELSE record[r]]
    BY DEF Inv, Typed, KeeperTyped, SweepStarts, journal, Panel
  <1>2. NamesGood' /\ Follows
    BY <1>1, StillFollowed DEF TellInv, Followed
  <1>3. ASSUME NEW r \in Ref, record[r].phase = "intact"
        PROVE  Tells(r, seen(r)) /\ seen(r).phase = "observed"
    BY <1>1, <1>3 DEF TellInv, RecordGood, Tells, Records
  <1> HIDE DEF seen
  <1>4. ASSUME NEW r \in Ref
        PROVE  /\ Tells(r, record[r])'
               /\ record'[r].phase \in ReducedPhases => ~Awaited(r)'
    <2>1. ASSUME NEW rec, rec = record'[r], Tells(r, rec)' PROVE Tells(r, record[r])'
      BY <2>1 DEF Tells
    <2>2. ASSUME NEW rec, rec = record'[r] PROVE Tells(r, rec)'
      <3>1. Tells(r, rec) /\ (rec.phase \in ReducedPhases => ~Awaited(r))
        BY <1>1, <1>3, <2>2 DEF TellInv, RecordGood, ReducedPhases
      <3> QED BY <1>1, <1>2, <3>1, TellsStays DEF TellInv
    <2>3. record'[r].phase \in ReducedPhases => ~Awaited(r)
      BY <1>1, <1>3 DEF TellInv, RecordGood, ReducedPhases
    <2>4. Awaited(r)' => Awaited(r)
      BY <1>1 DEF Panel, Awaited
    <2> QED BY <2>1, <2>2, <2>3, <2>4
  <1>5. RecordGood'
    BY <1>4 DEF RecordGood
  <1>6. ClaimGood'
    <2>1. keeper'.at = "next"
      BY DEF SweepStarts, Begun
    <2> QED BY <2>1, UnclaimedIs DEF Unclaimed, Working
  <1> QED BY <1>2, <1>5, <1>6 DEF TellInv

\* What a keeper carries from its judgement to the reduction.
LEMMA ReducesTells ==
    ASSUME Inv, keeper.at = "judge", NEW release, NEW kept, Reduces(release, kept)
    PROVE  /\ keeper'.at = "journal" /\ keeper'.op = keeper.op /\ keeper'.ref = keeper.ref
           /\ keeper'.release = release /\ keeper'.kept = kept
           /\ keeper'.bound = requests[keeper.ref].bound
           /\ keeper.op = "delete" => keeper'.prior = record[keeper.ref]
  <1>1. keeper \in Keepers
    BY AtWork DEF Rest
  <1> QED BY <1>1 DEF Reduces, Keepers

LEMMA SweepJudgesTells == ASSUME Inv, TellInv, SweepJudges PROVE TellInv'
  <1> DEFINE r == keeper.ref
             mine == IF requests[r].bound THEN ConversationsOf(keeper.seen, r) ELSE {}
             unsafe(c) == {s \in Named(keeper.seen, c) \ {r} : ~Safe(keeper.life, s)}
             kept == UNION {unsafe(c) : c \in mine}
             release == {c \in mine : unsafe(c) = {}}
             e == [record[r] EXCEPT !.phase = "reclaiming", !.summary = TRUE]
  <1>1. /\ UNCHANGED Panel /\ texts' = texts /\ mission' = mission
        /\ keeper.at = "judge" /\ keeper.op = "sweep" /\ keeper # Rest
    BY DEF SweepJudges, Panel, journal, Rest
  <1>2. /\ keeper \in Keepers /\ r \in Ref /\ Wanted(r) /\ ~Awaited(r)
        /\ record \in [Ref -> Records]
    BY <1>1, AtWork, SweptUnawaited DEF Inv, Typed, KeeperTyped, KeeperGood
  <1>3. CASE Turned(keeper.done) /\ record' = record
    BY <1>1, <1>3, Done, TurnedIs, RestingUnclaimed, UnclaimedIs, StillTells
  <1>4. ASSUME Reduces(release, kept), ~(record[r].phase = "deleting" /\ kept # {}),
               record' = IF record[r].phase = "observed"
                         THEN [record EXCEPT ![r].phase = "reclaiming", ![r].summary = TRUE]
                         ELSE record
        PROVE  TellInv'
    <2>1. /\ keeper'.at = "journal" /\ keeper'.op = "sweep" /\ keeper'.ref = r
          /\ keeper'.release = release /\ keeper'.kept = kept
          /\ keeper'.bound = requests[r].bound
      BY <1>1, <1>4, ReducesTells
    <2>2. kept = {} => ConversationsOf(turns, r) \subseteq release
      <3>1. ASSUME kept = {}, NEW c \in ConversationsOf(turns, r)
            PROVE  c \in release
        <4>1. PICK t \in Turn : turns[t].ref = r /\ turns[t].conversation = c
          BY DEF ConversationsOf
        <4>2. requests[r].bound
          BY <1>2, <4>1, NoneIsNoRef DEF TellInv, NamesGood
        <4>3. keeper.seen[t].ref = r /\ keeper.seen[t].conversation = c
          BY <1>1, <4>1 DEF TellInv, ClaimGood
        <4>4. c \in mine
          BY <4>2, <4>3 DEF ConversationsOf
        <4>5. unsafe(c) = {}
          BY <3>1, <4>4
        <4> QED BY <4>4, <4>5
      <3> QED BY <3>1
    <2>3. IsNamed(r) => requests[r].bound
      BY <1>2, NoneIsNoRef DEF IsNamed, TellInv, NamesGood
    <2> HIDE DEF release, kept
    <2>4. /\ record'[r].phase \in {"reclaiming", "reclaimed", "deleting"}
          /\ record'[r].phase = "reclaimed" => record'[r].kept # {}
          /\ record'[r].phase = "deleting" => kept = {}
          /\ NamesGood' /\ RecordGood'
      <3>1. CASE record[r].phase = "observed"
        <4>1. e.phase = "reclaiming" /\ e.summary
          BY <1>2 DEF Records
        <4>2. record'[r] = e /\ \A s \in Ref \ {r} : record'[s] = record[s]
          BY <1>2, <1>4, <3>1
        <4> HIDE DEF e
        <4>3. Tells(r, e)
          BY <4>1 DEF Tells
        <4>4. NamesGood' /\ RecordGood'
          BY <1>1, <1>2, <4>2, <4>3, WrittenTells
        <4> QED BY <4>1, <4>2, <4>4
      <3>2. CASE record[r].phase # "observed"
        <4>1. record' = record
          BY <1>4, <3>2
        <4>2. NamesGood' /\ RecordGood'
          BY <1>1, <4>1, StillFollowed, RecordCarried DEF TellInv, Followed
        <4> QED BY <1>2, <1>4, <3>2, <4>1, <4>2 DEF Wanted
      <3> QED BY <3>1, <3>2
    <2>5. ClaimGood'
      <3>1. PICK q \in Ref : q = r
        BY <1>2
      <3>2. turns' = turns
        BY <1>1 DEF Panel
      <3>3. IsNamed(q)' => IsNamed(q)
        BY <3>2 DEF IsNamed
      <3> HIDE DEF r
      <3> QED BY <2>1, <2>2, <2>3, <2>4, <3>1, <3>2, <3>3 DEF ClaimGood
    <2> QED BY <2>4, <2>5 DEF TellInv
  <1> QED BY <1>3, <1>4 DEF SweepJudges

\* A mission that a settled turn names is not named again.
LEMMA NamedOnce ==
    ASSUME Inv, NamesGood, NEW r \in Ref, NEW t \in Turn, turns[t].ref = r
    PROVE  ~Awaited(r) /\ \A u \in Turn : turns[u].ref = r => u = t
  <1>1. turns[t].submission = "SUBMITTED" /\ requests[r].turn = t
    BY NoneIsNoRef DEF NamesGood
  <1>2. \A u \in Turn : turns[u].ref = r => u = t
    BY <1>1, NoneIsNoRef DEF NamesGood
  <1>3. ASSUME NEW u \in Turn, submit[u].at \in {"bind", "finish"}, submit[u].ref = r
        PROVE  FALSE
    <2>1. u = t
      BY <1>1, <1>3, NoneIsNoRef DEF NamesGood
    <2> QED BY <1>1, <1>3, <2>1 DEF Inv, DraftGood
  <1> QED BY <1>2, <1>3 DEF Awaited

LEMMA DeleteJudgesTells == ASSUME Inv, TellInv, DeleteJudges PROVE TellInv'
  <1> DEFINE r == keeper.ref
             mine == ConversationsOf(keeper.seen, r)
             e == [NoRecord EXCEPT !.phase = "deleting"]
  <1>1. /\ UNCHANGED Panel /\ texts' = texts /\ mission' = mission /\ turns' = turns
        /\ keeper.at = "judge" /\ keeper.op = "delete" /\ keeper # Rest
    BY DEF DeleteJudges, Panel, journal, Rest
  <1>2. /\ keeper \in Keepers /\ r \in Ref /\ record \in [Ref -> Records]
    BY <1>1, AtWork DEF Inv, Typed, KeeperTyped, KeeperSteps
  <1>3. CASE keeper' = Rest /\ record' = record
    <2>1. Resting'
      BY <1>3 DEF Resting
    <2> QED BY <1>1, <1>3, <2>1, RestingUnclaimed, UnclaimedIs, StillTells
  <1>4. ASSUME mine # {}, Reduces(mine, {}), record' = [record EXCEPT ![r] = e]
        PROVE  TellInv'
    <2>1. /\ keeper'.at = "journal" /\ keeper'.op = "delete" /\ keeper'.ref = r
          /\ keeper'.release = mine /\ keeper'.kept = {}
          /\ keeper'.bound = requests[r].bound /\ keeper'.prior = record[r]
      BY <1>1, <1>4, ReducesTells
    <2>2. PICK t \in Turn : keeper.seen[t].ref = r
      BY <1>4 DEF ConversationsOf
    <2>3. turns[t].ref = r /\ turns[t].conversation = keeper.seen[t].conversation
      BY <1>1, <2>2 DEF TellInv, ClaimGood
    <2>4. ~Awaited(r) /\ \A u \in Turn : turns[u].ref = r => u = t
      BY <1>2, <2>3, NamedOnce DEF TellInv
    <2>5. ConversationsOf(turns, r) \subseteq mine
      BY <2>2, <2>3, <2>4 DEF ConversationsOf
    <2>6. IsNamed(r) => requests[r].bound
      BY <1>2, NoneIsNoRef DEF IsNamed, TellInv, NamesGood
    <2>7. e.phase = "deleting" /\ e.summary = FALSE
      BY DEF NoRecord
    <2>8. record'[r] = e /\ \A s \in Ref \ {r} : record'[s] = record[s]
      BY <1>2, <1>4
    <2> HIDE DEF e, mine
    <2>9. Tells(r, e)
      BY <2>7 DEF Tells
    <2>10. NamesGood' /\ RecordGood'
      BY <1>1, <1>2, <2>4, <2>8, <2>9, WrittenTells
    <2>11. ASSUME NEW q \in Ref, NEW rec, q = r, rec = record[r] PROVE Tells(q, rec)'
      BY <1>1, <2>4, <2>11, StillFollowed, TellsStays DEF TellInv, RecordGood, Followed
    <2>12. ClaimGood'
      <3>1. PICK q \in Ref : q = r
        BY <1>2
      <3>2. IsNamed(q)' => IsNamed(q)
        BY <1>1 DEF IsNamed
      <3>3. Tells(q, keeper.prior)'
        <4>1. PICK rec : rec = record[r]
          OBVIOUS
        <4>2. Tells(q, rec)' /\ keeper'.prior = rec
          BY <2>1, <2>11, <3>1, <4>1
        <4> QED BY <4>2 DEF Tells
      <3> HIDE DEF r
      <3> QED BY <1>1, <2>1, <2>5, <2>6, <2>7, <2>8, <3>1, <3>2, <3>3 DEF ClaimGood
    <2> QED BY <2>10, <2>12 DEF TellInv
  <1> QED BY <1>3, <1>4 DEF DeleteJudges
\* What is marked is gone, and what was gone stays so.
LEMMA MarkedGone ==
    ASSUME NEW w \in Words, NEW outcome \in {"reclaimed", "deleted"}
    PROVE  /\ Gone(Marked(w, outcome), outcome)
           /\ \A o : Gone(w, o) => Gone(Marked(w, outcome), o)
  BY DEF Gone, Marked, Words

\* Where a keeper is at work on the mission its record says it is.
LEMMA WorkIs ==
    ASSUME Inv, TellInv, keeper.at \in Working \cup {"withdraw"}
    PROVE  /\ keeper \in Keepers /\ keeper # Rest /\ keeper.ref \in Ref
           /\ record[keeper.ref].phase \in {"reclaiming", "reclaimed", "deleting"}
           /\ ~Awaited(keeper.ref)
  <1>1. keeper # Rest /\ keeper.ref \in Ref
    BY DEF Inv, Typed, KeeperTyped, KeeperSteps, Working, Rest
  <1>2. keeper.at = "withdraw" => keeper.op = "delete"
    BY DEF Inv, KeeperGood
  <1>3. record[keeper.ref].phase \in {"reclaiming", "reclaimed", "deleting"}
    BY <1>2 DEF TellInv, ClaimGood
  <1> QED BY <1>1, <1>3, AtWork DEF TellInv, RecordGood, ReducedPhases

\* Words are marked and the record is not: what it says of every mission stays so.
LEMMA JournalReducedTells ==
    ASSUME Inv, TellInv, ReduceJournal, JournalTyped',
           turns' = [t \in Turn |->
               IF turns[t].conversation \in keeper.release
               THEN [turns[t] EXCEPT !.words = Marked(@, Outcome(keeper.ref))] ELSE turns[t]],
           keeper' = [keeper EXCEPT !.at = "requests", !.seen = NoTurns, !.release = {},
                                    !.prior = NoRecord]
    PROVE  TellInv'
  <1> DEFINE e(t) == [turns[t] EXCEPT !.words = Marked(@, Outcome(keeper.ref))]
  <1>1. /\ UNCHANGED <<submit, requests, mission, record, texts>>
        /\ keeper.at = "journal" /\ turns \in [Turn -> Turns]
    BY DEF ReduceJournal, Inv, Typed, JournalTyped
  <1>2. /\ keeper \in Keepers /\ keeper.ref \in Ref /\ ~Awaited(keeper.ref)
        /\ record[keeper.ref].phase \in {"reclaiming", "reclaimed", "deleting"}
    BY <1>1, WorkIs DEF Working
  <1>3. PICK r \in Ref : r = keeper.ref
    BY <1>2
  <1>4. PICK o : o = Outcome(r)
    OBVIOUS
  <1>5. o \in {"reclaimed", "deleted"} /\ Outcome(r)' = o
    BY <1>1, <1>4, OutcomeIs DEF Outcome
  <1>6. ASSUME NEW t \in Turn
        PROVE  /\ turns[t].words \in Words
               /\ e(t).words = Marked(turns[t].words, o)
               /\ e(t).conversation = turns[t].conversation /\ e(t).ref = turns[t].ref
               /\ e(t).submission = turns[t].submission
    <2>1. turns[t] \in Turns
      BY <1>1
    <2> QED BY <2>1, <1>3, <1>4 DEF Turns
  <1>7. turns' = [t \in Turn |-> IF turns[t].conversation \in keeper.release
                                 THEN e(t) ELSE turns[t]]
    OBVIOUS
  <1> HIDE DEF e
  <1>8. \A t \in Turn :
           /\ turns'[t].conversation = turns[t].conversation /\ turns'[t].ref = turns[t].ref
           /\ turns'[t].submission = turns[t].submission
           /\ \A p : Gone(turns[t].words, p) => Gone(turns'[t].words, p)
           /\ turns[t].conversation \in keeper.release => Gone(turns'[t].words, o)
    <2> SUFFICES ASSUME NEW t \in Turn
                 PROVE  /\ turns'[t].conversation = turns[t].conversation
                        /\ turns'[t].ref = turns[t].ref
                        /\ turns'[t].submission = turns[t].submission
                        /\ \A p : Gone(turns[t].words, p) => Gone(turns'[t].words, p)
                        /\ turns[t].conversation \in keeper.release
                             => Gone(turns'[t].words, o)
      OBVIOUS
    <2>1. CASE turns[t].conversation \in keeper.release
      <3>1. turns'[t] = e(t) /\ turns'[t].words = Marked(turns[t].words, o)
        BY <1>6, <1>7, <2>1
      <3>2. /\ Gone(turns'[t].words, o)
            /\ \A p : Gone(turns[t].words, p) => Gone(turns'[t].words, p)
        BY <1>5, <1>6, <3>1, MarkedGone
      <3> QED BY <1>6, <3>1, <3>2
    <2>2. CASE turns[t].conversation \notin keeper.release
      <3>1. turns'[t] = turns[t]
        BY <1>7, <2>2
      <3> QED BY <2>2, <3>1
    <2> QED BY <2>1, <2>2
  <1>9. NamesGood'
    BY <1>1, <1>8, QuietNames DEF TellInv
  <1>10. ASSUME NEW s PROVE /\ Awaited(s)' <=> Awaited(s)
                            /\ IsNamed(s)' <=> IsNamed(s)
                            /\ ConversationsOf(turns', s) = ConversationsOf(turns, s)
                            /\ \A p : TurnsGone(s, p) => TurnsGone(s, p)'
    <2>1. ConversationsOf(turns', s) = ConversationsOf(turns, s)
      BY <1>8 DEF ConversationsOf
    <2>2. \A p : TurnsGone(s, p) => TurnsGone(s, p)'
      BY <1>8, <2>1 DEF TurnsGone
    <2>3. IsNamed(s)' <=> IsNamed(s)
      BY <1>8 DEF IsNamed
    <2> QED BY <1>1, <2>1, <2>2, <2>3 DEF Awaited
  <1>11. RecordGood'
    <2>1. ASSUME NEW s \in Ref PROVE Tells(s, record[s])'
      <3>1. /\ IsNamed(s)' <=> IsNamed(s)
            /\ TurnsGone(s, "reclaimed") => TurnsGone(s, "reclaimed")'
            /\ TurnsGone(s, "deleted") => TurnsGone(s, "deleted")'
        BY <1>10
      <3>2. Tells(s, record[s])
        BY DEF TellInv, RecordGood
      <3> QED BY <1>1, <3>1, <3>2 DEF Tells
    <2> QED BY <1>1, <1>10, <2>1 DEF TellInv, RecordGood
  <1>12. /\ keeper'.at = "requests" /\ keeper'.ref = r /\ keeper'.op = keeper.op
         /\ keeper'.kept = keeper.kept /\ keeper'.bound = keeper.bound
    BY <1>2, <1>3 DEF Keepers
  <1>13. ClaimGood'
    <2>1. ASSUME keeper.kept = {} PROVE TurnsGone(r, Outcome(r))'
      <3>1. ConversationsOf(turns, r) \subseteq keeper.release
        BY <1>1, <1>3, <2>1 DEF TellInv, ClaimGood
      <3>2. ConversationsOf(turns', r) = ConversationsOf(turns, r)
        BY <1>10
      <3> QED BY <1>5, <1>8, <3>1, <3>2 DEF TurnsGone
    <2>2. /\ record[r].phase \in {"reclaiming", "reclaimed", "deleting"}
          /\ record[r].phase = "reclaimed" => record[r].kept # {}
          /\ record[r].phase = "deleting" => keeper.kept = {}
          /\ IsNamed(r) => keeper.bound
          /\ keeper.op = "delete" => record[r].phase = "deleting"
      BY <1>1, <1>3 DEF TellInv, ClaimGood, Working
    <2>3. IsNamed(r)' <=> IsNamed(r)
      BY <1>10
    <2> QED BY <1>1, <1>12, <2>1, <2>2, <2>3 DEF ClaimGood
  <1> QED BY <1>9, <1>11, <1>13 DEF TellInv

LEMMA ReduceJournalTells == ASSUME Inv, TellInv, JournalTyped', ReduceJournal PROVE TellInv'
  <1>1. /\ record' = record /\ texts' = texts /\ mission' = mission /\ keeper.at = "journal"
    BY DEF ReduceJournal
  <1>2. /\ keeper \in Keepers /\ keeper # Rest /\ keeper.ref \in Ref
    BY <1>1, WorkIs DEF Working
  <1>3. CASE turns' = turns /\ keeper.op = "sweep" /\ Turned(keeper.done)
    <2>1. UNCHANGED Panel
      BY <1>3 DEF ReduceJournal, Panel
    <2> QED BY <1>1, <1>2, <1>3, <2>1, Done, TurnedIs, RestingUnclaimed, UnclaimedIs, StillTells
  <1>4. CASE /\ turns' = turns /\ keeper.op # "sweep"
             /\ keeper' = [keeper EXCEPT !.at = "withdraw", !.seen = NoTurns, !.release = {}]
    <2>1. UNCHANGED Panel
      BY <1>4 DEF ReduceJournal, Panel
    <2>2. /\ keeper'.at = "withdraw" /\ keeper'.ref = keeper.ref /\ keeper'.op = "delete"
          /\ keeper'.prior = keeper.prior /\ keeper.op = "delete"
      BY <1>2, <1>4 DEF Keepers
    <2>3. PICK r \in Ref : r = keeper.ref
      BY <1>2
    <2>4. PICK rec : rec = keeper.prior
      OBVIOUS
    <2>5. ~Awaited(r)
      BY <1>1, <2>3, WorkIs DEF Working
    <2>6. Tells(r, rec)
      BY <1>1, <2>2, <2>3, <2>4 DEF TellInv, ClaimGood
    <2>7. Tells(r, rec)'
      BY <1>1, <2>1, <2>5, <2>6, StillFollowed, TellsStays DEF TellInv, Followed
    <2>8. Tells(r, keeper.prior)'
      BY <2>2, <2>4, <2>7 DEF Tells
    <2>9. ClaimGood'
      BY <1>1, <2>2, <2>3, <2>8 DEF TellInv, ClaimGood, Working
    <2> QED BY <1>1, <2>1, <2>9, StillTells
  <1> QED BY <1>3, <1>4, JournalReducedTells DEF ReduceJournal

\* The record that is put back was true when the deletion began, and is.
LEMMA WithdrawTells == ASSUME Inv, TellInv, Withdraw PROVE TellInv'
  <1> DEFINE r == keeper.ref
  <1>1. /\ UNCHANGED Panel /\ texts' = texts /\ keeper' = Rest
        /\ record' = [record EXCEPT ![r] = keeper.prior]
        /\ keeper.at = "withdraw" /\ record \in [Ref -> Records]
    BY DEF Withdraw, Panel, journal, Inv, Typed, KeeperTyped
  <1>2. r \in Ref /\ ~Awaited(r) /\ Tells(r, keeper.prior)
    BY <1>1, WorkIs DEF Inv, KeeperGood, TellInv, ClaimGood
  <1>3. record'[r] = keeper.prior /\ \A s \in Ref \ {r} : record'[s] = record[s]
    BY <1>1, <1>2
  <1>4. NamesGood' /\ RecordGood'
    BY <1>1, <1>2, <1>3, WrittenTells
  <1>5. Resting'
    BY <1>1 DEF Resting
  <1> QED BY <1>4, <1>5, RestingUnclaimed, UnclaimedIs DEF TellInv

\* A record of work under way says no more than that it is.
LEMMA WorkSays ==
    ASSUME NEW r, NEW rec, rec.phase \in {"reclaiming", "reclaimed", "deleting"},
           rec.phase = "reclaimed" => rec.kept # {},
           rec.phase \in {"reclaiming", "reclaimed"} <=> rec.summary
    PROVE  Tells(r, rec)
  BY DEF Tells

\* A store beside the journal is reduced for the mission a keeper works on.
LEMMA StoreTells ==
    ASSUME Inv, TellInv, keeper.at \in {"requests", "texts"},
           UNCHANGED <<turns, submit, mission, record>>, JournalTyped',
           NEW at \in {"texts", "close"}, keeper' = [keeper EXCEPT !.at = at],
           \A s \in Ref : /\ requests'[s].turn = requests[s].turn
                          /\ requests[s].bound => requests'[s].bound
                          /\ s # keeper.ref => requests'[s].words = requests[s].words
                                               /\ texts'[s] = texts[s],
           IsNamed(keeper.ref) => Gone(requests'[keeper.ref].words, Outcome(keeper.ref)),
           at = "close" => Gone(texts'[keeper.ref], Outcome(keeper.ref))
    PROVE  TellInv'
  <1>1. /\ keeper \in Keepers /\ keeper.ref \in Ref
    BY WorkIs DEF Working
  <1>2. PICK r \in Ref : r = keeper.ref
    BY <1>1
  <1>3. /\ record[r].phase \in {"reclaiming", "reclaimed", "deleting"}
        /\ record[r].phase = "reclaimed" => record[r].kept # {}
        /\ record[r].phase = "deleting" => keeper.kept = {}
        /\ IsNamed(r) => keeper.bound
        /\ keeper.op = "delete" => record[r].phase = "deleting"
        /\ keeper.kept = {} => TurnsGone(r, Outcome(r))
    BY <1>2 DEF TellInv, ClaimGood, Working
  <1>4. ASSUME NEW s PROVE /\ Awaited(s)' <=> Awaited(s)
                           /\ IsNamed(s)' <=> IsNamed(s)
                           /\ \A o : TurnsGone(s, o)' <=> TurnsGone(s, o)
    BY DEF Awaited, IsNamed, TurnsGone
  <1>5. NamesGood'
    BY QuietNames DEF TellInv
  <1>6. ASSUME NEW s \in Ref PROVE Tells(s, record[s])'
    <2>1. Tells(s, record[s])
      BY DEF TellInv, RecordGood
    <2>2. CASE s = r
      BY <1>3, <2>1, <2>2 DEF Tells
    <2>3. CASE s # r
      <3>1. /\ IsNamed(s)' <=> IsNamed(s)
            /\ TurnsGone(s, "reclaimed")' <=> TurnsGone(s, "reclaimed")
            /\ TurnsGone(s, "deleted")' <=> TurnsGone(s, "deleted")
            /\ requests'[s].words = requests[s].words /\ texts'[s] = texts[s]
        BY <1>2, <1>4, <2>3
      <3> QED BY <2>1, <3>1 DEF Tells
    <2> QED BY <2>2, <2>3
  <1>7. RecordGood'
    BY <1>4, <1>6 DEF TellInv, RecordGood
  <1>8. /\ keeper'.at = at /\ keeper'.ref = r /\ keeper'.op = keeper.op
        /\ keeper'.kept = keeper.kept /\ keeper'.bound = keeper.bound
    BY <1>1, <1>2 DEF Keepers
  <1>9. PICK o : o = Outcome(r)
    OBVIOUS
  <1>10. Outcome(r)' = o
    BY <1>9 DEF Outcome
  <1>11. TurnsGone(r, Outcome(r))' <=> TurnsGone(r, o)
    BY <1>10 DEF TurnsGone
  <1>12. ClaimGood'
    <2>1. IsNamed(r)' <=> IsNamed(r)
      BY <1>4
    <2> QED BY <1>2, <1>3, <1>8, <1>9, <1>10, <1>11, <2>1 DEF ClaimGood
  <1> QED BY <1>5, <1>7, <1>12 DEF TellInv

LEMMA ReduceRequestsTells ==
    ASSUME Inv, TellInv, JournalTyped', ReduceRequests PROVE TellInv'
  <1> DEFINE r == keeper.ref
             e == [requests[r] EXCEPT !.words = Marked(@, Outcome(r))]
  <1>1. /\ UNCHANGED <<turns, submit, mission, record, texts>>
        /\ keeper.at = "requests" /\ keeper' = [keeper EXCEPT !.at = "texts"]
        /\ requests' = IF keeper.bound THEN [requests EXCEPT ![r] = e] ELSE requests
        /\ requests \in [Ref -> Requests]
    BY DEF ReduceRequests, Inv, Typed, JournalTyped
  <1>2. r \in Ref
    BY <1>1, WorkIs DEF Working
  <1>3. /\ e.turn = requests[r].turn /\ e.bound = requests[r].bound
        /\ Gone(e.words, Outcome(r))
    <2>1. requests[r] \in Requests
      BY <1>1, <1>2
    <2>2. /\ e.turn = requests[r].turn /\ e.bound = requests[r].bound
          /\ e.words = Marked(requests[r].words, Outcome(r)) /\ requests[r].words \in Words
      BY <2>1 DEF Requests
    <2> HIDE DEF e
    <2> QED BY <2>2, MarkedGone, OutcomeIs
  <1> HIDE DEF e
  <1>4. \A s \in Ref : /\ requests'[s].turn = requests[s].turn
                       /\ requests[s].bound => requests'[s].bound
                       /\ s # r => requests'[s].words = requests[s].words
    BY <1>1, <1>2, <1>3
  <1>5. IsNamed(r) => Gone(requests'[r].words, Outcome(r))
    <2>1. IsNamed(r) => keeper.bound
      BY <1>1 DEF TellInv, ClaimGood, Working
    <2> QED BY <1>1, <1>2, <1>3, <2>1
  <1> QED BY <1>1, <1>4, <1>5, StoreTells

LEMMA ReduceTextsTells == ASSUME Inv, TellInv, JournalTyped', ReduceTexts PROVE TellInv'
  <1> DEFINE r == keeper.ref
  <1>1. /\ UNCHANGED <<turns, submit, mission, requests, record>>
        /\ keeper.at = "texts" /\ keeper' = [keeper EXCEPT !.at = "close"]
        /\ texts' = [texts EXCEPT ![r] = Marked(@, Outcome(r))]
        /\ texts \in [Ref -> Words]
    BY DEF ReduceTexts, journal, Inv, Typed, KeeperTyped
  <1>2. r \in Ref
    BY <1>1, WorkIs DEF Working
  <1>3. /\ texts'[r] = Marked(texts[r], Outcome(r))
        /\ \A s \in Ref : s # r => texts'[s] = texts[s]
    BY <1>1, <1>2
  <1>4. Gone(texts'[r], Outcome(r))
    BY <1>1, <1>2, <1>3, MarkedGone, OutcomeIs
  <1>5. IsNamed(r) => Gone(requests'[r].words, Outcome(r))
    BY <1>1 DEF TellInv, ClaimGood
  <1> QED BY <1>1, <1>3, <1>4, <1>5, StoreTells

\* The record is closed when everything it will say was done.
LEMMA CloseTells == ASSUME Inv, TellInv, Close PROVE TellInv'
  <1> DEFINE r == keeper.ref
             told == record[r].summary /\ Outcome(r) = "reclaimed"
             e == [phase |-> Outcome(r), kept |-> keeper.kept, summary |-> told]
  <1>1. /\ UNCHANGED Panel /\ texts' = texts /\ mission' = mission
        /\ keeper.at = "close" /\ record' = [record EXCEPT ![r] = e]
        /\ \/ Turned(keeper.done + 1)
           \/ keeper' = Rest
        /\ record \in [Ref -> Records]
    BY DEF Close, Panel, journal, Inv, Typed, KeeperTyped
  <1>2. /\ r \in Ref /\ ~Awaited(r) /\ keeper # Rest
        /\ record[r].phase \in {"reclaiming", "reclaimed", "deleting"}
    BY <1>1, WorkIs DEF Working
  <1>3. /\ record[r].phase = "deleting" => keeper.kept = {}
        /\ keeper.kept = {} => TurnsGone(r, Outcome(r))
        /\ IsNamed(r) => Gone(requests[r].words, Outcome(r))
        /\ Gone(texts[r], Outcome(r))
    BY <1>1 DEF TellInv, ClaimGood, Working
  <1>4. record[r].phase \in {"reclaiming", "reclaimed"} <=> record[r].summary
    BY <1>2 DEF TellInv, RecordGood, Tells
  <1>5. Tells(r, e)
    <2>1. e.phase = Outcome(r) /\ e.kept = keeper.kept /\ (e.summary <=> told)
      OBVIOUS
    <2>2. told <=> Outcome(r) = "reclaimed"
      BY <1>2, <1>4 DEF Outcome
    <2>3. Outcome(r) = "deleted" <=> record[r].phase = "deleting"
      BY DEF Outcome
    <2>4. Outcome(r) \in {"reclaimed", "deleted"}
      BY OutcomeIs
    <2> HIDE DEF e, told
    <2> QED BY <1>3, <2>1, <2>2, <2>3, <2>4 DEF Tells
  <1> HIDE DEF e
  <1>6. record'[r] = e /\ \A s \in Ref \ {r} : record'[s] = record[s]
    BY <1>1, <1>2
  <1>7. NamesGood' /\ RecordGood'
    BY <1>1, <1>2, <1>5, <1>6, WrittenTells
  <1>8. Resting'
    BY <1>1, <1>2, Done, TurnedIs DEF Resting
  <1> QED BY <1>7, <1>8, RestingUnclaimed, UnclaimedIs DEF TellInv

LEMMA NextTells == ASSUME Inv, TellInv, Next PROVE TellInv'
  <1>1. JournalTyped'
    BY NextKept DEF Inv, Typed
  <1>2. CASE JournalNext /\ UNCHANGED retention
    <2>1. record' = record /\ texts' = texts /\ keeper' = keeper
      BY <1>2 DEF retention
    <2> QED BY <1>1, <1>2, <2>1, JournalFollowed, RecordCarried, ClaimCarried
            DEF TellInv, Followed
  <1>3. CASE /\ PanelDies
             /\ keeper' = IF keeper.op = "delete" THEN Rest ELSE keeper
             /\ UNCHANGED <<record, texts>>
    <2>1. Followed
      BY <1>1, <1>3, PanelDiesFollowed DEF TellInv
    <2>2. CASE keeper' = keeper
      BY <1>3, <2>1, <2>2, RecordCarried, ClaimCarried DEF TellInv, Followed
    <2>3. CASE keeper' = Rest
      <3>1. Resting'
        BY <2>3 DEF Resting
      <3> QED BY <1>3, <2>1, <3>1, RecordCarried, RestingUnclaimed, UnclaimedIs
              DEF TellInv, Followed
    <2> QED BY <1>3, <2>2, <2>3
  <1>4. CASE SweepStarts \/ (\E r \in Ref : DeleteStarts(r)) \/ KeeperProceeds \/ KeeperFails
    BY <1>1, <1>4, SweepStartsTells, BetweenTells, SweepJudgesTells, DeleteJudgesTells,
       ReduceJournalTells, WithdrawTells, ReduceRequestsTells, ReduceTextsTells, CloseTells
       DEF KeeperProceeds
  <1> QED BY <1>2, <1>3, <1>4 DEF Next, Dies

LEMMA StutterTells == ASSUME Inv, TellInv, UNCHANGED vars PROVE TellInv'
  <1>1. UNCHANGED Panel /\ record' = record /\ texts' = texts /\ keeper' = keeper
    BY DEF vars, Panel
  <1> QED BY <1>1, StillFollowed, RecordCarried, ClaimCarried DEF TellInv, Followed

LEMMA InitTells == ASSUME Init PROVE TellInv
  <1>1. /\ turns = NoTurns /\ submit = [t \in Turn |-> Idle]
        /\ requests = [r \in Ref |-> NoRequest] /\ mission = [r \in Ref |-> "none"]
        /\ record = [r \in Ref |-> NoRecord] /\ texts = [r \in Ref |-> "kept"]
        /\ keeper = Rest
    BY DEF Init, JournalInit
  <1>2. /\ NoTurn.ref = None /\ NoRequest.words = "kept" /\ Idle.at = "idle"
        /\ NoRecord.phase = "intact" /\ NoRecord.summary = FALSE
    BY DEF NoTurn, NewTurn, NoRequest, Idle, NoRecord
  <1>3. NamesGood
    BY <1>1, <1>2 DEF NamesGood, NoTurns
  <1>4. RecordGood
    BY <1>1, <1>2 DEF RecordGood, Tells, ReducedPhases
  <1>5. ClaimGood
    BY <1>1 DEF ClaimGood, Rest, Working
  <1> QED BY <1>3, <1>4, <1>5 DEF TellInv

\* What the record says of each mission, and how far a keeper is with the one it
\* works on, holds of the three stores whenever it stops.
THEOREM TellingHolds == Spec => [](Inv /\ TellInv)
  <1>1. Init => Inv /\ TellInv
    BY InitInv, InitTells
  <1>2. Inv /\ TellInv /\ [Next]_vars => (Inv /\ TellInv)'
    BY NextKept, StutterKept, NextTells, StutterTells
  <1> QED BY <1>1, <1>2, PTL DEF Spec

\* The retention record claims neither less nor more than sweep and delete have
\* done to the journal, the requests and the run's texts, wherever they stopped.
THEOREM RecordIsTrue == Spec => []RecordTells
  <1>1. Inv /\ TellInv => RecordTells
    <2> SUFFICES ASSUME Inv, TellInv, NEW r \in Ref
                 PROVE  LET phase == record[r].phase
                            all == {requests[r].words, texts[r]}
                                   \cup {turns[t].words : t \in {u \in Turn :
                                            turns[u].conversation \in ConversationsOf(turns, r)}}
                        IN
                        /\ phase \in {"intact", "observed"} =>
                              requests[r].words = "kept" /\ texts[r] = "kept"
                        /\ phase \in {"reclaiming", "reclaimed"} <=> record[r].summary
                        /\ (\E t \in Turn : turns[t].ref = r) =>
                              /\ phase = "reclaimed" /\ record[r].kept = {} => "kept" \notin all
                              /\ phase = "deleted" => all = {"deleted"}
      BY DEF RecordTells
    <2>1. Tells(r, record[r])
      BY DEF TellInv, RecordGood
    <2> QED BY <2>1 DEF Tells, IsNamed, TurnsGone, Gone
  <1> QED BY <1>1, TellingHolds, PTL
=============================================================================
