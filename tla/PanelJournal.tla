---------------------------- MODULE PanelJournal ----------------------------
(***************************************************************************)
(* The journal of the mission panel: the turns of a person's conversations *)
(* with a provider, and the submission of a turn's draft to the local      *)
(* request surface.  Every write of the journal is one locked              *)
(* load-modify-save and one action; between two of them the threads of the *)
(* panel interleave, and the panel may die with all of them.               *)
(*                                                                         *)
(* What is intended is recorded before it is done.  A record in flight     *)
(* that no thread of the panel is known to run is settled as uncertain:    *)
(* `registry` is what is known to run.                                     *)
(***************************************************************************)
EXTENDS Integers, FiniteSets

CONSTANTS
    Conversation,   \* conversations that may be begun
    MaxTurns,       \* hard bound on turns, none is ever evicted
    MaxRef,         \* hard bound on requests, and on the missions made of them
    MaxRunning,     \* provider turns in flight at once
    MaxFaults       \* deaths and failed calls together

ASSUME JournalAssumption ==
    /\ 0 \notin Conversation
    /\ MaxTurns \in Nat /\ MaxRef \in Nat /\ MaxRunning \in Nat /\ MaxFaults \in Nat

VARIABLES
    turns,      \* the journal
    up,         \* the panel runs
    registry,   \* turns the panel is known to run, or to submit
    sender,     \* the one thread inside send
    running,    \* turns with the provider
    submit,     \* the thread that submits each turn's draft
    requests,   \* the surface's records
    mission,    \* how far the mission of each request is
    faults

journal == <<turns, up, registry, sender, running, submit,
             requests, mission, faults>>

None == 0
Turn == 1 .. MaxTurns
Ref == 1 .. MaxRef

\* A turn of a conversation: with the provider, ended with a draft, or ended
\* without one.  `ref` is the request a submission produced, `words` what is left
\* of the turn.
NewTurn(c) == [conversation |-> c, state |-> "RESERVED", submission |-> "none",
               ref |-> None, words |-> "kept"]
NoTurn == [NewTurn(None) EXCEPT !.state = "unused"]
NoTurns == [t \in Turn |-> NoTurn]

\* A request: the turn whose draft it was, whether its mission is known, and what
\* is left of it.
NoRequest == [turn |-> None, bound |-> FALSE, words |-> "kept"]

Idle == [at |-> "idle"]
Fault == faults < MaxFaults /\ faults' = faults + 1
NoFault == faults' = faults

Used(j) == {t \in Turn : j[t].state # "unused"}
Of(j, c) == {t \in Used(j) : j[t].conversation = c}
Reduced(j, t) == j[t].words # "kept"
InFlight(j, t) == j[t].state = "RESERVED" \/ j[t].submission = "RESERVED"
Held(r) == requests[r].turn # None

JournalInit ==
    /\ turns = NoTurns
    /\ up = TRUE
    /\ registry = {}
    /\ sender = Idle
    /\ running = {}
    /\ submit = [t \in Turn |-> Idle]
    /\ requests = [r \in Ref |-> NoRequest]
    /\ mission = [r \in Ref |-> "none"]
    /\ faults = 0

-----------------------------------------------------------------------------
(* Turns.                                                                  *)

\* Whatever is in flight and not known to run ends: its outcome is unknown, and
\* it is never tried again.
Settled(j, known) ==
    [t \in Turn |->
        IF t \in known THEN j[t]
        ELSE [j[t] EXCEPT !.state = IF @ = "RESERVED" THEN "ENDED" ELSE @,
                          !.submission = IF @ = "RESERVED" THEN "UNCERTAIN" ELSE @]]

\* One thread at a time is inside send.  It reads the conversation, and what is
\* known to run, before it takes the journal's lock.
SendReads(c) ==
    /\ up
    /\ sender = Idle
    /\ Cardinality(running) < MaxRunning
    /\ \A t \in Of(turns, c) : ~Reduced(turns, t)
    /\ sender' = [at |-> "reserve", conversation |-> c, known |-> registry]
    /\ UNCHANGED <<turns, up, registry, running, submit, requests, mission, faults>>

\* The turn is recorded before the provider is called; all else in flight is
\* settled by the same save.  A full journal, a reduced conversation and a busy
\* one refuse, and nothing is saved.
SendReserves ==
    LET c == sender.conversation
        settled == Settled(turns, sender.known)
        fresh == CHOOSE t \in Turn : t \notin Used(turns)
        taken == /\ Turn \ Used(turns) # {}
                 /\ \A t \in Of(turns, c) : ~Reduced(turns, t) /\ settled[t].state # "RESERVED"
    IN
    /\ sender.at = "reserve"
    /\ IF taken
       THEN /\ turns' = [settled EXCEPT ![fresh] = NewTurn(c)]
            /\ registry' = registry \cup {fresh}
            /\ running' = running \cup {fresh}
       ELSE UNCHANGED <<turns, registry, running>>
    /\ sender' = Idle
    /\ UNCHANGED <<up, submit, requests, mission, faults>>

\* The provider answers, fails or is killed at its deadline.  When the answer
\* cannot be saved the turn stays in flight, with no thread to run it.
TurnEnds(t) ==
    /\ t \in running
    /\ \/ /\ turns' \in {[turns EXCEPT ![t].state = s] : s \in {"DRAFTED", "ENDED"}}
          /\ NoFault
       \/ turns' = turns /\ Fault
    /\ running' = running \ {t}
    /\ registry' = registry \ {t}
    /\ UNCHANGED <<up, sender, submit, requests, mission>>

-----------------------------------------------------------------------------
(* Submitting the draft of a turn, as a new request or in place of `old`.  *)

\* Faulty variant: a submission whose outcome is unknown may be tried again.
SubmittableUncertain(t) ==
    /\ turns[t].state = "DRAFTED"
    /\ ~Reduced(turns, t)
    /\ turns[t].submission \in {"none", "REFUSED", "UNCERTAIN"}

\* A refused submission recorded nothing and may be tried again.
Submittable(t) ==
    /\ turns[t].state = "DRAFTED"
    /\ ~Reduced(turns, t)
    /\ turns[t].submission \in {"none", "REFUSED"}

\* Any other submission is answered with the one there is.
SubmitReserves(t) ==
    /\ up
    /\ submit[t] = Idle
    /\ Submittable(t)
    /\ turns' = [turns EXCEPT ![t].submission = "RESERVED", ![t].ref = None]
    /\ submit' = [submit EXCEPT ![t] = [at |-> "register"]]
    /\ UNCHANGED <<up, registry, sender, running, requests, mission, faults>>

\* Only now is the submission known to run.
SubmitRegisters(t) ==
    /\ submit[t].at = "register"
    /\ registry' = registry \cup {t}
    /\ submit' = [submit EXCEPT ![t] = [at |-> "withdraw"]]
    /\ UNCHANGED <<turns, up, sender, running, requests, mission, faults>>

Answered(t, outcome) == submit' = [submit EXCEPT ![t] = [at |-> "finish", outcome |-> outcome,
                                                         ref |-> None]]

\* The request it replaces, if it replaces one, is withdrawn first; one that was
\* decided meanwhile refuses, and one that was withdrawn before needs nothing.
SubmitWithdraws(t, old) ==
    LET withdrawn == IF mission[old] = "open" THEN [mission EXCEPT ![old] = "over"] ELSE mission
    IN
    /\ submit[t].at = "withdraw"
    /\ mission[old] # "none" /\ requests[old].bound
    /\ \/ /\ mission' = withdrawn
          /\ submit' = [submit EXCEPT ![t] = [at |-> "ask"]]
          /\ NoFault
       \/ mission' = mission /\ Answered(t, "REFUSED") /\ NoFault
       \/ mission' \in {mission, withdrawn} /\ Answered(t, "UNCERTAIN") /\ Fault
    /\ UNCHANGED <<turns, up, registry, sender, running, requests>>

\* The surface saves the request; a refusal saves nothing, any other failure
\* leaves unknown what was saved, and so does a full store.
SubmitAsks(t) ==
    /\ submit[t].at \in {"withdraw", "ask"}
    /\ \/ \E r \in Ref :
             /\ ~Held(r)
             /\ requests' = [requests EXCEPT ![r].turn = t]
             /\ \/ submit' = [submit EXCEPT ![t] = [at |-> "bind", ref |-> r]] /\ NoFault
                \/ Answered(t, "UNCERTAIN") /\ Fault
       \/ requests' = requests /\ Answered(t, "REFUSED") /\ NoFault
       \/ /\ requests' = requests
          /\ Answered(t, "UNCERTAIN")
          /\ IF \A r \in Ref : Held(r) THEN NoFault ELSE Fault
    /\ UNCHANGED <<turns, up, registry, sender, running, mission>>

\* Mission Core makes the mission, and the surface binds it.
SubmitBinds(t) ==
    LET r == submit[t].ref IN
    /\ submit[t].at = "bind"
    /\ \/ /\ mission' = [mission EXCEPT ![r] = IF @ = "none" THEN "open" ELSE @]
          /\ requests' = [requests EXCEPT ![r].bound = TRUE]
          /\ submit' = [submit EXCEPT ![t] = [at |-> "finish", outcome |-> "SUBMITTED",
                                              ref |-> r]]
          /\ NoFault
       \/ /\ mission' \in {mission, [mission EXCEPT ![r] = IF @ = "none" THEN "open" ELSE @]}
          /\ requests' = requests
          /\ Answered(t, "UNCERTAIN")
          /\ Fault
    /\ UNCHANGED <<turns, up, registry, sender, running>>

\* The outcome is saved if the submission is still in flight; one that was settled
\* meanwhile stays as it is, and the request it made is named nowhere.
SubmitFinishes(t) ==
    /\ submit[t].at = "finish"
    /\ \/ /\ turns' = IF turns[t].submission = "RESERVED"
                      THEN [turns EXCEPT ![t].submission = submit[t].outcome,
                                         ![t].ref = submit[t].ref]
                      ELSE turns
          /\ NoFault
       \/ turns' = turns /\ Fault
    /\ submit' = [submit EXCEPT ![t] = Idle]
    /\ registry' = registry \ {t}
    /\ UNCHANGED <<up, sender, running, requests, mission>>

-----------------------------------------------------------------------------
(* Around the threads.                                                     *)

\* A person recovers, at the command line, a request whose submit was interrupted.
Recover(r) ==
    /\ Held(r) /\ ~requests[r].bound
    /\ mission' = [mission EXCEPT ![r] = IF @ = "none" THEN "open" ELSE @]
    /\ requests' = [requests EXCEPT ![r].bound = TRUE]
    /\ UNCHANGED <<turns, up, registry, sender, running, submit, faults>>

\* The mission comes to an end nothing of it runs after, and is over for so long
\* that its words may go: thirty days, which no thread that submitted it lives.
MissionGoes(r) ==
    /\ \/ mission[r] = "open" /\ mission' = [mission EXCEPT ![r] = "over"]
       \/ /\ mission[r] = "over" /\ mission' = [mission EXCEPT ![r] = "due"]
          /\ \A t \in Turn : submit[t].at \in {"bind", "finish"} => submit[t].ref # r
    /\ UNCHANGED <<turns, up, registry, sender, running, submit, requests, faults>>

\* Every thread dies with the panel, and the registry is forgotten.
PanelDies ==
    /\ up
    /\ Fault
    /\ up' = FALSE
    /\ registry' = {} /\ running' = {}
    /\ sender' = Idle
    /\ submit' = [t \in Turn |-> Idle]
    /\ UNCHANGED <<turns, requests, mission>>

PanelStarts ==
    /\ ~up
    /\ up' = TRUE
    /\ turns' = Settled(turns, {})
    /\ UNCHANGED <<registry, sender, running, submit, requests, mission, faults>>

\* What a thread that began goes on to do.
Proceeds(t) ==
    \/ TurnEnds(t)
    \/ SubmitRegisters(t) \/ SubmitAsks(t) \/ SubmitBinds(t)
    \/ SubmitFinishes(t)

JournalThreads ==
    \/ SendReserves
    \/ \E t \in Turn : Proceeds(t)
    \/ PanelStarts

JournalNext ==
    \/ \E c \in Conversation : SendReads(c)
    \/ \E t \in Turn : SubmitReserves(t)
    \/ \E t \in Turn, old \in Ref : SubmitWithdraws(t, old)
    \/ JournalThreads
    \/ \E r \in Ref : Recover(r) \/ MissionGoes(r)

-----------------------------------------------------------------------------

\* One draft becomes one request at most, whoever settles its submission, fails or
\* dies meanwhile.
DraftOnce ==
    \A r, s \in Ref : Held(r) /\ requests[r].turn = requests[s].turn => r = s
=============================================================================
