--------------------------- MODULE MissionRequest --------------------------
(***************************************************************************)
(* One Mission registry used by three callers at once: the local request   *)
(* surface, an authenticated caller who decides and edits, and the panel,  *)
(* which pauses, resumes and cancels an authorized mission before its run  *)
(* starts.                                                                 *)
(***************************************************************************)
EXTENDS LocalRequest

CONSTANTS
    MaxTime,            \* bound on the clock
    AskedScopes         \* scopes an authenticated approval may grant

ASSUME MissionRequestAssumption == MaxTime \in Nat /\ AskedScopes \subseteq Scopes

vars == <<doc, now, requests, call, crashes>>

Init ==
    /\ doc = EmptyDoc
    /\ now = 1
    /\ LocalInit

Tick ==
    /\ now < MaxTime
    /\ now' = now + 1
    /\ UNCHANGED <<doc, surface>>

\* An authenticated caller reserves the id of the decision it will make, one at
\* a time.
HumanMint ==
    /\ \A i \in DOMAIN doc.reservations :
          IsReserved(doc, i, "decision", Authenticated) => ~Unconsumed(doc, i)
    /\ CanReserve(doc, "decision", Authenticated)
    /\ doc' = ReserveIn(doc, "decision", Authenticated)
    /\ UNCHANGED <<now, surface>>

HumanAsks(id) ==
    LET ask(kind, revision, content, scope, expires) ==
            [id |-> id, by |-> Authenticated, kind |-> kind, revision |-> revision,
             shown |-> None, content |-> content, scope |-> scope, expires |-> expires]
    IN
    UNION {{ask("APPROVE", revision, None, scope, expires) :
                scope \in AskedScopes, expires \in {None, now + 1}}
           \cup {ask("DENY", revision, None, "requested", None)}
           \cup {ask("EDIT", revision, content, "requested", None) : content \in Content}
           : revision \in 1 .. MaxRevisions}

HumanDecide(m, id) ==
    \E ask \in HumanAsks(id) :
        /\ CanDecideAndSave(doc, m, ask, now)
        /\ doc' = DecideIn(doc, m, ask, now)
        /\ UNCHANGED <<now, surface>>

\* Control of an authorized mission whose run was not started.
Control(m) ==
    LET bound == BoundAuthorization(doc.missions[m]) IN
    /\ \/ doc' \in RecordPause(doc, m, bound)
       \/ doc' \in RecordResume(doc, m, bound)
       \/ doc' \in RecordCancel(doc, m, "cancelled_before_intent", bound)
       \/ doc' \in CompleteCancel(doc, m, "nothing_started", bound)
    /\ UNCHANGED <<now, surface>>

Next ==
    \/ LocalStep
    \/ HumanMint
    \/ \E m \in Missions, id \in DOMAIN doc.reservations : HumanDecide(m, id)
    \/ \E m \in Missions : Control(m)
    \/ Tick

Spec == Init /\ [][Next]_vars

-----------------------------------------------------------------------------

\* Whatever calls interleave, a later load accepts the document: replaying the
\* decisions gives exactly the state, the authorizations and the ledger saved.
StoreAccepted ==
    /\ IdsAgree(doc)
    /\ \A m \in Missions : Accepted(doc, m)

Unrevoked(m) ==
    {a \in ToSet(doc.missions[m].authorizations) : ~doc.authorizations[a].revoked}

\* Authority stands for the proposal of now: an edit leaves none behind, and an
\* authorized mission has exactly one.
AuthorityIsCurrent ==
    \A m \in Missions :
        /\ \A a \in Unrevoked(m) :
              /\ doc.authorizations[a].revision = Revision(doc.missions[m])
              /\ doc.authorizations[a].content = Current(doc.missions[m])
        /\ Cardinality(Unrevoked(m)) <= 1
        /\ doc.missions[m].state = "AUTHORIZED" => Unrevoked(m) # {}

\* What the surface says became of an attested answer is what Mission Core holds.
AnswersAgree(r) ==
    \A attestation \in {requests[r].approval, requests[r].outcome} :
        /\ attestation.state = "APPLIED" =>
              Recorded(doc, requests[r].mission, attestation.ask.id)
        /\ attestation.state = "REFUSED" =>
              ~Recorded(doc, requests[r].mission, attestation.ask.id)

\* An attested approval authorized exactly what the person was shown.
ApprovedAsShown(r) ==
    LET ask == requests[r].approval.ask IN
    requests[r].approval.state = "APPLIED" =>
        \E a \in DOMAIN doc.authorizations :
            /\ doc.authorizations[a].mission = requests[r].mission
            /\ doc.authorizations[a].by = Relay
            /\ doc.authorizations[a].content = ask.shown
            /\ doc.authorizations[a].revision = ask.revision
            /\ doc.authorizations[a].expires = ask.expires

\* A person's answer is relayed once: no second attested decision follows.
AnsweredOnce(r) ==
    requests[r].mission # None =>
        Cardinality({decision \in DecisionsOf(doc, requests[r].mission) :
                        decision.by = Relay}) <= 1

\* A request shown as cancelled names a mission nobody ever decided or will.
CancelledUndecided(r) ==
    requests[r].state = "CANCELLED" =>
        MissionOf(r).withdrawn # None /\ MissionOf(r).decisions = <<>>

\* What the surface tells of a request is what Mission Core holds, and an answer is
\* relayed once, after crashes, lost answers, refusals, and an edit between the
\* reply and its application.
SurfaceTells ==
    \A r \in Ref : requests[r].held =>
        AnswersAgree(r) /\ ApprovedAsShown(r) /\ AnsweredOnce(r) /\ CancelledUndecided(r)

\* The record of what was decided is only ever added to: no decision, revision,
\* ledger entry or authorization goes, and a revocation is never undone.
RecordOnlyGrows ==
    [][/\ IsPrefix(doc.ledger, doc'.ledger)
       /\ \A m \in Missions :
             /\ IsPrefix(doc.missions[m].decisions, doc'.missions[m].decisions)
             /\ IsPrefix(doc.missions[m].revisions, doc'.missions[m].revisions)
             /\ IsPrefix(doc.missions[m].authorizations, doc'.missions[m].authorizations)
             /\ doc.missions[m].withdrawn # None => doc'.missions[m] = doc.missions[m]
       /\ \A a \in DOMAIN doc.authorizations :
             /\ a \in DOMAIN doc'.authorizations
             /\ doc.authorizations[a].revoked => doc'.authorizations[a].revoked
       /\ \A i \in DOMAIN doc.reservations : ~Unconsumed(doc, i) =>
             doc'.reservations[i] = doc.reservations[i]]_doc
=============================================================================
