---------------------------- MODULE MissionCore ----------------------------
(***************************************************************************)
(* The Mission registry: proposals, decisions, authorizations, their       *)
(* ledger and the reserved ids, all in one document.  Every operation is   *)
(* one load, change and save under the store's lock, so it is one step.    *)
(*                                                                         *)
(* Operators that end in "In" give the document an operation saves; the    *)
(* operators named Can... give the condition under which it saves at all.  *)
(* Otherwise the operation refuses and nothing changes.                    *)
(***************************************************************************)
EXTENDS MissionRecord, SequencesExt

VARIABLES
    doc,    \* the stored document
    now     \* the clock every operation reads

\* What a sequence holds of S, in its order: SelectSeq for a set, written as a
\* recursive function, since SelectSeq has no definition a proof can expand.
Among(s, S) ==
    LET taken[n \in 0 .. Len(s)] ==
            IF n = 0 THEN <<>>
            ELSE IF s[n] \in S THEN Append(taken[n - 1], s[n]) ELSE taken[n - 1]
    IN  taken[Len(s)]

EmptyDoc == [missions |-> <<>>, authorizations |-> <<>>, ledger |-> <<>>,
             reservations |-> <<>>]

Missions == DOMAIN doc.missions

-----------------------------------------------------------------------------
(* Ids.                                                                    *)

Held(d, kind) ==
    Cardinality({i \in DOMAIN d.reservations : d.reservations[i].kind = kind})

MayReserve(kind, context) ==
    CASE kind = "request" -> context \in {Authenticated, LocalCaller}
      [] kind = "decision" -> context \in {Authenticated, Relay}

CanReserve(d, kind, context) ==
    /\ MayReserve(kind, context)
    /\ Held(d, kind) < IF kind = "request" THEN MaxRequestIds ELSE MaxDecisionIds

ReserveIn(d, kind, context) ==
    [d EXCEPT !.reservations =
        Append(@, [kind |-> kind, context |-> context, consumed |-> None])]

NextId(d) == Len(d.reservations) + 1

\* The id was reserved by this layer for this kind and for this caller.
IsReserved(d, id, kind, context) ==
    /\ id \in DOMAIN d.reservations
    /\ d.reservations[id].kind = kind
    /\ d.reservations[id].context = context

-----------------------------------------------------------------------------
(* Proposing and withdrawing.                                              *)

Unconsumed(d, id) == d.reservations[id].consumed = None

CanPropose(d, id, context) ==
    /\ IsReserved(d, id, "request", context)
    /\ Unconsumed(d, id)
    /\ Len(d.missions) < MaxMissions

ProposeIn(d, id, context, content, keyExpires) ==
    [d EXCEPT
        !.missions = Append(@, NewMission(id, context, content, keyExpires)),
        !.reservations[id].consumed = Len(d.missions) + 1]

\* A proposal repeated under its request id answers the mission it made; with
\* other content it is refused.
Proposed(d, id, content, keyExpires) ==
    LET m == d.reservations[id].consumed IN
    /\ ~Unconsumed(d, id)
    /\ d.missions[m].revisions[1].content = content
    /\ d.missions[m].keyExpires = keyExpires

Undecided(mission) ==
    /\ mission.state = "AWAITING_DECISION"
    /\ Revision(mission) = 1
    /\ mission.decisions = <<>>
    /\ mission.authorizations = <<>>

CanWithdraw(d, m, id, t) ==
    /\ d.missions[m].request = id
    /\ d.missions[m].proposer = LocalCaller
    /\ d.missions[m].keyExpires # None
    /\ \/ d.missions[m].withdrawn # None
       \/ t < d.missions[m].keyExpires /\ Undecided(d.missions[m])

\* Faulty variant: withdrawing again moves the time of the withdrawal.
WithdrawInAgain(d, m, t) == [d EXCEPT !.missions[m].withdrawn = t]

WithdrawIn(d, m, t) ==
    IF d.missions[m].withdrawn # None THEN d
    ELSE [d EXCEPT !.missions[m].withdrawn = t]

-----------------------------------------------------------------------------
(* The authority ledger.                                                   *)

Entry(kind, m, revision, authorization, decision, t) ==
    [kind |-> kind, mission |-> m, revision |-> revision,
     authorization |-> authorization, decision |-> decision, at |-> t]

RecordedExpired(d) ==
    {d.ledger[i].authorization : i \in
        {j \in DOMAIN d.ledger : d.ledger[j].kind = "EXPIRED"}}

\* Every live authorization whose expiry has passed is noted once, before the
\* entries of the decision that notices it.
NoteExpirations(d, m, t) ==
    LET due == Among(d.missions[m].authorizations,
                     {a \in ToSet(d.missions[m].authorizations) :
                         /\ ExpiredAt(d.authorizations[a], t)
                         /\ ~d.authorizations[a].revoked
                         /\ a \notin RecordedExpired(d)})
    IN  [d EXCEPT !.ledger = @ \o
            [i \in DOMAIN due |->
                Entry("EXPIRED", m, d.authorizations[due[i]].revision, due[i],
                      None, t)]]

-----------------------------------------------------------------------------
(* Decisions.  One decision as it is asked for:                            *)
(*   [id, by, kind, revision, shown, content, scope, expires]              *)
(* shown is the proposal whose digest the caller presents, if it presents  *)
(* one; content is the new proposal of an edit.                            *)

DecisionOpen(mission) ==
    /\ ~Terminal(mission)
    /\ ~HasRun(mission)
    /\ mission.withdrawn = None

MayCarry(by, kind) ==
    CASE by = Authenticated -> kind \in {"APPROVE", "DENY", "EDIT"}
      [] by = Relay -> kind \in AttestedOutcomes \cup {"APPROVE"}
      [] by = LocalCaller -> FALSE

\* What an operator's attestation must satisfy beyond a person's own call.
AttestedExactly(mission, ask, t) ==
    /\ mission.proposer = LocalCaller
    /\ ask.shown = Current(mission)
    /\ ask.kind = "APPROVE" =>
          /\ ask.scope = "requested"
          /\ ask.expires # None
          /\ ask.expires <= t + AttestedValidity

CanApprove(d, ask, t) ==
    /\ ask.expires # None => ask.expires > t
    /\ Len(d.authorizations) < MaxAuthorizations

\* Faulty variant: the state machine is not asked.
CanDecideAnyState(d, m, ask, t) ==
    LET mission == d.missions[m] IN
    /\ MayCarry(ask.by, ask.kind)
    /\ IsReserved(d, ask.id, "decision", ask.by)
    /\ Unconsumed(d, ask.id)
    /\ DecisionOpen(mission)
    /\ ask.revision = Revision(mission)
    /\ ask.by = Relay => AttestedExactly(mission, ask, t)
    /\ ask.kind = "APPROVE" => CanApprove(d, ask, t)
    /\ ask.kind = "EDIT" => Revision(mission) < MaxRevisions
    /\ Len(mission.decisions) < MaxDecisions

CanDecide(d, m, ask, t) ==
    LET mission == d.missions[m] IN
    /\ MayCarry(ask.by, ask.kind)
    /\ IsReserved(d, ask.id, "decision", ask.by)
    /\ Unconsumed(d, ask.id)
    /\ DecisionOpen(mission)
    /\ ask.revision = Revision(mission)
    /\ ask.shown # None => ask.shown = Current(mission)
    /\ ask.by = Relay => AttestedExactly(mission, ask, t)
    /\ ask.kind = "APPROVE" => CanApprove(d, ask, t)
    /\ \/ MovesTo(mission, ResultOf(ask.kind))
       \/ ask.kind = "EDIT" /\ mission.state = "AWAITING_DECISION"
    /\ ask.kind = "EDIT" => Revision(mission) < MaxRevisions
    /\ Len(mission.decisions) < MaxDecisions

Outcome(mission, ask, authorization, invalidated) ==
    [state |-> ResultOf(ask.kind),
     revision |-> Revision(mission) + IF ask.kind = "EDIT" THEN 1 ELSE 0,
     content |-> IF ask.kind = "EDIT" THEN ask.content ELSE Current(mission),
     authorization |-> authorization, invalidated |-> invalidated]

\* Issue the authorization of the current revision, and say so in the ledger.
ApproveIn(d, m, ask, t) ==
    LET a == Len(d.authorizations) + 1
        mission == d.missions[m]
    IN  [document |->
            [d EXCEPT
                !.authorizations = Append(@,
                    [mission |-> m, revision |-> Revision(mission),
                     content |-> Current(mission), scope |-> ask.scope,
                     by |-> ask.by, expires |-> ask.expires, issued |-> t,
                     revoked |-> FALSE]),
                !.missions[m].authorizations = Append(@, a),
                !.missions[m].state = "AUTHORIZED",
                !.ledger = Append(@, Entry("ISSUED", m, Revision(mission), a, ask.id, t))],
         outcome |-> Outcome(mission, ask, a, <<>>)]

DenyIn(d, m, ask, t) ==
    LET mission == d.missions[m] IN
    [document |->
        [d EXCEPT !.missions[m].state = "DENIED",
                  !.ledger = Append(@, Entry("DENIED", m, Revision(mission), None, ask.id, t))],
     outcome |-> Outcome(mission, ask, None, <<>>)]

\* Faulty variant: authority that has expired is not revoked by an edit.
EditInLive(d, m, ask, t) ==
    LET mission == d.missions[m]
        superseded == Revision(mission)
        invalidated == Among(mission.authorizations,
            {a \in ToSet(mission.authorizations) :
                /\ d.authorizations[a].revision = superseded
                /\ ~d.authorizations[a].revoked
                /\ ~ExpiredAt(d.authorizations[a], t)})
    IN  [document |->
            [d EXCEPT
                !.authorizations = [a \in DOMAIN @ |->
                    IF a \in ToSet(invalidated) THEN [@[a] EXCEPT !.revoked = TRUE]
                    ELSE @[a]],
                !.missions[m].revisions = Append(@, [content |-> ask.content, by |-> ask.id]),
                !.missions[m].state = "AWAITING_DECISION",
                !.ledger = @ \o [i \in DOMAIN invalidated |->
                    Entry("INVALIDATED_BY_EDIT", m, superseded, invalidated[i], ask.id, t)]],
         outcome |-> Outcome(mission, ask, None, invalidated)]

\* Append the next revision.  Whatever authority the superseded revision still
\* had is revoked, expired or not.
EditIn(d, m, ask, t) ==
    LET mission == d.missions[m]
        superseded == Revision(mission)
        invalidated == Among(mission.authorizations,
            {a \in ToSet(mission.authorizations) :
                /\ d.authorizations[a].revision = superseded
                /\ ~d.authorizations[a].revoked})
    IN  [document |->
            [d EXCEPT
                !.authorizations = [a \in DOMAIN @ |->
                    IF a \in ToSet(invalidated) THEN [@[a] EXCEPT !.revoked = TRUE]
                    ELSE @[a]],
                !.missions[m].revisions = Append(@, [content |-> ask.content, by |-> ask.id]),
                !.missions[m].state = "AWAITING_DECISION",
                !.ledger = @ \o [i \in DOMAIN invalidated |->
                    Entry("INVALIDATED_BY_EDIT", m, superseded, invalidated[i], ask.id, t)]],
         outcome |-> Outcome(mission, ask, None, invalidated)]

\* A rejection and a change request give or take no authority: no entry.
SetAsideIn(d, m, ask) ==
    [document |-> [d EXCEPT !.missions[m].state = ResultOf(ask.kind)],
     outcome |-> Outcome(d.missions[m], ask, None, <<>>)]

Effect(d, m, ask, t) ==
    CASE ask.kind = "APPROVE" -> ApproveIn(d, m, ask, t)
      [] ask.kind = "DENY" -> DenyIn(d, m, ask, t)
      [] ask.kind = "EDIT" -> EditIn(d, m, ask, t)
      [] ask.kind \in {"REJECT", "REQUEST_CHANGES"} -> SetAsideIn(d, m, ask)

DecideIn(d, m, ask, t) ==
    LET effect == Effect(NoteExpirations(d, m, t), m, ask, t) IN
    [effect.document EXCEPT
        !.missions[m].decisions = Append(@,
            [id |-> ask.id, by |-> ask.by, kind |-> ask.kind,
             revision |-> ask.revision, content |-> ask.content,
             scope |-> ask.scope, expires |-> ask.expires, at |-> t,
             outcome |-> effect.outcome]),
        !.reservations[ask.id].consumed = ask.id]

\* A full ledger refuses the decision that would need one more entry.
CanDecideAndSave(d, m, ask, t) ==
    /\ CanDecide(d, m, ask, t)
    /\ Len(DecideIn(d, m, ask, t).ledger) <= MaxLedger

DecisionsOf(d, m) ==
    {d.missions[m].decisions[i] : i \in DOMAIN d.missions[m].decisions}

Recorded(d, m, id) == \E decision \in DecisionsOf(d, m) : decision.id = id

-----------------------------------------------------------------------------
(* The one check every use of an authorization goes through.               *)

PermitsUse(d, a, m, revision, t) ==
    /\ a \in ToSet(d.missions[m].authorizations)
    /\ ~d.authorizations[a].revoked
    /\ d.authorizations[a].revision = revision
    /\ Revision(d.missions[m]) = revision
    /\ d.authorizations[a].content = Current(d.missions[m])
    /\ d.missions[m].state = "AUTHORIZED"
    /\ ~ExpiredAt(d.authorizations[a], t)

-----------------------------------------------------------------------------
(* Replaying a mission's decisions.  A load trusts the decisions alone: it *)
(* recomputes what they must have left and refuses a document that says    *)
(* otherwise.                                                              *)

ReplayStart ==
    [agrees |-> TRUE, state |-> "AWAITING_DECISION", revision |-> 1,
     issued |-> <<>>, live |-> {}, revoked |-> {}, expired |-> {}, ledger |-> <<>>]

ReplayExpired(d, m, h, decision) ==
    LET due == {a \in h.live \ h.expired : ExpiredAt(d.authorizations[a], decision.at)}
        order == SetToSeq(due)
    IN  [h EXCEPT !.expired = @ \cup due,
                  !.ledger = @ \o [i \in DOMAIN order |->
                      Entry("EXPIRED", m, d.authorizations[order[i]].revision,
                            order[i], None, decision.at)]]

Agrees(d, m, h, decision) ==
    LET a == decision.outcome.authorization IN
    /\ decision.revision = h.revision
    /\ h.state # "REJECTED"
    /\ decision.kind # "EDIT" => h.state = "AWAITING_DECISION"
    /\ IF decision.kind = "APPROVE"
       THEN /\ a \in DOMAIN d.authorizations
            /\ a \notin ToSet(h.issued)
            /\ d.authorizations[a].mission = m
            /\ d.authorizations[a].revision = decision.revision
            /\ d.authorizations[a].content =
                  d.missions[m].revisions[decision.revision].content
            /\ d.authorizations[a].scope = decision.scope
            /\ d.authorizations[a].expires = decision.expires
            /\ d.authorizations[a].by = decision.by
            /\ d.authorizations[a].issued = decision.at
       ELSE a = None

ReplayEffect(d, m, h, decision) ==
    LET a == decision.outcome.authorization
        superseded == {b \in h.live : d.authorizations[b].revision = h.revision}
        order == SetToSeq(superseded)
    IN
    CASE decision.kind = "APPROVE" ->
            [h EXCEPT !.state = "AUTHORIZED", !.issued = Append(@, a),
                      !.live = @ \cup {a},
                      !.ledger = Append(@, Entry("ISSUED", m, h.revision, a, decision.id, decision.at))]
      [] decision.kind = "DENY" ->
            [h EXCEPT !.state = "DENIED",
                      !.ledger = Append(@, Entry("DENIED", m, h.revision, None, decision.id, decision.at))]
      [] decision.kind = "EDIT" ->
            [h EXCEPT !.state = "AWAITING_DECISION", !.revision = @ + 1,
                      !.live = @ \ superseded, !.revoked = @ \cup superseded,
                      !.agrees = @ /\ h.revision + 1 \in DOMAIN d.missions[m].revisions
                                   /\ d.missions[m].revisions[h.revision + 1] =
                                        [content |-> decision.content, by |-> decision.id],
                      !.ledger = @ \o [i \in DOMAIN order |->
                          Entry("INVALIDATED_BY_EDIT", m, h.revision, order[i], decision.id, decision.at)]]
      [] decision.kind \in {"REJECT", "REQUEST_CHANGES"} ->
            [h EXCEPT !.state = ResultOf(decision.kind)]

OutcomeAgrees(d, m, before, after, decision) ==
    /\ decision.outcome.state = after.state
    /\ decision.outcome.revision = after.revision
    /\ ToSet(decision.outcome.invalidated) = after.revoked \ before.revoked
    /\ decision.outcome.content = d.missions[m].revisions[after.revision].content

ReplayDecision(d, m, h, decision) ==
    LET noted == ReplayExpired(d, m, h, decision)
        after == ReplayEffect(d, m, noted, decision)
    IN  IF h.agrees /\ Agrees(d, m, noted, decision) /\ after.agrees
           /\ OutcomeAgrees(d, m, noted, after, decision)
        THEN after ELSE [h EXCEPT !.agrees = FALSE]

History(d, m) ==
    LET decisions == d.missions[m].decisions
        h[n \in 0 .. Len(decisions)] ==
            IF n = 0 THEN ReplayStart ELSE ReplayDecision(d, m, h[n - 1], decisions[n])
    IN  h[Len(decisions)]

\* Every decision and request id made exactly one decision or mission, and is
\* marked as used by it.
IdsAgree(d) ==
    /\ \A i \in DOMAIN d.reservations :
          LET used == d.reservations[i].consumed
              makers == {m \in DOMAIN d.missions : d.missions[m].request = i}
              takers == {at \in (1 .. MaxMissions) \X (1 .. MaxDecisions) :
                            /\ at[1] \in DOMAIN d.missions
                            /\ at[2] \in DOMAIN d.missions[at[1]].decisions
                            /\ d.missions[at[1]].decisions[at[2]].id = i}
          IN  IF d.reservations[i].kind = "request"
              THEN makers = IF used = None THEN {} ELSE {used}
              ELSE /\ Cardinality(takers) = IF used = None THEN 0 ELSE 1
                   /\ used \in {None, i}
    /\ \A m \in DOMAIN d.missions :
          /\ IsReserved(d, d.missions[m].request, "request", d.missions[m].proposer)
          /\ \A decision \in DecisionsOf(d, m) :
                IsReserved(d, decision.id, "decision", decision.by)

RunAgrees(d, m, h) ==
    LET mission == d.missions[m] IN
    /\ HasRun(mission) => h.state = "AUTHORIZED" /\ mission.withdrawn = None
    /\ IntentOf(mission) # None =>
          h.issued # <<>> /\ IntentOf(mission) = Last(h.issued)
                          /\ IntentOf(mission) \notin h.revoked

Reconciles(d, m) ==
    LET mission == d.missions[m]
        h == History(d, m)
    IN
    /\ h.agrees
    /\ RunAgrees(d, m, h)
    /\ mission.state = IF mission.lifecycle = <<>> THEN h.state
                       ELSE Last(mission.lifecycle).to
    /\ Revision(mission) = h.revision
    /\ mission.authorizations = h.issued
    /\ \A i \in DOMAIN h.issued :
          d.authorizations[h.issued[i]].revoked = (h.issued[i] \in h.revoked)
    /\ Among(d.ledger, {e \in ToSet(d.ledger) : e.mission = m}) = h.ledger
    /\ mission.withdrawn # None => Undecided(mission)
=============================================================================
