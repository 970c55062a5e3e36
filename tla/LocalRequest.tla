---------------------------- MODULE LocalRequest ---------------------------
(***************************************************************************)
(* The local request surface: it submits a proposal to Mission Core for a  *)
(* caller nobody authenticated, relays the person's attested answer, and   *)
(* withdraws a proposal nobody decided.                                    *)
(*                                                                         *)
(* It keeps a store of its own beside Mission Core's.  A call holds that   *)
(* store's lock while it writes the two stores one after the other; `call` *)
(* is what the process inside the lock still has to do.  Mission Core may  *)
(* be changed by others meanwhile, and the process may die between any two *)
(* writes: the lock is then free and the rest is never done.               *)
(***************************************************************************)
EXTENDS MissionRun

CONSTANTS
    Ref,                \* request references the surface may issue
    KeyValidity,        \* how long the control capability stays valid
    MaxCrashes          \* bound on deaths inside a call

ASSUME LocalRequestAssumption ==
    KeyValidity \in Nat \ {0} /\ MaxCrashes \in Nat

VARIABLES
    requests,   \* the surface's records, or NoRequest
    call,       \* the call inside the surface's lock
    crashes

surface == <<requests, call, crashes>>

NoRequest == [held |-> FALSE]
Idle == [op |-> "idle"]

\* An attestation: the decision id reserved for it and what it binds.
NoAttestation == [state |-> "none"]

NewRequest(id, content, t) ==
    [held |-> TRUE, request |-> id, content |-> content, mission |-> None,
     state |-> "OPEN", keyExpires |-> t + KeyValidity, keyUsed |-> FALSE,
     approval |-> NoAttestation, outcome |-> NoAttestation, refused |-> FALSE]

Open(r) == requests[r].held /\ requests[r].state = "OPEN"
Bound(r) == Open(r) /\ requests[r].mission # None
MissionOf(r) == doc.missions[requests[r].mission]

LocalInit ==
    /\ requests = [r \in Ref |-> NoRequest]
    /\ call = Idle
    /\ crashes = 0

-----------------------------------------------------------------------------
(* Submitting.                                                             *)

\* A request id is reserved in Mission Core before the surface saves anything.
SubmitMint(r, content) ==
    /\ call = Idle
    /\ ~requests[r].held
    /\ CanReserve(doc, "request", LocalCaller)
    /\ doc' = ReserveIn(doc, "request", LocalCaller)
    /\ call' = [op |-> "submit", ref |-> r, id |-> NextId(doc), content |-> content]
    /\ UNCHANGED <<now, requests, crashes>>

\* The record and its one control capability are saved together; the lock is
\* released and the binding takes it again.
SubmitSave ==
    /\ call.op = "submit"
    /\ requests' = [requests EXCEPT ![call.ref] = NewRequest(call.id, call.content, now)]
    /\ call' = Idle
    /\ UNCHANGED <<doc, now, crashes>>

\* Propose under the reserved id.  A submit that died in between is recovered
\* by the same call, which Mission Core answers with the mission it made.
BindPropose(r) ==
    LET entry == requests[r] IN
    /\ call = Idle
    /\ Open(r)
    /\ entry.mission = None
    /\ \/ /\ CanPropose(doc, entry.request, LocalCaller)
          /\ doc' = ProposeIn(doc, entry.request, LocalCaller, entry.content, entry.keyExpires)
       \/ /\ Proposed(doc, entry.request, entry.content, entry.keyExpires)
          /\ doc' = doc
    /\ call' = [op |-> "bind", ref |-> r,
                mission |-> doc'.reservations[entry.request].consumed]
    /\ UNCHANGED <<now, requests, crashes>>

BindSave ==
    /\ call.op = "bind"
    /\ requests' = [requests EXCEPT ![call.ref].mission = call.mission]
    /\ call' = Idle
    /\ UNCHANGED <<doc, now, crashes>>

-----------------------------------------------------------------------------
(* Attesting the person's answer.                                          *)

Unsettled(attestation) == attestation.state \in {"RESERVED", "HOLD"}
Standing(attestation) == attestation.state \in {"RESERVED", "HOLD", "APPLIED"}

FieldOf(kind) == IF kind = "APPROVE" THEN "approval" ELSE "outcome"

\* The proposal shown is the one that waits for a decision now.
ShownIsPending(r, revision, shown) ==
    /\ MissionOf(r).state = "AWAITING_DECISION"
    /\ MissionOf(r).withdrawn = None
    /\ revision = Revision(MissionOf(r))
    /\ shown = Current(MissionOf(r))

\* One attested answer per request: a standing one is never replaced.
AttestMint(r, kind, revision, shown, expires) ==
    /\ call = Idle
    /\ Bound(r)
    /\ ~Standing(requests[r].approval)
    /\ ~Standing(requests[r].outcome)
    /\ ShownIsPending(r, revision, shown)
    /\ IF kind = "APPROVE"
       THEN expires > now /\ expires <= now + AttestedValidity
       ELSE expires = None
    /\ CanReserve(doc, "decision", Relay)
    /\ doc' = ReserveIn(doc, "decision", Relay)
    /\ call' = [op |-> "reserve", ref |-> r,
                ask |-> [id |-> NextId(doc), by |-> Relay, kind |-> kind,
                         revision |-> revision, shown |-> shown, content |-> None,
                         scope |-> "requested", expires |-> expires]]
    /\ UNCHANGED <<now, requests, crashes>>

AttestReserve ==
    /\ call.op = "reserve"
    /\ requests' = [requests EXCEPT ![call.ref][FieldOf(call.ask.kind)] =
                      [state |-> "RESERVED", ask |-> call.ask]]
    /\ call' = [call EXCEPT !.op = "apply"]
    /\ UNCHANGED <<doc, now, crashes>>

\* The first and only application.  It commits, is refused, or fails in a way
\* that tells nothing of whether it was committed.
AttestApply ==
    LET m == requests[call.ref].mission
        answer(result) == call' = [op |-> "settle", ref |-> call.ref,
                                   ask |-> call.ask, result |-> result]
        commits == /\ CanDecideAndSave(doc, m, call.ask, now)
                   /\ doc' = DecideIn(doc, m, call.ask, now)
    IN
    /\ call.op = "apply"
    /\ \/ commits /\ answer("applied")
       \/ commits /\ answer("unknown")
       \/ doc' = doc /\ answer("unknown")
       \/ ~CanDecideAndSave(doc, m, call.ask, now) /\ doc' = doc /\ answer("refused")
    /\ UNCHANGED <<now, requests, crashes>>

\* Faulty variant: no answer is taken for a refusal.
AttestSettleUnheard ==
    /\ call.op = "settle"
    /\ requests' = [requests EXCEPT ![call.ref][FieldOf(call.ask.kind)].state =
          IF call.result = "applied" THEN "APPLIED" ELSE "REFUSED"]
    /\ call' = Idle
    /\ UNCHANGED <<doc, now, crashes>>

\* A refusal counts only when Mission Core, read again, holds no such decision.
AttestSettle ==
    LET m == requests[call.ref].mission IN
    /\ call.op = "settle"
    /\ \E state \in {"APPLIED", "REFUSED", "HOLD"} :
          /\ CASE call.result = "applied" -> state = "APPLIED"
               [] call.result = "unknown" -> state = "HOLD"
               [] call.result = "refused" ->
                     state \in {"HOLD", IF Recorded(doc, m, call.ask.id)
                                        THEN "APPLIED" ELSE "REFUSED"}
          /\ requests' = [requests EXCEPT
                            ![call.ref][FieldOf(call.ask.kind)].state = state]
    /\ call' = Idle
    /\ UNCHANGED <<doc, now, crashes>>

\* A later call that finds an unsettled attestation only reads: recorded is
\* applied, and anything else stays on hold.  It never applies and never mints.
Reconcile(r, kind) ==
    LET field == FieldOf(kind)
        attestation == requests[r][field]
        settled == IF Recorded(doc, requests[r].mission, attestation.ask.id)
                   THEN "APPLIED" ELSE "HOLD"
    IN
    /\ call = Idle
    /\ Bound(r)
    /\ Unsettled(attestation)
    /\ attestation.ask.kind = kind
    /\ kind # "APPROVE" => ~Standing(requests[r].approval)
    /\ settled # attestation.state
    /\ requests' = [requests EXCEPT ![r][field].state = settled]
    /\ UNCHANGED <<doc, now, call, crashes>>

\* An approval nobody attests is refused, and the attempt is kept.
ApproveRefused(r) ==
    /\ call = Idle
    /\ Open(r)
    /\ requests[r].mission # None => MissionOf(r).withdrawn = None
    /\ requests' = [requests EXCEPT ![r].refused = TRUE]
    /\ UNCHANGED <<doc, now, call, crashes>>

-----------------------------------------------------------------------------
(* Withdrawing.                                                            *)

OwnPending(r) ==
    /\ MissionOf(r).request = requests[r].request
    /\ MissionOf(r).proposer = LocalCaller
    /\ MissionOf(r).revisions[1].content = requests[r].content
    /\ Undecided(MissionOf(r))

\* The surface reads the mission and checks the capability before it asks.  A
\* cancel that died after the withdrawal is completed after the expiry too.
CancelBegin(r) ==
    /\ call = Idle
    /\ Bound(r)
    /\ OwnPending(r)
    /\ ~requests[r].keyUsed
    /\ MissionOf(r).withdrawn # None \/ now < requests[r].keyExpires
    /\ call' = [op |-> "withdraw", ref |-> r]
    /\ UNCHANGED <<doc, now, requests, crashes>>

\* Mission Core records the withdrawal first, or refuses: the mission may have
\* been decided since.  Only then does the surface spend the capability.
CancelWithdraw ==
    LET entry == requests[call.ref] IN
    /\ call.op = "withdraw"
    /\ IF CanWithdraw(doc, entry.mission, entry.request, now)
       THEN /\ doc' = WithdrawIn(doc, entry.mission, now)
            /\ call' = [call EXCEPT !.op = "cancel"]
       ELSE /\ doc' = doc
            /\ call' = Idle
    /\ UNCHANGED <<now, requests, crashes>>

CancelSave ==
    /\ call.op = "cancel"
    /\ requests' = [requests EXCEPT ![call.ref].state = "CANCELLED",
                                    ![call.ref].keyUsed = TRUE]
    /\ call' = Idle
    /\ UNCHANGED <<doc, now, crashes>>

-----------------------------------------------------------------------------

Crash ==
    /\ call # Idle
    /\ crashes < MaxCrashes
    /\ call' = Idle
    /\ crashes' = crashes + 1
    /\ UNCHANGED <<doc, now, requests>>

Attest(r) ==
    \/ \E kind \in AttestedOutcomes :
          AttestMint(r, kind, Revision(MissionOf(r)), Current(MissionOf(r)), None)
    \/ \E expires \in now + 1 .. now + AttestedValidity :
          AttestMint(r, "APPROVE", Revision(MissionOf(r)), Current(MissionOf(r)), expires)

LocalStep ==
    \/ \E r \in Ref :
          \/ \E content \in Content : SubmitMint(r, content)
          \/ BindPropose(r)
          \/ Bound(r) /\ Attest(r)
          \/ \E kind \in {"APPROVE"} \cup AttestedOutcomes : Reconcile(r, kind)
          \/ ApproveRefused(r)
          \/ CancelBegin(r)
    \/ SubmitSave
    \/ BindSave
    \/ AttestReserve
    \/ AttestApply
    \/ AttestSettle
    \/ CancelWithdraw
    \/ CancelSave
    \/ Crash
=============================================================================
