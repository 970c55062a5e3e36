--------------------------- MODULE MissionRecord ---------------------------
(***************************************************************************)
(* What a Mission record holds and which moves its state may make.        *)
(*                                                                         *)
(* A proposal is a member of Content: its exact text matters only as the  *)
(* thing a digest names.  Ids are drawn in order from 1 and never reused,  *)
(* so an authorization, a decision or a Mission is the number it was       *)
(* minted with; None stands for an id or a time that is absent.           *)
(***************************************************************************)
EXTENDS Integers, Sequences, FiniteSets

CONSTANTS
    Content,            \* proposals, one per digest
    MaxMissions,        \* missions the registry holds
    MaxRequestIds,      \* request ids ever reserved
    MaxDecisionIds,     \* decision ids ever reserved
    MaxAuthorizations,  \* authorizations ever issued
    MaxLedger,          \* entries of the authority ledger
    MaxRevisions,       \* revisions of one mission
    MaxDecisions,       \* decisions of one mission
    AttestedValidity    \* how long an attested approval may stay valid

Bounds == {MaxMissions, MaxRequestIds, MaxDecisionIds, MaxAuthorizations,
           MaxLedger, MaxRevisions, MaxDecisions, AttestedValidity}

ASSUME BoundsAssumption == Bounds \subseteq Nat \ {0}

None == 0

(***************************************************************************)
(* Who calls: a connector or process the transport authenticated, a local  *)
(* caller nobody authenticated, or an operator who attests that it relays  *)
(* the person's reply.                                                     *)
(***************************************************************************)
Authenticated == "authenticated"
LocalCaller == "unauthenticated_local_caller"
Relay == "operator_attested_relay"
Contexts == {Authenticated, LocalCaller, Relay}

(***************************************************************************)
(* A proposal asks for a scope.  An approval grants exactly it, or a part  *)
(* of it that leaves out the engineering change a run needs.               *)
(***************************************************************************)
Scopes == {"requested", "narrower"}
PermitsRun(scope) == scope = "requested"

MissionStates ==
    {"AWAITING_DECISION", "AUTHORIZED", "DENIED", "RUNNING", "BLOCKED",
     "COMPLETED", "CANCELLED", "REJECTED", "CHANGES_REQUESTED"}

TerminalStates == {"BLOCKED", "COMPLETED", "CANCELLED", "REJECTED"}

RunTransitions ==
    {<<"AUTHORIZED", "RUNNING">>, <<"AUTHORIZED", "BLOCKED">>,
     <<"AUTHORIZED", "CANCELLED">>, <<"RUNNING", "COMPLETED">>,
     <<"RUNNING", "BLOCKED">>, <<"RUNNING", "CANCELLED">>}

Transitions ==
    RunTransitions
    \cup ({"AWAITING_DECISION"}
          \X {"AUTHORIZED", "DENIED", "REJECTED", "CHANGES_REQUESTED"})
    \cup ({"AUTHORIZED", "DENIED", "CHANGES_REQUESTED"}
          \X {"AWAITING_DECISION"})

MovesTo(mission, target) == <<mission.state, target>> \in Transitions

DecisionKinds == {"APPROVE", "DENY", "EDIT", "REJECT", "REQUEST_CHANGES"}
AttestedOutcomes == {"DENY", "REJECT", "REQUEST_CHANGES"}

ResultOf(kind) ==
    CASE kind = "APPROVE" -> "AUTHORIZED"
      [] kind = "DENY" -> "DENIED"
      [] kind = "EDIT" -> "AWAITING_DECISION"
      [] kind = "REJECT" -> "REJECTED"
      [] kind = "REQUEST_CHANGES" -> "CHANGES_REQUESTED"

(***************************************************************************)
(* The run block: each field is one durable fact, absent until recorded.   *)
(***************************************************************************)
NoRun == [held |-> FALSE]
NewRun ==
    [held |-> TRUE, intent |-> None, receipt |-> "none", task |-> None,
     pauses |-> 0, paused |-> FALSE, cancel |-> "none", quiescence |-> "none",
     verification |-> "none", pending |-> 0, workspace |-> "none", path |-> None,
     refused |-> FALSE, unobserved |-> 0, late |-> None]

HasRun(mission) == mission.run.held
IntentOf(mission) == IF HasRun(mission) THEN mission.run.intent ELSE None
Paused(mission) == HasRun(mission) /\ mission.run.paused
RunOf(mission) == IF HasRun(mission) THEN mission.run ELSE NewRun

Terminal(mission) == mission.state \in TerminalStates

(***************************************************************************)
(* Revision 1 of a new mission: it waits for a decision and holds no       *)
(* authority.                                                              *)
(***************************************************************************)
NewMission(request, proposer, content, keyExpires) ==
    [request |-> request, proposer |-> proposer, keyExpires |-> keyExpires,
     state |-> "AWAITING_DECISION",
     revisions |-> <<[content |-> content, by |-> None]>>,
     decisions |-> <<>>, authorizations |-> <<>>, withdrawn |-> None,
     run |-> NoRun, lifecycle |-> <<>>]

Revision(mission) == Len(mission.revisions)
Current(mission) == mission.revisions[Revision(mission)].content

(***************************************************************************)
(* An authorization with no expiry never expires.                          *)
(***************************************************************************)
ExpiredAt(authorization, t) ==
    authorization.expires # None /\ t >= authorization.expires
=============================================================================
