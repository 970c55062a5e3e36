----------------------- MODULE MissionRequest_proofs -----------------------
(***************************************************************************)
(* What holds of one registry of any number of missions while the local    *)
(* surface, an authenticated caller and the panel use it at once: nothing  *)
(* decided is ever taken back, the authority that stands is of the current *)
(* proposal, what the surface tells of a request is what the registry      *)
(* holds, and a load accepts whatever was saved.                           *)
(*                                                                         *)
(* RegistryGood and StoreGood (MissionRun_proofs) are the invariants of    *)
(* the document alone, and every operation keeps them and only adds to the *)
(* record (Grows).  RecordsGood says how each of the surface's records     *)
(* relates to the document, and CallGood what the call inside its lock     *)
(* knows of it; both survive any step of others that makes no relayed      *)
(* decision (RecordsFollow, CallFollows), and the surface's own steps are  *)
(* taken one by one.                                                       *)
(***************************************************************************)
EXTENDS MissionRequest, MissionRun_proofs

-----------------------------------------------------------------------------
(* The surface                                                             *)

AttestedAsks ==
    [id : Nat, by : {Relay}, kind : {"APPROVE"} \cup AttestedOutcomes, revision : Nat,
     shown : Content, content : {None}, scope : {"requested"}, expires : Nat]

Attestations ==
    {NoAttestation}
    \cup [state : {"RESERVED", "HOLD", "APPLIED", "REFUSED"}, ask : AttestedAsks]

Records ==
    [held : {TRUE}, request : Nat, content : Content, mission : Nat,
     state : {"OPEN", "CANCELLED"}, keyExpires : Nat, keyUsed : BOOLEAN,
     approval : Attestations, outcome : Attestations, refused : BOOLEAN]

Calls ==
    {Idle}
    \cup [op : {"submit"}, ref : Ref, id : Nat, content : Content]
    \cup [op : {"bind"}, ref : Ref, mission : Nat]
    \cup [op : {"reserve", "apply"}, ref : Ref, ask : AttestedAsks]
    \cup [op : {"settle"}, ref : Ref, ask : AttestedAsks,
          result : {"applied", "unknown", "refused"}]
    \cup [op : {"withdraw", "cancel"}, ref : Ref]

SurfaceTyped(rq, c) == rq \in [Ref -> {NoRequest} \cup Records] /\ c \in Calls

HeldRefs(rq) == {r \in Ref : rq[r].held}
Fields == {"approval", "outcome"}

\* The approval recorded under this ask issued what the ask shows.
Grants(d, m, ask) ==
    \E a \in DOMAIN d.authorizations :
        /\ d.authorizations[a].mission = m
        /\ d.authorizations[a].by = Relay
        /\ d.authorizations[a].content = ask.shown
        /\ d.authorizations[a].revision = ask.revision
        /\ d.authorizations[a].expires = ask.expires

\* What stands in a field of a record, of the mission it is bound to.
AttestationGood(d, entry, field) ==
    LET attestation == entry[field]
        ask == attestation.ask
    IN
    attestation # NoAttestation =>
        /\ entry.mission # None
        /\ FieldOf(ask.kind) = field
        /\ IdOf(d, ask.id, "decision", Relay)
        /\ attestation.state = "APPLIED" => Recorded(d, entry.mission, ask.id)
        /\ attestation.state = "REFUSED" => ~Recorded(d, entry.mission, ask.id)
        /\ field = "approval" /\ Recorded(d, entry.mission, ask.id) =>
              Grants(d, entry.mission, ask)

\* A record is bound to the mission its own request id made.
BindingGood(d, entry) ==
    /\ IdOf(d, entry.request, "request", LocalCaller)
    /\ entry.mission # None =>
          /\ entry.mission \in DOMAIN d.missions
          /\ d.missions[entry.mission].request = entry.request
    /\ entry.state = "CANCELLED" =>
          entry.mission # None /\ d.missions[entry.mission].withdrawn # None
    /\ ~(Standing(entry.approval) /\ Standing(entry.outcome))

RecordGood(d, entry) ==
    BindingGood(d, entry) /\ \A field \in Fields : AttestationGood(d, entry, field)

\* Every relayed decision of the registry is the standing answer of a record.
RelayOwned(d, rq) ==
    \A m \in DOMAIN d.missions : \A n \in DOMAIN d.missions[m].decisions :
        d.missions[m].decisions[n].by = Relay =>
            \E r \in HeldRefs(rq), field \in Fields :
                /\ rq[r].mission = m
                /\ Standing(rq[r][field])
                /\ rq[r][field].ask.id = d.missions[m].decisions[n].id

\* No two records share a request id, and no two answers a decision id.
IdsApart(rq) ==
    /\ \A r, q \in HeldRefs(rq) : rq[r].request = rq[q].request => r = q
    /\ \A r, q \in HeldRefs(rq) : \A f, g \in Fields :
          /\ rq[r][f] # NoAttestation /\ rq[q][g] # NoAttestation
          /\ rq[r][f].ask.id = rq[q][g].ask.id
          => r = q /\ f = g

\* What the call inside the lock knows, however others change the registry.
CallGood(d, rq, c) ==
    LET entry == rq[c.ref] IN
    /\ c.op = "submit" =>
          /\ ~entry.held
          /\ IdOf(d, c.id, "request", LocalCaller)
          /\ \A r \in HeldRefs(rq) : rq[r].request # c.id
    /\ c.op = "bind" =>
          /\ entry.held /\ entry.mission = None /\ c.mission # None
          /\ c.mission \in DOMAIN d.missions
          /\ d.missions[c.mission].request = entry.request
    /\ c.op = "reserve" =>
          /\ entry.held /\ entry.mission # None
          /\ ~Standing(entry.approval) /\ ~Standing(entry.outcome)
          /\ IdOf(d, c.ask.id, "decision", Relay)
          /\ ~Recorded(d, entry.mission, c.ask.id)
          /\ \A r \in HeldRefs(rq), f \in Fields :
                rq[r][f] # NoAttestation => rq[r][f].ask.id # c.ask.id
    /\ c.op \in {"apply", "settle"} =>
          /\ entry.held
          /\ entry[FieldOf(c.ask.kind)] = [state |-> "RESERVED", ask |-> c.ask]
    /\ c.op = "settle" /\ c.result = "applied" =>
          Recorded(d, entry.mission, c.ask.id)
    /\ c.op \in {"withdraw", "cancel"} => entry.held /\ entry.mission # None
    /\ c.op = "cancel" => d.missions[entry.mission].withdrawn # None

RecordsGood(d, rq) ==
    /\ \A r \in HeldRefs(rq) : RecordGood(d, rq[r])
    /\ IdsApart(rq)
    /\ RelayOwned(d, rq)

IInv ==
    /\ RegistryGood(doc)
    /\ SurfaceTyped(requests, call)
    /\ now \in Nat \ {None}
    /\ RecordsGood(doc, requests)
    /\ CallGood(doc, requests, call)

-----------------------------------------------------------------------------
(* The surface while others change the document                            *)

LEMMA RecordedAt ==
    ASSUME NEW d, NEW m, NEW id
    PROVE  Recorded(d, m, id) <=>
              \E n \in DOMAIN d.missions[m].decisions : d.missions[m].decisions[n].id = id
  BY DEF Recorded, DecisionsOf

\* From d to e no relayed decision was made.
NoneRelayed(d, e) ==
    \A m \in DOMAIN e.missions : \A n \in DOMAIN e.missions[m].decisions :
        e.missions[m].decisions[n].by = Relay =>
            m \in DOMAIN d.missions /\ n \in DOMAIN d.missions[m].decisions

Follows(d, e) ==
    RegistryGood(d) /\ RegistryGood(e) /\ Grows(d, e) /\ NoneRelayed(d, e)

\* A registry that grew still holds every decision, in its place.
LEMMA DecisionsGrow ==
    ASSUME NEW d, NEW e, RegistryGood(d), RegistryGood(e), Grows(d, e),
           NEW m \in DOMAIN d.missions
    PROVE  /\ m \in DOMAIN e.missions
           /\ \A n \in DOMAIN d.missions[m].decisions :
                 /\ n \in DOMAIN e.missions[m].decisions
                 /\ e.missions[m].decisions[n] = d.missions[m].decisions[n]
  <1> DEFINE x == d.missions[m].decisions
             y == e.missions[m].decisions
  <1>1. m \in DOMAIN e.missions /\ Extends(x, y)
    BY DEF Grows, MissionGrows
  <1>2. d.missions[m] \in MissionRecords /\ e.missions[m] \in MissionRecords
    BY <1>1, DocumentParts DEF RegistryGood
  <1>3. x \in Seq(Decisions) /\ y \in Seq(Decisions)
    BY <1>2 DEF MissionRecords
  <1> HIDE DEF x, y
  <1>4. \A n \in DOMAIN x : n \in DOMAIN y /\ y[n] = x[n]
    <2>1. /\ DOMAIN x = 1 .. Len(x) /\ DOMAIN y = 1 .. Len(y)
          /\ Len(x) \in Nat /\ Len(y) \in Nat
      BY <1>3
    <2> QED BY <1>1, <2>1 DEF Extends
  <1> QED BY <1>1, <1>4 DEF x, y

LEMMA IdFollows ==
    ASSUME NEW d, NEW e, Grows(d, e), NEW id, NEW kind, NEW context,
           IdOf(d, id, kind, context)
    PROVE  IdOf(e, id, kind, context)
  BY DEF Grows, IdOf, IsReserved

LEMMA RecordedGrows ==
    ASSUME NEW d, NEW e, RegistryGood(d), RegistryGood(e), Grows(d, e),
           NEW m \in DOMAIN d.missions, NEW id, Recorded(d, m, id)
    PROVE  Recorded(e, m, id)
  <1>1. PICK n \in DOMAIN d.missions[m].decisions : d.missions[m].decisions[n].id = id
    BY RecordedAt
  <1>2. n \in DOMAIN e.missions[m].decisions /\ e.missions[m].decisions[n].id = id
    BY <1>1, DecisionsGrow
  <1> QED BY <1>2, RecordedAt

LEMMA RecordedFollows ==
    ASSUME NEW d, NEW e, Follows(d, e), NEW m \in DOMAIN d.missions, NEW id,
           IdOf(d, id, "decision", Relay)
    PROVE  Recorded(e, m, id) <=> Recorded(d, m, id)
  <1>1. RegistryGood(d) /\ RegistryGood(e) /\ Grows(d, e) /\ NoneRelayed(d, e)
    BY DEF Follows
  <1>2. /\ m \in DOMAIN e.missions
        /\ \A n \in DOMAIN d.missions[m].decisions :
              /\ n \in DOMAIN e.missions[m].decisions
              /\ e.missions[m].decisions[n] = d.missions[m].decisions[n]
    BY <1>1, DecisionsGrow
  <1>3. e.reservations[id].context = Relay
    BY <1>1, IdFollows DEF IdOf, IsReserved
  <1>4. ASSUME NEW n \in DOMAIN e.missions[m].decisions, e.missions[m].decisions[n].id = id
        PROVE  n \in DOMAIN d.missions[m].decisions
    <2>1. DecisionsGood(e.missions[m], e.reservations)
      BY <1>1, <1>2 DEF RegistryGood, MissionGood
    <2>2. e.missions[m].decisions[n].by = Relay
      BY <1>3, <1>4, <2>1 DEF DecisionsGood
    <2> QED BY <1>1, <1>2, <2>2 DEF NoneRelayed
  <1> QED BY <1>2, <1>4, RecordedAt

LEMMA GrantsFollow ==
    ASSUME NEW d, NEW e, RegistryGood(d), RegistryGood(e), Grows(d, e), NEW m, NEW ask,
           Grants(d, m, ask)
    PROVE  Grants(e, m, ask)
  <1>1. PICK a \in DOMAIN d.authorizations :
            /\ d.authorizations[a].mission = m /\ d.authorizations[a].by = Relay
            /\ d.authorizations[a].content = ask.shown
            /\ d.authorizations[a].revision = ask.revision
            /\ d.authorizations[a].expires = ask.expires
    BY DEF Grants
  <1> DEFINE x == d.authorizations[a]
             y == e.authorizations[a]
  <1>2. /\ a \in DOMAIN e.authorizations
        /\ [y EXCEPT !.revoked = TRUE] = [x EXCEPT !.revoked = TRUE]
    BY DEF Grows
  <1>3. x \in Issued /\ y \in Issued
    BY <1>2, DocumentParts DEF RegistryGood
  <1>4. /\ y.mission = x.mission /\ y.by = x.by /\ y.content = x.content
        /\ y.revision = x.revision /\ y.expires = x.expires
    <2> HIDE DEF x, y
    <2> QED BY <1>2, <1>3 DEF Issued
  <1> QED BY <1>1, <1>2, <1>4 DEF Grants

LEMMA BindingFollows ==
    ASSUME NEW d, NEW e, Grows(d, e), NEW entry, BindingGood(d, entry)
    PROVE  BindingGood(e, entry)
  <1>1. IdOf(e, entry.request, "request", LocalCaller)
    BY IdFollows DEF BindingGood
  <1>2. ASSUME NEW m \in DOMAIN d.missions
        PROVE  /\ m \in DOMAIN e.missions /\ e.missions[m].request = d.missions[m].request
               /\ d.missions[m].withdrawn # None => e.missions[m].withdrawn # None
    BY DEF Grows, MissionGrows
  <1> QED BY <1>1, <1>2 DEF BindingGood

LEMMA AttestationFollows ==
    ASSUME NEW d, NEW e, Follows(d, e), NEW entry, NEW field \in Fields,
           BindingGood(d, entry), AttestationGood(d, entry, field)
    PROVE  AttestationGood(e, entry, field)
  <1> DEFINE attestation == entry[field]
             ask == attestation.ask
             m == entry.mission
  <1> SUFFICES ASSUME attestation # NoAttestation
               PROVE  /\ m # None
                      /\ FieldOf(ask.kind) = field
                      /\ IdOf(e, ask.id, "decision", Relay)
                      /\ attestation.state = "APPLIED" => Recorded(e, m, ask.id)
                      /\ attestation.state = "REFUSED" => ~Recorded(e, m, ask.id)
                      /\ field = "approval" /\ Recorded(e, m, ask.id) => Grants(e, m, ask)
    BY DEF AttestationGood
  <1>1. RegistryGood(d) /\ RegistryGood(e) /\ Grows(d, e)
    BY DEF Follows
  <1>2. /\ m # None /\ FieldOf(ask.kind) = field /\ IdOf(d, ask.id, "decision", Relay)
        /\ attestation.state = "APPLIED" => Recorded(d, m, ask.id)
        /\ attestation.state = "REFUSED" => ~Recorded(d, m, ask.id)
        /\ field = "approval" /\ Recorded(d, m, ask.id) => Grants(d, m, ask)
    BY DEF AttestationGood
  <1>3. m \in DOMAIN d.missions
    BY <1>2 DEF BindingGood
  <1>4. IdOf(e, ask.id, "decision", Relay)
    BY <1>1, <1>2, IdFollows
  <1>5. Recorded(e, m, ask.id) <=> Recorded(d, m, ask.id)
    BY <1>2, <1>3, RecordedFollows
  <1>6. Grants(d, m, ask) => Grants(e, m, ask)
    BY <1>1, GrantsFollow
  <1> QED BY <1>2, <1>4, <1>5, <1>6

\* The surface's records stay true of a registry in which others decide.
LEMMA RecordsFollow ==
    ASSUME NEW d, NEW e, Follows(d, e), NEW rq, RecordsGood(d, rq)
    PROVE  RecordsGood(e, rq)
  <1>1. RegistryGood(d) /\ RegistryGood(e) /\ Grows(d, e) /\ NoneRelayed(d, e)
    BY DEF Follows
  <1>2. /\ \A r \in HeldRefs(rq) : RecordGood(d, rq[r])
        /\ IdsApart(rq) /\ RelayOwned(d, rq)
    BY DEF RecordsGood
  <1>3. ASSUME NEW r \in HeldRefs(rq) PROVE RecordGood(e, rq[r])
    <2>1. BindingGood(d, rq[r]) /\ \A field \in Fields : AttestationGood(d, rq[r], field)
      BY <1>2 DEF RecordGood
    <2> QED BY <1>1, <2>1, BindingFollows, AttestationFollows DEF RecordGood
  <1>4. RelayOwned(e, rq)
    <2>1. ASSUME NEW m \in DOMAIN e.missions, NEW n \in DOMAIN e.missions[m].decisions,
                 e.missions[m].decisions[n].by = Relay
          PROVE  \E r \in HeldRefs(rq), field \in Fields :
                    /\ rq[r].mission = m
                    /\ Standing(rq[r][field])
                    /\ rq[r][field].ask.id = e.missions[m].decisions[n].id
      <3>1. m \in DOMAIN d.missions /\ n \in DOMAIN d.missions[m].decisions
        BY <1>1, <2>1 DEF NoneRelayed
      <3>2. e.missions[m].decisions[n] = d.missions[m].decisions[n]
        BY <1>1, <3>1, DecisionsGrow
      <3> QED BY <1>2, <2>1, <3>1, <3>2 DEF RelayOwned
    <2> QED BY <2>1 DEF RelayOwned
  <1> QED BY <1>2, <1>3, <1>4 DEF RecordsGood

LEMMA CallFollows ==
    ASSUME NEW d, NEW e, Follows(d, e), NEW rq, NEW c, RecordsGood(d, rq),
           SurfaceTyped(rq, c), CallGood(d, rq, c)
    PROVE  CallGood(e, rq, c)
  <1> DEFINE entry == rq[c.ref]
             m == entry.mission
  <1>1. RegistryGood(d) /\ RegistryGood(e) /\ Grows(d, e)
    BY DEF Follows
  <1>2. ASSUME NEW k \in DOMAIN d.missions
        PROVE  /\ k \in DOMAIN e.missions /\ e.missions[k].request = d.missions[k].request
               /\ d.missions[k].withdrawn # None => e.missions[k].withdrawn # None
    BY <1>1 DEF Grows, MissionGrows
  <1>3. ASSUME c.op \in {"reserve", "apply", "settle", "withdraw", "cancel"}
        PROVE  m \in DOMAIN d.missions
    <2>1. c.ref \in Ref
      BY <1>3 DEF SurfaceTyped, Calls, Idle
    <2>2. entry.held /\ m # None
      <3>1. CASE c.op \in {"reserve", "withdraw", "cancel"}
        BY <3>1 DEF CallGood
      <3>2. CASE c.op \in {"apply", "settle"}
        <4>1. entry.held /\ entry[FieldOf(c.ask.kind)] = [state |-> "RESERVED", ask |-> c.ask]
          BY <3>2 DEF CallGood
        <4>2. c.ref \in HeldRefs(rq) /\ FieldOf(c.ask.kind) \in Fields
          BY <2>1, <4>1 DEF HeldRefs, FieldOf, Fields
        <4>3. entry[FieldOf(c.ask.kind)] # NoAttestation
          <5>1. entry[FieldOf(c.ask.kind)].state = "RESERVED"
            BY <4>1
          <5> QED BY <5>1 DEF NoAttestation
        <4>4. AttestationGood(d, entry, FieldOf(c.ask.kind))
          BY <4>2 DEF RecordsGood, RecordGood
        <4> QED BY <4>1, <4>3, <4>4 DEF AttestationGood
      <3> QED BY <1>3, <3>1, <3>2
    <2>3. BindingGood(d, entry)
      BY <2>1, <2>2 DEF RecordsGood, RecordGood, HeldRefs
    <2> QED BY <2>2, <2>3 DEF BindingGood
  <1>4. c.op = "submit" =>
          /\ ~entry.held /\ IdOf(e, c.id, "request", LocalCaller)
          /\ \A r \in HeldRefs(rq) : rq[r].request # c.id
    <2>1. IdOf(d, c.id, "request", LocalCaller) => IdOf(e, c.id, "request", LocalCaller)
      BY <1>1, IdFollows
    <2> QED BY <2>1 DEF CallGood
  <1>5. c.op = "bind" =>
          /\ entry.held /\ m = None /\ c.mission # None
          /\ c.mission \in DOMAIN e.missions
          /\ e.missions[c.mission].request = entry.request
    BY <1>2 DEF CallGood
  <1>6. ASSUME c.op = "reserve"
        PROVE  /\ entry.held /\ m # None
               /\ ~Standing(entry.approval) /\ ~Standing(entry.outcome)
               /\ IdOf(e, c.ask.id, "decision", Relay)
               /\ ~Recorded(e, m, c.ask.id)
               /\ \A r \in HeldRefs(rq), f \in Fields :
                     rq[r][f] # NoAttestation => rq[r][f].ask.id # c.ask.id
    <2>1. /\ entry.held /\ m # None
          /\ ~Standing(entry.approval) /\ ~Standing(entry.outcome)
          /\ IdOf(d, c.ask.id, "decision", Relay)
          /\ ~Recorded(d, m, c.ask.id)
          /\ \A r \in HeldRefs(rq), f \in Fields :
                rq[r][f] # NoAttestation => rq[r][f].ask.id # c.ask.id
      BY <1>6 DEF CallGood
    <2>2. IdOf(e, c.ask.id, "decision", Relay) /\ ~Recorded(e, m, c.ask.id)
      BY <1>1, <1>3, <1>6, <2>1, IdFollows, RecordedFollows
    <2> QED BY <2>1, <2>2
  <1>7. c.op = "settle" /\ c.result = "applied" => Recorded(e, m, c.ask.id)
    BY <1>1, <1>3, RecordedGrows DEF CallGood
  <1>8. c.op = "cancel" => e.missions[m].withdrawn # None
    BY <1>2, <1>3 DEF CallGood
  <1>9. /\ c.op \in {"apply", "settle"} =>
              /\ entry.held
              /\ entry[FieldOf(c.ask.kind)] = [state |-> "RESERVED", ask |-> c.ask]
        /\ c.op \in {"withdraw", "cancel"} => entry.held /\ m # None
    BY DEF CallGood
  <1> QED BY <1>4, <1>5, <1>6, <1>7, <1>8, <1>9 DEF CallGood
-----------------------------------------------------------------------------
(* The surface's own writes                                                *)

LEMMA HeldRecord ==
    ASSUME NEW rq, NEW c, SurfaceTyped(rq, c), NEW r \in Ref
    PROVE  /\ r \in HeldRefs(rq) <=> rq[r].held
           /\ r \in HeldRefs(rq) => rq[r] \in Records
           /\ r \notin HeldRefs(rq) => rq[r] = NoRequest
  <1>1. rq[r] \in {NoRequest} \cup Records
    BY DEF SurfaceTyped
  <1>2. NoRequest.held = FALSE /\ \A y \in Records : y.held = TRUE
    BY DEF NoRequest, Records
  <1> QED BY <1>1, <1>2 DEF HeldRefs

LEMMA FieldTyped ==
    ASSUME NEW entry \in Records, NEW f \in Fields
    PROVE  /\ entry[f] \in Attestations
           /\ entry[f] # NoAttestation =>
                 /\ entry[f].ask \in AttestedAsks
                 /\ entry[f].state \in {"RESERVED", "HOLD", "APPLIED", "REFUSED"}
           /\ Standing(entry[f]) => entry[f] # NoAttestation
  <1>1. entry.approval \in Attestations /\ entry.outcome \in Attestations
    BY DEF Records
  <1>2. entry[f] \in Attestations
    BY <1>1 DEF Fields
  <1> DEFINE y == entry[f]
  <1> HIDE DEF y
  <1>3. y \in Attestations => /\ y # NoAttestation => /\ y.ask \in AttestedAsks
                                                     /\ y.state \in {"RESERVED", "HOLD", "APPLIED", "REFUSED"}
                              /\ Standing(y) => y # NoAttestation
    BY DEF Attestations, Standing, NoAttestation
  <1> QED BY <1>2, <1>3 DEF y

\* One field of one record changes: its answer keeps its id, or takes a new one.
Writes(d, rq, r, f, y) ==
    /\ r \in HeldRefs(rq) /\ y \in Records /\ f \in Fields
    /\ y.request = rq[r].request
    /\ rq[r].mission = None \/ y.mission = rq[r].mission
    /\ \A g \in Fields : g # f => y[g] = rq[r][g]
    /\ RecordGood(d, y)
    /\ Standing(rq[r][f]) /\ Recorded(d, rq[r].mission, rq[r][f].ask.id) =>
          Standing(y[f]) /\ y[f].ask.id = rq[r][f].ask.id
    /\ \/ y[f] = NoAttestation
       \/ rq[r][f] # NoAttestation /\ y[f].ask.id = rq[r][f].ask.id
       \/ \A q \in HeldRefs(rq), g \in Fields :
             rq[q][g] # NoAttestation => rq[q][g].ask.id # y[f].ask.id

LEMMA EntryReplaced ==
    ASSUME NEW d, NEW rq, NEW c, SurfaceTyped(rq, c), RecordsGood(d, rq),
           RegistryGood(d), NEW r, NEW f, NEW y, Writes(d, rq, r, f, y),
           NEW rr, rr = [rq EXCEPT ![r] = y]
    PROVE  /\ rr \in [Ref -> {NoRequest} \cup Records]
           /\ HeldRefs(rr) = HeldRefs(rq)
           /\ RecordsGood(d, rr)
  <1> USE DEF Writes
  <1>1. rq \in [Ref -> {NoRequest} \cup Records] /\ r \in Ref /\ rq[r].held
    BY DEF SurfaceTyped, HeldRefs
  <1>2. /\ rr \in [Ref -> {NoRequest} \cup Records] /\ rr[r] = y
        /\ \A q \in Ref : q # r => rr[q] = rq[q]
    BY <1>1
  <1>3. y.held = TRUE
    BY DEF Records
  <1>4. HeldRefs(rr) = HeldRefs(rq)
    BY <1>1, <1>2, <1>3 DEF HeldRefs
  <1>5. /\ \A q \in HeldRefs(rq) : RecordGood(d, rq[q])
        /\ IdsApart(rq) /\ RelayOwned(d, rq)
    BY DEF RecordsGood
  <1>6. \A q \in HeldRefs(rr) : RecordGood(d, rr[q])
    BY <1>2, <1>4, <1>5 DEF HeldRefs
  <1>7. IdsApart(rr)
    <2>1. \A p, q \in HeldRefs(rr) : rr[p].request = rr[q].request => p = q
      <3>1. \A p \in HeldRefs(rr) : rr[p].request = rq[p].request
        BY <1>2, <1>4 DEF HeldRefs
      <3> QED BY <1>4, <1>5, <3>1 DEF IdsApart
    <2>2. ASSUME NEW p \in HeldRefs(rr), NEW q \in HeldRefs(rr), NEW g \in Fields, NEW h \in Fields,
                 rr[p][g] # NoAttestation, rr[q][h] # NoAttestation,
                 rr[p][g].ask.id = rr[q][h].ask.id
          PROVE  p = q /\ g = h
      <3>1. /\ p \in HeldRefs(rq) /\ q \in HeldRefs(rq) /\ p \in Ref /\ q \in Ref
        BY <1>4 DEF HeldRefs
      <3>2. \A s \in HeldRefs(rq), k \in Fields :
               ~(s = r /\ k = f) => rr[s][k] = rq[s][k]
        BY <1>2 DEF HeldRefs
      <3>3. \A s \in HeldRefs(rq), k \in Fields, s2 \in HeldRefs(rq), k2 \in Fields :
               /\ rq[s][k] # NoAttestation /\ rq[s2][k2] # NoAttestation
               /\ rq[s][k].ask.id = rq[s2][k2].ask.id
               => s = s2 /\ k = k2
        BY <1>5 DEF IdsApart
      <3>4. rr[r] = y
        BY <1>2
      <3>5. CASE ~(p = r /\ g = f) /\ ~(q = r /\ h = f)
        BY <2>2, <3>1, <3>2, <3>3, <3>5
      <3>6. CASE (p = r /\ g = f) /\ ~(q = r /\ h = f)
        <4>1. y[f] # NoAttestation /\ rr[q][h] = rq[q][h] /\ y[f].ask.id = rq[q][h].ask.id
          BY <2>2, <3>1, <3>2, <3>4, <3>6
        <4>2. rq[r][f] # NoAttestation /\ y[f].ask.id = rq[r][f].ask.id
          BY <2>2, <3>1, <4>1
        <4> QED BY <2>2, <3>1, <3>3, <3>6, <4>1, <4>2
      <3>7. CASE ~(p = r /\ g = f) /\ (q = r /\ h = f)
        <4>1. y[f] # NoAttestation /\ rr[p][g] = rq[p][g] /\ y[f].ask.id = rq[p][g].ask.id
          BY <2>2, <3>1, <3>2, <3>4, <3>7
        <4>2. rq[r][f] # NoAttestation /\ y[f].ask.id = rq[r][f].ask.id
          BY <2>2, <3>1, <4>1
        <4> QED BY <2>2, <3>1, <3>3, <3>7, <4>1, <4>2
      <3> QED BY <3>5, <3>6, <3>7
    <2>3. \A p, q \in HeldRefs(rr) : \A g, h \in Fields :
             /\ rr[p][g] # NoAttestation /\ rr[q][h] # NoAttestation
             /\ rr[p][g].ask.id = rr[q][h].ask.id
             => p = q /\ g = h
      <3> TAKE p, q \in HeldRefs(rr)
      <3> TAKE g, h \in Fields
      <3> HAVE /\ rr[p][g] # NoAttestation /\ rr[q][h] # NoAttestation
               /\ rr[p][g].ask.id = rr[q][h].ask.id
      <3> QED BY <2>2, Zenon
    <2> QED BY <2>1, <2>3, Zenon DEF IdsApart
  <1>8. RelayOwned(d, rr)
    <2>1. ASSUME NEW m \in DOMAIN d.missions, NEW n \in DOMAIN d.missions[m].decisions,
                 d.missions[m].decisions[n].by = Relay
          PROVE  \E q \in HeldRefs(rr), g \in Fields :
                    /\ rr[q].mission = m
                    /\ Standing(rr[q][g])
                    /\ rr[q][g].ask.id = d.missions[m].decisions[n].id
      <3>1. PICK q \in HeldRefs(rq), g \in Fields :
               /\ rq[q].mission = m /\ Standing(rq[q][g])
               /\ rq[q][g].ask.id = d.missions[m].decisions[n].id
        BY <1>5, <2>1 DEF RelayOwned
      <3>2. CASE q # r
        <4>1. rr[q] = rq[q]
          BY <1>2, <3>2 DEF HeldRefs
        <4> QED BY <1>4, <3>1, <4>1
      <3>3. CASE q = r
        <4>1. m # None
          BY DocumentParts DEF RegistryGood
        <4>2. rr[q] = y /\ y.mission = m
          BY <1>2, <3>1, <3>3, <4>1
        <4>3. Recorded(d, m, rq[q][g].ask.id)
          BY <3>1, RecordedAt
        <4>4. CASE g = f
          BY <1>4, <3>1, <3>3, <4>2, <4>3, <4>4
        <4>5. CASE g # f
          BY <1>4, <3>1, <3>3, <4>2, <4>5
        <4> QED BY <4>4, <4>5
      <3> QED BY <3>2, <3>3
    <2> QED BY <2>1 DEF RelayOwned
  <1> QED BY <1>2, <1>4, <1>6, <1>7, <1>8 DEF RecordsGood

LEMMA IdleGood ==
    ASSUME NEW d, NEW rq PROVE CallGood(d, rq, Idle) /\ Idle \in Calls
  <1>1. Idle.op = "idle"
    BY DEF Idle
  <1> QED BY <1>1 DEF CallGood, Calls

LEMMA SubmitSaves ==
    ASSUME NEW d, NEW rq, NEW c, SurfaceTyped(rq, c), RecordsGood(d, rq),
           CallGood(d, rq, c), c.op = "submit", NEW t \in Nat, NEW rr,
           rr = [rq EXCEPT ![c.ref] = NewRequest(c.id, c.content, t)]
    PROVE  rr \in [Ref -> {NoRequest} \cup Records] /\ RecordsGood(d, rr)
  <1> DEFINE r == c.ref
             y == NewRequest(c.id, c.content, t)
  <1>1. r \in Ref /\ c.id \in Nat /\ c.content \in Content
    BY DEF SurfaceTyped, Calls, Idle
  <1>2. /\ y.held = TRUE /\ y.request = c.id /\ y.mission = None /\ y.state = "OPEN"
        /\ y.approval = NoAttestation /\ y.outcome = NoAttestation
    BY DEF NewRequest
  <1>3. y \in Records
    <2>1. t + KeyValidity \in Nat
      BY LocalRequestAssumption
    <2> QED BY <1>1, <2>1 DEF NewRequest, Records, Attestations, None
  <1> HIDE DEF y
  <1>4. /\ IdOf(d, c.id, "request", LocalCaller)
        /\ \A q \in HeldRefs(rq) : rq[q].request # c.id
        /\ ~rq[r].held
    BY DEF CallGood
  <1>5. /\ rr \in [Ref -> {NoRequest} \cup Records] /\ rr[r] = y
        /\ \A q \in Ref : q # r => rr[q] = rq[q]
    BY <1>1, <1>3 DEF SurfaceTyped, y
  <1>6. /\ \A q \in HeldRefs(rq) : q \in Ref /\ q # r /\ q \in HeldRefs(rr) /\ rr[q] = rq[q]
        /\ \A q \in HeldRefs(rr) : q \in HeldRefs(rq) \/ q = r
    BY <1>2, <1>4, <1>5 DEF HeldRefs
  <1>7. \A f \in Fields : y[f] = NoAttestation
    BY <1>2 DEF Fields
  <1>8. RecordGood(d, y)
    <2>1. BindingGood(d, y)
      BY <1>2, <1>4 DEF BindingGood, Standing, NoAttestation
    <2>2. \A f \in Fields : AttestationGood(d, y, f)
      BY <1>7 DEF AttestationGood
    <2> QED BY <2>1, <2>2 DEF RecordGood
  <1>9. IdsApart(rr)
    <2>1. IdsApart(rq)
      BY DEF RecordsGood
    <2>2. ASSUME NEW p \in HeldRefs(rr), NEW q \in HeldRefs(rr),
                 rr[p].request = rr[q].request
          PROVE  p = q
      <3>1. CASE p \in HeldRefs(rq) /\ q \in HeldRefs(rq)
        BY <1>6, <2>1, <2>2, <3>1 DEF IdsApart
      <3>2. CASE p = r /\ q \in HeldRefs(rq)
        BY <1>2, <1>4, <1>5, <1>6, <2>2, <3>2
      <3>3. CASE q = r /\ p \in HeldRefs(rq)
        BY <1>2, <1>4, <1>5, <1>6, <2>2, <3>3
      <3> QED BY <1>6, <3>1, <3>2, <3>3
    <2>3. \A p \in HeldRefs(rr) : \A g \in Fields :
             rr[p][g] # NoAttestation => p \in HeldRefs(rq) /\ rr[p] = rq[p]
      BY <1>5, <1>6, <1>7
    <2>4. \A p, q \in HeldRefs(rr) : \A g, h \in Fields :
             /\ rr[p][g] # NoAttestation /\ rr[q][h] # NoAttestation
             /\ rr[p][g].ask.id = rr[q][h].ask.id
             => p = q /\ g = h
      BY <2>1, <2>3 DEF IdsApart
    <2>5. \A p, q \in HeldRefs(rr) : rr[p].request = rr[q].request => p = q
      BY <2>2, Zenon
    <2> QED BY <2>4, <2>5, Zenon DEF IdsApart
  <1>10. RelayOwned(d, rr)
    <2>1. RelayOwned(d, rq)
      BY DEF RecordsGood
    <2>2. ASSUME NEW m \in DOMAIN d.missions, NEW n \in DOMAIN d.missions[m].decisions,
                 d.missions[m].decisions[n].by = Relay
          PROVE  \E q \in HeldRefs(rr), g \in Fields :
                    /\ rr[q].mission = m
                    /\ Standing(rr[q][g])
                    /\ rr[q][g].ask.id = d.missions[m].decisions[n].id
      <3>1. PICK q \in HeldRefs(rq), g \in Fields :
               /\ rq[q].mission = m /\ Standing(rq[q][g])
               /\ rq[q][g].ask.id = d.missions[m].decisions[n].id
        BY <2>1, <2>2 DEF RelayOwned
      <3>2. q \in HeldRefs(rr) /\ rr[q] = rq[q]
        BY <1>6
      <3> QED BY <3>1, <3>2
    <2> QED BY <2>2 DEF RelayOwned
  <1>11. \A q \in HeldRefs(rr) : RecordGood(d, rr[q])
    BY <1>5, <1>6, <1>8 DEF RecordsGood
  <1> QED BY <1>5, <1>9, <1>10, <1>11 DEF RecordsGood

\* A record before it is bound holds no answer.
LEMMA UnboundUnanswered ==
    ASSUME NEW d, NEW entry, RecordGood(d, entry), entry.mission = None, NEW f \in Fields
    PROVE  entry[f] = NoAttestation
  BY DEF RecordGood, AttestationGood

LEMMA BindSaves ==
    ASSUME NEW d, NEW rq, NEW c, SurfaceTyped(rq, c), RecordsGood(d, rq), RegistryGood(d),
           CallGood(d, rq, c), c.op = "bind", NEW rr,
           rr = [rq EXCEPT ![c.ref].mission = c.mission]
    PROVE  rr \in [Ref -> {NoRequest} \cup Records] /\ RecordsGood(d, rr)
  <1> DEFINE r == c.ref
             x == rq[r]
             y == [x EXCEPT !.mission = c.mission]
  <1>1. r \in Ref /\ c.mission \in Nat
    BY DEF SurfaceTyped, Calls, Idle
  <1>2. /\ x.held /\ x.mission = None /\ c.mission # None
        /\ c.mission \in DOMAIN d.missions /\ d.missions[c.mission].request = x.request
    BY DEF CallGood
  <1>3. r \in HeldRefs(rq) /\ x \in Records /\ RecordGood(d, x)
    BY <1>1, <1>2, HeldRecord DEF RecordsGood
  <1>4. x["approval"] = NoAttestation /\ x["outcome"] = NoAttestation
    BY <1>2, <1>3, UnboundUnanswered DEF Fields
  <1> HIDE DEF x
  <1>5. /\ y \in Records /\ y.request = x.request /\ y.mission = c.mission
        /\ y.state = x.state /\ y.approval = NoAttestation /\ y.outcome = NoAttestation
    BY <1>1, <1>3, <1>4 DEF Records
  <1>6. rr = [rq EXCEPT ![r] = y]
    BY DEF x
  <1> HIDE DEF y
  <1>7. \A f \in Fields : y[f] = NoAttestation /\ y[f] = x[f]
    BY <1>4, <1>5 DEF Fields
  <1>8. RecordGood(d, y)
    <2>1. BindingGood(d, y)
      <3>1. BindingGood(d, x)
        BY <1>3 DEF RecordGood
      <3> QED BY <1>2, <1>5, <3>1 DEF BindingGood, Standing, NoAttestation
    <2>2. \A f \in Fields : AttestationGood(d, y, f)
      BY <1>7 DEF AttestationGood
    <2> QED BY <2>1, <2>2 DEF RecordGood
  <1>9. PICK f \in Fields : TRUE
    BY DEF Fields
  <1>10. /\ y[f] = NoAttestation /\ ~Standing(x[f])
         /\ \A g \in Fields : y[g] = x[g]
    BY <1>7 DEF Standing, NoAttestation
  <1> QED
    <2>1. x = rq[r]
      BY DEF x
    <2> HIDE DEF r
    <2>2. Writes(d, rq, r, f, y)
      BY <1>2, <1>3, <1>5, <1>8, <1>10, <2>1 DEF Writes
    <2> QED BY <1>6, <2>2, EntryReplaced

\* What changes when one field of a record is written.
WithField(x, f, a) == [x EXCEPT ![f] = a]

LEMMA FieldWritten ==
    ASSUME NEW x \in Records, NEW f \in Fields, NEW a \in Attestations,
           NEW y, y = WithField(x, f, a)
    PROVE  /\ y \in Records /\ y[f] = a
           /\ y.request = x.request /\ y.mission = x.mission /\ y.state = x.state
           /\ \A g \in Fields : g # f => y[g] = x[g]
  <1>1. CASE f = "approval"
    <2>1. y = [x EXCEPT !.approval = a]
      BY <1>1 DEF WithField
    <2> QED BY <1>1, <2>1 DEF Records, Fields
  <1>2. CASE f = "outcome"
    <2>1. y = [x EXCEPT !.outcome = a]
      BY <1>2 DEF WithField
    <2> QED BY <1>2, <2>1 DEF Records, Fields
  <1> QED BY <1>1, <1>2 DEF Fields

LEMMA OtherFieldGood ==
    ASSUME NEW d, NEW x, NEW y, NEW g, AttestationGood(d, x, g), y[g] = x[g],
           y.mission = x.mission
    PROVE  AttestationGood(d, y, g)
  BY DEF AttestationGood

LEMMA SameBinding ==
    ASSUME NEW d, NEW x, NEW y, BindingGood(d, x), y.request = x.request,
           y.mission = x.mission, y.state = x.state,
           ~(Standing(y.approval) /\ Standing(y.outcome))
    PROVE  BindingGood(d, y)
  BY DEF BindingGood

LEMMA FieldStands ==
    ASSUME NEW x \in Records, NEW f \in Fields, NEW y, NEW z, z = y[f],
           \A g \in Fields : g # f => y[g] = x[g],
           \A g \in Fields : g # f => ~Standing(x[g])
    PROVE  ~(Standing(y.approval) /\ Standing(y.outcome))
  <1>1. /\ "approval" \in Fields /\ "outcome" \in Fields /\ f \in {"approval", "outcome"}
        /\ "approval" # "outcome"
    BY DEF Fields
  <1>2. CASE f = "approval"
    <2>1. y["outcome"] = x["outcome"] /\ ~Standing(x["outcome"])
      BY <1>1, <1>2
    <2> QED BY <2>1
  <1>3. CASE f = "outcome"
    <2>1. y["approval"] = x["approval"] /\ ~Standing(x["approval"])
      BY <1>1, <1>3
    <2> QED BY <2>1
  <1> QED BY <1>1, <1>2, <1>3

LEMMA ReserveSaves ==
    ASSUME NEW d, NEW rq, NEW c, SurfaceTyped(rq, c), RecordsGood(d, rq), RegistryGood(d),
           CallGood(d, rq, c), c.op = "reserve", NEW rr,
           rr = [rq EXCEPT ![c.ref][FieldOf(c.ask.kind)] =
                    [state |-> "RESERVED", ask |-> c.ask]],
           NEW cc, cc = [c EXCEPT !.op = "apply"]
    PROVE  /\ rr \in [Ref -> {NoRequest} \cup Records] /\ RecordsGood(d, rr)
           /\ cc \in Calls /\ CallGood(d, rr, cc)
  <1> DEFINE r == c.ref
             x == rq[r]
             f == FieldOf(c.ask.kind)
             a == [state |-> "RESERVED", ask |-> c.ask]
             y == [x EXCEPT ![f] = a]
  <1>1. r \in Ref /\ c.ask \in AttestedAsks /\ f \in Fields
    BY DEF SurfaceTyped, Calls, Idle, FieldOf, Fields
  <1>2. a \in Attestations /\ a # NoAttestation /\ Standing(a) /\ a.state = "RESERVED"
        /\ a.ask = c.ask
    <2>1. a.state = "RESERVED" /\ NoAttestation.state = "none"
      BY DEF NoAttestation
    <2> QED BY <1>1, <2>1 DEF Attestations, Standing
  <1>3. /\ x.held /\ x.mission # None /\ ~Standing(x.approval) /\ ~Standing(x.outcome)
        /\ IdOf(d, c.ask.id, "decision", Relay) /\ ~Recorded(d, x.mission, c.ask.id)
        /\ \A q \in HeldRefs(rq), g \in Fields :
              rq[q][g] # NoAttestation => rq[q][g].ask.id # c.ask.id
    BY DEF CallGood
  <1>4. r \in HeldRefs(rq) /\ x \in Records /\ RecordGood(d, x)
    BY <1>1, <1>3, HeldRecord DEF RecordsGood
  <1>5. \A g \in Fields : ~Standing(x[g])
    BY <1>3 DEF Fields
  <1>6. rr = [rq EXCEPT ![r] = y]
    OBVIOUS
  <1>7. cc \in Calls /\ cc.op = "apply" /\ cc.ref = r /\ cc.ask = c.ask
    <2>1. c \in [op : {"reserve", "apply"}, ref : Ref, ask : AttestedAsks]
      BY DEF SurfaceTyped, Calls, Idle
    <2> QED BY <2>1 DEF Calls
  <1>8. rq \in [Ref -> {NoRequest} \cup Records]
    BY DEF SurfaceTyped
  <1>f. f = FieldOf(c.ask.kind)
    OBVIOUS
  <1>x. x = rq[r]
    OBVIOUS
  <1> HIDE DEF a, x, r, f
  <1>y. y = WithField(x, f, a)
    BY DEF WithField
  <1> HIDE DEF y
  <1>9. /\ y \in Records /\ y[f] = a
        /\ y.request = x.request /\ y.mission = x.mission /\ y.state = x.state
        /\ \A g \in Fields : g # f => y[g] = x[g]
    BY <1>1, <1>2, <1>4, <1>y, FieldWritten
  <1>10. RecordGood(d, y)
    <2>1. BindingGood(d, x) /\ \A g \in Fields : AttestationGood(d, x, g)
      BY <1>4 DEF RecordGood
    <2>2. ~(Standing(y.approval) /\ Standing(y.outcome))
      BY <1>1, <1>4, <1>5, <1>9, FieldStands
    <2>3. BindingGood(d, y)
      BY <1>9, <2>1, <2>2, SameBinding
    <2>4. AttestationGood(d, y, f)
      BY <1>2, <1>3, <1>9, <1>f DEF AttestationGood
    <2>5. ASSUME NEW g \in Fields, g # f PROVE AttestationGood(d, y, g)
      BY <1>9, <2>1, <2>5, OtherFieldGood
    <2> QED BY <2>3, <2>4, <2>5 DEF RecordGood
  <1>11. Writes(d, rq, r, f, y)
    BY <1>1, <1>2, <1>3, <1>4, <1>5, <1>9, <1>10, <1>x DEF Writes
  <1>12. rr \in [Ref -> {NoRequest} \cup Records] /\ RecordsGood(d, rr)
    BY <1>6, <1>11, EntryReplaced
  <1>13. rr[r] = y
    BY <1>1, <1>6, <1>8
  <1>14. CallGood(d, rr, cc)
    <2>1. y.held
      BY <1>9 DEF Records
    <2> QED BY <1>7, <1>9, <1>13, <1>f, <2>1 DEF CallGood, a
  <1> QED BY <1>7, <1>12, <1>14

\* A standing answer is settled, and the registry says which way.
LEMMA AnswerSettled ==
    ASSUME NEW d, NEW rq, NEW c, SurfaceTyped(rq, c), RecordsGood(d, rq), RegistryGood(d),
           NEW r \in HeldRefs(rq), NEW f \in Fields, Standing(rq[r][f]),
           NEW s \in {"APPLIED", "REFUSED", "HOLD"},
           s = "APPLIED" => Recorded(d, rq[r].mission, rq[r][f].ask.id),
           s = "REFUSED" => ~Recorded(d, rq[r].mission, rq[r][f].ask.id),
           NEW rr, rr = [rq EXCEPT ![r][f].state = s]
    PROVE  rr \in [Ref -> {NoRequest} \cup Records] /\ RecordsGood(d, rr)
  <1> DEFINE x == rq[r]
             old == x[f]
             a == [old EXCEPT !.state = s]
             y == [x EXCEPT ![f] = a]
  <1>1. x \in Records /\ RecordGood(d, x) /\ r \in Ref
    BY HeldRecord DEF RecordsGood, HeldRefs
  <1>2. old # NoAttestation /\ old \in Attestations /\ Standing(old)
    BY <1>1, FieldTyped
  <1>3. rr = [rq EXCEPT ![r] = y]
    OBVIOUS
  <1>x. x = rq[r] /\ old = x[f]
    OBVIOUS
  <1>4. /\ s = "APPLIED" => Recorded(d, x.mission, old.ask.id)
        /\ s = "REFUSED" => ~Recorded(d, x.mission, old.ask.id)
    OBVIOUS
  <1> HIDE DEF x, old
  <1>5. /\ a \in Attestations /\ a # NoAttestation /\ a.state = s /\ a.ask = old.ask
    <2>1. old \in [state : {"RESERVED", "HOLD", "APPLIED", "REFUSED"}, ask : AttestedAsks]
      BY <1>2 DEF Attestations
    <2>2. /\ a \in [state : {"RESERVED", "HOLD", "APPLIED", "REFUSED"}, ask : AttestedAsks]
          /\ a.state = s /\ a.ask = old.ask
      BY <2>1
    <2> QED BY <2>2 DEF Attestations, NoAttestation
  <1>y. y = WithField(x, f, a)
    BY DEF WithField
  <1> HIDE DEF a, y
  <1>6. /\ y \in Records /\ y[f] = a
        /\ y.request = x.request /\ y.mission = x.mission /\ y.state = x.state
        /\ \A g \in Fields : g # f => y[g] = x[g]
    BY <1>1, <1>5, <1>y, FieldWritten
  <1>7. BindingGood(d, x) /\ \A g \in Fields : AttestationGood(d, x, g)
    BY <1>1 DEF RecordGood
  <1>8. \A g \in Fields : g # f => ~Standing(x[g])
    <2>1. ~(Standing(x["approval"]) /\ Standing(x["outcome"]))
      BY <1>7 DEF BindingGood
    <2>2. f \in {"approval", "outcome"} /\ \A g \in Fields : g \in {"approval", "outcome"}
      BY DEF Fields
    <2>3. CASE f = "approval"
      BY <1>2, <1>x, <2>1, <2>2, <2>3
    <2>4. CASE f = "outcome"
      BY <1>2, <1>x, <2>1, <2>2, <2>4
    <2> QED BY <2>2, <2>3, <2>4
  <1>9. ~(Standing(y.approval) /\ Standing(y.outcome))
    BY <1>1, <1>6, <1>8, FieldStands
  <1>10. BindingGood(d, y)
    BY <1>6, <1>7, <1>9, SameBinding
  <1>11. AttestationGood(d, y, f)
    <2>1. AttestationGood(d, x, f)
      BY <1>7
    <2> QED BY <1>2, <1>4, <1>5, <1>6, <1>x, <2>1 DEF AttestationGood
  <1>12. RecordGood(d, y)
    <2>1. ASSUME NEW g \in Fields, g # f PROVE AttestationGood(d, y, g)
      BY <1>6, <1>7, <2>1, OtherFieldGood
    <2> QED BY <1>10, <1>11, <2>1 DEF RecordGood
  <1>13. Recorded(d, x.mission, old.ask.id) => Standing(a)
    BY <1>4, <1>5 DEF Standing
  <1>14. Writes(d, rq, r, f, y)
    BY <1>2, <1>5, <1>6, <1>12, <1>13, <1>x DEF Writes
  <1> QED BY <1>3, <1>14, EntryReplaced

\* Refusing an approval nobody attests, or cancelling, changes no answer.
LEMMA StateWritten ==
    ASSUME NEW d, NEW rq, NEW c, SurfaceTyped(rq, c), RecordsGood(d, rq), RegistryGood(d),
           NEW r \in HeldRefs(rq), NEW state \in {"OPEN", "CANCELLED"},
           NEW used \in BOOLEAN, NEW refused \in BOOLEAN,
           state = "CANCELLED" =>
              rq[r].mission # None /\ d.missions[rq[r].mission].withdrawn # None,
           NEW rr,
           rr = [rq EXCEPT ![r] = [rq[r] EXCEPT !.state = state, !.keyUsed = used,
                                                !.refused = refused]]
    PROVE  rr \in [Ref -> {NoRequest} \cup Records] /\ RecordsGood(d, rr)
  <1> DEFINE x == rq[r]
             y == [x EXCEPT !.state = state, !.keyUsed = used, !.refused = refused]
  <1>1. x \in Records /\ RecordGood(d, x)
    BY HeldRecord DEF RecordsGood, HeldRefs
  <1>2. rr = [rq EXCEPT ![r] = y]
    OBVIOUS
  <1>x. x = rq[r]
    OBVIOUS
  <1> HIDE DEF x
  <1>3. /\ y \in Records /\ y.request = x.request /\ y.mission = x.mission
        /\ y.approval = x.approval /\ y.outcome = x.outcome /\ y.state = state
    BY <1>1 DEF Records
  <1> HIDE DEF y
  <1>4. \A g \in Fields : y[g] = x[g]
    BY <1>3 DEF Fields
  <1>5. RecordGood(d, y)
    <2>1. BindingGood(d, x) /\ \A g \in Fields : AttestationGood(d, x, g)
      BY <1>1 DEF RecordGood
    <2>2. BindingGood(d, y)
      BY <1>3, <1>x, <2>1 DEF BindingGood
    <2>3. \A g \in Fields : AttestationGood(d, y, g)
      BY <1>3, <1>4, <2>1, OtherFieldGood
    <2> QED BY <2>2, <2>3 DEF RecordGood
  <1>6. PICK f \in Fields : TRUE
    BY DEF Fields
  <1>7. Writes(d, rq, r, f, y)
    BY <1>3, <1>4, <1>5, <1>x DEF Writes
  <1> QED BY <1>2, <1>7, EntryReplaced
-----------------------------------------------------------------------------
(* Decisions and the surface                                               *)

LEMMA SameDecisions ==
    ASSUME NEW d, NEW e, DOMAIN e.missions = DOMAIN d.missions,
           \A k \in DOMAIN d.missions : e.missions[k].decisions = d.missions[k].decisions
    PROVE  NoneRelayed(d, e)
  BY DEF NoneRelayed

\* One decision more is recorded, and no other.
OneMore(d, e, m, decision) ==
    /\ \A k \in DOMAIN d.missions : \A id :
          Recorded(e, k, id) <=> Recorded(d, k, id) \/ (k = m /\ id = decision.id)
    /\ \A k \in DOMAIN e.missions : \A n \in DOMAIN e.missions[k].decisions :
          \/ /\ k \in DOMAIN d.missions /\ n \in DOMAIN d.missions[k].decisions
             /\ e.missions[k].decisions[n] = d.missions[k].decisions[n]
          \/ k = m /\ e.missions[k].decisions[n] = decision

LEMMA DecidedRecords ==
    ASSUME NEW d, RegistryGood(d), NEW e, NEW m \in DOMAIN d.missions,
           DOMAIN e.missions = DOMAIN d.missions,
           \A k \in DOMAIN d.missions : k # m =>
              e.missions[k].decisions = d.missions[k].decisions,
           NEW decision \in Decisions,
           e.missions[m].decisions = Append(d.missions[m].decisions, decision)
    PROVE  OneMore(d, e, m, decision)
  <1> DEFINE s == d.missions[m].decisions
             t == e.missions[m].decisions
  <1>1. s \in Seq(Decisions)
    <2>1. d.missions[m] \in MissionRecords
      BY DocumentParts DEF RegistryGood
    <2> QED BY <2>1 DEF MissionRecords
  <1> HIDE DEF s
  <1>2. t = Append(s, decision)
    BY DEF s
  <1> HIDE DEF t
  <1>3. /\ \A n \in DOMAIN s : n \in DOMAIN t /\ t[n] = s[n]
        /\ Len(s) + 1 \in DOMAIN t /\ t[Len(s) + 1] = decision
        /\ \A n \in DOMAIN t : n \in DOMAIN s \/ n = Len(s) + 1
    BY <1>1, <1>2
  <1>4. ASSUME NEW k \in DOMAIN d.missions, NEW id
        PROVE  Recorded(e, k, id) <=> Recorded(d, k, id) \/ (k = m /\ id = decision.id)
    <2>1. CASE k = m
      <3>1. (\E n \in DOMAIN t : t[n].id = id)
               <=> (\E n \in DOMAIN s : s[n].id = id) \/ id = decision.id
        BY <1>3
      <3> QED BY <2>1, <3>1, RecordedAt DEF s, t
    <2>2. CASE k # m
      BY <2>2, RecordedAt
    <2> QED BY <2>1, <2>2
  <1>5. ASSUME NEW k \in DOMAIN e.missions, NEW n \in DOMAIN e.missions[k].decisions
        PROVE  \/ /\ k \in DOMAIN d.missions /\ n \in DOMAIN d.missions[k].decisions
                  /\ e.missions[k].decisions[n] = d.missions[k].decisions[n]
               \/ k = m /\ e.missions[k].decisions[n] = decision
    <2>1. CASE k = m
      <3>1. n \in DOMAIN t
        BY <2>1 DEF t
      <3>2. (n \in DOMAIN s /\ t[n] = s[n]) \/ t[n] = decision
        BY <1>3, <3>1
      <3> QED BY <2>1, <3>2 DEF s, t
    <2>2. CASE k # m
      BY <2>2
    <2> QED BY <2>1, <2>2
  <1> QED BY <1>4, <1>5 DEF OneMore

\* What the call inside the lock acts on, from the reservation to the answer.
LEMMA CallStands ==
    ASSUME NEW d, NEW rq, NEW c, SurfaceTyped(rq, c), RecordsGood(d, rq),
           CallGood(d, rq, c), c.op \in {"apply", "settle"}
    PROVE  /\ c.ref \in HeldRefs(rq) /\ FieldOf(c.ask.kind) \in Fields
           /\ rq[c.ref][FieldOf(c.ask.kind)] # NoAttestation
           /\ Standing(rq[c.ref][FieldOf(c.ask.kind)])
           /\ rq[c.ref][FieldOf(c.ask.kind)].state = "RESERVED"
           /\ rq[c.ref][FieldOf(c.ask.kind)].ask = c.ask
           /\ c.ask \in AttestedAsks
           /\ rq[c.ref].mission \in DOMAIN d.missions
           /\ IdOf(d, c.ask.id, "decision", Relay)
  <1> DEFINE x == rq[c.ref]
             f == FieldOf(c.ask.kind)
  <1>1. c.ref \in Ref /\ c.ask \in AttestedAsks /\ f \in Fields
    BY DEF SurfaceTyped, Calls, Idle, FieldOf, Fields
  <1>2. x.held /\ x[f] = [state |-> "RESERVED", ask |-> c.ask]
    BY DEF CallGood
  <1>3. x[f].state = "RESERVED" /\ x[f].ask = c.ask
    BY <1>2
  <1>4. x[f] # NoAttestation /\ Standing(x[f])
    BY <1>3 DEF NoAttestation, Standing
  <1>5. c.ref \in HeldRefs(rq)
    BY <1>1, <1>2 DEF HeldRefs
  <1>6. BindingGood(d, x) /\ AttestationGood(d, x, f)
    BY <1>1, <1>5 DEF RecordsGood, RecordGood
  <1>7. x.mission # None /\ IdOf(d, c.ask.id, "decision", Relay)
    BY <1>3, <1>4, <1>6 DEF AttestationGood
  <1>8. x.mission \in DOMAIN d.missions
    BY <1>6, <1>7 DEF BindingGood
  <1> QED BY <1>1, <1>3, <1>4, <1>5, <1>7, <1>8

\* The attested decision, committed: the record that stands for it owns it.
LEMMA RelayDecides ==
    ASSUME NEW d, RegistryGood(d), NEW rq, NEW c, SurfaceTyped(rq, c),
           RecordsGood(d, rq), CallGood(d, rq, c), c.op = "apply", NEW t \in Nat,
           CanDecide(d, rq[c.ref].mission, c.ask, t),
           NEW e, e = DecideIn(d, rq[c.ref].mission, c.ask, t)
    PROVE  /\ RegistryGood(e) /\ RecordsGood(e, rq)
           /\ Recorded(e, rq[c.ref].mission, c.ask.id)
           /\ Grows(d, e)
  <1> DEFINE r == c.ref
             m == rq[c.ref].mission
             ask == c.ask
             f == FieldOf(c.ask.kind)
  <1>1. /\ r \in HeldRefs(rq) /\ f \in Fields /\ rq[r][f] # NoAttestation
        /\ Standing(rq[r][f]) /\ rq[r][f].state = "RESERVED" /\ rq[r][f].ask = ask
        /\ ask \in AttestedAsks /\ m \in DOMAIN d.missions
        /\ IdOf(d, ask.id, "decision", Relay)
    BY CallStands
  <1>2. ask \in AnyAsks /\ ask.kind # "EDIT" /\ ask.by = Relay
    BY <1>1 DEF AttestedAsks, AnyAsks, AttestedOutcomes, DecisionKinds, Contexts, Scopes, None
  <1>3. /\ ask.revision = Revision(d.missions[m])
        /\ ask.shown = Current(d.missions[m])
    BY <1>2 DEF CanDecide, AttestedExactly
  <1>c. CanDecide(d, m, ask, t) /\ e = DecideIn(d, m, ask, t) /\ m = rq[r].mission
    OBVIOUS
  <1>f. f = FieldOf(ask.kind)
    OBVIOUS
  <1> HIDE DEF m, ask, r, f
  <1>4. /\ RegistryGood(e) /\ Grows(d, e) /\ DOMAIN e.missions = DOMAIN d.missions
        /\ \A k \in DOMAIN d.missions : k # m =>
              e.missions[k].decisions = d.missions[k].decisions
        /\ \E decision \in Decisions :
              /\ decision.id = ask.id /\ decision.by = ask.by
              /\ e.missions[m].decisions = Append(d.missions[m].decisions, decision)
        /\ ask.kind = "APPROVE" =>
              \E a \in DOMAIN e.authorizations :
                 /\ e.authorizations[a].mission = m /\ e.authorizations[a].by = ask.by
                 /\ e.authorizations[a].content = Current(d.missions[m])
                 /\ e.authorizations[a].revision = Revision(d.missions[m])
                 /\ e.authorizations[a].expires = ask.expires
    <2>1. Decided(d, m, ask, e)
      BY <1>1, <1>2, <1>c, DecideKeeps
    <2> QED BY <2>1 DEF Decided
  <1>5. PICK decision \in Decisions :
              /\ decision.id = ask.id /\ decision.by = ask.by
              /\ e.missions[m].decisions = Append(d.missions[m].decisions, decision)
    BY <1>4
  <1>6. OneMore(d, e, m, decision)
    BY <1>1, <1>4, <1>5, DecidedRecords
  <1>7. ask.kind = "APPROVE" => Grants(e, m, ask)
    BY <1>2, <1>3, <1>4 DEF Grants
  <1>8. ASSUME NEW q \in HeldRefs(rq), NEW g \in Fields PROVE AttestationGood(e, rq[q], g)
    <2>1. BindingGood(d, rq[q]) /\ AttestationGood(d, rq[q], g)
      BY DEF RecordsGood, RecordGood
    <2> DEFINE x == rq[q]
               own == rq[q][g].ask
    <2>x. x = rq[q] /\ own = x[g].ask
      OBVIOUS
    <2> HIDE DEF x, own
    <2> SUFFICES ASSUME x[g] # NoAttestation
                 PROVE  /\ x.mission # None
                        /\ FieldOf(own.kind) = g
                        /\ IdOf(e, own.id, "decision", Relay)
                        /\ x[g].state = "APPLIED" => Recorded(e, x.mission, own.id)
                        /\ x[g].state = "REFUSED" => ~Recorded(e, x.mission, own.id)
                        /\ g = "approval" /\ Recorded(e, x.mission, own.id) =>
                              Grants(e, x.mission, own)
      BY <2>x DEF AttestationGood
    <2>2. /\ x.mission # None /\ FieldOf(own.kind) = g /\ IdOf(d, own.id, "decision", Relay)
          /\ x[g].state = "APPLIED" => Recorded(d, x.mission, own.id)
          /\ x[g].state = "REFUSED" => ~Recorded(d, x.mission, own.id)
          /\ g = "approval" /\ Recorded(d, x.mission, own.id) => Grants(d, x.mission, own)
      BY <2>1, <2>x DEF AttestationGood
    <2>3. x.mission \in DOMAIN d.missions
      BY <2>1, <2>2, <2>x DEF BindingGood
    <2>4. IdOf(e, own.id, "decision", Relay)
      BY <1>4, <2>2, IdFollows
    <2>5. Grants(d, x.mission, own) => Grants(e, x.mission, own)
      BY <1>4, GrantsFollow
    <2>6. CASE own.id = ask.id
      <3>1. q = r /\ g = f
        BY <1>1, <2>6, <2>x DEF IdsApart, RecordsGood
      <3>2. x[g].state = "RESERVED" /\ own = ask /\ x.mission = m
        BY <1>1, <1>c, <2>x, <3>1
      <3>3. g = "approval" => own.kind = "APPROVE"
        BY <2>2 DEF FieldOf
      <3> QED BY <1>7, <2>2, <2>4, <3>2, <3>3
    <2>7. CASE own.id # ask.id
      <3>1. Recorded(e, x.mission, own.id) <=> Recorded(d, x.mission, own.id)
        BY <1>5, <1>6, <2>3, <2>7 DEF OneMore
      <3> QED BY <2>2, <2>4, <2>5, <3>1
    <2> QED BY <2>6, <2>7
  <1>9. ASSUME NEW q \in HeldRefs(rq) PROVE RecordGood(e, rq[q])
    <2>1. BindingGood(d, rq[q])
      BY DEF RecordsGood, RecordGood
    <2> QED BY <1>4, <1>8, <2>1, BindingFollows DEF RecordGood
  <1>10. RelayOwned(e, rq)
    <2>1. ASSUME NEW k \in DOMAIN e.missions, NEW n \in DOMAIN e.missions[k].decisions,
                 e.missions[k].decisions[n].by = Relay
          PROVE  \E q \in HeldRefs(rq), g \in Fields :
                    /\ rq[q].mission = k
                    /\ Standing(rq[q][g])
                    /\ rq[q][g].ask.id = e.missions[k].decisions[n].id
      <3>1. CASE /\ k \in DOMAIN d.missions /\ n \in DOMAIN d.missions[k].decisions
                 /\ e.missions[k].decisions[n] = d.missions[k].decisions[n]
        BY <2>1, <3>1 DEF RecordsGood, RelayOwned
      <3>2. CASE k = m /\ e.missions[k].decisions[n] = decision
        BY <1>1, <1>5, <1>c, <3>2
      <3> QED BY <1>6, <3>1, <3>2 DEF OneMore
    <2> QED BY <2>1 DEF RelayOwned
  <1>11. RecordsGood(e, rq)
    BY <1>9, <1>10 DEF RecordsGood
  <1>12. Recorded(e, m, ask.id)
    BY <1>1, <1>5, <1>6 DEF OneMore
  <1> QED BY <1>4, <1>11, <1>12 DEF m, ask
-----------------------------------------------------------------------------
(* The steps of others                                                     *)

LEMMA FollowsSelf == ASSUME NEW d, RegistryGood(d) PROVE Follows(d, d)
  <1>1. Grows(d, d)
    BY GrowsSelf DEF RegistryGood
  <1> QED BY <1>1 DEF Follows, NoneRelayed

LEMMA OthersKeep ==
    ASSUME IInv, Follows(doc, doc'), UNCHANGED surface, now' \in Nat \ {None}
    PROVE  IInv'
  <1>1. RecordsGood(doc', requests) /\ CallGood(doc', requests, call)
    BY RecordsFollow, CallFollows DEF IInv
  <1> QED BY <1>1 DEF IInv, Follows, surface

LEMMA CallSet ==
    ASSUME IInv, Follows(doc, doc'), requests' = requests, now' = now,
           call' \in Calls, CallGood(doc', requests, call')
    PROVE  IInv'
  <1>1. RecordsGood(doc', requests)
    BY RecordsFollow DEF IInv
  <1> QED BY <1>1 DEF IInv, Follows, SurfaceTyped

LEMMA RecordsSet ==
    ASSUME IInv, doc' = doc, now' = now, requests' \in [Ref -> {NoRequest} \cup Records],
           RecordsGood(doc, requests'), call' \in Calls, CallGood(doc, requests', call')
    PROVE  IInv'
  BY DEF IInv, SurfaceTyped

LEMMA TickKeeps == ASSUME IInv, Tick PROVE IInv' /\ Follows(doc, doc')
  <1>1. doc' = doc /\ now' \in Nat \ {None} /\ UNCHANGED surface
    BY DEF Tick, IInv, None
  <1>2. Follows(doc, doc')
    BY <1>1, FollowsSelf DEF IInv
  <1> QED BY <1>1, <1>2, OthersKeep

LEMMA HumanMintKeeps == ASSUME IInv, HumanMint PROVE IInv' /\ Follows(doc, doc')
  <1>1. /\ doc' = ReserveIn(doc, "decision", Authenticated) /\ now' = now
        /\ UNCHANGED surface /\ RegistryGood(doc) /\ now \in Nat \ {None}
    BY DEF HumanMint, IInv
  <1>2. RegistryGood(doc') /\ Grows(doc, doc') /\ doc'.missions = doc.missions
    <2>1. Authenticated \in Contexts
      BY DEF Contexts
    <2> QED BY <1>1, <2>1, ReserveKeeps
  <1>3. Follows(doc, doc')
    <2>1. NoneRelayed(doc, doc')
      BY <1>2, SameDecisions
    <2> QED BY <1>1, <1>2, <2>1 DEF Follows
  <1> QED BY <1>1, <1>3, OthersKeep

LEMMA HumanAsksTyped ==
    ASSUME now \in Nat, NEW id \in Nat, NEW ask \in HumanAsks(id)
    PROVE  /\ ask \in AnyAsks /\ ask.by = Authenticated /\ ask.id = id
           /\ ask.kind = "EDIT" => ask.content \in Content
  <1>1. AskedScopes \subseteq Scopes /\ "requested" \in Scopes
    BY MissionRequestAssumption DEF Scopes
  <1>2. PICK revision \in 1 .. MaxRevisions :
          \/ \E scope \in AskedScopes, expires \in {None, now + 1} :
                ask = [id |-> id, by |-> Authenticated, kind |-> "APPROVE", revision |-> revision,
                       shown |-> None, content |-> None, scope |-> scope, expires |-> expires]
          \/ ask = [id |-> id, by |-> Authenticated, kind |-> "DENY", revision |-> revision,
                    shown |-> None, content |-> None, scope |-> "requested", expires |-> None]
          \/ \E content \in Content :
                ask = [id |-> id, by |-> Authenticated, kind |-> "EDIT", revision |-> revision,
                       shown |-> None, content |-> content, scope |-> "requested",
                       expires |-> None]
    BY DEF HumanAsks
  <1>3. revision \in Nat /\ now + 1 \in Nat /\ None \in Nat /\ Authenticated \in Contexts
    BY BoundsAssumption DEF Bounds, None, Contexts
  <1>4. "APPROVE" \in DecisionKinds /\ "DENY" \in DecisionKinds /\ "EDIT" \in DecisionKinds
    BY DEF DecisionKinds
  <1> QED BY <1>1, <1>2, <1>3, <1>4 DEF AnyAsks

LEMMA HumanDecideKeeps ==
    ASSUME IInv, NEW m \in DOMAIN doc.missions, NEW id \in DOMAIN doc.reservations,
           HumanDecide(m, id)
    PROVE  IInv' /\ Follows(doc, doc')
  <1>1. RegistryGood(doc) /\ now \in Nat \ {None} /\ id \in Nat
    BY DocumentParts DEF IInv, RegistryGood
  <1>2. PICK ask \in HumanAsks(id) :
          /\ CanDecideAndSave(doc, m, ask, now)
          /\ doc' = DecideIn(doc, m, ask, now)
          /\ UNCHANGED <<now, surface>>
    BY DEF HumanDecide
  <1>3. /\ ask \in AnyAsks /\ ask.by = Authenticated
        /\ ask.kind = "EDIT" => ask.content \in Content
    BY <1>1, HumanAsksTyped
  <1>4. CanDecide(doc, m, ask, now)
    BY <1>2 DEF CanDecideAndSave
  <1>5. Decided(doc, m, ask, doc')
    BY <1>1, <1>2, <1>3, <1>4, DecideKeeps
  <1>6. Follows(doc, doc')
    <2>1. PICK decision \in Decisions :
            /\ decision.id = ask.id /\ decision.by = ask.by
            /\ doc'.missions[m].decisions = Append(doc.missions[m].decisions, decision)
      BY <1>5 DEF Decided
    <2>2. OneMore(doc, doc', m, decision)
      BY <1>1, <1>5, <2>1, DecidedRecords DEF Decided
    <2>3. Authenticated # Relay
      BY DEF Authenticated, Relay
    <2>4. NoneRelayed(doc, doc')
      BY <1>3, <2>1, <2>2, <2>3 DEF OneMore, NoneRelayed
    <2> QED BY <1>1, <1>5, <2>4 DEF Decided, Follows
  <1> QED BY <1>1, <1>2, <1>6, OthersKeep

LEMMA ControlStepKeeps ==
    ASSUME IInv, NEW m \in DOMAIN doc.missions, Control(m)
    PROVE  IInv' /\ Follows(doc, doc')
  <1>1. RegistryGood(doc) /\ now \in Nat \ {None}
    BY DEF IInv
  <1>2. /\ doc' \in RecordPause(doc, m, BoundAuthorization(doc.missions[m]))
                    \cup RecordResume(doc, m, BoundAuthorization(doc.missions[m]))
                    \cup RecordCancel(doc, m, "cancelled_before_intent",
                                      BoundAuthorization(doc.missions[m]))
                    \cup CompleteCancel(doc, m, "nothing_started",
                                        BoundAuthorization(doc.missions[m]))
        /\ UNCHANGED <<now, surface>>
    BY DEF Control
  <1>3. /\ RegistryGood(doc') /\ Grows(doc, doc') /\ DOMAIN doc'.missions = DOMAIN doc.missions
        /\ \A k \in DOMAIN doc.missions : doc'.missions[k].decisions = doc.missions[k].decisions
    BY <1>1, <1>2, ControlKeeps
  <1>4. Follows(doc, doc')
    BY <1>1, <1>3, SameDecisions DEF Follows
  <1> QED BY <1>1, <1>2, <1>4, OthersKeep
-----------------------------------------------------------------------------
(* The surface's own steps                                                 *)

\* A reserved id is new to the registry, and to every record of the surface.
LEMMA MintedNew ==
    ASSUME NEW d, RegistryGood(d), NEW rq, NEW c, SurfaceTyped(rq, c), RecordsGood(d, rq),
           NEW kind \in {"request", "decision"}, NEW context \in Contexts,
           NEW e, e = ReserveIn(d, kind, context)
    PROVE  /\ Follows(d, e) /\ IdOf(e, NextId(d), kind, context) /\ NextId(d) \in Nat
           /\ \A r \in HeldRefs(rq) : rq[r].request # NextId(d)
           /\ \A r \in HeldRefs(rq), f \in Fields :
                 rq[r][f] # NoAttestation => rq[r][f].ask.id # NextId(d)
           /\ \A m \in DOMAIN d.missions : ~Recorded(e, m, NextId(d))
  <1>1. /\ RegistryGood(e) /\ Grows(d, e) /\ e.missions = d.missions
        /\ NextId(d) \notin DOMAIN d.reservations
        /\ IdOf(e, NextId(d), kind, context)
    BY ReserveKeeps
  <1>2. Follows(d, e)
    BY <1>1, SameDecisions DEF Follows
  <1>3. NextId(d) \in Nat
    BY <1>1, DocumentParts DEF IdOf, IsReserved, RegistryGood
  <1>4. ASSUME NEW r \in HeldRefs(rq) PROVE rq[r].request # NextId(d)
    BY <1>1 DEF RecordsGood, RecordGood, BindingGood, IdOf, IsReserved
  <1>5. ASSUME NEW r \in HeldRefs(rq), NEW f \in Fields, rq[r][f] # NoAttestation
        PROVE  rq[r][f].ask.id # NextId(d)
    BY <1>1, <1>5 DEF RecordsGood, RecordGood, AttestationGood, IdOf, IsReserved
  <1>6. ASSUME NEW m \in DOMAIN d.missions PROVE ~Recorded(e, m, NextId(d))
    <2>1. DecisionsGood(d.missions[m], d.reservations)
      BY DEF RegistryGood, MissionGood
    <2> QED BY <1>1, <2>1, RecordedAt DEF DecisionsGood
  <1> QED BY <1>1, <1>2, <1>3, <1>4, <1>5, <1>6

LEMMA SubmitMintKeeps ==
    ASSUME IInv, NEW r \in Ref, NEW content \in Content, SubmitMint(r, content)
    PROVE  IInv' /\ Follows(doc, doc')
  <1>1. /\ RegistryGood(doc) /\ RecordsGood(doc, requests) /\ SurfaceTyped(requests, call)
    BY DEF IInv
  <1>2. /\ ~requests[r].held /\ doc' = ReserveIn(doc, "request", LocalCaller)
        /\ call' = [op |-> "submit", ref |-> r, id |-> NextId(doc), content |-> content]
        /\ requests' = requests /\ now' = now
    BY DEF SubmitMint
  <1>3. LocalCaller \in Contexts
    BY DEF Contexts
  <1>4. /\ Follows(doc, doc') /\ IdOf(doc', NextId(doc), "request", LocalCaller)
        /\ NextId(doc) \in Nat
        /\ \A q \in HeldRefs(requests) : requests[q].request # NextId(doc)
    BY <1>1, <1>2, <1>3, MintedNew
  <1>5. call' \in Calls
    BY <1>2, <1>4 DEF Calls
  <1>6. /\ call'.op = "submit" /\ call'.ref = r /\ call'.id = NextId(doc)
    BY <1>2
  <1>7. CallGood(doc', requests', call')
    BY <1>2, <1>4, <1>6 DEF CallGood
  <1> QED BY <1>2, <1>4, <1>5, <1>7, CallSet

LEMMA SubmitSaveKeeps ==
    ASSUME IInv, SubmitSave PROVE IInv' /\ Follows(doc, doc')
  <1>1. /\ RegistryGood(doc) /\ RecordsGood(doc, requests) /\ SurfaceTyped(requests, call)
        /\ CallGood(doc, requests, call) /\ now \in Nat
    BY DEF IInv
  <1>2. /\ call.op = "submit" /\ doc' = doc /\ now' = now /\ call' = Idle
        /\ requests' = [requests EXCEPT ![call.ref] = NewRequest(call.id, call.content, now)]
    BY DEF SubmitSave
  <1>3. /\ requests' \in [Ref -> {NoRequest} \cup Records] /\ RecordsGood(doc, requests')
    BY <1>1, <1>2, SubmitSaves
  <1>4. call' \in Calls /\ CallGood(doc, requests', call')
    BY <1>2, IdleGood
  <1>5. Follows(doc, doc')
    BY <1>1, <1>2, FollowsSelf
  <1> QED BY <1>2, <1>3, <1>4, <1>5, RecordsSet

\* A proposal repeated answers the mission its request id made.
LEMMA ProposedIs ==
    ASSUME NEW d, RegistryGood(d), NEW id, IdOf(d, id, "request", LocalCaller),
           ~Unconsumed(d, id)
    PROVE  /\ d.reservations[id].consumed \in DOMAIN d.missions
           /\ d.missions[d.reservations[id].consumed].request = id
  BY DEF RegistryGood, RequestsGood, IdOf, IsReserved

LEMMA BindProposeKeeps ==
    ASSUME IInv, NEW r \in Ref, BindPropose(r) PROVE IInv' /\ Follows(doc, doc')
  <1> DEFINE entry == requests[r]
  <1>1. /\ RegistryGood(doc) /\ RecordsGood(doc, requests) /\ SurfaceTyped(requests, call)
    BY DEF IInv
  <1>2. /\ entry.held /\ entry.mission = None /\ requests' = requests /\ now' = now
        /\ call' = [op |-> "bind", ref |-> r,
                    mission |-> doc'.reservations[entry.request].consumed]
        /\ \/ /\ CanPropose(doc, entry.request, LocalCaller)
              /\ doc' = ProposeIn(doc, entry.request, LocalCaller, entry.content,
                                  entry.keyExpires)
           \/ /\ Proposed(doc, entry.request, entry.content, entry.keyExpires)
              /\ doc' = doc
    BY DEF BindPropose, Open
  <1>3. entry \in Records /\ IdOf(doc, entry.request, "request", LocalCaller)
    <2>1. r \in HeldRefs(requests)
      BY <1>2 DEF HeldRefs
    <2> QED BY <1>1, <2>1, HeldRecord DEF RecordsGood, RecordGood, BindingGood
  <1>4. /\ Follows(doc, doc')
        /\ doc'.reservations[entry.request].consumed \in DOMAIN doc'.missions
        /\ doc'.missions[doc'.reservations[entry.request].consumed].request = entry.request
    <2>1. CASE /\ CanPropose(doc, entry.request, LocalCaller)
               /\ doc' = ProposeIn(doc, entry.request, LocalCaller, entry.content,
                                   entry.keyExpires)
      <3>1. LocalCaller \in Contexts /\ entry.content \in Content /\ entry.keyExpires \in Nat
        BY <1>3 DEF Contexts, Records
      <3> HIDE DEF entry
      <3>2. /\ RegistryGood(doc') /\ Grows(doc, doc')
            /\ doc'.reservations[entry.request].consumed \in DOMAIN doc'.missions
            /\ doc'.missions[doc'.reservations[entry.request].consumed].request = entry.request
            /\ \A m \in DOMAIN doc.missions : doc'.missions[m] = doc.missions[m]
            /\ \A m \in DOMAIN doc'.missions : m \notin DOMAIN doc.missions =>
                  doc'.missions[m].decisions = <<>>
        BY <1>1, <2>1, <3>1, ProposeKeeps
      <3>3. NoneRelayed(doc, doc')
        BY <3>2 DEF NoneRelayed
      <3> QED BY <1>1, <3>2, <3>3 DEF Follows
    <2>2. CASE /\ Proposed(doc, entry.request, entry.content, entry.keyExpires)
               /\ doc' = doc
      <3>1. ~Unconsumed(doc, entry.request)
        BY <2>2 DEF Proposed
      <3> HIDE DEF entry
      <3> QED BY <1>1, <1>3, <2>2, <3>1, ProposedIs, FollowsSelf
    <2> QED BY <1>2, <2>1, <2>2
  <1> DEFINE m == doc'.reservations[entry.request].consumed
  <1>5. m \in Nat /\ m # None
    BY <1>4, DocumentParts DEF Follows, RegistryGood
  <1>6. call'.op = "bind" /\ call'.ref = r /\ call'.mission = m
    BY <1>2
  <1>7. call' \in Calls
    BY <1>2, <1>5 DEF Calls
  <1>8. CallGood(doc', requests', call')
    BY <1>2, <1>4, <1>5, <1>6 DEF CallGood
  <1> QED BY <1>2, <1>4, <1>7, <1>8, CallSet

LEMMA BindSaveKeeps ==
    ASSUME IInv, BindSave PROVE IInv' /\ Follows(doc, doc')
  <1>1. /\ RegistryGood(doc) /\ RecordsGood(doc, requests) /\ SurfaceTyped(requests, call)
        /\ CallGood(doc, requests, call)
    BY DEF IInv
  <1>2. /\ call.op = "bind" /\ doc' = doc /\ now' = now /\ call' = Idle
        /\ requests' = [requests EXCEPT ![call.ref].mission = call.mission]
    BY DEF BindSave
  <1>3. /\ requests' \in [Ref -> {NoRequest} \cup Records] /\ RecordsGood(doc, requests')
    BY <1>1, <1>2, BindSaves
  <1>4. call' \in Calls /\ CallGood(doc, requests', call')
    BY <1>2, IdleGood
  <1>5. Follows(doc, doc')
    BY <1>1, <1>2, FollowsSelf
  <1> QED BY <1>2, <1>3, <1>4, <1>5, RecordsSet

LEMMA AttestMintKeeps ==
    ASSUME IInv, NEW r \in Ref, NEW kind \in {"APPROVE"} \cup AttestedOutcomes,
           NEW expires \in Nat,
           AttestMint(r, kind, Revision(MissionOf(r)), Current(MissionOf(r)), expires)
    PROVE  IInv' /\ Follows(doc, doc')
  <1> DEFINE entry == requests[r]
             ask == [id |-> NextId(doc), by |-> Relay, kind |-> kind,
                     revision |-> Revision(MissionOf(r)), shown |-> Current(MissionOf(r)),
                     content |-> None, scope |-> "requested", expires |-> expires]
  <1>1. /\ RegistryGood(doc) /\ RecordsGood(doc, requests) /\ SurfaceTyped(requests, call)
    BY DEF IInv
  <1>2. /\ entry.held /\ entry.mission # None /\ requests' = requests /\ now' = now
        /\ ~Standing(entry.approval) /\ ~Standing(entry.outcome)
        /\ doc' = ReserveIn(doc, "decision", Relay)
        /\ call' = [op |-> "reserve", ref |-> r, ask |-> ask]
    BY DEF AttestMint, Bound, Open
  <1>3. /\ r \in HeldRefs(requests) /\ entry.mission \in DOMAIN doc.missions
    <2>1. r \in HeldRefs(requests)
      BY <1>2 DEF HeldRefs
    <2> QED BY <1>1, <1>2, <2>1 DEF RecordsGood, RecordGood, BindingGood
  <1>4. /\ Follows(doc, doc') /\ IdOf(doc', NextId(doc), "decision", Relay)
        /\ NextId(doc) \in Nat
        /\ \A q \in HeldRefs(requests), f \in Fields :
              requests[q][f] # NoAttestation => requests[q][f].ask.id # NextId(doc)
        /\ \A m \in DOMAIN doc.missions : ~Recorded(doc', m, NextId(doc))
    <2>1. Relay \in Contexts
      BY DEF Contexts
    <2> QED BY <1>1, <1>2, <2>1, MintedNew
  <1>5. Revision(MissionOf(r)) \in Nat /\ Current(MissionOf(r)) \in Content
    <2>1. MissionOf(r) \in MissionRecords /\ MissionOf(r).revisions # <<>>
      BY <1>1, <1>3, DocumentParts DEF RegistryGood, MissionGood, StateGood, MissionOf
    <2> QED BY <2>1, CurrentOf
  <1>6. ask \in AttestedAsks /\ ask.id = NextId(doc)
    BY <1>4, <1>5 DEF AttestedAsks
  <1> HIDE DEF ask
  <1>7. call' \in Calls /\ call'.op = "reserve" /\ call'.ref = r /\ call'.ask = ask
    BY <1>2, <1>6 DEF Calls
  <1>8. CallGood(doc', requests', call')
    BY <1>2, <1>3, <1>4, <1>6, <1>7 DEF CallGood
  <1> QED BY <1>2, <1>4, <1>7, <1>8, CallSet

LEMMA AttestKeeps ==
    ASSUME IInv, NEW r \in Ref, Attest(r) PROVE IInv' /\ Follows(doc, doc')
  <1>1. CASE \E kind \in AttestedOutcomes :
                AttestMint(r, kind, Revision(MissionOf(r)), Current(MissionOf(r)), None)
    <2>1. PICK kind \in AttestedOutcomes :
                AttestMint(r, kind, Revision(MissionOf(r)), Current(MissionOf(r)), None)
      BY <1>1
    <2>2. None \in Nat /\ kind \in {"APPROVE"} \cup AttestedOutcomes
      BY DEF None
    <2> QED BY <2>1, <2>2, AttestMintKeeps
  <1>2. CASE \E expires \in now + 1 .. now + AttestedValidity :
                AttestMint(r, "APPROVE", Revision(MissionOf(r)), Current(MissionOf(r)), expires)
    <2>1. PICK expires \in now + 1 .. now + AttestedValidity :
                AttestMint(r, "APPROVE", Revision(MissionOf(r)), Current(MissionOf(r)), expires)
      BY <1>2
    <2>2. AttestedValidity \in Nat /\ now \in Nat
      BY BoundsAssumption DEF Bounds, IInv
    <2>3. expires \in Nat /\ "APPROVE" \in {"APPROVE"} \cup AttestedOutcomes
      BY <2>2
    <2> QED BY <2>1, <2>3, AttestMintKeeps
  <1> QED BY <1>1, <1>2 DEF Attest

LEMMA AttestReserveKeeps ==
    ASSUME IInv, AttestReserve PROVE IInv' /\ Follows(doc, doc')
  <1>1. /\ RegistryGood(doc) /\ RecordsGood(doc, requests) /\ SurfaceTyped(requests, call)
        /\ CallGood(doc, requests, call)
    BY DEF IInv
  <1>2. /\ call.op = "reserve" /\ doc' = doc /\ now' = now
        /\ call' = [call EXCEPT !.op = "apply"]
        /\ requests' = [requests EXCEPT ![call.ref][FieldOf(call.ask.kind)] =
                           [state |-> "RESERVED", ask |-> call.ask]]
    BY DEF AttestReserve
  <1>3. /\ requests' \in [Ref -> {NoRequest} \cup Records] /\ RecordsGood(doc, requests')
        /\ call' \in Calls /\ CallGood(doc, requests', call')
    BY <1>1, <1>2, ReserveSaves
  <1>4. Follows(doc, doc')
    BY <1>1, <1>2, FollowsSelf
  <1> QED BY <1>2, <1>3, <1>4, RecordsSet

LEMMA AttestApplyKeeps ==
    ASSUME IInv, AttestApply PROVE IInv' /\ Grows(doc, doc')
  <1> DEFINE m == requests[call.ref].mission
  <1>1. /\ RegistryGood(doc) /\ RecordsGood(doc, requests) /\ SurfaceTyped(requests, call)
        /\ CallGood(doc, requests, call) /\ now \in Nat \ {None}
    BY DEF IInv
  <1>2. /\ call.op = "apply" /\ requests' = requests /\ now' = now
    BY DEF AttestApply
  <1>3. PICK result \in {"applied", "unknown", "refused"} :
          /\ call' = [op |-> "settle", ref |-> call.ref, ask |-> call.ask, result |-> result]
          /\ \/ doc' = doc /\ result # "applied"
             \/ /\ CanDecideAndSave(doc, m, call.ask, now)
                /\ doc' = DecideIn(doc, m, call.ask, now)
    BY DEF AttestApply
  <1>4. /\ call.ref \in HeldRefs(requests) /\ call.ask \in AttestedAsks
        /\ requests[call.ref].held
        /\ requests[call.ref][FieldOf(call.ask.kind)] = [state |-> "RESERVED", ask |-> call.ask]
    <2>1. call.ref \in HeldRefs(requests) /\ call.ask \in AttestedAsks
      BY <1>1, <1>2, CallStands
    <2> QED BY <1>1, <1>2, <2>1 DEF CallGood
  <1>5. /\ RegistryGood(doc') /\ RecordsGood(doc', requests) /\ Grows(doc, doc')
        /\ result = "applied" => Recorded(doc', m, call.ask.id)
    <2>1. CASE doc' = doc /\ result # "applied"
      BY <1>1, <2>1, FollowsSelf DEF Follows
    <2>2. CASE /\ CanDecideAndSave(doc, m, call.ask, now)
               /\ doc' = DecideIn(doc, m, call.ask, now)
      <3>1. CanDecide(doc, m, call.ask, now) /\ now \in Nat
        BY <1>1, <2>2 DEF CanDecideAndSave
      <3> QED BY <1>1, <1>2, <2>2, <3>1, RelayDecides
    <2> QED BY <1>3, <2>1, <2>2
  <1>6. /\ call'.op = "settle" /\ call'.ref = call.ref /\ call'.ask = call.ask
        /\ call'.result = result
    BY <1>3
  <1>7. call' \in Calls
    BY <1>3, <1>4 DEF Calls, HeldRefs
  <1>8. CallGood(doc', requests', call')
    BY <1>2, <1>4, <1>5, <1>6 DEF CallGood
  <1> QED BY <1>1, <1>2, <1>5, <1>7, <1>8 DEF IInv, SurfaceTyped

LEMMA AttestSettleKeeps ==
    ASSUME IInv, AttestSettle PROVE IInv' /\ Follows(doc, doc')
  <1> DEFINE m == requests[call.ref].mission
             f == FieldOf(call.ask.kind)
  <1>1. /\ RegistryGood(doc) /\ RecordsGood(doc, requests) /\ SurfaceTyped(requests, call)
        /\ CallGood(doc, requests, call)
    BY DEF IInv
  <1>2. /\ call.op = "settle" /\ doc' = doc /\ now' = now /\ call' = Idle
    BY DEF AttestSettle
  <1>3. PICK state \in {"APPLIED", "REFUSED", "HOLD"} :
          /\ CASE call.result = "applied" -> state = "APPLIED"
               [] call.result = "unknown" -> state = "HOLD"
               [] call.result = "refused" ->
                     state \in {"HOLD", IF Recorded(doc, m, call.ask.id)
                                        THEN "APPLIED" ELSE "REFUSED"}
          /\ requests' = [requests EXCEPT ![call.ref][f].state = state]
    BY DEF AttestSettle
  <1>4. /\ call.ref \in HeldRefs(requests) /\ f \in Fields
        /\ Standing(requests[call.ref][f]) /\ requests[call.ref][f].ask = call.ask
    BY <1>1, <1>2, CallStands
  <1>5. call.result \in {"applied", "unknown", "refused"}
    BY <1>1, <1>2 DEF SurfaceTyped, Calls, Idle
  <1>6. /\ state = "APPLIED" => Recorded(doc, m, call.ask.id)
        /\ state = "REFUSED" => ~Recorded(doc, m, call.ask.id)
    <2>1. call.result = "applied" => Recorded(doc, m, call.ask.id)
      BY <1>1, <1>2 DEF CallGood
    <2> QED BY <1>3, <1>5, <2>1
  <1> DEFINE r == call.ref
  <1>7. /\ r \in HeldRefs(requests) /\ f \in Fields /\ Standing(requests[r][f])
        /\ state = "APPLIED" => Recorded(doc, requests[r].mission, requests[r][f].ask.id)
        /\ state = "REFUSED" => ~Recorded(doc, requests[r].mission, requests[r][f].ask.id)
        /\ requests' = [requests EXCEPT ![r][f].state = state]
    BY <1>3, <1>4, <1>6
  <1> HIDE DEF f, r
  <1>8. requests' \in [Ref -> {NoRequest} \cup Records] /\ RecordsGood(doc, requests')
    BY <1>1, <1>7, AnswerSettled
  <1>9. call' \in Calls /\ CallGood(doc, requests', call')
    BY <1>2, IdleGood
  <1>10. Follows(doc, doc')
    BY <1>1, <1>2, FollowsSelf
  <1> QED BY <1>2, <1>8, <1>9, <1>10, RecordsSet

LEMMA ReconcileKeeps ==
    ASSUME IInv, NEW r \in Ref, NEW kind, Reconcile(r, kind)
    PROVE  IInv' /\ Follows(doc, doc')
  <1> DEFINE f == FieldOf(kind)
             settled == IF Recorded(doc, requests[r].mission, requests[r][f].ask.id)
                        THEN "APPLIED" ELSE "HOLD"
  <1>1. /\ RegistryGood(doc) /\ RecordsGood(doc, requests) /\ SurfaceTyped(requests, call)
    BY DEF IInv
  <1>2. /\ call = Idle /\ doc' = doc /\ now' = now /\ call' = call
        /\ requests[r].held /\ Unsettled(requests[r][f])
        /\ requests' = [requests EXCEPT ![r][f].state = settled]
    BY DEF Reconcile, Bound, Open
  <1>3. /\ r \in HeldRefs(requests) /\ f \in Fields /\ Standing(requests[r][f])
        /\ settled \in {"APPLIED", "REFUSED", "HOLD"}
        /\ settled = "APPLIED" => Recorded(doc, requests[r].mission, requests[r][f].ask.id)
        /\ settled = "REFUSED" => ~Recorded(doc, requests[r].mission, requests[r][f].ask.id)
    BY <1>2 DEF HeldRefs, FieldOf, Fields, Unsettled, Standing
  <1> HIDE DEF f, settled
  <1>4. requests' \in [Ref -> {NoRequest} \cup Records] /\ RecordsGood(doc, requests')
    BY <1>1, <1>2, <1>3, AnswerSettled
  <1>5. call' \in Calls /\ CallGood(doc, requests', call')
    BY <1>2, IdleGood
  <1>6. Follows(doc, doc')
    BY <1>1, <1>2, FollowsSelf
  <1> QED BY <1>2, <1>4, <1>5, <1>6, RecordsSet

LEMMA ApproveRefusedKeeps ==
    ASSUME IInv, NEW r \in Ref, ApproveRefused(r)
    PROVE  IInv' /\ Follows(doc, doc')
  <1>1. /\ RegistryGood(doc) /\ RecordsGood(doc, requests) /\ SurfaceTyped(requests, call)
    BY DEF IInv
  <1>2. /\ call = Idle /\ doc' = doc /\ now' = now /\ call' = call
        /\ requests[r].held /\ requests[r].state = "OPEN"
        /\ requests' = [requests EXCEPT ![r].refused = TRUE]
    BY DEF ApproveRefused, Open
  <1>3. r \in HeldRefs(requests) /\ requests[r] \in Records
    BY <1>1, <1>2, HeldRecord DEF HeldRefs
  <1> DEFINE x == requests[r]
  <1>4. [x EXCEPT !.refused = TRUE]
           = [x EXCEPT !.state = "OPEN", !.keyUsed = x.keyUsed, !.refused = TRUE]
        /\ x.keyUsed \in BOOLEAN
    <2>1. x \in Records /\ x.state = "OPEN"
      BY <1>2, <1>3
    <2> HIDE DEF x
    <2> QED BY <2>1 DEF Records
  <1>5. requests' = [requests EXCEPT ![r] = [requests[r] EXCEPT !.state = "OPEN",
                        !.keyUsed = requests[r].keyUsed, !.refused = TRUE]]
    BY <1>2, <1>4
  <1>6. requests' \in [Ref -> {NoRequest} \cup Records] /\ RecordsGood(doc, requests')
    <2> DEFINE used == requests[r].keyUsed
    <2>1. used \in BOOLEAN /\ requests' = [requests EXCEPT ![r] = [requests[r] EXCEPT !.state = "OPEN",
                        !.keyUsed = used, !.refused = TRUE]]
      BY <1>4, <1>5
    <2> HIDE DEF used
    <2> QED BY <1>1, <1>3, <2>1, StateWritten
  <1>7. call' \in Calls /\ CallGood(doc, requests', call')
    BY <1>2, IdleGood
  <1>8. Follows(doc, doc')
    BY <1>1, <1>2, FollowsSelf
  <1> QED BY <1>2, <1>6, <1>7, <1>8, RecordsSet

LEMMA CancelBeginKeeps ==
    ASSUME IInv, NEW r \in Ref, CancelBegin(r) PROVE IInv' /\ Follows(doc, doc')
  <1>1. RegistryGood(doc)
    BY DEF IInv
  <1>2. /\ call' = [op |-> "withdraw", ref |-> r] /\ doc' = doc /\ now' = now
        /\ requests' = requests /\ requests[r].held /\ requests[r].mission # None
    BY DEF CancelBegin, Bound, Open
  <1>3. call'.op = "withdraw" /\ call'.ref = r /\ call' \in Calls
    BY <1>2 DEF Calls
  <1>4. CallGood(doc', requests', call')
    BY <1>2, <1>3 DEF CallGood
  <1>5. Follows(doc, doc')
    BY <1>1, <1>2, FollowsSelf
  <1> QED BY <1>2, <1>3, <1>4, <1>5, CallSet

LEMMA CancelWithdrawKeeps ==
    ASSUME IInv, CancelWithdraw PROVE IInv' /\ Follows(doc, doc')
  <1> DEFINE entry == requests[call.ref]
             m == entry.mission
  <1>1. /\ RegistryGood(doc) /\ RecordsGood(doc, requests) /\ SurfaceTyped(requests, call)
        /\ CallGood(doc, requests, call) /\ now \in Nat /\ now # None
    BY DEF IInv
  <1>2. /\ call.op = "withdraw" /\ requests' = requests /\ now' = now
    BY DEF CancelWithdraw
  <1>3. /\ call.ref \in Ref /\ call \in [op : {"withdraw", "cancel"}, ref : Ref]
        /\ entry.held /\ m # None
    BY <1>1, <1>2 DEF SurfaceTyped, Calls, Idle, CallGood
  <1>4. m \in DOMAIN doc.missions
    <2>1. BindingGood(doc, entry)
      BY <1>1, <1>3 DEF RecordsGood, RecordGood, HeldRefs
    <2> QED BY <1>3, <2>1 DEF BindingGood
  <1>5. CASE CanWithdraw(doc, m, entry.request, now)
    <2>1. doc' = WithdrawIn(doc, m, now) /\ call' = [call EXCEPT !.op = "cancel"]
      BY <1>5 DEF CancelWithdraw
    <2>2. /\ RegistryGood(doc') /\ Grows(doc, doc')
          /\ m \in DOMAIN doc'.missions /\ doc'.missions[m].withdrawn # None
          /\ DOMAIN doc'.missions = DOMAIN doc.missions
          /\ \A k \in DOMAIN doc.missions : doc'.missions[k].decisions = doc.missions[k].decisions
      BY <1>1, <1>4, <1>5, <2>1, WithdrawKeeps
    <2>3. Follows(doc, doc')
      BY <1>1, <2>2, SameDecisions DEF Follows
    <2>4. call'.op = "cancel" /\ call'.ref = call.ref /\ call' \in Calls
      BY <1>3, <2>1 DEF Calls
    <2>5. CallGood(doc', requests', call')
      BY <1>2, <1>3, <2>2, <2>4 DEF CallGood
    <2> QED BY <1>2, <2>3, <2>4, <2>5, CallSet
  <1>6. CASE ~CanWithdraw(doc, m, entry.request, now)
    <2>1. doc' = doc /\ call' = Idle
      BY <1>6 DEF CancelWithdraw
    <2>2. Follows(doc, doc')
      BY <1>1, <2>1, FollowsSelf
    <2>3. call' \in Calls /\ CallGood(doc', requests', call')
      BY <2>1, IdleGood
    <2> QED BY <1>2, <2>2, <2>3, CallSet
  <1> QED BY <1>5, <1>6

LEMMA CancelSaveKeeps ==
    ASSUME IInv, CancelSave PROVE IInv' /\ Follows(doc, doc')
  <1> DEFINE r == call.ref
             x == requests[r]
             refused == x.refused
  <1>1. /\ RegistryGood(doc) /\ RecordsGood(doc, requests) /\ SurfaceTyped(requests, call)
        /\ CallGood(doc, requests, call)
    BY DEF IInv
  <1>2. /\ call.op = "cancel" /\ doc' = doc /\ now' = now /\ call' = Idle
        /\ requests' = [requests EXCEPT ![r].state = "CANCELLED", ![r].keyUsed = TRUE]
    BY DEF CancelSave
  <1>3. /\ r \in Ref /\ x.held /\ x.mission # None
        /\ doc.missions[x.mission].withdrawn # None
    BY <1>1, <1>2 DEF SurfaceTyped, Calls, Idle, CallGood
  <1>4. r \in HeldRefs(requests) /\ x \in Records /\ requests \in [Ref -> {NoRequest} \cup Records]
    BY <1>1, <1>3, HeldRecord DEF HeldRefs, SurfaceTyped
  <1>5. refused \in BOOLEAN
        /\ requests' = [requests EXCEPT ![r] = [requests[r] EXCEPT !.state = "CANCELLED",
                           !.keyUsed = TRUE, !.refused = refused]]
    <2>1. requests' = [requests EXCEPT ![r] =
                         [[requests[r] EXCEPT !.state = "CANCELLED"] EXCEPT !.keyUsed = TRUE]]
      <3> HIDE DEF r
      <3> QED BY <1>2, <1>3, <1>4
    <2>2. [[x EXCEPT !.state = "CANCELLED"] EXCEPT !.keyUsed = TRUE]
             = [x EXCEPT !.state = "CANCELLED", !.keyUsed = TRUE, !.refused = x.refused]
          /\ x.refused \in BOOLEAN
      <3>1. x \in Records
        BY <1>4
      <3> HIDE DEF x
      <3> QED BY <3>1 DEF Records
    <2> QED BY <2>1, <2>2
  <1> HIDE DEF refused, r
  <1>6. requests' \in [Ref -> {NoRequest} \cup Records] /\ RecordsGood(doc, requests')
    BY <1>1, <1>3, <1>4, <1>5, StateWritten
  <1>7. call' \in Calls /\ CallGood(doc, requests', call')
    BY <1>2, IdleGood
  <1>8. Follows(doc, doc')
    BY <1>1, <1>2, FollowsSelf
  <1> QED BY <1>2, <1>6, <1>7, <1>8, RecordsSet

LEMMA CrashKeeps == ASSUME IInv, Crash PROVE IInv' /\ Follows(doc, doc')
  <1>1. doc' = doc /\ now' = now /\ requests' = requests /\ call' = Idle
    BY DEF Crash
  <1>2. Follows(doc, doc')
    BY <1>1, FollowsSelf DEF IInv
  <1>3. call' \in Calls /\ CallGood(doc', requests', call')
    BY <1>1, IdleGood
  <1> QED BY <1>1, <1>2, <1>3, CallSet

-----------------------------------------------------------------------------
(* The theorems                                                            *)

LEMMA InitGood == Init => IInv
  <1> SUFFICES ASSUME Init PROVE IInv
    OBVIOUS
  <1>1. /\ doc = EmptyDoc /\ now = 1 /\ requests = [r \in Ref |-> NoRequest] /\ call = Idle
    BY DEF Init, LocalInit
  <1>2. doc.missions = <<>> /\ doc.authorizations = <<>>
    BY <1>1 DEF EmptyDoc
  <1>3. RegistryGood(doc)
    BY <1>1, EmptyStores
  <1>4. SurfaceTyped(requests, call) /\ CallGood(doc, requests, call)
    BY <1>1, IdleGood DEF SurfaceTyped
  <1>5. HeldRefs(requests) = {}
    BY <1>1 DEF HeldRefs, NoRequest
  <1>6. RecordsGood(doc, requests)
    BY <1>2, <1>5 DEF RecordsGood, IdsApart, RelayOwned
  <1>7. now \in Nat \ {None}
    BY <1>1 DEF None
  <1> QED BY <1>3, <1>4, <1>6, <1>7 DEF IInv

LEMMA LocalStepKeeps ==
    ASSUME IInv, LocalStep PROVE IInv' /\ Grows(doc, doc')
  <1>1. CASE AttestApply
    BY <1>1, AttestApplyKeeps
  <1>2. ASSUME NEW r \in Ref,
               \/ \E content \in Content : SubmitMint(r, content)
               \/ BindPropose(r)
               \/ Bound(r) /\ Attest(r)
               \/ \E kind \in {"APPROVE"} \cup AttestedOutcomes : Reconcile(r, kind)
               \/ ApproveRefused(r)
               \/ CancelBegin(r)
        PROVE  IInv' /\ Follows(doc, doc')
    BY <1>2, SubmitMintKeeps, BindProposeKeeps, AttestKeeps, ReconcileKeeps,
       ApproveRefusedKeeps, CancelBeginKeeps
  <1>3. CASE \/ SubmitSave \/ BindSave \/ AttestReserve \/ AttestSettle
             \/ CancelWithdraw \/ CancelSave \/ Crash
    <2>1. IInv' /\ Follows(doc, doc')
      BY <1>3, SubmitSaveKeeps, BindSaveKeeps, AttestReserveKeeps, AttestSettleKeeps,
         CancelWithdrawKeeps, CancelSaveKeeps, CrashKeeps
    <2> QED BY <2>1 DEF Follows
  <1> QED BY <1>1, <1>2, <1>3 DEF LocalStep, Follows

LEMMA StepKeeps ==
    ASSUME IInv, [Next]_vars PROVE IInv' /\ Grows(doc, doc')
  <1>1. CASE LocalStep
    BY <1>1, LocalStepKeeps
  <1>2. CASE HumanMint \/ Tick
    BY <1>2, HumanMintKeeps, TickKeeps DEF Follows
  <1>3. CASE \E m \in Missions, id \in DOMAIN doc.reservations : HumanDecide(m, id)
    BY <1>3, HumanDecideKeeps DEF Follows, Missions
  <1>4. CASE \E m \in Missions : Control(m)
    BY <1>4, ControlStepKeeps DEF Follows, Missions
  <1>5. CASE UNCHANGED vars
    <2>1. doc' = doc /\ now' = now /\ requests' = requests /\ call' = call
      BY <1>5 DEF vars
    <2>2. IInv'
      BY <2>1 DEF IInv
    <2>3. Grows(doc, doc')
      BY <2>1, GrowsSelf DEF IInv, RegistryGood
    <2> QED BY <2>2, <2>3
  <1> QED BY <1>1, <1>2, <1>3, <1>4, <1>5 DEF Next

\* What every reachable registry, and the surface's record beside it, satisfy: the
\* registry is well formed whatever calls interleave, and the surface's records and
\* its pending call speak truly of it.
THEOREM Invariance == Spec => []IInv
  <1>1. IInv /\ [Next]_vars => IInv'
    BY StepKeeps
  <1> QED BY InitGood, <1>1, PTL DEF Spec

\* A set no two members of which differ has at most one.
LEMMA AtMostOne ==
    ASSUME NEW S, \A x, y \in S : x = y
    PROVE  IsFiniteSet(S) /\ Cardinality(S) <= 1
  <1>1. CASE S = {}
    BY <1>1, FS_EmptySet
  <1>2. CASE S # {}
    <2>1. PICK x \in S : TRUE
      BY <1>2
    <2>2. S = {x}
      BY <2>1
    <2>3. IsFiniteSet({x}) /\ Cardinality({x}) = 1
      BY FS_Singleton
    <2>4. IsFiniteSet(S) /\ Cardinality(S) = 1
      BY <2>2, <2>3, Zenon
    <2> QED BY <2>4
  <1> QED BY <1>1, <1>2

LEMMA AuthorityOf ==
    ASSUME IInv, NEW m \in Missions
    PROVE  /\ \A a \in Unrevoked(m) :
                 /\ doc.authorizations[a].revision = Revision(doc.missions[m])
                 /\ doc.authorizations[a].content = Current(doc.missions[m])
           /\ Cardinality(Unrevoked(m)) <= 1
           /\ doc.missions[m].state = "AUTHORIZED" => Unrevoked(m) # {}
  <1> DEFINE x == doc.missions[m]
             s == x.authorizations
  <1>1. AuthorityGood(x, m, doc.authorizations)
    BY DEF IInv, RegistryGood, MissionGood, Missions
  <1>2. Unrevoked(m) = {a \in {s[n] : n \in DOMAIN s} : ~doc.authorizations[a].revoked}
    BY DEF Unrevoked, ToSet
  <1>3. ASSUME NEW a \in Unrevoked(m)
        PROVE  /\ a = s[Len(s)]
               /\ doc.authorizations[a].revision = Revision(x)
               /\ doc.authorizations[a].content = Current(x)
    BY <1>1, <1>2 DEF AuthorityGood
  <1>4. Cardinality(Unrevoked(m)) <= 1
    <2>1. \A a, b \in Unrevoked(m) : a = b
      BY <1>3
    <2> QED BY <2>1, AtMostOne
  <1>5. x.state = "AUTHORIZED" => Unrevoked(m) # {}
    BY <1>1, <1>2 DEF AuthorityGood
  <1> QED BY <1>3, <1>4, <1>5

\* Authority stands for the proposal of now: whatever edits, answers and controls
\* interleave, no two authorizations of a mission are live, the live one names the
\* current revision, and an authorized mission has one.
THEOREM AuthorityHolds == Spec => []AuthorityIsCurrent
  <1>1. IInv => AuthorityIsCurrent
    BY AuthorityOf DEF AuthorityIsCurrent
  <1> QED BY Invariance, <1>1, PTL

\* The record of what was decided is only added to, by every step of every caller.
THEOREM RecordGrows == Spec => RecordOnlyGrows
  <1> DEFINE Kept ==
        /\ IsPrefix(doc.ledger, doc'.ledger)
        /\ \A m \in Missions :
              /\ IsPrefix(doc.missions[m].decisions, doc'.missions[m].decisions)
              /\ IsPrefix(doc.missions[m].revisions, doc'.missions[m].revisions)
              /\ IsPrefix(doc.missions[m].authorizations, doc'.missions[m].authorizations)
              /\ doc.missions[m].withdrawn # None => doc'.missions[m] = doc.missions[m]
        /\ \A a \in DOMAIN doc.authorizations :
              /\ a \in DOMAIN doc'.authorizations
              /\ doc.authorizations[a].revoked => doc'.authorizations[a].revoked
        /\ \A i \in DOMAIN doc.reservations : ~Unconsumed(doc, i) =>
              doc'.reservations[i] = doc.reservations[i]
  <1>1. ASSUME IInv, [Next]_vars PROVE Kept
    <2>1. /\ doc \in Documents /\ doc' \in Documents /\ Grows(doc, doc')
      BY <1>1, StepKeeps DEF IInv, RegistryGood
    <2>2. IsPrefix(doc.ledger, doc'.ledger)
      <3>1. doc.ledger \in Seq(Entries) /\ doc'.ledger \in Seq(Entries)
        BY <2>1, DocumentParts
      <3> QED BY <2>1, <3>1, ExtendsPrefix DEF Grows
    <2>3. ASSUME NEW m \in Missions
          PROVE  /\ IsPrefix(doc.missions[m].decisions, doc'.missions[m].decisions)
                 /\ IsPrefix(doc.missions[m].revisions, doc'.missions[m].revisions)
                 /\ IsPrefix(doc.missions[m].authorizations, doc'.missions[m].authorizations)
                 /\ doc.missions[m].withdrawn # None => doc'.missions[m] = doc.missions[m]
      <3> DEFINE x == doc.missions[m]
                 y == doc'.missions[m]
      <3>1. m \in DOMAIN doc'.missions /\ MissionGrows(x, y)
        BY <2>1 DEF Grows, Missions
      <3>2. x \in MissionRecords /\ y \in MissionRecords
        BY <2>1, <3>1, DocumentParts DEF Missions
      <3> HIDE DEF x, y
      <3>3. /\ x.decisions \in Seq(Decisions) /\ y.decisions \in Seq(Decisions)
            /\ x.revisions \in Seq(Revisions) /\ y.revisions \in Seq(Revisions)
            /\ x.authorizations \in Seq(Nat) /\ y.authorizations \in Seq(Nat)
        BY <3>2 DEF MissionRecords
      <3>4. /\ IsPrefix(x.decisions, y.decisions) /\ IsPrefix(x.revisions, y.revisions)
            /\ IsPrefix(x.authorizations, y.authorizations)
        BY <3>1, <3>3, ExtendsPrefix DEF MissionGrows
      <3> QED BY <3>1, <3>4 DEF MissionGrows, x, y
    <2> QED BY <2>1, <2>2, <2>3 DEF Grows
  <1>2. IInv /\ [Next]_vars => [Kept]_doc
    BY <1>1
  <1> QED BY Invariance, <1>2, PTL DEF Spec, RecordOnlyGrows

-----------------------------------------------------------------------------
(* What the surface tells                                                  *)

LEMMA AnswersTrue ==
    ASSUME IInv, NEW r \in Ref, requests[r].held
    PROVE  AnswersAgree(r) /\ ApprovedAsShown(r)
  <1> DEFINE entry == requests[r]
  <1>1. \A f \in Fields : AttestationGood(doc, entry, f)
    BY DEF IInv, RecordsGood, RecordGood, HeldRefs
  <1>2. ASSUME NEW f \in Fields
        PROVE  /\ entry[f].state = "APPLIED" => Recorded(doc, entry.mission, entry[f].ask.id)
               /\ entry[f].state = "REFUSED" => ~Recorded(doc, entry.mission, entry[f].ask.id)
               /\ f = "approval" /\ entry[f].state = "APPLIED" =>
                     Grants(doc, entry.mission, entry[f].ask)
    <2>1. entry[f].state \in {"APPLIED", "REFUSED"} => entry[f] # NoAttestation
      BY DEF NoAttestation
    <2> QED BY <1>1, <2>1 DEF AttestationGood
  <1>3. "approval" \in Fields /\ "outcome" \in Fields
    BY DEF Fields
  <1>4. /\ entry["approval"].state = "APPLIED" => Recorded(doc, entry.mission, entry["approval"].ask.id)
        /\ entry["approval"].state = "REFUSED" => ~Recorded(doc, entry.mission, entry["approval"].ask.id)
        /\ entry["approval"].state = "APPLIED" => Grants(doc, entry.mission, entry["approval"].ask)
        /\ entry["outcome"].state = "APPLIED" => Recorded(doc, entry.mission, entry["outcome"].ask.id)
        /\ entry["outcome"].state = "REFUSED" => ~Recorded(doc, entry.mission, entry["outcome"].ask.id)
    BY <1>2, <1>3
  <1> QED BY <1>4 DEF AnswersAgree, ApprovedAsShown, Grants

LEMMA AnsweredAtMostOnce ==
    ASSUME IInv, NEW r \in Ref, requests[r].held
    PROVE  AnsweredOnce(r)
  <1> SUFFICES ASSUME requests[r].mission # None
               PROVE  Cardinality({decision \in DecisionsOf(doc, requests[r].mission) :
                                      decision.by = Relay}) <= 1
    BY DEF AnsweredOnce
  <1> DEFINE m == requests[r].mission
             s == doc.missions[m].decisions
             S == {decision \in DecisionsOf(doc, m) : decision.by = Relay}
  <1>1. /\ \A q \in HeldRefs(requests) : RecordGood(doc, requests[q])
        /\ IdsApart(requests) /\ RelayOwned(doc, requests)
    BY DEF IInv, RecordsGood
  <1>2. m \in DOMAIN doc.missions
    BY <1>1 DEF RecordGood, BindingGood, HeldRefs
  <1>3. DecisionsGood(doc.missions[m], doc.reservations)
    BY <1>2 DEF IInv, RegistryGood, MissionGood
  <1>4. ASSUME NEW k \in DOMAIN s, NEW n \in DOMAIN s, s[k].by = Relay, s[n].by = Relay
        PROVE  s[k] = s[n]
    <2>1. PICK p \in HeldRefs(requests), f \in Fields :
            /\ requests[p].mission = m /\ Standing(requests[p][f])
            /\ requests[p][f].ask.id = s[k].id
      BY <1>1, <1>2, <1>4 DEF RelayOwned
    <2>2. PICK q \in HeldRefs(requests), g \in Fields :
            /\ requests[q].mission = m /\ Standing(requests[q][g])
            /\ requests[q][g].ask.id = s[n].id
      BY <1>1, <1>2, <1>4 DEF RelayOwned
    <2>3. m # None
      OBVIOUS
    <2>4. p = q
      <3>1. /\ doc.missions[m].request = requests[p].request
            /\ doc.missions[m].request = requests[q].request
        <4> HIDE DEF m
        <4> QED BY <1>1, <2>1, <2>2, <2>3 DEF RecordGood, BindingGood
      <3> QED BY <1>1, <3>1 DEF IdsApart
    <2>5. f = g
      <3>1. ~(Standing(requests[p]["approval"]) /\ Standing(requests[p]["outcome"]))
        BY <1>1 DEF RecordGood, BindingGood
      <3>2. f \in {"approval", "outcome"} /\ g \in {"approval", "outcome"}
        BY DEF Fields
      <3>3. CASE f = "approval" /\ g = "outcome"
        BY <2>1, <2>2, <2>4, <3>1, <3>3
      <3>4. CASE f = "outcome" /\ g = "approval"
        BY <2>1, <2>2, <2>4, <3>1, <3>4
      <3> QED BY <3>2, <3>3, <3>4
    <2>6. s[k].id = s[n].id
      BY <2>1, <2>2, <2>4, <2>5
    <2> QED BY <1>3, <2>6 DEF DecisionsGood
  <1>5. \A x, y \in S : x = y
    BY <1>4 DEF DecisionsOf
  <1> HIDE DEF S
  <1>6. Cardinality(S) <= 1
    BY <1>5, AtMostOne
  <1> QED BY <1>6 DEF S

LEMMA CancelledNeverDecided ==
    ASSUME IInv, NEW r \in Ref, requests[r].held
    PROVE  CancelledUndecided(r)
  <1> SUFFICES ASSUME requests[r].state = "CANCELLED"
               PROVE  MissionOf(r).withdrawn # None /\ MissionOf(r).decisions = <<>>
    BY DEF CancelledUndecided
  <1>1. /\ requests[r].mission \in DOMAIN doc.missions /\ MissionOf(r).withdrawn # None
    BY DEF IInv, RecordsGood, RecordGood, BindingGood, HeldRefs, MissionOf
  <1>2. StateGood(MissionOf(r))
    BY <1>1 DEF IInv, RegistryGood, MissionGood, MissionOf
  <1> QED BY <1>1, <1>2 DEF StateGood

\* Whatever crashes, lost answers, refusals and edits come between, what the surface
\* tells of a request is what Mission Core holds, and an answer is relayed once.
THEOREM SurfaceTruthful == Spec => []SurfaceTells
  <1>1. IInv => SurfaceTells
    BY AnswersTrue, AnsweredAtMostOnce, CancelledNeverDecided DEF SurfaceTells
  <1> QED BY Invariance, <1>1, PTL
-----------------------------------------------------------------------------
(* What a later load accepts                                               *)

\* A decision of the approver, or of the relay, is taken as the core takes any.
LEMMA HumanDecideStores ==
    ASSUME IInv, StoreGood(doc), NEW m \in DOMAIN doc.missions,
           NEW id \in DOMAIN doc.reservations, HumanDecide(m, id)
    PROVE  StoreGood(doc')
  <1>1. RegistryGood(doc) /\ now \in Nat /\ id \in Nat
    BY DocumentParts DEF IInv, RegistryGood
  <1>2. PICK ask \in HumanAsks(id) :
          /\ CanDecideAndSave(doc, m, ask, now) /\ doc' = DecideIn(doc, m, ask, now)
    BY DEF HumanDecide
  <1>3. ask \in AnyAsks /\ (ask.kind = "EDIT" => ask.content \in Content)
    BY <1>1, HumanAsksTyped
  <1>4. CanDecide(doc, m, ask, now)
    BY <1>2 DEF CanDecideAndSave
  <1> QED BY <1>1, <1>2, <1>3, <1>4, DecideStores

LEMMA AttestApplyStores ==
    ASSUME IInv, StoreGood(doc), AttestApply
    PROVE  StoreGood(doc')
  <1> DEFINE m == requests[call.ref].mission
  <1>1. /\ RegistryGood(doc) /\ RecordsGood(doc, requests) /\ SurfaceTyped(requests, call)
        /\ CallGood(doc, requests, call) /\ now \in Nat /\ call.op = "apply"
    BY DEF IInv, AttestApply
  <1>2. \/ doc' = doc
        \/ CanDecideAndSave(doc, m, call.ask, now) /\ doc' = DecideIn(doc, m, call.ask, now)
    BY DEF AttestApply
  <1>3. call.ask \in AttestedAsks /\ m \in DOMAIN doc.missions
    BY <1>1, CallStands
  <1>4. call.ask \in AnyAsks /\ call.ask.kind # "EDIT"
    BY <1>3 DEF AttestedAsks, AnyAsks, AttestedOutcomes, DecisionKinds, Contexts, Scopes, None
  <1> HIDE DEF m
  <1>5. CASE CanDecideAndSave(doc, m, call.ask, now) /\ doc' = DecideIn(doc, m, call.ask, now)
    <2>1. CanDecide(doc, m, call.ask, now)
      BY <1>5 DEF CanDecideAndSave
    <2> QED BY <1>1, <1>3, <1>4, <1>5, <2>1, DecideStores
  <1> QED BY <1>2, <1>5

LEMMA BindProposeStores ==
    ASSUME IInv, StoreGood(doc), NEW r \in Ref, BindPropose(r)
    PROVE  StoreGood(doc')
  <1> DEFINE entry == requests[r]
  <1>1. /\ RegistryGood(doc) /\ RecordsGood(doc, requests) /\ SurfaceTyped(requests, call)
    BY DEF IInv
  <1>2. /\ entry.held
        /\ \/ /\ CanPropose(doc, entry.request, LocalCaller)
              /\ doc' = ProposeIn(doc, entry.request, LocalCaller, entry.content,
                                  entry.keyExpires)
           \/ doc' = doc
    BY DEF BindPropose, Open
  <1>3. entry \in Records
    <2>1. r \in HeldRefs(requests)
      BY <1>2 DEF HeldRefs
    <2> QED BY <1>1, <2>1, HeldRecord
  <1>4. LocalCaller \in Contexts /\ entry.content \in Content /\ entry.keyExpires \in Nat
    BY <1>3 DEF Contexts, Records
  <1> HIDE DEF entry
  <1> QED BY <1>1, <1>2, <1>4, ProposeStores

LEMMA CancelWithdrawStores ==
    ASSUME IInv, StoreGood(doc), CancelWithdraw
    PROVE  StoreGood(doc')
  <1> DEFINE entry == requests[call.ref]
             m == entry.mission
  <1>1. /\ RegistryGood(doc) /\ RecordsGood(doc, requests) /\ SurfaceTyped(requests, call)
        /\ CallGood(doc, requests, call) /\ now \in Nat /\ now # None /\ call.op = "withdraw"
    BY DEF IInv, CancelWithdraw
  <1>2. \/ CanWithdraw(doc, m, entry.request, now) /\ doc' = WithdrawIn(doc, m, now)
        \/ doc' = doc
    BY DEF CancelWithdraw
  <1>3. m \in DOMAIN doc.missions
    <2>1. call.ref \in Ref /\ entry.held /\ m # None
      BY <1>1 DEF SurfaceTyped, Calls, Idle, CallGood
    <2>2. BindingGood(doc, entry)
      BY <1>1, <2>1 DEF RecordsGood, RecordGood, HeldRefs
    <2> QED BY <2>1, <2>2 DEF BindingGood
  <1> HIDE DEF m
  <1> QED BY <1>1, <1>2, <1>3, WithdrawStores

LEMMA MintStores ==
    ASSUME IInv, StoreGood(doc), NEW kind \in {"request", "decision"}, NEW context \in Contexts,
           doc' = ReserveIn(doc, kind, context)
    PROVE  StoreGood(doc')
  BY ReserveStores DEF IInv

\* Every other step of the surface writes the surface's own records, never the registry.
LEMMA StepStores ==
    ASSUME IInv, StoreGood(doc), [Next]_vars
    PROVE  StoreGood(doc')
  <1>1. CASE \E m \in Missions, id \in DOMAIN doc.reservations : HumanDecide(m, id)
    BY <1>1, HumanDecideStores DEF Missions
  <1>2. CASE \E m \in Missions : Control(m)
    <2>1. PICK m \in DOMAIN doc.missions : Control(m)
      BY <1>2 DEF Missions
    <2>2. doc' \in RecordPause(doc, m, BoundAuthorization(doc.missions[m]))
                   \cup RecordResume(doc, m, BoundAuthorization(doc.missions[m]))
                   \cup RecordCancel(doc, m, "cancelled_before_intent",
                                     BoundAuthorization(doc.missions[m]))
                   \cup CompleteCancel(doc, m, "nothing_started",
                                       BoundAuthorization(doc.missions[m]))
      BY <2>1 DEF Control
    <2>3. RegistryGood(doc)
      BY DEF IInv
    <2> QED BY <2>2, <2>3, ControlStores
  <1>3. CASE AttestApply
    BY <1>3, AttestApplyStores
  <1>4. CASE CancelWithdraw
    BY <1>4, CancelWithdrawStores
  <1>5. CASE \E r \in Ref : BindPropose(r)
    BY <1>5, BindProposeStores
  <1>6. CASE \/ HumanMint
             \/ \E r \in Ref, content \in Content : SubmitMint(r, content)
             \/ \E r \in Ref : Attest(r)
    <2>1. \E kind \in {"request", "decision"}, context \in Contexts :
             doc' = ReserveIn(doc, kind, context)
      BY <1>6 DEF HumanMint, SubmitMint, Attest, AttestMint, Contexts
    <2> QED BY <2>1, MintStores
  <1>7. CASE \/ Tick \/ SubmitSave \/ BindSave \/ AttestReserve \/ AttestSettle \/ CancelSave
             \/ Crash \/ UNCHANGED vars
             \/ \E r \in Ref :
                   \/ \E kind \in {"APPROVE"} \cup AttestedOutcomes : Reconcile(r, kind)
                   \/ ApproveRefused(r) \/ CancelBegin(r)
    <2>1. doc' = doc
      BY <1>7 DEF Tick, SubmitSave, BindSave, AttestReserve, AttestSettle, CancelSave, Crash,
                  Reconcile, ApproveRefused, CancelBegin, vars
    <2> QED BY <2>1
  <1> QED BY <1>1, <1>2, <1>3, <1>4, <1>5, <1>6, <1>7 DEF Next, LocalStep

LEMMA InitStores == Init => StoreGood(doc)
  BY EmptyStores DEF Init, LocalInit

\* Whatever calls, crashes and refusals interleave, a later load accepts the document:
\* what every step saves is what replaying the decisions gives, so that a mission's
\* state, its authorizations, their revocations and its part of the ledger are never
\* at odds with the decisions stored beside them.
THEOREM StoreIsAccepted == Spec => []StoreAccepted
  <1> DEFINE Both == IInv /\ StoreGood(doc)
  <1>1. Init => Both
    BY InitGood, InitStores
  <1>2. Both /\ [Next]_vars => Both'
    BY StepKeeps, StepStores
  <1>3. Both => StoreAccepted
    BY StoreAcceptable DEF IInv, StoreAccepted, Missions
  <1> HIDE DEF Both
  <1> QED BY <1>1, <1>2, <1>3, PTL DEF Spec
=============================================================================
