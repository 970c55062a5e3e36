------------------------ MODULE DeliveryStore_proofs ------------------------
(***************************************************************************)
(* For every bound on the store and every set of overlapping ceremonies:   *)
(* a presented proposal authorizes at most one delivery.                   *)
(*                                                                         *)
(* The one-shot check only reads what the store still holds, so the        *)
(* invariant is about the history: until its deadline, the record a        *)
(* proposal was minted into is present.  That survives capacity eviction   *)
(* because the eviction compares the same deadline with a time the         *)
(* ceremony read no later than now.                                        *)
(***************************************************************************)
EXTENDS DeliveryStore, TLAPS

-----------------------------------------------------------------------------
(* The invariant *)

\* An attested record expires with its proposal, and counts as its mint.
SourcesGood ==
    \A i \in Ids : source[i] \in Proposals =>
        /\ deadline[source[i]] \in Nat
        /\ until[i] = deadline[source[i]]
        /\ minted[source[i]] >= 1

\* Only a delivery that was minted is stored or worked on.
RecordsGood ==
    /\ \A i \in Present : source[i] # None
    /\ \A d \in Drivers : copy[d] # None => source[copy[d]] # None

\* A ceremony began no later than now; an attested one was presented.
CallsGood ==
    \A c \in Callers : call[c] # None =>
        /\ call[c].now <= clock
        /\ call[c].source \in Proposals => deadline[call[c].source] \in Nat

MintedGood == \A p \in Proposals : minted[p] > 0 => deadline[p] \in Nat

IInv ==
    /\ TypeOK /\ SourcesGood /\ RecordsGood /\ CallsGood /\ MintedGood
    /\ OneShot /\ HistoryKept

-----------------------------------------------------------------------------
(* Capacity *)

\* What a mint evicts is terminal, and its proposal's deadline has passed.
LEMMA EvictsSafely ==
  ASSUME IInv, NEW now \in Nat, now <= clock,
         NEW evicted \in Pruned(now), NEW i \in evicted
  PROVE  /\ i \in Ids /\ store[i] = "terminal"
         /\ source[i] \in Proposals => deadline[source[i]] <= clock
  <1>1. i \in Evictable(now)
    BY DEF Pruned
  <1>2. i \in Ids /\ store[i] = "terminal" /\ ~IsReplayProtected(i, now)
    BY <1>1 DEF Evictable, Present
  <1>3. ASSUME source[i] \in Proposals PROVE deadline[source[i]] <= clock
    <2>1. until[i] = deadline[source[i]] /\ deadline[source[i]] \in Nat
      BY <1>2, <1>3 DEF IInv, SourcesGood
    <2>2. ~(now < until[i])
      BY <1>2, <1>3 DEF IsReplayProtected
    <2>3. clock \in Nat
      BY TimesAssumption DEF IInv, TypeOK
    <2> QED
      BY <2>1, <2>2, <2>3
  <1> QED
    BY <1>2, <1>3

-----------------------------------------------------------------------------
(* The steps *)

LEMMA InitHolds == Init => IInv
  <1> SUFFICES ASSUME Init PROVE IInv
    OBVIOUS
  <1>1. TypeOK
    BY TimesAssumption DEF Init, TypeOK, Times
  <1> QED
    BY <1>1, NoneAssumption
    DEF Init, IInv, SourcesGood, RecordsGood, CallsGood, MintedGood, OneShot,
        HistoryKept, Present

\* Nothing but the mint touches the counts, the sources and the expiries.
LEMMA PresentationHolds ==
  ASSUME IInv, NEW p \in Proposals, PresentProposal(p) PROVE IInv'
  <1> USE DEF PresentProposal
  <1>1. clock + Validity \in Times /\ clock + Validity \in Nat /\ clock \in Nat
    BY TimesAssumption DEF IInv, TypeOK, Times
  <1>2. TypeOK'
    BY <1>1 DEF IInv, TypeOK
  <1>3. deadline[p] \notin Nat
    BY NoneAssumption
  <1>4. minted[p] = 0 /\ \A i \in Ids : source[i] # p
    BY <1>3 DEF IInv, TypeOK, MintedGood, SourcesGood
  <1>5. \A q \in Proposals : q # p => deadline'[q] = deadline[q]
    BY DEF IInv, TypeOK
  <1>6. SourcesGood' /\ MintedGood' /\ OneShot'
    BY <1>4, <1>5 DEF IInv, SourcesGood, MintedGood, OneShot
  <1>7. RecordsGood'
    BY DEF IInv, RecordsGood, Present
  <1>8. CallsGood'
    BY <1>1, <1>3, <1>5 DEF IInv, CallsGood, TypeOK
  <1>9. HistoryKept'
    BY <1>4, <1>5 DEF IInv, HistoryKept, Present
  <1> QED
    BY <1>2, <1>6, <1>7, <1>8, <1>9 DEF IInv

LEMMA BeginHolds ==
  ASSUME IInv, NEW c \in Callers, NEW s \in Sources, Begin(c, s) PROVE IInv'
  <1> USE DEF Begin
  <1>1. clock \in Times /\ clock \in Nat
    BY TimesAssumption DEF IInv, TypeOK, Times
  <1>2. TypeOK'
    BY <1>1 DEF IInv, TypeOK
  <1>3. s \in Proposals => deadline[s] \in Nat
    BY TimesAssumption DEF IInv, TypeOK, Times
  <1>4. CallsGood'
    BY <1>1, <1>3 DEF IInv, CallsGood, TypeOK
  <1> QED
    BY <1>2, <1>4
    DEF IInv, SourcesGood, RecordsGood, MintedGood, OneShot, HistoryKept, Present

LEMMA AbandonHolds ==
  ASSUME IInv, NEW c \in Callers, Abandon(c) PROVE IInv'
  BY DEF Abandon, IInv, TypeOK, SourcesGood, RecordsGood, CallsGood, MintedGood,
         OneShot, HistoryKept, Present

LEMMA MintHolds ==
  ASSUME IInv, NEW c \in Callers, NEW i \in Ids, Mint(c, i) PROVE IInv'
  <1> DEFINE s == call[c].source
             now == call[c].now
  <1>1. /\ call[c] # None /\ source[i] = None
        /\ call[c] \in [source : Sources, now : Times]
    BY DEF Mint, IInv, TypeOK
  <1>2. s \in Sources /\ now \in Nat /\ now \in Times /\ now <= clock /\ clock \in Nat
    BY <1>1, TimesAssumption DEF IInv, CallsGood, TypeOK, Times
  <1>3. PICK evicted \in Pruned(now) :
          store' = [j \in Ids |-> IF j = i THEN "active"
                                  ELSE IF j \in evicted THEN None ELSE store[j]]
    BY DEF Mint
  <1>4. /\ MayMint(s)
        /\ source' = [source EXCEPT ![i] = s]
        /\ at' = [at EXCEPT ![i] = now]
        /\ until' = [until EXCEPT ![i] =
                       IF s \in Proposals THEN deadline[s] ELSE now + Validity]
        /\ minted' = IF s \in Proposals THEN [minted EXCEPT ![s] = @ + 1] ELSE minted
        /\ call' = [call EXCEPT ![c] = None]
        /\ UNCHANGED <<clock, deadline, copy>>
    BY DEF Mint
  <1> HIDE DEF s, now
  <1>5. s \in Proposals => deadline[s] \in Nat /\ deadline[s] \in Times
    BY <1>1, NoneAssumption DEF IInv, CallsGood, TypeOK, s
  <1>6. s # None
    BY <1>2, NoneAssumption DEF Sources
  <1>7. s \in Proposals => minted[s] = 0
    <2> SUFFICES ASSUME s \in Proposals, minted[s] # 0 PROVE FALSE
      OBVIOUS
    <2>1. minted[s] > 0
      BY DEF IInv, TypeOK
    <2>2. clock < deadline[s] /\ \A j \in Present : source[j] # s
      BY <1>4 DEF MayMint
    <2> QED
      BY <2>1, <2>2 DEF IInv, HistoryKept
  <1>8. TypeOK'
    <2>1. now + Validity \in Nat
      BY <1>2, TimesAssumption
    <2>2. clock <= MaxTime
      BY TimesAssumption DEF IInv, TypeOK
    <2>3. now + Validity \in Times
      BY <1>2, <2>1, <2>2, TimesAssumption DEF Times
    <2>4. until' \in [Ids -> Times] /\ at' \in [Ids -> Times]
      BY <1>2, <1>4, <1>5, <2>3 DEF IInv, TypeOK
    <2>5. source' \in [Ids -> Sources \cup {None}] /\ store' \in [Ids -> {None, "active", "terminal"}]
      BY <1>2, <1>3, <1>4 DEF IInv, TypeOK
    <2>6. minted' \in [Proposals -> Nat]
      BY <1>4 DEF IInv, TypeOK
    <2> QED
      BY <1>4, <2>4, <2>5, <2>6 DEF IInv, TypeOK
  <1>9. \A j \in Ids : j # i => source'[j] = source[j] /\ until'[j] = until[j]
    BY <1>4 DEF IInv, TypeOK
  <1>10. /\ source'[i] = s
         /\ until'[i] = IF s \in Proposals THEN deadline[s] ELSE now + Validity
    BY <1>4 DEF IInv, TypeOK
  <1>11. \A p \in Proposals :
           minted'[p] = IF p = s THEN minted[p] + 1 ELSE minted[p]
    BY <1>4 DEF IInv, TypeOK
  <1>12. SourcesGood'
    <2> SUFFICES ASSUME NEW j \in Ids, source'[j] \in Proposals
                 PROVE  /\ deadline[source'[j]] \in Nat
                        /\ until'[j] = deadline[source'[j]]
                        /\ minted'[source'[j]] >= 1
      BY <1>4 DEF SourcesGood
    <2>1. CASE j = i
      BY <2>1, <1>5, <1>7, <1>10, <1>11
    <2>2. CASE j # i
      <3>1. /\ source[j] \in Proposals /\ deadline[source[j]] \in Nat
            /\ until[j] = deadline[source[j]] /\ minted[source[j]] >= 1
        BY <2>2, <1>9 DEF IInv, SourcesGood
      <3>2. minted[source[j]] \in Nat
        BY <3>1 DEF IInv, TypeOK
      <3> QED
        BY <2>2, <3>1, <3>2, <1>9, <1>11
    <2> QED
      BY <2>1, <2>2
  <1>13. RecordsGood'
    <2>1. \A j \in Present' : source'[j] # None
      BY <1>3, <1>6, <1>9, <1>10 DEF Present, IInv, RecordsGood
    <2>2. \A d \in Drivers : copy'[d] # None => source'[copy'[d]] # None
      BY <1>4, <1>6 DEF IInv, RecordsGood, TypeOK
    <2> QED
      BY <2>1, <2>2 DEF RecordsGood
  <1>14. CallsGood'
    BY <1>4 DEF IInv, CallsGood, TypeOK
  <1>15. MintedGood'
    BY <1>4, <1>5, <1>11 DEF IInv, MintedGood
  <1>16. OneShot'
    BY <1>7, <1>11 DEF IInv, OneShot
  <1>17. HistoryKept'
    <2> SUFFICES ASSUME NEW p \in Proposals, minted'[p] > 0, clock < deadline[p]
                 PROVE  \E j \in Ids : store'[j] # None /\ source'[j] = p
      BY <1>4 DEF HistoryKept, Present
    <2>1. CASE p = s
      BY <2>1, <1>3, <1>10, NoneAssumption
    <2>2. CASE p # s
      <3>1. PICK j \in Present : source[j] = p
        BY <2>2, <1>11 DEF IInv, HistoryKept
      <3>2. j \in Ids /\ store[j] # None /\ j # i
        BY <3>1, <1>1, NoneAssumption DEF Present
      <3>3. j \notin evicted
        <4> SUFFICES ASSUME j \in evicted PROVE FALSE
          OBVIOUS
        <4>1. deadline[p] <= clock
          BY <3>1, <1>2, EvictsSafely
        <4>2. deadline[p] \in Nat
          BY <3>1, <3>2 DEF IInv, SourcesGood
        <4> QED
          BY <4>1, <4>2, <1>2
      <3> QED
        BY <3>1, <3>2, <3>3, <1>3, <1>9
    <2> QED
      BY <2>1, <2>2
  <1> QED
    BY <1>8, <1>12, <1>13, <1>14, <1>15, <1>16, <1>17 DEF IInv

\* A driver loads, saves or ends; a record that is present stays present.
LEMMA DriverHolds ==
  ASSUME IInv, NEW d \in Drivers,
         \/ \E i \in Ids : Load(d, i)
         \/ \E phase \in {"active", "terminal"} : Persist(d, phase)
         \/ Leave(d)
  PROVE  IInv'
  <1>1. ASSUME NEW i \in Ids, Load(d, i) PROVE IInv'
    <2>1. i \in Present /\ source[i] # None
      BY <1>1, NoneAssumption DEF Load, Present, IInv, RecordsGood
    <2> QED
      BY <1>1, <2>1
      DEF Load, IInv, TypeOK, SourcesGood, RecordsGood, CallsGood, MintedGood,
          OneShot, HistoryKept, Present
  <1>2. ASSUME NEW phase \in {"active", "terminal"}, Persist(d, phase) PROVE IInv'
    <2>1. copy[d] \in Ids /\ source[copy[d]] # None /\ phase # None
      BY <1>2, NoneAssumption DEF Persist, IInv, TypeOK, RecordsGood
    <2>2. /\ store' \in [Ids -> {None, "active", "terminal"}]
          /\ \A i \in Ids : store'[i] # None => store[i] # None \/ i = copy[d]
          /\ \A i \in Ids : store[i] # None => store'[i] # None
      BY <1>2, <2>1 DEF Persist, IInv, TypeOK
    <2>3. /\ copy' \in [Drivers -> Ids \cup {None}]
          /\ \A e \in Drivers : copy'[e] # None => copy'[e] = copy[e]
      BY <1>2 DEF Persist, IInv, TypeOK
    <2>4. UNCHANGED <<clock, deadline, call, source, at, until, minted>>
      BY <1>2 DEF Persist
    <2>5. TypeOK'
      BY <2>2, <2>3, <2>4 DEF IInv, TypeOK
    <2>6. RecordsGood'
      BY <2>1, <2>2, <2>3, <2>4 DEF IInv, RecordsGood, Present
    <2>7. HistoryKept'
      BY <2>2, <2>4 DEF IInv, HistoryKept, Present
    <2> QED
      BY <2>4, <2>5, <2>6, <2>7
      DEF IInv, SourcesGood, CallsGood, MintedGood, OneShot
  <1>3. ASSUME Leave(d) PROVE IInv'
    BY <1>3
    DEF Leave, IInv, TypeOK, SourcesGood, RecordsGood, CallsGood, MintedGood,
        OneShot, HistoryKept, Present
  <1> QED
    BY <1>1, <1>2, <1>3

LEMMA RevokeHolds ==
  ASSUME IInv, NEW i \in Ids, Revoke(i) PROVE IInv'
  BY NoneAssumption
  DEF Revoke, IInv, TypeOK, SourcesGood, RecordsGood, CallsGood, MintedGood,
      OneShot, HistoryKept, Present

LEMMA TickHolds == ASSUME IInv, Tick PROVE IInv'
  <1>1. clock' = clock + 1 /\ clock \in Nat /\ clock' \in 0 .. MaxTime
    BY TimesAssumption DEF Tick, IInv, TypeOK
  <1>2. UNCHANGED <<deadline, call, store, source, at, until, copy, minted>>
    BY DEF Tick
  <1>3. TypeOK'
    BY <1>1, <1>2 DEF IInv, TypeOK
  <1>4. \A c \in Callers : call[c] # None => call[c].now \in Nat
    BY DEF IInv, TypeOK, Times
  <1>5. CallsGood'
    BY <1>1, <1>2, <1>4 DEF IInv, CallsGood
  <1>6. HistoryKept'
    <2> SUFFICES ASSUME NEW p \in Proposals, minted[p] > 0, clock' < deadline[p]
                 PROVE  \E j \in Present : source[j] = p
      BY <1>2 DEF HistoryKept, Present
    <2>1. deadline[p] \in Nat
      BY DEF IInv, MintedGood
    <2> QED
      BY <1>1, <2>1 DEF IInv, HistoryKept
  <1> QED
    BY <1>2, <1>3, <1>5, <1>6
    DEF IInv, SourcesGood, RecordsGood, MintedGood, OneShot, Present

LEMMA StepHolds == IInv /\ [Next]_vars => IInv'
  <1> SUFFICES ASSUME IInv, [Next]_vars PROVE IInv'
    OBVIOUS
  <1>1. CASE UNCHANGED vars
    BY <1>1
    DEF vars, IInv, TypeOK, SourcesGood, RecordsGood, CallsGood, MintedGood,
        OneShot, HistoryKept, Present
  <1>2. CASE Next
    BY <1>2, PresentationHolds, BeginHolds, AbandonHolds, MintHolds, DriverHolds,
       RevokeHolds, TickHolds
    DEF Next
  <1> QED
    BY <1>1, <1>2

-----------------------------------------------------------------------------
(* The theorems *)

THEOREM Invariance == Spec => []IInv
  BY InitHolds, StepHolds, PTL DEF Spec

\* A presented proposal authorizes at most one delivery, for every capacity of
\* the store and every overlap of ceremonies (_mint, _prune_inactive).
THEOREM OneShotHolds == Spec => []OneShot
  <1>1. IInv => OneShot
    BY DEF IInv
  <1> QED
    BY <1>1, Invariance, PTL

\* Until its deadline the record that refuses a replay is in the store
\* (is_replay_protected, _prune_inactive).
THEOREM HistoryHolds == Spec => []HistoryKept
  <1>1. IInv => HistoryKept
    BY DEF IInv
  <1> QED
    BY <1>1, Invariance, PTL

\* No step of a ceremony or a driver removes an active record (add_delivery).
THEOREM ActiveHolds == Spec => [][ActiveStays]_vars
  <1>1. IInv /\ [Next]_vars => [ActiveStays]_vars
    <2> SUFFICES ASSUME IInv, Next, NEW i \in Ids, store[i] = "active"
                 PROVE  store'[i] # None
      BY DEF vars, ActiveStays
    <2>1. store[i] # None /\ store \in [Ids -> {None, "active", "terminal"}]
      BY NoneAssumption DEF IInv, TypeOK
    <2>2. ASSUME NEW c \in Callers, NEW k \in Ids, Mint(c, k) PROVE store'[i] # None
      <3>1. call[c].now \in Nat /\ call[c].now <= clock
        BY <2>2 DEF Mint, IInv, TypeOK, CallsGood, Times
      <3>2. PICK evicted \in Pruned(call[c].now) :
              store' = [j \in Ids |-> IF j = k THEN "active"
                                      ELSE IF j \in evicted THEN None ELSE store[j]]
        BY <2>2 DEF Mint
      <3>3. i \notin evicted
        BY <3>1, EvictsSafely
      <3> QED
        BY <2>1, <3>2, <3>3, NoneAssumption
    <2>3. ASSUME NEW d \in Drivers, NEW phase \in {"active", "terminal"},
                 Persist(d, phase)
          PROVE  store'[i] # None
      BY <2>1, <2>3, NoneAssumption DEF Persist
    <2>4. ASSUME NEW k \in Ids, Revoke(k) PROVE store'[i] # None
      BY <2>1, <2>4, NoneAssumption DEF Revoke
    <2>5. store' = store => store'[i] # None
      BY <2>1
    <2> QED
      BY <2>2, <2>3, <2>4, <2>5
      DEF Next, PresentProposal, Begin, Abandon, Load, Leave, Tick
  <1> QED
    BY <1>1, Invariance, PTL DEF Spec

\* What _prune evicts to make room is never the history that refuses a replay, and
\* never an active record.
THEOREM EvictionKeepsHolds == Spec => EvictionKeeps
  BY HistoryHolds, ActiveHolds, PTL DEF EvictionKeeps
=============================================================================
