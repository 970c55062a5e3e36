--------------------------- MODULE DeliveryStore ---------------------------
(***************************************************************************)
(* The PR delivery store (src/pr_delivery/store.py) and the ceremonies     *)
(* that add records to it (src/pr_delivery/cli.py): a bounded set of       *)
(* records that forgets settled deliveries to make room, and that is at    *)
(* the same time the only history that makes a presented proposal          *)
(* authorize once.                                                         *)
(*                                                                         *)
(* The parts of a record that never change after the mint (its proposal,   *)
(* its authorization time, its deadline) are kept per delivery id.  Every  *)
(* load-modify-save runs under the store lock and is one action; the time  *)
(* a ceremony reads at its start is kept until its mint.                   *)
(***************************************************************************)
EXTENDS Naturals, FiniteSets

CONSTANTS
    Ids,         \* delivery ids; a mint takes a fresh one
    Proposals,   \* proposals presented for an operator-attested reply
    Local,       \* the source of a delivery authorized at a terminal
    None,        \* no record, no ceremony, not presented
    Callers,     \* processes that run a ceremony
    Drivers,     \* processes that advance deliveries
    MaxRecords,  \* the hard bound on records (MAX_PR_DELIVERY_RECORDS)
    Validity,    \* time from a presentation or authorization to its expiry
    MaxTime      \* bound: the clock stops there

ASSUME LocalAssumption == Local \notin Proposals
ASSUME TimesAssumption == Validity \in Nat /\ MaxTime \in Nat
ASSUME NoneAssumption ==
    None \notin Nat \cup Ids \cup Proposals \cup {Local, "active", "terminal"}

VARIABLES
    clock,     \* the wall clock
    deadline,  \* when each presented proposal expires
    call,      \* each caller's ceremony: its source and the time it began at
    store,     \* the phase of each delivery: None, "active" or "terminal"
    source,    \* what authorized each delivery ever minted
    at,        \* when (authorized_at)
    until,     \* the expiry of its authorization (expires_at)
    copy,      \* the delivery each driver holds a working copy of
    minted     \* how often each proposal authorized a delivery

vars == <<clock, deadline, call, store, source, at, until, copy, minted>>

Times == 0 .. MaxTime + Validity
Sources == Proposals \cup {Local}

TypeOK ==
    /\ clock \in 0 .. MaxTime
    /\ deadline \in [Proposals -> Times \cup {None}]
    /\ call \in [Callers -> [source : Sources, now : Times] \cup {None}]
    /\ store \in [Ids -> {None, "active", "terminal"}]
    /\ source \in [Ids -> Sources \cup {None}]
    /\ at \in [Ids -> Times] /\ until \in [Ids -> Times]
    /\ copy \in [Drivers -> Ids \cup {None}]
    /\ minted \in [Proposals -> Nat]

Init ==
    /\ clock = 0
    /\ deadline = [p \in Proposals |-> None]
    /\ call = [c \in Callers |-> None]
    /\ store = [i \in Ids |-> None]
    /\ source = [i \in Ids |-> None]
    /\ at = [i \in Ids |-> 0] /\ until = [i \in Ids |-> 0]
    /\ copy = [d \in Drivers |-> None]
    /\ minted = [p \in Proposals |-> 0]

Present == {i \in Ids : store[i] # None}

-----------------------------------------------------------------------------
(* Capacity *)

\* An attested record of any phase stays until its proposal's deadline.
IsReplayProtected(i, now) == source[i] \in Proposals /\ now < until[i]

\* Faulty variant: only an active record is protected.
EvictableAnySource(now) == {i \in Present : store[i] = "terminal"}

Evictable(now) ==
    {i \in Present : store[i] = "terminal" /\ ~IsReplayProtected(i, now)}

\* What _prune_inactive removes: nothing while there is room, else the oldest
\* evictable record.  The store never holds more than the bound, so one is
\* enough; equal times are told apart by the random id.
Pruned(now) ==
    IF Cardinality(Present) < MaxRecords THEN {{}}
    ELSE IF Evictable(now) = {} THEN {{}}
    ELSE {{i} : i \in {j \in Evictable(now) : \A k \in Evictable(now) : at[j] <= at[k]}}

-----------------------------------------------------------------------------
(* The ceremonies *)

\* present_dots_cmd: the deadline is fixed here, and nothing is stored.
PresentProposal(p) ==
    /\ deadline[p] = None
    /\ deadline' = [deadline EXCEPT ![p] = clock + Validity]
    /\ UNCHANGED <<clock, call, store, source, at, until, copy, minted>>

\* authorize_cmd, and attest_dots_cmd up to the live reads: the time is read
\* once, here.
Begin(c, s) ==
    /\ call[c] = None
    /\ s \in Proposals => deadline[s] # None /\ clock < deadline[s]
    /\ call' = [call EXCEPT ![c] = [source |-> s, now |-> clock]]
    /\ UNCHANGED <<clock, deadline, store, source, at, until, copy, minted>>

\* A ceremony that stops: a typed text that does not match, a live repository
\* that changed, a refused mint, or a crash.
Abandon(c) ==
    /\ call[c] # None
    /\ call' = [call EXCEPT ![c] = None]
    /\ UNCHANGED <<clock, deadline, store, source, at, until, copy, minted>>

\* Faulty variant: the expiry was checked when the ceremony began.
MayMintOnce(s) == s \in Proposals => \A j \in Present : source[j] # s

\* The one-shot check and the fresh reading of the clock.
MayMint(s) ==
    s \in Proposals =>
        /\ \A j \in Present : source[j] # s
        /\ clock < deadline[s]

\* _mint, under the store lock.  The record is written only if it fits.
Mint(c, i) ==
    /\ call[c] # None /\ source[i] = None
    /\ LET s == call[c].source
           now == call[c].now
       IN  /\ MayMint(s)
           /\ \E evicted \in Pruned(now) :
                /\ Cardinality(Present \ evicted) < MaxRecords
                /\ store' = [j \in Ids |-> IF j = i THEN "active"
                                           ELSE IF j \in evicted THEN None
                                           ELSE store[j]]
           /\ source' = [source EXCEPT ![i] = s]
           /\ at' = [at EXCEPT ![i] = now]
           /\ until' = [until EXCEPT ![i] =
                          IF s \in Proposals THEN deadline[s] ELSE now + Validity]
           /\ minted' = IF s \in Proposals THEN [minted EXCEPT ![s] = @ + 1]
                                           ELSE minted
    /\ call' = [call EXCEPT ![c] = None]
    /\ UNCHANGED <<clock, deadline, copy>>

-----------------------------------------------------------------------------
(* The machine and the human *)

\* A driver loads an active delivery and keeps it as its working copy.
Load(d, i) ==
    /\ copy[d] = None /\ store[i] = "active"
    /\ copy' = [copy EXCEPT ![d] = i]
    /\ UNCHANGED <<clock, deadline, call, store, source, at, until, minted>>

\* _persist puts the copy under its id, whether the store still has the id or
\* not; a save over the bound is refused.
Persist(d, phase) ==
    /\ copy[d] # None
    /\ IF Cardinality(Present \cup {copy[d]}) <= MaxRecords
       THEN store' = [store EXCEPT ![copy[d]] = phase]
       ELSE UNCHANGED store
    /\ copy' = IF phase = "active" /\ store' # store THEN copy
               ELSE [copy EXCEPT ![d] = None]
    /\ UNCHANGED <<clock, deadline, call, source, at, until, minted>>

\* The driver's process ends.
Leave(d) ==
    /\ copy[d] # None
    /\ copy' = [copy EXCEPT ![d] = None]
    /\ UNCHANGED <<clock, deadline, call, store, source, at, until, minted>>

Revoke(i) ==
    /\ store[i] = "active"
    /\ store' = [store EXCEPT ![i] = "terminal"]
    /\ UNCHANGED <<clock, deadline, call, source, at, until, copy, minted>>

Tick ==
    /\ clock < MaxTime
    /\ clock' = clock + 1
    /\ UNCHANGED <<deadline, call, store, source, at, until, copy, minted>>

Next ==
    \/ \E p \in Proposals : PresentProposal(p)
    \/ \E c \in Callers : \/ \E s \in Sources : Begin(c, s)
                          \/ Abandon(c)
                          \/ \E i \in Ids : Mint(c, i)
    \/ \E d \in Drivers : \/ \E i \in Ids : Load(d, i)
                          \/ \E phase \in {"active", "terminal"} : Persist(d, phase)
                          \/ Leave(d)
    \/ \E i \in Ids : Revoke(i)
    \/ Tick

Spec == Init /\ [][Next]_vars

-----------------------------------------------------------------------------
(* Properties *)

\* "a proposal authorizes once" (cli.py:621): however ceremonies overlap, and
\* whatever the store has forgotten since.
OneShot == \A p \in Proposals : minted[p] <= 1

\* "an active record is never evicted to make room" (store.py:206-207).
ActiveStays == \A i \in Ids : store[i] = "active" => store'[i] # None

\* The history a replay is refused by outlives every ceremony that could
\* still replay (store.py:166-171).
HistoryKept ==
    \A p \in Proposals :
        minted[p] > 0 /\ clock < deadline[p] => \E i \in Present : source[i] = p

\* Making room forgets nothing that is still needed: neither the history a replay
\* is refused by, nor an active record (_prune_inactive).
EvictionKeeps == [][ActiveStays /\ HistoryKept']_vars
=============================================================================
