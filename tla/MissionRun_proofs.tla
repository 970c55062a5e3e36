------------------------ MODULE MissionRun_proofs ------------------------
(***************************************************************************)
(* What each operation of the registry does to its document, for any       *)
(* content and bounds.                                                     *)
(*                                                                         *)
(* First of a registry of one mission: which facts of it each operation on *)
(* the run block keeps (what its run was authorized for, what a pause      *)
(* protects, how often it was reconciled, whether it may come out as       *)
(* running or completed), and that the run it leaves is one a load accepts *)
(* (RunGood).                                                              *)
(*                                                                         *)
(* Then of any number of missions: RegistryGood, which every operation     *)
(* keeps while it only adds to the record (Grows), and StoreGood, that     *)
(* every id is used for what is recorded of it and that the decisions of a *)
(* mission, replayed one after the other, come to what is saved of it.     *)
(***************************************************************************)
EXTENDS MissionRun, FiniteSetTheorems, WellFoundedInduction, TLAPS

-----------------------------------------------------------------------------
(* Induction, and what a sequence holds of a set.  The induction is over a *)
(* set of naturals: a nonempty one has a least member, since their order   *)
(* is well-founded.                                                        *)

LEMMA Least ==
    ASSUME NEW T, T \subseteq Nat, T # {}
    PROVE \E n \in T : \A k \in T : n <= k
  <1>1. IsWellFoundedOn(OpToRel(<, Nat), Nat)
    BY NatLessThanWellFounded
  <1>2. PICK n \in T : \A k \in T : ~(<<k, n>> \in OpToRel(<, Nat))
    BY <1>1, WFMin
  <1>3. \A k \in T : ~(k < n)
    BY <1>2 DEF OpToRel
  <1> QED BY <1>3

LEMMA Inductive ==
    ASSUME NEW T, 0 \in T, \A n \in Nat : n \in T => n + 1 \in T
    PROVE Nat \subseteq T
  <1> SUFFICES ASSUME Nat \ T # {} PROVE FALSE
    OBVIOUS
  <1>1. PICK n \in Nat \ T : \A k \in Nat \ T : n <= k
    BY Least
  <1>2. n # 0 /\ n - 1 \in Nat /\ n - 1 \in T
    BY <1>1
  <1>3. (n - 1) + 1 \in T
    BY <1>2
  <1> QED BY <1>1, <1>3

\* f gives what each prefix of s up to l holds of S.
Takes(s, S, f, l) ==
    f = [n \in 0 .. l |->
            IF n = 0 THEN <<>>
            ELSE IF s[n] \in S THEN Append(f[n - 1], s[n]) ELSE f[n - 1]]

LEMMA TakesAt ==
    ASSUME NEW s, NEW S, NEW f, NEW l \in Nat, Takes(s, S, f, l)
    PROVE  /\ f[0] = <<>>
           /\ \A n \in 1 .. l :
                 f[n] = IF s[n] \in S THEN Append(f[n - 1], s[n]) ELSE f[n - 1]
  <1>1. \A n \in 0 .. l : f[n] = IF n = 0 THEN <<>>
                       ELSE IF s[n] \in S THEN Append(f[n - 1], s[n]) ELSE f[n - 1]
    BY Zenon DEF Takes
  <1> QED BY <1>1

LEMMA TakesExists ==
    ASSUME NEW s, NEW S
    PROVE  \A l \in Nat : \E f : Takes(s, S, f, l)
  <1> DEFINE T == {l \in Nat : \E f : Takes(s, S, f, l)}
  <1>1. 0 \in T
    <2> DEFINE f == [n \in 0 .. 0 |-> <<>>]
    <2>1. Takes(s, S, f, 0)
      BY DEF Takes
    <2> QED BY <2>1
  <1>2. ASSUME NEW l \in Nat, l \in T PROVE l + 1 \in T
    <2>1. PICK f : Takes(s, S, f, l)
      BY <1>2
    <2> DEFINE at(g, n) == IF n = 0 THEN <<>>
                           ELSE IF s[n] \in S THEN Append(g[n - 1], s[n]) ELSE g[n - 1]
               h == [n \in 0 .. l + 1 |-> IF n \in 0 .. l THEN f[n] ELSE at(f, n)]
    <2>2. ASSUME NEW n \in 0 .. l + 1 PROVE h[n] = at(h, n)
      <3>1. CASE n \in 0 .. l
        <4>1. h[n] = f[n] /\ (n # 0 => h[n - 1] = f[n - 1])
          BY <3>1
        <4>2. f[n] = at(f, n)
          BY <2>1, <3>1, Zenon DEF Takes
        <4> QED BY <4>1, <4>2
      <3>2. CASE n = l + 1
        <4>1. n # 0 /\ n \notin 0 .. l /\ n - 1 \in 0 .. l
          BY <3>2
        <4>2. h[n - 1] = f[n - 1]
          BY <4>1
        <4> QED BY <4>1, <4>2
      <3> QED BY <3>1, <3>2
    <2>3. h = [n \in 0 .. l + 1 |-> h[n]]
      OBVIOUS
    <2> HIDE DEF h
    <2>4. Takes(s, S, h, l + 1)
      BY <2>2, <2>3, Zenon DEF Takes
    <2> QED BY <2>4
  <1> HIDE DEF T
  <1>3. Nat \subseteq T
    BY <1>1, <1>2, Inductive
  <1> QED BY <1>3 DEF T

LEMMA AmongTakes ==
    ASSUME NEW s, NEW S, Len(s) \in Nat
    PROVE  \E f : Takes(s, S, f, Len(s)) /\ Among(s, S) = f[Len(s)]
  <1> DEFINE f == CHOOSE g : Takes(s, S, g, Len(s))
  <1>1. Takes(s, S, f, Len(s))
    BY TakesExists
  <1>2. Among(s, S) = f[Len(s)]
    BY Zenon DEF Among, Takes
  <1> HIDE DEF f
  <1> QED BY <1>1, <1>2

\* Where two sequences agree, so do the parts of them that lie in two sets.
LEMMA TakesAgree ==
    ASSUME NEW s, NEW S, NEW f, NEW k \in Nat, Takes(s, S, f, k),
           NEW t, NEW R, NEW g, NEW l \in Nat, Takes(t, R, g, l),
           NEW j \in Nat, j <= k, j <= l,
           \A n \in 1 .. j : s[n] = t[n] /\ (s[n] \in S <=> t[n] \in R)
    PROVE  \A n \in 0 .. j : f[n] = g[n]
  <1> DEFINE T == {n \in Nat : n <= j => f[n] = g[n]}
  <1>1. 0 \in T
    BY TakesAt
  <1>2. ASSUME NEW n \in Nat, n \in T PROVE n + 1 \in T
    <2> SUFFICES ASSUME n + 1 <= j PROVE f[n + 1] = g[n + 1]
      OBVIOUS
    <2>1. f[n] = g[n] /\ n + 1 \in 1 .. k /\ n + 1 \in 1 .. l /\ n + 1 \in 1 .. j
      BY <1>2
    <2>2. f[n + 1] = IF s[n + 1] \in S THEN Append(f[(n + 1) - 1], s[n + 1]) ELSE f[(n + 1) - 1]
      BY <2>1, TakesAt
    <2>3. g[n + 1] = IF t[n + 1] \in R THEN Append(g[(n + 1) - 1], t[n + 1]) ELSE g[(n + 1) - 1]
      BY <2>1, TakesAt
    <2>4. (n + 1) - 1 = n
      OBVIOUS
    <2> QED BY <2>1, <2>2, <2>3, <2>4
  <1> HIDE DEF T
  <1>3. Nat \subseteq T
    BY <1>1, <1>2, Inductive
  <1> QED BY <1>3 DEF T

LEMMA AmongAgree ==
    ASSUME NEW s, NEW S, NEW t, NEW R, Len(s) \in Nat, Len(t) = Len(s),
           \A n \in 1 .. Len(s) : s[n] = t[n] /\ (s[n] \in S <=> t[n] \in R)
    PROVE  Among(s, S) = Among(t, R)
  <1>1. PICK f : Takes(s, S, f, Len(s)) /\ Among(s, S) = f[Len(s)]
    BY AmongTakes
  <1>2. PICK g : Takes(t, R, g, Len(t)) /\ Among(t, R) = g[Len(t)]
    BY AmongTakes
  <1>3. f[Len(s)] = g[Len(s)]
    <2>1. \A n \in 0 .. Len(s) : f[n] = g[n]
      BY <1>1, <1>2, TakesAgree
    <2> QED BY <2>1
  <1> QED BY <1>1, <1>2, <1>3

LEMMA AmongNone ==
    ASSUME NEW s, NEW S, Len(s) \in Nat, \A n \in 1 .. Len(s) : s[n] \notin S
    PROVE  Among(s, S) = <<>>
  <1>1. PICK f : Takes(s, S, f, Len(s)) /\ Among(s, S) = f[Len(s)]
    BY AmongTakes
  <1> DEFINE T == {n \in Nat : n <= Len(s) => f[n] = <<>>}
  <1>2. 0 \in T
    BY <1>1, TakesAt
  <1>3. ASSUME NEW n \in Nat, n \in T PROVE n + 1 \in T
    <2> SUFFICES ASSUME n + 1 <= Len(s) PROVE f[n + 1] = <<>>
      OBVIOUS
    <2>1. f[n] = <<>> /\ n + 1 \in 1 .. Len(s) /\ s[n + 1] \notin S /\ (n + 1) - 1 = n
      BY <1>3
    <2>2. f[n + 1] = IF s[n + 1] \in S THEN Append(f[(n + 1) - 1], s[n + 1]) ELSE f[(n + 1) - 1]
      BY <1>1, <2>1, TakesAt
    <2> QED BY <2>1, <2>2
  <1> HIDE DEF T
  <1>4. Nat \subseteq T
    BY <1>2, <1>3, Inductive
  <1> QED BY <1>1, <1>4 DEF T

LEMMA AmongAppend ==
    ASSUME NEW X, NEW s \in Seq(X), NEW x \in X, NEW S
    PROVE  Among(Append(s, x), S) = IF x \in S THEN Append(Among(s, S), x) ELSE Among(s, S)
  <1> DEFINE t == Append(s, x)
  <1>1. /\ Len(s) \in Nat /\ Len(t) = Len(s) + 1 /\ t[Len(s) + 1] = x
        /\ \A n \in 1 .. Len(s) : t[n] = s[n]
    OBVIOUS
  <1> HIDE DEF t
  <1>2. PICK f : Takes(s, S, f, Len(s)) /\ Among(s, S) = f[Len(s)]
    BY <1>1, AmongTakes
  <1>3. PICK g : Takes(t, S, g, Len(t)) /\ Among(t, S) = g[Len(t)]
    BY <1>1, AmongTakes
  <1>4. \A n \in 0 .. Len(s) : f[n] = g[n]
    BY <1>1, <1>2, <1>3, TakesAgree
  <1>5. g[Len(s) + 1] = IF t[Len(s) + 1] \in S
                        THEN Append(g[(Len(s) + 1) - 1], t[Len(s) + 1])
                        ELSE g[(Len(s) + 1) - 1]
    BY <1>1, <1>3, TakesAt
  <1>6. (Len(s) + 1) - 1 = Len(s) /\ Len(s) \in 0 .. Len(s)
    BY <1>1
  <1> QED BY <1>1, <1>2, <1>3, <1>4, <1>5, <1>6 DEF t

LEMMA AmongIs ==
    ASSUME NEW X, NEW s \in Seq(X), NEW S
    PROVE  /\ Among(s, S) \in Seq(X)
           /\ ToSet(Among(s, S)) = ToSet(s) \cap S
  <1>1. PICK f : Takes(s, S, f, Len(s)) /\ Among(s, S) = f[Len(s)]
    BY AmongTakes
  <1> DEFINE only(u, n) == \A i \in 1 .. Len(u) : u[i] \in S /\ \E k \in 1 .. n : s[k] = u[i]
             all(u, n) == \A k \in 1 .. n : s[k] \in S => \E i \in 1 .. Len(u) : u[i] = s[k]
             T == {n \in Nat : n <= Len(s) => f[n] \in Seq(X) /\ only(f[n], n) /\ all(f[n], n)}
  <1>2. 0 \in T
    <2>1. f[0] = <<>> /\ Len(<<>>) = 0 /\ <<>> \in Seq(X) /\ 1 .. 0 = {}
      BY <1>1, TakesAt
    <2> QED BY <2>1
  <1>3. ASSUME NEW n \in Nat, n \in T PROVE n + 1 \in T
    <2> SUFFICES ASSUME n + 1 <= Len(s)
                 PROVE  f[n + 1] \in Seq(X) /\ only(f[n + 1], n + 1) /\ all(f[n + 1], n + 1)
      OBVIOUS
    <2>1. /\ f[n] \in Seq(X) /\ only(f[n], n) /\ all(f[n], n)
          /\ n + 1 \in 1 .. Len(s) /\ s[n + 1] \in X
          /\ \A k \in 1 .. n + 1 : k \in 1 .. n \/ k = n + 1
          /\ \A k \in 1 .. n : k \in 1 .. n + 1
      BY <1>3
    <2>2. f[n + 1] = IF s[n + 1] \in S THEN Append(f[(n + 1) - 1], s[n + 1]) ELSE f[(n + 1) - 1]
      BY <1>1, <2>1, TakesAt
    <2>3. (n + 1) - 1 = n
      OBVIOUS
    <2>5. CASE s[n + 1] \in S
      <3>1. f[n + 1] = Append(f[n], s[n + 1])
        BY <2>2, <2>3, <2>5
      <3>2. /\ f[n + 1] \in Seq(X) /\ Len(f[n + 1]) = Len(f[n]) + 1
            /\ f[n + 1][Len(f[n]) + 1] = s[n + 1]
            /\ \A i \in 1 .. Len(f[n]) : f[n + 1][i] = f[n][i]
            /\ \A i \in 1 .. Len(f[n + 1]) : i \in 1 .. Len(f[n]) \/ i = Len(f[n]) + 1
            /\ \A i \in 1 .. Len(f[n]) : i \in 1 .. Len(f[n + 1])
            /\ Len(f[n]) + 1 \in 1 .. Len(f[n + 1])
        BY <2>1, <3>1
      <3>3. only(f[n + 1], n + 1)
        <4> SUFFICES ASSUME NEW i \in 1 .. Len(f[n + 1])
                     PROVE  f[n + 1][i] \in S /\ \E k \in 1 .. n + 1 : s[k] = f[n + 1][i]
          OBVIOUS
        <4>1. CASE i \in 1 .. Len(f[n])
          <5>1. f[n + 1][i] = f[n][i] /\ f[n][i] \in S
            BY <2>1, <3>2, <4>1
          <5>2. PICK k \in 1 .. n : s[k] = f[n][i]
            BY <2>1, <4>1
          <5> QED BY <2>1, <5>1, <5>2
        <4>2. CASE i = Len(f[n]) + 1
          BY <2>1, <2>5, <3>2, <4>2
        <4> QED BY <3>2, <4>1, <4>2
      <3>4. all(f[n + 1], n + 1)
        BY <2>1, <2>5, <3>2
      <3> QED BY <3>2, <3>3, <3>4
    <2>6. CASE s[n + 1] \notin S
      <3>1. f[n + 1] = f[n]
        BY <2>2, <2>3, <2>6
      <3> QED BY <2>1, <2>6, <3>1
    <2> QED BY <2>5, <2>6
  <1> HIDE DEF T
  <1>4. Nat \subseteq T
    BY <1>2, <1>3, Inductive
  <1>5. Len(s) \in Nat /\ Len(s) \in T
    BY <1>4
  <1>6. /\ Among(s, S) \in Seq(X)
        /\ only(Among(s, S), Len(s)) /\ all(Among(s, S), Len(s))
    BY <1>1, <1>5 DEF T
  <1>7. DOMAIN s = 1 .. Len(s) /\ DOMAIN Among(s, S) = 1 .. Len(Among(s, S))
    BY <1>6
  <1> DEFINE u == Among(s, S)
  <1> HIDE DEF u
  <1>8. ToSet(u) \subseteq ToSet(s) \cap S
    BY <1>6, <1>7 DEF ToSet, u
  <1>9. ToSet(s) \cap S \subseteq ToSet(u)
    BY <1>6, <1>7 DEF ToSet, u
  <1> QED BY <1>6, <1>8, <1>9 DEF u

-----------------------------------------------------------------------------
(* The shape of the document                                               *)

Cancels == {"cancelled_before_intent", "cancelled_after_intent_target_unknown",
            "cancelled_after_target_terminated", "cancelled_after_observed_running"}
Seen == {"observed_running", "observed_after_stop"}

Moves == [to : RunStates,
          reason : Seen \cup {"verified_completion"} \cup ReconcileStops
                   \cup Failures \cup Cancels]

Revisions == [content : Content, by : Nat]
Authorized ==
    [mission : {1}, revision : Nat, content : Content, scope : Scopes,
     by : Contexts, expires : Nat, issued : Nat, revoked : BOOLEAN]

Reserved == [kind : {"request", "decision"}, context : Contexts, consumed : Nat]

\* The fields of a run block, and those whose values the proof reads.
IsRun(x) ==
    /\ x \in [held : {TRUE}, intent : Nat, receipt : {x.receipt}, task : Nat,
              pauses : {x.pauses}, paused : BOOLEAN, cancel : {x.cancel},
              quiescence : {x.quiescence}, verification : {x.verification},
              pending : Nat, workspace : {x.workspace}, path : Nat,
              refused : BOOLEAN, unobserved : Nat, late : {x.late}]
    /\ x.task # None => x.intent # None

IsMission(x) ==
    /\ x \in [request : {x.request}, proposer : {x.proposer},
              keyExpires : {x.keyExpires}, state : {x.state},
              revisions : Seq(Revisions), decisions : {x.decisions},
              authorizations : {x.authorizations}, withdrawn : {x.withdrawn},
              run : {x.run}, lifecycle : Seq(Moves)]
    /\ x.revisions # <<>>
    /\ x.run = NoRun \/ IsRun(x.run)
    /\ x.state \in RunStates => HasRun(x)
    /\ x.lifecycle # <<>> => HasRun(x)
    /\ x.state \in {"RUNNING", "COMPLETED"} => IntentOf(x) # None

\* A registry of one mission.
Shape(d) ==
    /\ d \in [missions : {d.missions}, authorizations : Seq(Authorized),
              ledger : {d.ledger}, reservations : Seq(Reserved)]
    /\ d.missions \in [{1} -> {d.missions[1]}]
    /\ IsMission(d.missions[1])

LEMMA NewRunIs == IsRun(NewRun) /\ NewRun.intent = None /\ NewRun.unobserved = 0 /\ NewRun.paused = FALSE
  BY DEF NewRun, IsRun, None

LEMMA RunIs ==
    ASSUME NEW x, IsMission(x)
    PROVE  /\ IsRun(RunOf(x))
           /\ IntentOf(x) = RunOf(x).intent
           /\ Paused(x) <=> RunOf(x).paused
           /\ HasRun(x) => RunOf(x) = x.run
           /\ ~HasRun(x) => RunOf(x) = NewRun
  <1>1. CASE x.run = NoRun
    <2>1. HasRun(x) = FALSE
      BY <1>1 DEF HasRun, NoRun
    <2>2. RunOf(x) = NewRun /\ IntentOf(x) = None
      BY <2>1 DEF RunOf, IntentOf
    <2> QED BY <2>1, <2>2, NewRunIs DEF Paused
  <1>2. CASE IsRun(x.run)
    <2>1. HasRun(x) = TRUE
      BY <1>2 DEF IsRun, HasRun
    <2> QED BY <1>2, <2>1 DEF RunOf, IntentOf, Paused
  <1> QED BY <1>1, <1>2 DEF IsMission

LEMMA WithRunIs ==
    ASSUME NEW d, Shape(d), NEW r, IsRun(r),
           r.intent \in {a \in Nat : a # None} \cup {RunOf(d.missions[1]).intent}
    PROVE  /\ Shape(WithRun(d, 1, r))
           /\ WithRun(d, 1, r).authorizations = d.authorizations
           /\ WithRun(d, 1, r).missions[1] = [d.missions[1] EXCEPT !.run = r]
           /\ HasRun(WithRun(d, 1, r).missions[1])
           /\ RunOf(WithRun(d, 1, r).missions[1]) = r
  <1> DEFINE e == [d EXCEPT !.missions = [d.missions EXCEPT ![1] = [d.missions[1] EXCEPT !.run = r]]]
  <1>0. WithRun(d, 1, r) = e
    BY DEF WithRun, Shape
  <1>1. e.missions[1] = [d.missions[1] EXCEPT !.run = r] /\ e.authorizations = d.authorizations
    BY DEF Shape
  <1>5. e.missions[1].run = r /\ e.missions[1].state = d.missions[1].state
    BY <1>1 DEF Shape, IsMission
  <1>6. IntentOf(e.missions[1]) = r.intent
    BY <1>5 DEF IntentOf, HasRun, IsRun
  <1>7. IntentOf(d.missions[1]) = RunOf(d.missions[1]).intent
    BY RunIs DEF Shape
  <1>8. d.missions[1].state \in {"RUNNING", "COMPLETED"} => r.intent # None
    BY <1>7 DEF Shape, IsMission
  <1>9. HasRun(e.missions[1])
    BY <1>5 DEF HasRun, IsRun
  <1>2. IsMission(e.missions[1])
    BY <1>1, <1>5, <1>6, <1>8, <1>9 DEF Shape, IsMission
  <1>3. e.missions \in [{1} -> {e.missions[1]}]
    BY <1>1 DEF Shape
  <1>4. HasRun(e.missions[1]) /\ RunOf(e.missions[1]) = r
    BY <1>5 DEF RunOf, HasRun, IsRun
  <1> QED BY <1>0, <1>1, <1>2, <1>3, <1>4, <1>5 DEF Shape

LEMMA LastAppended ==
    ASSUME NEW S, NEW s \in Seq(S), NEW x \in S
    PROVE  /\ Append(s, x) \in Seq(S)
           /\ Append(s, x) # <<>>
           /\ Last(Append(s, x)) = x
  BY DEF Last

LEMMA MoveIs ==
    ASSUME NEW d, Shape(d), NEW target, NEW reason,
           [to |-> target, reason |-> reason] \in Moves, HasRun(d.missions[1]),
           target \in {"RUNNING", "COMPLETED"} => RunOf(d.missions[1]).intent # None,
           NEW e, e = MoveIn(d, 1, target, reason)
    PROVE  /\ Shape(e)
           /\ LastReason(e.missions[1]) = reason
           /\ e.authorizations = d.authorizations
           /\ e.missions[1].state = target
           /\ e.missions[1].run = d.missions[1].run
           /\ e.missions[1].revisions = d.missions[1].revisions
           /\ RunOf(e.missions[1]) = RunOf(d.missions[1])
           /\ HasRun(e.missions[1]) <=> HasRun(d.missions[1])
  <1> DEFINE l == Append(d.missions[1].lifecycle, [to |-> target, reason |-> reason])
  <1> DEFINE n == [d.missions[1] EXCEPT !.state = target, !.lifecycle = l]
  <1> DEFINE f == [d EXCEPT !.missions = [d.missions EXCEPT ![1] = n]]
  <1>0. e = f
    BY DEF MoveIn, Shape, IsMission
  <1>a. l \in Seq(Moves) /\ l # <<>> /\ Last(l) = [to |-> target, reason |-> reason]
    <2>1. d.missions[1].lifecycle \in Seq(Moves)
      BY DEF Shape, IsMission
    <2> QED BY <2>1, LastAppended
  <1> HIDE DEF l
  <1>b. n.run = d.missions[1].run /\ IntentOf(n) = RunOf(d.missions[1]).intent
    BY RunIs DEF Shape, IsMission, IntentOf, HasRun
  <1>1. /\ IsMission(n)
        /\ n.state = target /\ n.run = d.missions[1].run
        /\ n.revisions = d.missions[1].revisions
        /\ n.lifecycle = l
        /\ HasRun(n)
    BY <1>a, <1>b DEF Shape, IsMission, HasRun
  <1>c. LastReason(n) = reason
    BY <1>1, <1>a DEF LastReason
  <1> HIDE DEF n
  <1>2. f.missions[1] = n /\ f.authorizations = d.authorizations
    BY DEF Shape
  <1>3. f.missions \in [{1} -> {f.missions[1]}]
    BY <1>2 DEF Shape
  <1>4. Shape(f)
    BY <1>1, <1>2, <1>3 DEF Shape
  <1>5. RunOf(n) = RunOf(d.missions[1]) /\ (HasRun(n) <=> HasRun(d.missions[1]))
    BY <1>1 DEF RunOf, HasRun
  <1> HIDE DEF f
  <1> QED BY <1>0, <1>1, <1>2, <1>4, <1>5, <1>c DEF n
-----------------------------------------------------------------------------
(* What the operations on the run block keep                               *)

\* What the dispatched run was bound to stays as it is.
Keeps(d, e) ==
    /\ Shape(e)
    /\ e.authorizations = d.authorizations
    /\ e.missions[1].revisions = d.missions[1].revisions
    /\ HasRun(d.missions[1]) => HasRun(e.missions[1])
    /\ RunOf(e.missions[1]).intent = RunOf(d.missions[1]).intent

\* What a paused run's record may still take.
KeepsPaused(d, e) ==
    LET m == d.missions[1]
        n == e.missions[1]
    IN  Paused(m) =>
          /\ n.state \in {m.state, "CANCELLED"}
          /\ RunOf(n).intent = RunOf(m).intent
          /\ RunOf(n).unobserved = RunOf(m).unobserved
          /\ RunOf(n).pending = RunOf(m).pending
          /\ RunOf(n).workspace = RunOf(m).workspace
          /\ RunOf(n).receipt # RunOf(m).receipt => RunOf(n).receipt = "start_result"

\* No attempt is counted and nothing is stopped for want of evidence.
Uncounted(d, e) ==
    LET m == d.missions[1]
        n == e.missions[1]
    IN  /\ RunOf(n).unobserved = RunOf(m).unobserved
        /\ n.lifecycle = m.lifecycle \/ LastReason(n) \notin ReconcileStops

\* The run neither starts nor completes.
Unfinished(d, e) ==
    e.missions[1].state \in {"RUNNING", "COMPLETED"} =>
        e.missions[1].state = d.missions[1].state

Ordinary(d, e) ==
    Keeps(d, e) /\ KeepsPaused(d, e) /\ Uncounted(d, e) /\ Unfinished(d, e)

LEMMA SameIsOrdinary == ASSUME NEW d, Shape(d) PROVE Ordinary(d, d)
  BY DEF Ordinary, Keeps, KeepsPaused, Uncounted, Unfinished

LEMMA WithRunKeeps ==
    ASSUME NEW d, Shape(d), NEW r, IsRun(r), r.intent = RunOf(d.missions[1]).intent
    PROVE  LET e == WithRun(d, 1, r) IN
           /\ Keeps(d, e) /\ HasRun(e.missions[1]) /\ RunOf(e.missions[1]) = r
           /\ e.missions[1].state = d.missions[1].state
           /\ e.missions[1].lifecycle = d.missions[1].lifecycle
  <1> DEFINE e == WithRun(d, 1, r)
  <1>1. /\ Shape(e)
        /\ e.authorizations = d.authorizations
        /\ e.missions[1] = [d.missions[1] EXCEPT !.run = r]
        /\ HasRun(e.missions[1])
        /\ RunOf(e.missions[1]) = r
    BY WithRunIs
  <1> HIDE DEF e
  <1>2. /\ e.missions[1].state = d.missions[1].state
        /\ e.missions[1].revisions = d.missions[1].revisions
        /\ e.missions[1].lifecycle = d.missions[1].lifecycle
    BY <1>1 DEF Shape, IsMission
  <1>3. Keeps(d, e)
    BY <1>1, <1>2 DEF Keeps
  <1> QED BY <1>1, <1>2, <1>3 DEF e

\* A run block that differs in nothing these relations read.
LEMMA WithRunOrdinary ==
    ASSUME NEW d, Shape(d), NEW r, IsRun(r),
           r.intent = RunOf(d.missions[1]).intent,
           r.unobserved = RunOf(d.missions[1]).unobserved,
           Paused(d.missions[1]) =>
              /\ r.pending = RunOf(d.missions[1]).pending
              /\ r.workspace = RunOf(d.missions[1]).workspace
              /\ r.receipt # RunOf(d.missions[1]).receipt => r.receipt = "start_result"
    PROVE  Ordinary(d, WithRun(d, 1, r))
  <1> DEFINE e == WithRun(d, 1, r)
  <1>1. /\ Keeps(d, e) /\ RunOf(e.missions[1]) = r
        /\ e.missions[1].state = d.missions[1].state
        /\ e.missions[1].lifecycle = d.missions[1].lifecycle
    BY WithRunKeeps
  <1> HIDE DEF e
  <1>2. Ordinary(d, e)
    BY <1>1 DEF Ordinary, KeepsPaused, Uncounted, Unfinished
  <1> QED BY <1>2 DEF e

LEMMA WorkspaceOrdinary ==
    ASSUME NEW d, Shape(d),
           NEW e \in RecordWorkspaceBinding(d, 1, 1)
                    \cup RecordWorkspacePrepared(d, 1)
                    \cup RecordWorkspaceRefusal(d, 1)
    PROVE  Ordinary(d, e)
  <1> DEFINE run == RunOf(d.missions[1])
             bound == [run EXCEPT !.workspace = "PREPARING", !.path = 1]
             prepared == [run EXCEPT !.workspace = "PREPARED"]
             refused == [run EXCEPT !.refused = TRUE]
  <1>1. IsRun(run)
    BY RunIs DEF Shape
  <1>2. CASE e \in RecordWorkspaceBinding(d, 1, 1)
    <2>1. ~Paused(d.missions[1]) /\ (e = d \/ e = WithRun(d, 1, bound))
      BY <1>2 DEF RecordWorkspaceBinding, Saved
    <2>2. IsRun(bound) /\ bound.intent = run.intent /\ bound.unobserved = run.unobserved
      BY <1>1 DEF IsRun
    <2> QED BY <2>1, <2>2, SameIsOrdinary, WithRunOrdinary
  <1>3. CASE e \in RecordWorkspacePrepared(d, 1)
    <2>1. /\ ~Paused(d.missions[1]) /\ run.workspace # "none"
          /\ e = WithRun(d, 1, [d.missions[1].run EXCEPT !.workspace = "PREPARED"])
      BY <1>3 DEF RecordWorkspacePrepared, Saved, WithRun
    <2>2. run = d.missions[1].run
      BY <2>1, RunIs DEF Shape, NewRun
    <2>3. IsRun(prepared) /\ prepared.intent = run.intent
          /\ prepared.unobserved = run.unobserved
      BY <1>1 DEF IsRun
    <2> QED BY <2>1, <2>2, <2>3, WithRunOrdinary
  <1>4. CASE e \in RecordWorkspaceRefusal(d, 1)
    <2>1. e = WithRun(d, 1, refused)
      BY <1>4 DEF RecordWorkspaceRefusal, Saved
    <2>2. /\ IsRun(refused)
          /\ refused.intent = run.intent /\ refused.unobserved = run.unobserved
          /\ refused.pending = run.pending /\ refused.workspace = run.workspace
          /\ refused.receipt = run.receipt
      BY <1>1 DEF IsRun
    <2> QED BY <2>1, <2>2, WithRunOrdinary
  <1> QED BY <1>2, <1>3, <1>4

\* The spawn's own answer may arrive while the run is paused.
LEMMA ReceiptOrdinary ==
    ASSUME NEW d, Shape(d), NEW task \in Nat, NEW source,
           source \in {"start_result", "reconciliation"},
           NEW e \in RecordRunReceipt(d, 1, task, source)
    PROVE  Ordinary(d, e)
  <1> DEFINE run == d.missions[1].run
             r == [run EXCEPT !.receipt = source, !.task = task]
  <1>1. /\ IntentOf(d.missions[1]) # None
        /\ source = "reconciliation" => ~Paused(d.missions[1])
        /\ e = [d EXCEPT !.missions[1].run.receipt = source, !.missions[1].run.task = task]
    BY DEF RecordRunReceipt, Saved
  <1>2. HasRun(d.missions[1]) /\ IsRun(run) /\ run = RunOf(d.missions[1])
        /\ run.intent # None
    BY <1>1, RunIs DEF Shape, IntentOf
  <1>3. /\ IsRun(r) /\ r.intent = run.intent /\ r.unobserved = run.unobserved
        /\ r.pending = run.pending /\ r.workspace = run.workspace
        /\ r.receipt = source
    BY <1>2 DEF IsRun
  <1>4. e = WithRun(d, 1, r)
    BY <1>1 DEF WithRun, Shape, IsMission
  <1> HIDE DEF r
  <1> QED BY <1>1, <1>2, <1>3, <1>4, WithRunOrdinary

LEMMA ControlOrdinary ==
    ASSUME NEW d, Shape(d), NEW a, NEW q,
           NEW e \in RecordPause(d, 1, a) \cup RecordResume(d, 1, a)
                    \cup CompleteCancel(d, 1, q, a)
    PROVE  Ordinary(d, e)
  <1> DEFINE run == RunOf(d.missions[1])
             paused == [run EXCEPT !.pauses = @ + 1, !.paused = TRUE]
             resumed == [run EXCEPT !.paused = FALSE]
             complete == [run EXCEPT !.quiescence = q]
  <1>1. IsRun(run)
    BY RunIs DEF Shape
  <1>2. CASE e \in RecordPause(d, 1, a)
    <2>1. e = WithRun(d, 1, paused) /\ ~Paused(d.missions[1])
      BY <1>2 DEF RecordPause, Saved
    <2>2. IsRun(paused) /\ paused.intent = run.intent /\ paused.unobserved = run.unobserved
      BY <1>1 DEF IsRun
    <2> QED BY <2>1, <2>2, WithRunOrdinary
  <1>3. CASE e \in RecordResume(d, 1, a)
    <2>1. HasRun(d.missions[1]) /\ e = WithRun(d, 1, [d.missions[1].run EXCEPT !.paused = FALSE])
      BY <1>3 DEF RecordResume, Saved, WithRun, Paused
    <2>2. e = WithRun(d, 1, resumed)
      BY <2>1, RunIs DEF Shape
    <2>3. /\ IsRun(resumed)
          /\ resumed.intent = run.intent /\ resumed.unobserved = run.unobserved
          /\ resumed.pending = run.pending /\ resumed.workspace = run.workspace
          /\ resumed.receipt = run.receipt
      BY <1>1 DEF IsRun
    <2> QED BY <2>2, <2>3, WithRunOrdinary
  <1>4. CASE e \in CompleteCancel(d, 1, q, a)
    <2>1. /\ d.missions[1].state = "CANCELLED"
          /\ e = WithRun(d, 1, [d.missions[1].run EXCEPT !.quiescence = q])
      BY <1>4 DEF CompleteCancel, Saved, WithRun
    <2>2. e = WithRun(d, 1, complete)
      BY <2>1, RunIs DEF Shape, IsMission, RunStates
    <2>3. /\ IsRun(complete)
          /\ complete.intent = run.intent /\ complete.unobserved = run.unobserved
          /\ complete.pending = run.pending /\ complete.workspace = run.workspace
          /\ complete.receipt = run.receipt
      BY <1>1 DEF IsRun
    <2> QED BY <2>2, <2>3, WithRunOrdinary
  <1> QED BY <1>2, <1>3, <1>4

LEMMA LateOrdinary ==
    ASSUME NEW d, Shape(d), NEW task, NEW e \in RecordLateResolution(d, 1, task)
    PROVE  Ordinary(d, e)
  <1> DEFINE run == RunOf(d.missions[1])
             r == [run EXCEPT !.late = task]
  <1>1. /\ d.missions[1].state = "BLOCKED"
        /\ e = WithRun(d, 1, [d.missions[1].run EXCEPT !.late = task])
    BY DEF RecordLateResolution, StoppedUnobserved, Saved, WithRun
  <1>2. IsRun(run) /\ e = WithRun(d, 1, r)
    BY <1>1, RunIs DEF Shape, IsMission, RunStates
  <1>3. /\ IsRun(r)
        /\ r.intent = run.intent /\ r.unobserved = run.unobserved
        /\ r.pending = run.pending /\ r.workspace = run.workspace
        /\ r.receipt = run.receipt
    BY <1>2 DEF IsRun
  <1> QED BY <1>2, <1>3, WithRunOrdinary

LEMMA CancelOrdinary ==
    ASSUME NEW d, Shape(d), NEW achieved \in Cancels, NEW a,
           NEW e \in RecordCancel(d, 1, achieved, a)
    PROVE  Ordinary(d, e)
  <1> DEFINE run == RunOf(d.missions[1])
             r == [run EXCEPT !.cancel = achieved]
             c == WithRun(d, 1, r)
  <1>1. e = MoveIn(c, 1, "CANCELLED", achieved)
    BY DEF RecordCancel, Saved
  <1>2. IsRun(run)
    BY RunIs DEF Shape
  <1>3. /\ IsRun(r)
        /\ r.intent = run.intent /\ r.unobserved = run.unobserved
        /\ r.pending = run.pending /\ r.workspace = run.workspace
        /\ r.receipt = run.receipt
    BY <1>2 DEF IsRun
  <1> HIDE DEF r
  <1>4. Ordinary(d, c) /\ HasRun(c.missions[1])
    BY <1>3, WithRunOrdinary, WithRunIs
  <1> HIDE DEF c
  <1>5. Shape(c) /\ [to |-> "CANCELLED", reason |-> achieved] \in Moves
    BY <1>4 DEF Ordinary, Keeps, Moves, RunStates
  <1>6. achieved \notin ReconcileStops
    BY DEF Cancels, ReconcileStops
  <1>7. /\ Shape(e)
        /\ LastReason(e.missions[1]) = achieved
        /\ e.authorizations = c.authorizations
        /\ e.missions[1].state = "CANCELLED"
        /\ e.missions[1].revisions = c.missions[1].revisions
        /\ RunOf(e.missions[1]) = RunOf(c.missions[1])
        /\ HasRun(e.missions[1])
    BY <1>1, <1>4, <1>5, MoveIs
  <1> QED BY <1>4, <1>6, <1>7 DEF Ordinary, Keeps, KeepsPaused, Uncounted, Unfinished

\* An intent is recorded once, for the current proposal and a scope that permits
\* the run.
LEMMA IntentIs ==
    ASSUME NEW d, Shape(d), NEW a \in Nat, NEW revision, NEW t,
           NEW e \in RecordRunIntent(d, 1, a, revision, 1, t)
    PROVE  /\ Shape(e)
           /\ e.authorizations = d.authorizations
           /\ e.missions[1].revisions = d.missions[1].revisions
           /\ e.missions[1].state = d.missions[1].state
           /\ e.missions[1].lifecycle = d.missions[1].lifecycle
           /\ HasRun(d.missions[1]) /\ HasRun(e.missions[1])
           /\ ~Paused(d.missions[1])
           /\ RunOf(d.missions[1]).intent = None
           /\ RunOf(e.missions[1]).intent = a
           /\ RunOf(e.missions[1]).unobserved = RunOf(d.missions[1]).unobserved
           /\ d.authorizations[a].revision = Revision(d.missions[1])
           /\ PermitsRun(d.authorizations[a].scope)
  <1> DEFINE run == RunOf(d.missions[1])
             r == [run EXCEPT !.intent = a]
  <1>1. /\ ~Paused(d.missions[1])
        /\ run.workspace = "PREPARED"
        /\ IntentOf(d.missions[1]) = None
        /\ PermitsUse(d, a, 1, revision, t)
        /\ PermitsRun(d.authorizations[a].scope)
        /\ e = WithRun(d, 1, [d.missions[1].run EXCEPT !.intent = a])
    BY DEF RecordRunIntent, BeforeIntent, Saved, WithRun
  <1>2. HasRun(d.missions[1]) /\ IsRun(run) /\ e = WithRun(d, 1, r) /\ run.intent = None
    BY <1>1, RunIs DEF Shape, NewRun
  <1>3. IsRun(r) /\ r.intent = a /\ r.unobserved = run.unobserved
    BY <1>2 DEF IsRun
  <1> HIDE DEF r
  <1>4. /\ Shape(e)
        /\ e.authorizations = d.authorizations
        /\ e.missions[1] = [d.missions[1] EXCEPT !.run = r]
        /\ HasRun(e.missions[1])
        /\ RunOf(e.missions[1]) = r
    BY <1>2, <1>3, WithRunIs
  <1>5. /\ e.missions[1].state = d.missions[1].state
        /\ e.missions[1].revisions = d.missions[1].revisions
        /\ e.missions[1].lifecycle = d.missions[1].lifecycle
    BY <1>4 DEF Shape, IsMission
  <1>6. d.authorizations[a].revision = Revision(d.missions[1])
    BY <1>1 DEF PermitsUse
  <1> QED BY <1>1, <1>2, <1>3, <1>4, <1>5, <1>6

LEMMA ObservedIs ==
    ASSUME NEW d, Shape(d), NEW task, NEW stopped \in BOOLEAN,
           NEW e \in RecordObservedRunning(d, 1, task, stopped)
    PROVE  /\ Keeps(d, e) /\ KeepsPaused(d, e) /\ Uncounted(d, e)
           /\ e.missions[1].state = "RUNNING"
           /\ TargetOf(d.missions[1]) # None
  <1> DEFINE reason == IF stopped THEN "observed_after_stop" ELSE "observed_running"
  <1>1. /\ ~Paused(d.missions[1])
        /\ TargetOf(d.missions[1]) # None
        /\ e = MoveIn(d, 1, "RUNNING", reason)
    BY DEF RecordObservedRunning, Saved
  <1>2. HasRun(d.missions[1]) /\ RunOf(d.missions[1]).intent # None
    <2>1. HasRun(d.missions[1])
      BY <1>1, RunIs DEF Shape, TargetOf, NewRun
    <2>2. IsRun(RunOf(d.missions[1]))
      BY RunIs DEF Shape
    <2> QED BY <1>1, <2>1, <2>2 DEF TargetOf, IsRun
  <1>3. [to |-> "RUNNING", reason |-> reason] \in Moves /\ reason \notin ReconcileStops
    BY DEF Moves, RunStates, Seen, ReconcileStops
  <1> HIDE DEF reason
  <1>4. /\ Shape(e)
        /\ LastReason(e.missions[1]) = reason
        /\ e.authorizations = d.authorizations
        /\ e.missions[1].state = "RUNNING"
        /\ e.missions[1].revisions = d.missions[1].revisions
        /\ RunOf(e.missions[1]) = RunOf(d.missions[1])
        /\ HasRun(e.missions[1])
    BY <1>1, <1>2, <1>3, MoveIs
  <1> QED BY <1>1, <1>3, <1>4 DEF Keeps, KeepsPaused, Uncounted

\* An attempt that saw nothing, and a stop of a run whose child is not known.
LEMMA StopIs ==
    ASSUME NEW d, Shape(d), NEW reason \in ReconcileStops, NEW task \in Nat,
           NEW e \in RecordRunStop(d, 1, reason, task)
    PROVE  Keeps(d, e) /\ KeepsPaused(d, e) /\ Unfinished(d, e)
  <1> DEFINE run == d.missions[1].run
             r == [run EXCEPT !.task = task, !.receipt = "reconciliation"]
             bound == IF task = None THEN d ELSE WithRun(d, 1, r)
  <1>0. [d EXCEPT !.missions[1].run.task = task,
                  !.missions[1].run.receipt = "reconciliation"] = WithRun(d, 1, r)
    BY DEF WithRun, Shape, IsMission
  <1>1. /\ ~Paused(d.missions[1])
        /\ IntentOf(d.missions[1]) # None
        /\ e = MoveIn(bound, 1, "BLOCKED", reason)
    BY <1>0 DEF RecordRunStop, Saved
  <1>2. HasRun(d.missions[1]) /\ IsRun(run) /\ run = RunOf(d.missions[1])
        /\ run.intent # None
    BY <1>1, RunIs DEF Shape, IntentOf
  <1>3. IsRun(r) /\ r.intent = run.intent
    BY <1>2 DEF IsRun
  <1> HIDE DEF r
  <1>4. Keeps(d, WithRun(d, 1, r))
        /\ WithRun(d, 1, r).missions[1].state = d.missions[1].state
    BY <1>2, <1>3, WithRunKeeps
  <1>5. Keeps(d, bound) /\ HasRun(bound.missions[1])
    BY <1>2, <1>4, SameIsOrdinary DEF Ordinary, Keeps
  <1> HIDE DEF bound
  <1>6. [to |-> "BLOCKED", reason |-> reason] \in Moves
    BY DEF Moves, RunStates
  <1>7. /\ Shape(e)
        /\ e.authorizations = bound.authorizations
        /\ e.missions[1].state = "BLOCKED"
        /\ e.missions[1].revisions = bound.missions[1].revisions
        /\ RunOf(e.missions[1]) = RunOf(bound.missions[1])
        /\ HasRun(e.missions[1])
    BY <1>1, <1>5, <1>6, MoveIs DEF Keeps
  <1> QED BY <1>1, <1>5, <1>7 DEF Keeps, KeepsPaused, Unfinished

LEMMA UnobservedIs ==
    ASSUME NEW d, Shape(d), NEW e \in RecordReconcileUnobserved(d, 1)
    PROVE  Keeps(d, e) /\ KeepsPaused(d, e) /\ Unfinished(d, e)
  <1> DEFINE run == d.missions[1].run
             r == [run EXCEPT !.unobserved = @ + 1]
             counted == WithRun(d, 1, r)
  <1>0. [d EXCEPT !.missions[1].run.unobserved = @ + 1] = counted
    BY DEF WithRun, Shape, IsMission
  <1>1. /\ ~Paused(d.missions[1])
        /\ IntentOf(d.missions[1]) # None
        /\ e = counted \/ e = MoveIn(counted, 1, "BLOCKED", "reconcile_not_observable")
    BY <1>0 DEF RecordReconcileUnobserved, HeldRun, Saved
  <1>2. HasRun(d.missions[1]) /\ IsRun(run) /\ run = RunOf(d.missions[1])
    BY <1>1, RunIs DEF Shape, IntentOf
  <1>3. IsRun(r) /\ r.intent = run.intent
    <2>1. run.unobserved + 1 \in Nat
      BY <1>2 DEF IsRun
    <2> QED BY <1>2, <2>1 DEF IsRun
  <1> HIDE DEF r
  <1>4. Keeps(d, counted) /\ HasRun(counted.missions[1])
        /\ counted.missions[1].state = d.missions[1].state
    BY <1>1, <1>2, <1>3, WithRunKeeps
  <1> HIDE DEF counted
  <1>5. [to |-> "BLOCKED", reason |-> "reconcile_not_observable"] \in Moves
    BY DEF Moves, RunStates, ReconcileStops
  <1>6. CASE e = counted
    BY <1>1, <1>4, <1>6 DEF KeepsPaused, Unfinished
  <1>7. CASE e = MoveIn(counted, 1, "BLOCKED", "reconcile_not_observable")
    <2>1. /\ Shape(e)
          /\ e.authorizations = counted.authorizations
          /\ e.missions[1].state = "BLOCKED"
          /\ e.missions[1].revisions = counted.missions[1].revisions
          /\ RunOf(e.missions[1]) = RunOf(counted.missions[1])
          /\ HasRun(e.missions[1])
      BY <1>4, <1>5, <1>7, MoveIs DEF Keeps
    <2> QED BY <1>1, <1>4, <2>1 DEF Keeps, KeepsPaused, Unfinished
  <1> QED BY <1>1, <1>6, <1>7

\* A verification that completes the mission found every conjunct to hold.
LEMMA VerificationIs ==
    ASSUME NEW d, Shape(d), NEW failed \in Failures \cup {"none"}, NEW held,
           NEW e \in RecordVerification(d, 1, failed, held)
    PROVE  /\ Keeps(d, e) /\ KeepsPaused(d, e) /\ Uncounted(d, e)
           /\ e.missions[1].state = "RUNNING" => d.missions[1].state = "RUNNING"
           /\ e.missions[1].state = "COMPLETED" =>
                 failed = "none" /\ held.accepted /\ held.active /\ ~held.open
  <1> DEFINE run == d.missions[1].run
             pending == [run EXCEPT !.pending = @ + 1]
             failing == [run EXCEPT !.verification = failed]
             verified == [run EXCEPT !.verification = "verified"]
  <1>1. /\ ~Paused(d.missions[1])
        /\ d.missions[1].state = "RUNNING"
    BY DEF RecordVerification
  <1>2. HasRun(d.missions[1]) /\ IsRun(run) /\ run = RunOf(d.missions[1])
        /\ run.intent # None
    BY <1>1, RunIs DEF Shape, IsMission, RunStates
  <1>3. /\ IsRun(pending) /\ pending.intent = run.intent
        /\ pending.unobserved = run.unobserved
    <2>1. run.pending + 1 \in Nat
      BY <1>2 DEF IsRun
    <2> QED BY <1>2, <2>1 DEF IsRun
  <1>4. /\ IsRun(failing) /\ failing.intent = run.intent
        /\ failing.unobserved = run.unobserved
        /\ IsRun(verified) /\ verified.intent = run.intent
        /\ verified.unobserved = run.unobserved
    BY <1>2 DEF IsRun
  <1>5. \/ /\ failed # "none"
           /\ e = MoveIn(WithRun(d, 1, failing), 1, "BLOCKED", failed)
        \/ e = WithRun(d, 1, pending)
        \/ /\ failed = "none" /\ held.accepted /\ held.active /\ ~held.open
           /\ e = MoveIn(WithRun(d, 1, verified), 1, "COMPLETED", "verified_completion")
    BY <1>1 DEF RecordVerification, Saved, WithRun
  <1> HIDE DEF pending, failing, verified
  <1>6. CASE e = WithRun(d, 1, pending)
    BY <1>1, <1>2, <1>3, <1>6, WithRunKeeps DEF KeepsPaused, Uncounted
  <1>7. CASE /\ failed # "none"
             /\ e = MoveIn(WithRun(d, 1, failing), 1, "BLOCKED", failed)
    <2> DEFINE c == WithRun(d, 1, failing)
    <2>1. /\ Keeps(d, c) /\ HasRun(c.missions[1]) /\ RunOf(c.missions[1]) = failing
      BY <1>2, <1>4, WithRunKeeps
    <2> HIDE DEF c
    <2>2. [to |-> "BLOCKED", reason |-> failed] \in Moves /\ failed \notin ReconcileStops
      BY <1>7 DEF Moves, RunStates, Failures, ReconcileStops
    <2>3. /\ Shape(e)
          /\ LastReason(e.missions[1]) = failed
          /\ e.authorizations = c.authorizations
          /\ e.missions[1].state = "BLOCKED"
          /\ e.missions[1].revisions = c.missions[1].revisions
          /\ RunOf(e.missions[1]) = RunOf(c.missions[1])
          /\ HasRun(e.missions[1])
      BY <1>7, <2>1, <2>2, MoveIs DEF Keeps, c
    <2> QED BY <1>1, <1>2, <1>4, <2>1, <2>2, <2>3 DEF Keeps, KeepsPaused, Uncounted
  <1>8. CASE /\ failed = "none" /\ held.accepted /\ held.active /\ ~held.open
             /\ e = MoveIn(WithRun(d, 1, verified), 1, "COMPLETED", "verified_completion")
    <2> DEFINE c == WithRun(d, 1, verified)
    <2>1. /\ Keeps(d, c) /\ HasRun(c.missions[1]) /\ RunOf(c.missions[1]) = verified
      BY <1>2, <1>4, WithRunKeeps
    <2> HIDE DEF c
    <2>2. /\ [to |-> "COMPLETED", reason |-> "verified_completion"] \in Moves
          /\ "verified_completion" \notin ReconcileStops
      BY DEF Moves, RunStates, ReconcileStops
    <2>3. /\ Shape(e)
          /\ LastReason(e.missions[1]) = "verified_completion"
          /\ e.authorizations = c.authorizations
          /\ e.missions[1].state = "COMPLETED"
          /\ e.missions[1].revisions = c.missions[1].revisions
          /\ RunOf(e.missions[1]) = RunOf(c.missions[1])
          /\ HasRun(e.missions[1])
      BY <1>2, <1>4, <1>8, <2>1, <2>2, MoveIs DEF Keeps, c
    <2> QED BY <1>1, <1>2, <1>4, <1>8, <2>1, <2>2, <2>3 DEF Keeps, KeepsPaused, Uncounted
  <1> QED BY <1>5, <1>6, <1>7, <1>8

-----------------------------------------------------------------------------
(* Decisions, before anything of a run is recorded                         *)

LEMMA ElementIs == ASSUME NEW S, NEW s \in Seq(S), NEW i \in DOMAIN s PROVE s[i] \in S
  OBVIOUS

LEMMA SeqLike ==
    ASSUME NEW S, NEW f \in Seq(S), NEW g,
           g = [i \in DOMAIN f |-> g[i]], \A i \in DOMAIN f : g[i] \in S
    PROVE  g \in Seq(S)
  OBVIOUS

\* A document in which only the mission's own entry was replaced.
LEMMA DocumentIs ==
    ASSUME NEW d, Shape(d), NEW x, IsMission(x), NEW e,
           e \in [missions : {e.missions}, authorizations : Seq(Authorized),
                  ledger : {e.ledger}, reservations : Seq(Reserved)],
           e.missions = [d.missions EXCEPT ![1] = x]
    PROVE  Shape(e) /\ e.missions[1] = x
  <1>1. e.missions[1] = x
    BY DEF Shape
  <1>2. e.missions \in [{1} -> {e.missions[1]}]
    BY <1>1 DEF Shape
  <1> QED BY <1>1, <1>2 DEF Shape

LEMMA CurrentIs ==
    ASSUME NEW x, IsMission(x)
    PROVE  Revision(x) \in Nat /\ Current(x) \in Content
  <1>1. Len(x.revisions) \in Nat /\ Len(x.revisions) # 0
    BY DEF IsMission
  <1>2. x.revisions[Len(x.revisions)] \in Revisions
    BY <1>1 DEF IsMission
  <1> QED BY <1>1, <1>2 DEF Revision, Current, Revisions

LEMMA NotedIs ==
    ASSUME NEW d, Shape(d), NEW t
    PROVE  /\ Shape(NoteExpirations(d, 1, t))
           /\ NoteExpirations(d, 1, t).missions = d.missions
           /\ NoteExpirations(d, 1, t).authorizations = d.authorizations
  <1>1. PICK l : NoteExpirations(d, 1, t) = [d EXCEPT !.ledger = l]
    BY DEF NoteExpirations
  <1> QED BY <1>1 DEF Shape

Ask == [id : Nat, by : Contexts, kind : {"EDIT", "APPROVE"}, revision : Nat,
        shown : {None} \cup Content, content : {None} \cup Content,
        scope : Scopes, expires : Nat]

LEMMA ApproveIs ==
    ASSUME NEW d, Shape(d), ~HasRun(d.missions[1]), NEW ask \in Ask,
           NEW t \in Nat
    PROVE  LET e == ApproveIn(d, 1, ask, t).document IN
           /\ Shape(e)
           /\ e.missions[1].state = "AUTHORIZED"
           /\ ~HasRun(e.missions[1])
           /\ Revision(e.missions[1]) = Revision(d.missions[1])
  <1> DEFINE m == d.missions[1]
             a == Len(d.authorizations) + 1
             x == [m EXCEPT !.authorizations = Append(@, a), !.state = "AUTHORIZED"]
             new == [mission |-> 1, revision |-> Revision(m),
                     content |-> Current(m), scope |-> ask.scope,
                     by |-> ask.by, expires |-> ask.expires, issued |-> t,
                     revoked |-> FALSE]
             as == Append(d.authorizations, new)
             l == Append(d.ledger, Entry("ISSUED", 1, Revision(m), a, ask.id, t))
             e == ApproveIn(d, 1, ask, t).document
  <1>1. Revision(m) \in Nat /\ Current(m) \in Content
    BY CurrentIs DEF Shape
  <1>2. new \in Authorized
    BY <1>1 DEF Authorized, Ask
  <1>3. as \in Seq(Authorized)
    BY <1>2 DEF Shape
  <1>4. e = [d EXCEPT !.authorizations = as,
                      !.missions = [d.missions EXCEPT ![1] = x],
                      !.ledger = l]
    BY DEF ApproveIn, Shape, IsMission
  <1> HIDE DEF new, a
  <1>5. IsMission(x) /\ x.state = "AUTHORIZED" /\ ~HasRun(x)
    BY DEF Shape, IsMission, HasRun, RunStates
  <1>8. Revision(x) = Revision(m)
    BY DEF Shape, IsMission, Revision
  <1> HIDE DEF x, as, l, e
  <1>6. /\ e \in [missions : {e.missions}, authorizations : Seq(Authorized),
                   ledger : {e.ledger}, reservations : Seq(Reserved)]
        /\ e.missions = [d.missions EXCEPT ![1] = x]
    <2>1. d \in [missions : {d.missions}, authorizations : Seq(Authorized),
                   ledger : {d.ledger}, reservations : Seq(Reserved)]
      BY DEF Shape
    <2> QED BY <1>3, <1>4, <2>1
  <1>7. Shape(e) /\ e.missions[1] = x
    <2>1. /\ Shape(d) /\ IsMission(x)
          /\ e \in [missions : {e.missions}, authorizations : Seq(Authorized),
                     ledger : {e.ledger}, reservations : Seq(Reserved)]
          /\ e.missions = [d.missions EXCEPT ![1] = x]
      BY <1>5, <1>6
    <2> QED BY ONLY <2>1, DocumentIs
  <1> QED BY <1>5, <1>7, <1>8 DEF e

\* Revoking keeps the list of authorizations what it is.
LEMMA RevokedIs ==
    ASSUME NEW as \in Seq(Authorized), NEW R, NEW bs,
           bs = [a \in DOMAIN as |-> IF a \in R THEN [as[a] EXCEPT !.revoked = TRUE]
                                    ELSE as[a]]
    PROVE  bs \in Seq(Authorized)
  <1>1. \A a \in DOMAIN as : bs[a] \in Authorized
    <2> TAKE a \in DOMAIN as
    <2>1. as[a] \in Authorized
      BY ElementIs
    <2>2. [as[a] EXCEPT !.revoked = TRUE] \in Authorized
      BY <2>1 DEF Authorized
    <2> QED BY <2>1, <2>2
  <1>2. bs = [a \in DOMAIN as |-> bs[a]]
    OBVIOUS
  <1> QED BY <1>1, <1>2, SeqLike

LEMMA EditIs ==
    ASSUME NEW d, Shape(d), ~HasRun(d.missions[1]), NEW ask \in Ask,
           ask.content \in Content, NEW t \in Nat
    PROVE  LET e == EditIn(d, 1, ask, t).document IN
           /\ Shape(e)
           /\ e.missions[1].state = "AWAITING_DECISION"
           /\ ~HasRun(e.missions[1])
           /\ Revision(e.missions[1]) = Revision(d.missions[1]) + 1
  <1> DEFINE m == d.missions[1]
             invalidated == Among(m.authorizations,
                {a \in ToSet(m.authorizations) :
                    /\ d.authorizations[a].revision = Revision(m)
                    /\ ~d.authorizations[a].revoked})
             as == [a \in DOMAIN d.authorizations |->
                      IF a \in ToSet(invalidated)
                      THEN [d.authorizations[a] EXCEPT !.revoked = TRUE]
                      ELSE d.authorizations[a]]
             new == [content |-> ask.content, by |-> ask.id]
             revised == Append(m.revisions, new)
             x == [m EXCEPT !.revisions = revised, !.state = "AWAITING_DECISION"]
             l == d.ledger \o [i \in DOMAIN invalidated |->
                    Entry("INVALIDATED_BY_EDIT", 1, Revision(m), invalidated[i], ask.id, t)]
             e == EditIn(d, 1, ask, t).document
  <1>1. e = [d EXCEPT !.authorizations = as,
                      !.missions = [d.missions EXCEPT ![1] = x],
                      !.ledger = l]
    BY DEF EditIn, Shape, IsMission
  <1> HIDE DEF invalidated
  <1>2. as \in Seq(Authorized)
    BY RevokedIs DEF Shape
  <1>3. new \in Revisions
    BY DEF Revisions, Ask
  <1> HIDE DEF new
  <1>7. revised \in Seq(Revisions) /\ revised # <<>>
    BY <1>3, LastAppended DEF Shape, IsMission
  <1>8. Len(revised) = Revision(m) + 1
    BY DEF Shape, IsMission, Revision
  <1> HIDE DEF revised
  <1>4. IsMission(x) /\ x.state = "AWAITING_DECISION" /\ ~HasRun(x)
    BY <1>7 DEF Shape, IsMission, HasRun, RunStates
  <1>9. Revision(x) = Revision(m) + 1
    BY <1>8 DEF Shape, IsMission, Revision
  <1> HIDE DEF x, as, l, e
  <1>5. /\ e \in [missions : {e.missions}, authorizations : Seq(Authorized),
                   ledger : {e.ledger}, reservations : Seq(Reserved)]
        /\ e.missions = [d.missions EXCEPT ![1] = x]
    BY <1>1, <1>2 DEF Shape
  <1>6. Shape(e) /\ e.missions[1] = x
    <2>1. /\ Shape(d) /\ IsMission(x)
          /\ e \in [missions : {e.missions}, authorizations : Seq(Authorized),
                     ledger : {e.ledger}, reservations : Seq(Reserved)]
          /\ e.missions = [d.missions EXCEPT ![1] = x]
      BY <1>4, <1>5
    <2> QED BY ONLY <2>1, DocumentIs
  <1> QED BY <1>4, <1>6, <1>9 DEF e

LEMMA ConsumedIs ==
    ASSUME NEW s \in Seq(Reserved), NEW i \in Nat
    PROVE  [s EXCEPT ![i] = [s[i] EXCEPT !.consumed = i]] \in Seq(Reserved)
  <1> DEFINE t == [s EXCEPT ![i] = [s[i] EXCEPT !.consumed = i]]
  <1>1. \A j \in DOMAIN s : t[j] \in Reserved
    <2> TAKE j \in DOMAIN s
    <2>1. s[j] \in Reserved
      BY ElementIs
    <2>2. [s[j] EXCEPT !.consumed = i] \in Reserved
      BY <2>1 DEF Reserved
    <2> QED BY <2>1, <2>2
  <1>2. t = [j \in DOMAIN s |-> t[j]]
    OBVIOUS
  <1> QED BY <1>1, <1>2, SeqLike

LEMMA RecordedIs ==
    ASSUME NEW f, Shape(f), ~HasRun(f.missions[1]),
           f.missions[1].state \in {"AUTHORIZED", "AWAITING_DECISION"},
           NEW entry, NEW i \in Nat
    PROVE  LET e == [f EXCEPT !.missions[1].decisions = Append(@, entry),
                              !.reservations[i].consumed = i]
           IN
           /\ Shape(e)
           /\ e.missions[1].state \in {"AUTHORIZED", "AWAITING_DECISION"}
           /\ ~HasRun(e.missions[1])
           /\ Revision(e.missions[1]) = Revision(f.missions[1])
  <1> DEFINE new == Append(f.missions[1].decisions, entry)
             x == [f.missions[1] EXCEPT !.decisions = new]
             g == [f EXCEPT !.missions = [f.missions EXCEPT ![1] = x]]
             rs == [g.reservations EXCEPT ![i] = [g.reservations[i] EXCEPT !.consumed = i]]
             e == [f EXCEPT !.missions[1].decisions = Append(@, entry),
                            !.reservations[i].consumed = i]
  <1>1. e = [g EXCEPT !.reservations = rs]
    OBVIOUS
  <1>5. rs \in Seq(Reserved)
    <2>1. g.reservations \in Seq(Reserved)
      BY DEF Shape
    <2> HIDE DEF g
    <2> QED BY <2>1, ConsumedIs
  <1> HIDE DEF new, rs, e
  <1>2. IsMission(x) /\ x.state = f.missions[1].state /\ ~HasRun(x)
    BY DEF Shape, IsMission, HasRun, RunStates
  <1>6. Revision(x) = Revision(f.missions[1])
    BY DEF Shape, IsMission, Revision
  <1> HIDE DEF x
  <1>3. /\ e \in [missions : {e.missions}, authorizations : Seq(Authorized),
                   ledger : {e.ledger}, reservations : Seq(Reserved)]
        /\ e.missions = [f.missions EXCEPT ![1] = x]
    BY <1>1, <1>5 DEF Shape
  <1>4. Shape(e) /\ e.missions[1] = x
    <2>1. /\ Shape(f) /\ IsMission(x)
          /\ e \in [missions : {e.missions}, authorizations : Seq(Authorized),
                     ledger : {e.ledger}, reservations : Seq(Reserved)]
          /\ e.missions = [f.missions EXCEPT ![1] = x]
      BY <1>2, <1>3
    <2> HIDE DEF g
    <2> QED BY ONLY <2>1, DocumentIs
  <1> QED BY <1>2, <1>4, <1>6 DEF e

\* An approval or an edit leaves a mission without a run as one.
LEMMA DecidedIs ==
    ASSUME NEW d, Shape(d), ~HasRun(d.missions[1]), NEW ask \in Ask,
           ask.kind = "EDIT" => ask.content \in Content, NEW t \in Nat
    PROVE  LET e == DecideIn(d, 1, ask, t) IN
           /\ Shape(e)
           /\ e.missions[1].state \in {"AUTHORIZED", "AWAITING_DECISION"}
           /\ ~HasRun(e.missions[1])
           /\ Revision(e.missions[1]) >= Revision(d.missions[1])
  <1> DEFINE noted == NoteExpirations(d, 1, t)
             effect == Effect(noted, 1, ask, t)
             f == effect.document
             e == DecideIn(d, 1, ask, t)
  <1>1. Shape(noted) /\ ~HasRun(noted.missions[1])
        /\ noted.missions[1] = d.missions[1] /\ Revision(noted.missions[1]) \in Nat
    <2>1. Shape(noted) /\ noted.missions = d.missions
      BY NotedIs
    <2> HIDE DEF noted
    <2> QED BY <2>1, CurrentIs DEF Shape
  <1>2. /\ Shape(f)
        /\ f.missions[1].state \in {"AUTHORIZED", "AWAITING_DECISION"}
        /\ ~HasRun(f.missions[1])
        /\ Revision(f.missions[1]) >= Revision(noted.missions[1])
    <2> HIDE DEF noted
    <2>1. CASE ask.kind = "APPROVE"
      <3>1. effect = ApproveIn(noted, 1, ask, t)
        BY <2>1 DEF Effect
      <3> QED BY <1>1, <3>1, ApproveIs
    <2>2. CASE ask.kind = "EDIT"
      <3>1. effect = EditIn(noted, 1, ask, t)
        BY <2>2 DEF Effect
      <3> QED BY <1>1, <2>2, <3>1, EditIs
    <2> QED BY <2>1, <2>2 DEF Ask
  <1> DEFINE entry == [id |-> ask.id, by |-> ask.by, kind |-> ask.kind,
                       revision |-> ask.revision, content |-> ask.content,
                       scope |-> ask.scope, expires |-> ask.expires, at |-> t,
                       outcome |-> effect.outcome]
             g == [f EXCEPT !.missions[1].decisions = Append(@, entry),
                            !.reservations[ask.id].consumed = ask.id]
  <1>3. e = g
    BY DEF DecideIn
  <1> HIDE DEF f, e, entry
  <1>4. /\ Shape(g)
        /\ g.missions[1].state \in {"AUTHORIZED", "AWAITING_DECISION"}
        /\ ~HasRun(g.missions[1])
        /\ Revision(g.missions[1]) = Revision(f.missions[1])
    <2>1. ask.id \in Nat
      BY DEF Ask
    <2> HIDE DEF effect, noted
    <2> QED BY ONLY <1>2, <2>1, RecordedIs
  <1> HIDE DEF g, noted
  <1>5. Revision(g.missions[1]) >= Revision(d.missions[1])
    BY <1>1, <1>2, <1>4
  <1> QED BY <1>3, <1>4, <1>5 DEF e

LEMMA ReservedIs ==
    ASSUME NEW d, Shape(d), NEW kind \in {"request", "decision"},
           NEW context \in Contexts
    PROVE  /\ Shape(ReserveIn(d, kind, context))
           /\ ReserveIn(d, kind, context).missions = d.missions
           /\ NextId(d) \in Nat
  <1> DEFINE new == [kind |-> kind, context |-> context, consumed |-> None]
  <1>1. new \in Reserved
    BY DEF Reserved, None
  <1>2. Append(d.reservations, new) \in Seq(Reserved)
    BY <1>1, LastAppended DEF Shape
  <1> DEFINE l == Append(d.reservations, new)
             e == ReserveIn(d, kind, context)
  <1>3. e = [d EXCEPT !.reservations = l]
    BY DEF ReserveIn
  <1> HIDE DEF l, e
  <1>4. e.missions = d.missions /\ Shape(e)
    BY <1>2, <1>3 DEF Shape, l
  <1>5. NextId(d) \in Nat
    BY DEF NextId, Shape
  <1> QED BY <1>4, <1>5 DEF e
-----------------------------------------------------------------------------
(* What a run block says, against the state and the lifecycle              *)

ReasonOf(l) == IF l = <<>> THEN "none" ELSE Last(l).reason
Ran(l) == l # <<>> /\ l[1].to = "RUNNING"

\* A mission is moved twice at most, and it is observed running before it is
\* judged.
LifeGood(state, l) ==
    /\ Len(l) <= 2
    /\ l = <<>> <=> state \notin RunStates
    /\ l # <<>> => Last(l).to = state
    /\ Len(l) = 1 => state \in {"RUNNING", "BLOCKED", "CANCELLED"}
    /\ Len(l) = 2 => state \in {"COMPLETED", "BLOCKED", "CANCELLED"} /\ l[1].to = "RUNNING"
    /\ Ran(l) => l[1].reason \in Seen

\* Each fact of the run was recorded in its turn.
RunFits(state, l, r) ==
    /\ r.intent # None => r.workspace = "PREPARED"
    /\ r.receipt # "none" => r.intent # None
    /\ r.task # None => r.receipt # "none"
    /\ Ran(l) => r.task # None
    /\ r.verification # "none" =>
          /\ Len(l) = 2
          /\ ReasonOf(l) = IF r.verification = "verified" THEN "verified_completion"
                           ELSE r.verification
    /\ r.verification = "none" => state # "COMPLETED" /\ ReasonOf(l) \notin Failures
    /\ r.pending > 0 => Ran(l) /\ r.pending <= MaxVerifications
    /\ r.cancel # "none" <=> state = "CANCELLED"
    /\ r.unobserved > 0 => r.intent # None
    /\ r.unobserved <= MaxReconcileAttempts
    /\ r.unobserved = MaxReconcileAttempts <=> ReasonOf(l) = "reconcile_not_observable"
    /\ ReasonOf(l) = "reconcile_late_child_aborted" =>
          r.task # None /\ r.receipt = "reconciliation"
    /\ r.late # None =>
          state = "BLOCKED" /\ Len(l) = 1 /\ l[1].reason \in LateStops /\ r.task = None
    /\ r.intent = None => state \notin {"RUNNING", "COMPLETED", "BLOCKED"}
    /\ state = "CANCELLED" =>
          /\ ReasonOf(l) = r.cancel
          /\ r.cancel = "cancelled_before_intent" <=> r.intent = None
          /\ Ran(l) <=> r.cancel \in CancelsObserved
    /\ r.quiescence # "owned_group_reaped"
    /\ r.quiescence \in {"none"} \cup IF r.cancel = "none" THEN {} ELSE QuiescenceFor(r.cancel)

RunGood(x) ==
    /\ LifeGood(x.state, x.lifecycle)
    /\ RunFits(x.state, x.lifecycle, RunOf(x))
    /\ HasRun(x) => x.state \in RunStates \cup {"AUTHORIZED"}

\* A load accepts such a run.
LEMMA RunAcceptable ==
    ASSUME NEW x, IsMission(x), RunGood(x)
    PROVE  LifecycleValid(x) /\ RunValid(x) /\ CancelValid(x)
  <1> DEFINE l == x.lifecycle
  <1>1. l \in Seq(Moves) /\ Len(l) \in {0, 1, 2} /\ (l = <<>> <=> Len(l) = 0)
    <2>1. l \in Seq(Moves)
      BY DEF IsMission
    <2>2. Len(l) <= 2
      BY DEF RunGood, LifeGood
    <2>3. Len(l) \in Nat /\ (l = <<>> <=> Len(l) = 0)
      BY <2>1
    <2>4. \A k \in Nat : k <= 2 => k \in {0, 1, 2}
      OBVIOUS
    <2>5. Len(l) \in {0, 1, 2}
      BY <2>2, <2>3, <2>4, Zenon
    <2> QED BY <2>1, <2>3, <2>5
  <1>2. Last(l) = l[Len(l)]
    BY DEF Last
  <1>3. LastReason(x) = ReasonOf(l) /\ (ReachedRunning(x) <=> Ran(l))
    BY DEF LastReason, ReasonOf, ReachedRunning, Ran
  <1>4. l # <<>> => HasRun(x)
    BY DEF IsMission
  <1> DEFINE chain == Chain(x)
  <1>5. \A n \in 0 .. Len(l) : chain[n] = IF n = 0 THEN "AUTHORIZED" ELSE l[n].to
    BY DEF Chain
  <1>6. LifecycleValid(x)
    <2>1. \A n \in 1 .. Len(l) : <<chain[n - 1], chain[n]>> \in RunTransitions
      <3> SUFFICES ASSUME NEW n \in 1 .. Len(l)
                   PROVE  <<chain[n - 1], chain[n]>> \in RunTransitions
        OBVIOUS
      <3>1. chain[n] = l[n].to /\ chain[n - 1] = IF n = 1 THEN "AUTHORIZED" ELSE l[n - 1].to
        BY <1>1, <1>5
      <3>2. n = 1 \/ (n = 2 /\ Len(l) = 2)
        <4>1. CASE Len(l) = 0
          BY <4>1
        <4>2. CASE Len(l) = 1
          BY <4>2
        <4>3. CASE Len(l) = 2
          BY <4>3
        <4> QED BY <1>1, <4>1, <4>2, <4>3
      <3>3. \/ Len(l) = 1 /\ l[1].to \in {"RUNNING", "BLOCKED", "CANCELLED"}
            \/ /\ Len(l) = 2 /\ l[1].to = "RUNNING"
               /\ l[2].to \in {"COMPLETED", "BLOCKED", "CANCELLED"}
        BY <1>1, <1>2, <3>2 DEF RunGood, LifeGood
      <3> HIDE DEF chain, l
      <3>4. CASE n = 1
        BY <3>1, <3>3, <3>4 DEF RunTransitions
      <3>5. CASE n = 2 /\ Len(l) = 2
        BY <3>1, <3>3, <3>5 DEF RunTransitions
      <3> QED BY <3>2, <3>4, <3>5
    <2>2. l # <<>> => chain[Len(l)] = x.state
      BY <1>1, <1>2, <1>5 DEF RunGood, LifeGood
    <2> QED BY <1>4, <2>1, <2>2 DEF LifecycleValid, RunGood, LifeGood
  <1>7. RunFits(x.state, l, RunOf(x)) /\ (HasRun(x) => RunOf(x) = x.run)
    BY DEF RunGood, RunOf
  <1>8. IsRun(RunOf(x))
    BY RunIs
  <1>9. RunValid(x)
    <2> SUFFICES ASSUME HasRun(x) PROVE RunValid(x)
      BY DEF RunValid
    <2>1. RunFits(x.state, l, x.run)
      BY <1>7
    <2>2. x.run.late # None => StoppedUnobserved(x)
      BY <1>7, <2>1 DEF RunFits, StoppedUnobserved, TargetOf
    <2>3. x.run.verification = "none" => \A n \in DOMAIN l : l[n].reason \notin Failures
      <3> SUFFICES ASSUME x.run.verification = "none", NEW n \in DOMAIN l
                   PROVE  l[n].reason \notin Failures
        OBVIOUS
      <3>1. n \in 1 .. Len(l) /\ l # <<>>
        BY <1>1
      <3>2. n = Len(l) \/ (n = 1 /\ Len(l) = 2)
        <4>1. CASE Len(l) = 1
          BY <3>1, <4>1
        <4>2. CASE Len(l) = 2
          BY <3>1, <4>2
        <4> QED BY <1>1, <3>1, <4>1, <4>2
      <3>3. ReasonOf(l) = l[Len(l)].reason /\ ReasonOf(l) \notin Failures
        BY <1>2, <2>1, <3>1 DEF ReasonOf, RunFits
      <3>4. Len(l) = 2 => l[1].reason \in Seen
        BY <3>1 DEF RunGood, LifeGood, Ran
      <3> HIDE DEF l
      <3> QED BY <3>2, <3>3, <3>4 DEF Seen, Failures
    <2> HIDE DEF l
    <2> QED BY <1>3, <2>1, <2>2, <2>3 DEF RunValid, RunFits, l
  <1>10. CancelValid(x)
    <2> SUFFICES ASSUME HasRun(x), x.run.cancel # "none" PROVE CancelValid(x)
      BY DEF CancelValid
    <2>1. RunFits(x.state, l, x.run)
      BY <1>7
    <2> QED BY <1>3, <2>1 DEF CancelValid, RunFits
  <1> QED BY <1>6, <1>9, <1>10
\* A state moves as the state machine allows, to the end of the lifecycle k.
Moving(state, l, mv, k) ==
    /\ l \in Seq(Moves) /\ mv \in Moves /\ LifeGood(state, l)
    /\ <<state, mv.to>> \in RunTransitions
    /\ mv.to = "RUNNING" => mv.reason \in Seen
    /\ k = Append(l, mv)

Advanced(state, l, mv, k) ==
    /\ LifeGood(mv.to, k)
    /\ ReasonOf(k) = mv.reason
    /\ state = "AUTHORIZED" => l = <<>> /\ Len(k) = 1 /\ k[1] = mv
    /\ state = "RUNNING" => Ran(l) /\ Ran(k) /\ Len(k) = 2
    /\ state \in {"AUTHORIZED", "RUNNING"}
    /\ ReasonOf(l) \in {"none"} \cup Seen

LEMMA MovedLife ==
    ASSUME NEW l, NEW mv, NEW state, NEW k, Moving(state, l, mv, k)
    PROVE  Advanced(state, l, mv, k)
  <1> USE DEF Moving
  <1>1. /\ k # <<>> /\ Last(k) = mv /\ Len(k) = Len(l) + 1 /\ Len(l) \in Nat
        /\ l = <<>> <=> Len(l) = 0
        /\ l = <<>> => k[1] = mv
        /\ l # <<>> => k[1] = l[1]
    BY DEF Last
  <1>2. CASE state = "AUTHORIZED"
    <2>1. l = <<>> /\ Len(l) = 0 /\ Len(k) = 1 /\ k[1] = mv
      BY <1>1, <1>2 DEF LifeGood, RunStates
    <2>2. mv.to \in {"RUNNING", "BLOCKED", "CANCELLED"}
      BY <1>2 DEF RunTransitions
    <2> HIDE DEF LifeGood
    <2>3. LifeGood(mv.to, k)
      BY <1>1, <2>1, <2>2 DEF LifeGood, Ran, RunStates
    <2> QED BY <1>1, <1>2, <2>1, <2>3 DEF ReasonOf, Advanced
  <1>3. CASE state = "RUNNING"
    <2>1. /\ Len(l) <= 2 /\ Len(l) # 2 /\ l # <<>> /\ Last(l).to = "RUNNING"
      BY <1>3 DEF LifeGood, RunStates
    <2>2. Len(l) = 1 /\ Last(l) = l[1]
      <3>1. Len(l) \in Nat /\ Len(l) <= 2 /\ Len(l) # 2 /\ Len(l) # 0
        BY <1>1, <2>1
      <3>2. \A n \in Nat : n <= 2 /\ n # 2 /\ n # 0 => n = 1
        OBVIOUS
      <3>3. Len(l) = 1
        BY <3>1, <3>2, Zenon
      <3> QED BY <3>3 DEF Last
    <2>3. Ran(l) /\ l[1].reason \in Seen /\ Len(k) = 2 /\ k[1] = l[1]
      BY <1>1, <1>3, <2>1, <2>2 DEF LifeGood, Ran
    <2>4. mv.to \in {"COMPLETED", "BLOCKED", "CANCELLED"}
      BY <1>3 DEF RunTransitions
    <2>5. LifeGood(mv.to, k)
      BY <1>1, <2>1, <2>2, <2>3, <2>4 DEF LifeGood, Ran, RunStates
    <2> QED BY <1>1, <1>3, <2>1, <2>2, <2>3, <2>5 DEF ReasonOf, Ran, Advanced
  <1> QED BY <1>2, <1>3 DEF RunTransitions, Advanced

\* The document after an operation on the run block of the one mission: nothing
\* else of it changed, and the run is recorded of an authorized mission only.
RunOnly(d, e) ==
    LET x == d.missions[1]
        y == e.missions[1]
    IN
    e # d =>
       /\ HasRun(x) \/ x.state = "AUTHORIZED"
       /\ HasRun(y)
       /\ Terminal(x) => y.state = x.state
       /\ e = [d EXCEPT !.missions = [d.missions EXCEPT ![1] =
                  [x EXCEPT !.run = y.run, !.state = y.state, !.lifecycle = y.lifecycle]]]

LEMMA WrittenRun ==
    ASSUME NEW d, Shape(d), RunGood(d.missions[1]), NEW r, IsRun(r),
           r.intent \in {a \in Nat : a # None} \cup {RunOf(d.missions[1]).intent},
           HasRun(d.missions[1]) \/ d.missions[1].state = "AUTHORIZED",
           RunFits(d.missions[1].state, d.missions[1].lifecycle, r)
    PROVE  LET e == WithRun(d, 1, r) IN
           /\ Shape(e) /\ RunOnly(d, e)
           /\ RunGood(e.missions[1]) /\ RunOf(e.missions[1]) = r /\ HasRun(e.missions[1])
           /\ e.missions[1] = [d.missions[1] EXCEPT !.run = r]
  <1> DEFINE e == WithRun(d, 1, r)
             x == d.missions[1]
             y == [x EXCEPT !.run = r]
  <1>1. /\ Shape(e) /\ e.missions[1] = y /\ HasRun(e.missions[1]) /\ RunOf(e.missions[1]) = r
    BY WithRunIs
  <1>2. e = [d EXCEPT !.missions = [d.missions EXCEPT ![1] = y]]
    BY DEF WithRun, Shape
  <1>3. y.run = r /\ y.state = x.state /\ y.lifecycle = x.lifecycle
    BY DEF Shape, IsMission
  <1>4. y = [x EXCEPT !.run = y.run, !.state = y.state, !.lifecycle = y.lifecycle]
    BY <1>3 DEF Shape, IsMission
  <1> HIDE DEF e
  <1>5. HasRun(x) => x.state \in RunStates \cup {"AUTHORIZED"}
    BY DEF RunGood
  <1> HIDE DEF x, y
  <1>6. RunGood(e.missions[1])
    BY <1>1, <1>3, <1>5 DEF RunGood, x
  <1>7. RunOnly(d, e)
    BY <1>1, <1>2, <1>3, <1>4 DEF RunOnly, x
  <1> QED BY <1>1, <1>6, <1>7 DEF e, x, y

\* The same with the move of the state that the operation records with it.
LEMMA MovedRun ==
    ASSUME NEW d, Shape(d), RunGood(d.missions[1]), NEW r, IsRun(r),
           NEW target, NEW reason, NEW e,
           e = MoveIn(WithRun(d, 1, r), 1, target, reason),
           [to |-> target, reason |-> reason] \in Moves,
           MayMove(d.missions[1], target),
           target = "RUNNING" => reason \in Seen,
           target \in {"RUNNING", "COMPLETED"} => r.intent # None,
           r.intent = RunOf(d.missions[1]).intent,
           HasRun(d.missions[1]) \/ d.missions[1].state = "AUTHORIZED",
           RunFits(target, Append(d.missions[1].lifecycle,
                                  [to |-> target, reason |-> reason]), r)
    PROVE  /\ Shape(e) /\ RunOnly(d, e)
           /\ RunGood(e.missions[1]) /\ RunOf(e.missions[1]) = r /\ HasRun(e.missions[1])
           /\ e.missions[1].state = target
  <1> DEFINE c == WithRun(d, 1, r)
             x == d.missions[1]
             mv == [to |-> target, reason |-> reason]
             k == Append(x.lifecycle, mv)
             y == [x EXCEPT !.run = r, !.state = target, !.lifecycle = k]
  <1>1. Shape(c) /\ c.missions[1] = [x EXCEPT !.run = r] /\ HasRun(c.missions[1])
        /\ RunOf(c.missions[1]) = r
    BY WithRunIs
  <1>2. c = [d EXCEPT !.missions = [d.missions EXCEPT ![1] = [x EXCEPT !.run = r]]]
    BY DEF WithRun, Shape
  <1>3. e = [d EXCEPT !.missions = [d.missions EXCEPT ![1] = y]]
    <2>1. c.missions = [d.missions EXCEPT ![1] = [x EXCEPT !.run = r]]
      BY <1>2 DEF Shape
    <2>2. /\ [x EXCEPT !.run = r].lifecycle = x.lifecycle
          /\ [[x EXCEPT !.run = r] EXCEPT !.state = target, !.lifecycle = k] = y
      BY DEF Shape, IsMission
    <2>3. e = [c EXCEPT !.missions = [c.missions EXCEPT ![1] =
                 [c.missions[1] EXCEPT !.state = target,
                     !.lifecycle = Append(c.missions[1].lifecycle, mv)]]]
      BY <1>1 DEF MoveIn, Shape, IsMission
    <2>4. e = [c EXCEPT !.missions = [c.missions EXCEPT ![1] = y]]
      <3>1. c.missions[1] = [x EXCEPT !.run = r]
        BY <1>1
      <3> HIDE DEF c, y
      <3> QED BY <2>2, <2>3, <3>1
    <2> HIDE DEF y, k
    <2> QED BY <1>2, <2>1, <2>4 DEF Shape
  <1>4. /\ Shape(e) /\ e.missions[1].state = target
        /\ RunOf(e.missions[1]) = r /\ HasRun(e.missions[1])
    <2> HIDE DEF c
    <2>1. e = MoveIn(c, 1, target, reason)
      BY DEF c
    <2> QED BY <1>1, <2>1, MoveIs
  <1>5. y.run = r /\ y.state = target /\ y.lifecycle = k
    BY DEF Shape, IsMission
  <1>6. e.missions[1] = y
    <2> HIDE DEF y
    <2> QED BY <1>3 DEF Shape
  <1>7. LifeGood(target, k)
    <2>1. x.lifecycle \in Seq(Moves) /\ LifeGood(x.state, x.lifecycle)
      BY DEF RunGood, Shape, IsMission
    <2>2. mv \in Moves /\ mv.to = target /\ mv.reason = reason
          /\ <<x.state, mv.to>> \in RunTransitions
      BY DEF MayMove
    <2> HIDE DEF mv, k, x
    <2>3. k = Append(x.lifecycle, mv)
      BY DEF k
    <2>4. Moving(x.state, x.lifecycle, mv, k)
      BY <2>1, <2>2, <2>3 DEF Moving
    <2> QED BY <2>2, <2>4, MovedLife DEF Advanced
  <1>8. y = [x EXCEPT !.run = y.run, !.state = y.state, !.lifecycle = y.lifecycle]
    BY <1>5 DEF Shape, IsMission
  <1>9. ~Terminal(x) /\ target \in RunStates
    BY DEF MayMove, RunTransitions, Terminal, TerminalStates, RunStates
  <1>10. RunFits(target, k, r)
    OBVIOUS
  <1> HIDE DEF x, y, k, mv
  <1>11. RunGood(e.missions[1])
    BY <1>4, <1>5, <1>6, <1>7, <1>9, <1>10 DEF RunGood
  <1>12. RunOnly(d, e)
    BY <1>3, <1>4, <1>6, <1>8, <1>9 DEF RunOnly, x
  <1> QED BY <1>4, <1>11, <1>12
-----------------------------------------------------------------------------
(* Each operation on the run block leaves such a run                       *)

RunRecorded(d, e) ==
    LET x == d.missions[1]
        y == e.missions[1]
    IN
    /\ Shape(e) /\ RunOnly(d, e) /\ RunGood(y)
    /\ RunOf(y).cancel = RunOf(x).cancel /\ RunOf(y).quiescence = RunOf(x).quiescence

LEMMA SameRecorded ==
    ASSUME NEW d, Shape(d), RunGood(d.missions[1]) PROVE RunRecorded(d, d)
  BY DEF RunRecorded, RunOnly

LEMMA WrittenRecorded ==
    ASSUME NEW d, Shape(d), RunGood(d.missions[1]), NEW r, IsRun(r),
           NEW e, e = WithRun(d, 1, r),
           r.intent \in {a \in Nat : a # None} \cup {RunOf(d.missions[1]).intent},
           r.cancel = RunOf(d.missions[1]).cancel,
           r.quiescence = RunOf(d.missions[1]).quiescence,
           HasRun(d.missions[1]) \/ d.missions[1].state = "AUTHORIZED",
           RunFits(d.missions[1].state, d.missions[1].lifecycle, r)
    PROVE  RunRecorded(d, e)
  BY WrittenRun DEF RunRecorded

\* What is known of the mission before any operation.
LEMMA BeforeRun ==
    ASSUME NEW d, Shape(d), RunGood(d.missions[1])
    PROVE  LET x == d.missions[1] IN
           /\ IsRun(RunOf(x)) /\ RunFits(x.state, x.lifecycle, RunOf(x))
           /\ LifeGood(x.state, x.lifecycle) /\ x.lifecycle \in Seq(Moves)
           /\ IntentOf(x) = RunOf(x).intent
           /\ Paused(x) <=> RunOf(x).paused
           /\ HasRun(x) => RunOf(x) = x.run
           /\ ~HasRun(x) => RunOf(x) = NewRun
           /\ x.state \in RunStates => HasRun(x)
           /\ WithRun(d, 1, x.run) = d
           /\ RunOf(x).intent \in Nat
  <1>1. WithRun(d, 1, d.missions[1].run) = d
    BY DEF WithRun, Shape, IsMission
  <1>2. RunOf(d.missions[1]).intent \in Nat
    BY RunIs DEF Shape, IsRun
  <1> QED BY <1>1, <1>2, RunIs DEF Shape, RunGood, IsMission

LEMMA WorkspaceRecorded ==
    ASSUME NEW d, Shape(d), RunGood(d.missions[1]),
           NEW e \in RecordWorkspaceBinding(d, 1, 1)
                    \cup RecordWorkspacePrepared(d, 1)
                    \cup RecordWorkspaceRefusal(d, 1)
    PROVE  RunRecorded(d, e)
  <1> DEFINE x == d.missions[1]
             run == RunOf(x)
             bound == [run EXCEPT !.workspace = "PREPARING", !.path = 1]
             prepared == [run EXCEPT !.workspace = "PREPARED"]
             refused == [run EXCEPT !.refused = TRUE]
  <1>1. /\ IsRun(run) /\ RunFits(x.state, x.lifecycle, run)
        /\ IntentOf(x) = run.intent
        /\ HasRun(x) => run = x.run
        /\ ~HasRun(x) => run = NewRun
    BY BeforeRun
  <1>2. CASE e \in RecordWorkspaceBinding(d, 1, 1)
    <2>1. e = d \/ (e = WithRun(d, 1, bound) /\ x.state = "AUTHORIZED" /\ run.intent = None)
      BY <1>1, <1>2 DEF RecordWorkspaceBinding, Saved, BeforeIntent
    <2>2. /\ IsRun(bound) /\ bound.cancel = run.cancel /\ bound.quiescence = run.quiescence
          /\ bound.intent = run.intent
          /\ run.intent = None => RunFits(x.state, x.lifecycle, bound)
      BY <1>1 DEF IsRun, RunFits
    <2> HIDE DEF bound
    <2> QED BY <2>1, <2>2, SameRecorded, WrittenRecorded
  <1>3. CASE e \in RecordWorkspacePrepared(d, 1)
    <2>1. /\ run.workspace # "none" /\ x.state = "AUTHORIZED"
          /\ e = WithRun(d, 1, [x.run EXCEPT !.workspace = "PREPARED"])
      BY <1>3 DEF RecordWorkspacePrepared, Saved, WithRun, BeforeIntent
    <2>2. run = x.run
      BY <1>1, <2>1 DEF NewRun
    <2>3. /\ IsRun(prepared) /\ prepared.cancel = run.cancel
          /\ prepared.quiescence = run.quiescence /\ prepared.intent = run.intent
          /\ RunFits(x.state, x.lifecycle, prepared)
      BY <1>1 DEF IsRun, RunFits
    <2>4. e = WithRun(d, 1, prepared)
      BY <2>1, <2>2
    <2> HIDE DEF prepared
    <2> QED BY <2>1, <2>3, <2>4, WrittenRecorded
  <1>4. CASE e \in RecordWorkspaceRefusal(d, 1)
    <2>1. e = WithRun(d, 1, refused) /\ x.state = "AUTHORIZED"
      BY <1>4 DEF RecordWorkspaceRefusal, Saved, BeforeIntent
    <2>2. /\ IsRun(refused) /\ refused.cancel = run.cancel
          /\ refused.quiescence = run.quiescence /\ refused.intent = run.intent
          /\ RunFits(x.state, x.lifecycle, refused)
      BY <1>1 DEF IsRun, RunFits
    <2> HIDE DEF refused
    <2> QED BY <2>1, <2>2, WrittenRecorded
  <1> QED BY <1>2, <1>3, <1>4

LEMMA IntentRecorded ==
    ASSUME NEW d, Shape(d), RunGood(d.missions[1]), NEW a \in Nat \ {None}, NEW revision,
           NEW t, NEW e \in RecordRunIntent(d, 1, a, revision, 1, t)
    PROVE  /\ RunRecorded(d, e) /\ HasRun(d.missions[1])
           /\ PermitsUse(d, a, 1, revision, t) /\ RunOf(d.missions[1]).intent = None
           /\ RunOf(e.missions[1]).intent = a
  <1> DEFINE x == d.missions[1]
             run == RunOf(x)
             r == [run EXCEPT !.intent = a]
  <1>1. /\ IsRun(run) /\ RunFits(x.state, x.lifecycle, run)
        /\ IntentOf(x) = run.intent
        /\ HasRun(x) => run = x.run
        /\ ~HasRun(x) => run = NewRun
    BY BeforeRun
  <1>2. /\ run.workspace = "PREPARED" /\ x.state = "AUTHORIZED" /\ run.intent = None
        /\ PermitsUse(d, a, 1, revision, t)
        /\ e = WithRun(d, 1, [x.run EXCEPT !.intent = a])
    BY <1>1 DEF RecordRunIntent, BeforeIntent, Saved, WithRun
  <1>3. HasRun(x) /\ e = WithRun(d, 1, r)
    BY <1>1, <1>2 DEF NewRun
  <1>4. /\ IsRun(r) /\ r.cancel = run.cancel /\ r.quiescence = run.quiescence
        /\ r.intent = a
    BY <1>1 DEF IsRun
  <1>5. RunFits(x.state, x.lifecycle, r)
    BY <1>1, <1>2 DEF RunFits, IsRun
  <1> HIDE DEF r
  <1>6. r.intent \in {b \in Nat : b # None}
    BY <1>4
  <1>7. RunRecorded(d, e)
    BY <1>3, <1>4, <1>5, <1>6, WrittenRecorded
  <1>8. RunOf(e.missions[1]) = r
    BY <1>3, <1>4, <1>5, <1>6, WrittenRun
  <1> QED BY <1>2, <1>3, <1>4, <1>7, <1>8

LEMMA ReceiptRecorded ==
    ASSUME NEW d, Shape(d), RunGood(d.missions[1]), NEW task \in Nat, NEW source,
           source \in {"start_result", "reconciliation"},
           NEW e \in RecordRunReceipt(d, 1, task, source)
    PROVE  RunRecorded(d, e)
  <1> DEFINE x == d.missions[1]
             run == RunOf(x)
             r == [run EXCEPT !.receipt = source, !.task = task]
  <1>1. /\ IsRun(run) /\ RunFits(x.state, x.lifecycle, run)
        /\ IntentOf(x) = run.intent /\ LifeGood(x.state, x.lifecycle)
        /\ HasRun(x) => run = x.run
        /\ ~HasRun(x) => run = NewRun
    BY BeforeRun
  <1>2. /\ run.intent # None /\ x.state = "AUTHORIZED"
        /\ e = [d EXCEPT !.missions[1].run.receipt = source, !.missions[1].run.task = task]
    BY <1>1 DEF RecordRunReceipt, Saved
  <1>3. HasRun(x) /\ run = x.run
    BY <1>1, <1>2 DEF NewRun
  <1>4. e = WithRun(d, 1, r)
    BY <1>2, <1>3 DEF WithRun, Shape, IsMission
  <1>5. IsRun(r) /\ r.cancel = run.cancel /\ r.quiescence = run.quiescence
        /\ r.intent = run.intent
    BY <1>1, <1>2 DEF IsRun
  <1>6. x.lifecycle = <<>> /\ ~Ran(x.lifecycle) /\ ReasonOf(x.lifecycle) = "none"
    BY <1>1, <1>2 DEF LifeGood, RunStates, Ran, ReasonOf
  <1>7. RunFits(x.state, x.lifecycle, r)
    BY <1>1, <1>2, <1>6 DEF RunFits, IsRun
  <1> HIDE DEF r
  <1> QED BY <1>3, <1>4, <1>5, <1>7, WrittenRecorded

LEMMA ControlRecorded ==
    ASSUME NEW d, Shape(d), RunGood(d.missions[1]), NEW a,
           NEW e \in RecordPause(d, 1, a) \cup RecordResume(d, 1, a)
    PROVE  RunRecorded(d, e)
  <1> DEFINE x == d.missions[1]
             run == RunOf(x)
             paused == [run EXCEPT !.pauses = @ + 1, !.paused = TRUE]
             resumed == [run EXCEPT !.paused = FALSE]
  <1>1. /\ IsRun(run) /\ RunFits(x.state, x.lifecycle, run)
        /\ HasRun(x) => run = x.run
        /\ x.state \in RunStates => HasRun(x)
        /\ Paused(x) => HasRun(x)
    BY BeforeRun DEF Paused
  <1>2. CASE e \in RecordPause(d, 1, a)
    <2>1. e = WithRun(d, 1, paused) /\ x.state \in {"AUTHORIZED", "RUNNING"}
      BY <1>2 DEF RecordPause, Saved
    <2>2. /\ IsRun(paused) /\ paused.cancel = run.cancel
          /\ paused.quiescence = run.quiescence /\ paused.intent = run.intent
          /\ RunFits(x.state, x.lifecycle, paused)
      BY <1>1 DEF IsRun, RunFits
    <2> HIDE DEF paused
    <2> QED BY <1>1, <2>1, <2>2, WrittenRecorded DEF RunStates
  <1>3. CASE e \in RecordResume(d, 1, a)
    <2>1. HasRun(x) /\ e = WithRun(d, 1, [x.run EXCEPT !.paused = FALSE])
      BY <1>3 DEF RecordResume, Saved, WithRun, Paused
    <2>2. /\ IsRun(resumed) /\ resumed.cancel = run.cancel
          /\ resumed.quiescence = run.quiescence /\ resumed.intent = run.intent
          /\ RunFits(x.state, x.lifecycle, resumed)
      BY <1>1 DEF IsRun, RunFits
    <2>3. e = WithRun(d, 1, resumed)
      BY <1>1, <2>1
    <2> HIDE DEF resumed
    <2> QED BY <2>1, <2>2, <2>3, WrittenRecorded
  <1> QED BY <1>2, <1>3

LEMMA LateRecorded ==
    ASSUME NEW d, Shape(d), RunGood(d.missions[1]), NEW task,
           NEW e \in RecordLateResolution(d, 1, task)
    PROVE  RunRecorded(d, e)
  <1> DEFINE x == d.missions[1]
             run == RunOf(x)
             r == [run EXCEPT !.late = task]
  <1>1. /\ IsRun(run) /\ RunFits(x.state, x.lifecycle, run)
        /\ HasRun(x) => run = x.run
        /\ x.state \in RunStates => HasRun(x)
    BY BeforeRun
  <1>2. /\ StoppedUnobserved(x)
        /\ e = WithRun(d, 1, [x.run EXCEPT !.late = task])
    BY DEF RecordLateResolution, Saved, WithRun
  <1>3. HasRun(x) /\ e = WithRun(d, 1, r)
    BY <1>1, <1>2 DEF StoppedUnobserved, RunStates
  <1>4. IsRun(r) /\ r.cancel = run.cancel /\ r.quiescence = run.quiescence
        /\ r.intent = run.intent
    BY <1>1 DEF IsRun
  <1>5. RunFits(x.state, x.lifecycle, r)
    BY <1>1, <1>2 DEF RunFits, IsRun, StoppedUnobserved, TargetOf
  <1> HIDE DEF r
  <1> QED BY <1>3, <1>4, <1>5, WrittenRecorded
\* What a move makes of the lifecycle.
LEMMA MoveFacts ==
    ASSUME NEW d, Shape(d), RunGood(d.missions[1]), NEW target, NEW reason,
           [to |-> target, reason |-> reason] \in Moves,
           MayMove(d.missions[1], target), target = "RUNNING" => reason \in Seen
    PROVE  LET x == d.missions[1]
               k == Append(x.lifecycle, [to |-> target, reason |-> reason])
           IN
           /\ ReasonOf(k) = reason
           /\ x.state = "AUTHORIZED" => x.lifecycle = <<>> /\ Len(k) = 1 /\ k[1].to = target
                                        /\ ~Ran(x.lifecycle) /\ (Ran(k) <=> target = "RUNNING")
           /\ x.state = "RUNNING" => Ran(x.lifecycle) /\ Ran(k) /\ Len(k) = 2
           /\ x.state \in {"AUTHORIZED", "RUNNING"}
           /\ ReasonOf(x.lifecycle) \in {"none"} \cup Seen
           /\ x.state = "RUNNING" => HasRun(x)
  <1> DEFINE x == d.missions[1]
             mv == [to |-> target, reason |-> reason]
             k == Append(x.lifecycle, mv)
  <1>1. /\ mv \in Moves /\ <<x.state, mv.to>> \in RunTransitions
        /\ mv.to = target /\ mv.reason = reason
        /\ mv.to = "RUNNING" => mv.reason \in Seen
    BY DEF MayMove
  <1>2. x.lifecycle \in Seq(Moves) /\ LifeGood(x.state, x.lifecycle)
        /\ (x.state \in RunStates => HasRun(x))
    BY BeforeRun
  <1>0. k = Append(x.lifecycle, mv)
    OBVIOUS
  <1> HIDE DEF mv, k, x
  <1>3. Advanced(x.state, x.lifecycle, mv, k)
    <2>1. Moving(x.state, x.lifecycle, mv, k)
      BY <1>0, <1>1, <1>2 DEF Moving
    <2> QED BY <2>1, MovedLife
  <1>4. k # <<>>
    BY <1>0, <1>1, <1>2, LastAppended
  <1>5. x.state = "AUTHORIZED" => ~Ran(x.lifecycle) /\ (Ran(k) <=> target = "RUNNING")
    BY <1>1, <1>3, <1>4 DEF Ran, Advanced
  <1>6. x.state = "RUNNING" => HasRun(x)
    BY <1>2 DEF RunStates
  <1> QED BY <1>1, <1>3, <1>5, <1>6 DEF k, x, mv, Advanced

LEMMA MovedRecorded ==
    ASSUME NEW d, Shape(d), RunGood(d.missions[1]), NEW r, IsRun(r),
           NEW target, NEW reason, NEW e,
           e = MoveIn(WithRun(d, 1, r), 1, target, reason),
           [to |-> target, reason |-> reason] \in Moves,
           MayMove(d.missions[1], target),
           target = "RUNNING" => reason \in Seen,
           target \in {"RUNNING", "COMPLETED"} => r.intent # None,
           r.intent = RunOf(d.missions[1]).intent,
           r.cancel = RunOf(d.missions[1]).cancel,
           r.quiescence = RunOf(d.missions[1]).quiescence,
           HasRun(d.missions[1]) \/ d.missions[1].state = "AUTHORIZED",
           RunFits(target, Append(d.missions[1].lifecycle,
                                  [to |-> target, reason |-> reason]), r)
    PROVE  RunRecorded(d, e)
  BY MovedRun DEF RunRecorded

LEMMA ObservedRecorded ==
    ASSUME NEW d, Shape(d), RunGood(d.missions[1]), NEW task, NEW stopped \in BOOLEAN,
           NEW e \in RecordObservedRunning(d, 1, task, stopped)
    PROVE  RunRecorded(d, e)
  <1> DEFINE x == d.missions[1]
             run == RunOf(x)
             reason == IF stopped THEN "observed_after_stop" ELSE "observed_running"
             k == Append(x.lifecycle, [to |-> "RUNNING", reason |-> reason])
  <1>1. /\ IsRun(run) /\ RunFits(x.state, x.lifecycle, run)
        /\ HasRun(x) => run = x.run
        /\ ~HasRun(x) => run = NewRun
        /\ WithRun(d, 1, x.run) = d
    BY BeforeRun
  <1>2. /\ run.task # None /\ MayMove(x, "RUNNING")
        /\ e = MoveIn(d, 1, "RUNNING", reason)
    BY DEF RecordObservedRunning, Saved, TargetOf
  <1>3. HasRun(x) /\ WithRun(d, 1, run) = d /\ run.intent # None
    BY <1>1, <1>2 DEF NewRun, IsRun
  <1>4. [to |-> "RUNNING", reason |-> reason] \in Moves /\ reason \in Seen
    BY DEF Moves, RunStates, Seen
  <1> HIDE DEF reason
  <1>5. x.state = "AUTHORIZED"
    BY <1>2 DEF MayMove, RunTransitions
  <1>6. /\ ReasonOf(k) = reason /\ Len(k) = 1
        /\ x.lifecycle = <<>> /\ ~Ran(x.lifecycle)
        /\ ReasonOf(x.lifecycle) \in {"none"} \cup Seen
    BY <1>2, <1>4, <1>5, MoveFacts
  <1>7. RunFits("RUNNING", k, run)
    <2>1. reason \notin Failures /\ Len(x.lifecycle) # 2
      BY <1>4, <1>6 DEF Seen, Failures
    <2> HIDE DEF k, run, x
    <2> QED BY <1>1, <1>2, <1>3, <1>4, <1>5, <1>6, <2>1 DEF RunFits, Seen, IsRun, ReasonOf
  <1> HIDE DEF run
  <1>8. e = MoveIn(WithRun(d, 1, run), 1, "RUNNING", reason)
    BY <1>2, <1>3
  <1> QED BY <1>1, <1>2, <1>3, <1>4, <1>7, <1>8, MovedRecorded DEF run
LEMMA StopRecorded ==
    ASSUME NEW d, Shape(d), RunGood(d.missions[1]),
           NEW reason \in ReconcileStops \ {"reconcile_not_observable"}, NEW task \in Nat,
           NEW e \in RecordRunStop(d, 1, reason, task)
    PROVE  RunRecorded(d, e)
  <1> DEFINE x == d.missions[1]
             run == RunOf(x)
             s == [run EXCEPT !.task = task, !.receipt = "reconciliation"]
             r == IF task = None THEN run ELSE s
             k == Append(x.lifecycle, [to |-> "BLOCKED", reason |-> reason])
  <1>1. /\ IsRun(run) /\ RunFits(x.state, x.lifecycle, run)
        /\ IntentOf(x) = run.intent
        /\ HasRun(x) => run = x.run
        /\ ~HasRun(x) => run = NewRun
        /\ WithRun(d, 1, x.run) = d
    BY BeforeRun
  <1>2. /\ run.intent # None /\ MayMove(x, "BLOCKED")
        /\ task # None <=> reason = "reconcile_late_child_aborted"
        /\ task # None => run.task = None
        /\ e = MoveIn(IF task = None THEN d
                      ELSE [d EXCEPT !.missions[1].run.task = task,
                                     !.missions[1].run.receipt = "reconciliation"],
                      1, "BLOCKED", reason)
    BY <1>1 DEF RecordRunStop, Saved, TargetOf
  <1>3. HasRun(x) /\ run = x.run
    BY <1>1, <1>2 DEF NewRun
  <1>4. e = MoveIn(WithRun(d, 1, r), 1, "BLOCKED", reason)
    <2>1. [d EXCEPT !.missions[1].run.task = task,
                    !.missions[1].run.receipt = "reconciliation"] = WithRun(d, 1, s)
      BY <1>3 DEF WithRun, Shape, IsMission
    <2> HIDE DEF s
    <2> QED BY <1>1, <1>2, <1>3, <2>1
  <1>5. /\ IsRun(r) /\ r.cancel = run.cancel /\ r.quiescence = run.quiescence
        /\ r.intent = run.intent /\ r.unobserved = run.unobserved
        /\ r.workspace = run.workspace /\ r.verification = run.verification
        /\ r.pending = run.pending /\ r.late = run.late
        /\ r.receipt # "none" \/ r = run
        /\ task = None => r = run
        /\ task # None => r.task = task /\ r.receipt = "reconciliation"
    BY <1>1, <1>2 DEF IsRun
  <1>6. [to |-> "BLOCKED", reason |-> reason] \in Moves
    BY DEF Moves, RunStates
  <1>7. /\ ReasonOf(k) = reason
        /\ x.state = "AUTHORIZED" => x.lifecycle = <<>> /\ Len(k) = 1 /\ ~Ran(x.lifecycle) /\ ~Ran(k)
        /\ x.state = "RUNNING" => Ran(x.lifecycle) /\ Ran(k) /\ Len(k) = 2
        /\ x.state \in {"AUTHORIZED", "RUNNING"}
        /\ ReasonOf(x.lifecycle) \in {"none"} \cup Seen
    BY <1>2, <1>6, MoveFacts
  <1>8. x.state = "RUNNING" => r = run
    BY <1>1, <1>2, <1>5, <1>7 DEF RunFits
  <1>a. x.state = "AUTHORIZED" => LifeGood("AUTHORIZED", x.lifecycle)
    BY BeforeRun
  <1>9. RunFits("BLOCKED", k, r)
    <2> HIDE DEF k, r, run, x, s
    <2>1. /\ run.late = None /\ run.cancel = "none" /\ run.unobserved # MaxReconcileAttempts
          /\ run.verification = "none" \/ (Len(x.lifecycle) = 2)
      BY <1>1, <1>7 DEF RunFits, Seen
    <2>2. run.verification = "none"
      <3>1. LifeGood(x.state, x.lifecycle)
        BY BeforeRun DEF x
      <3> QED BY <1>7, <2>1, <3>1 DEF LifeGood
    <2>3. reason \notin Failures
      BY DEF ReconcileStops, Failures
    <2> QED BY <1>1, <1>2, <1>5, <1>7, <1>8, <2>1, <2>2, <2>3 DEF RunFits, IsRun, ReconcileStops
  <1> HIDE DEF run, r, s, k
  <1>10. r.intent = RunOf(x).intent /\ r.cancel = RunOf(x).cancel
         /\ r.quiescence = RunOf(x).quiescence
    BY <1>5 DEF run
  <1> QED BY <1>2, <1>3, <1>4, <1>5, <1>6, <1>9, <1>10, MovedRecorded DEF k

LEMMA UnobservedRecorded ==
    ASSUME NEW d, Shape(d), RunGood(d.missions[1]), NEW e \in RecordReconcileUnobserved(d, 1)
    PROVE  RunRecorded(d, e)
  <1> DEFINE x == d.missions[1]
             run == RunOf(x)
             r == [run EXCEPT !.unobserved = @ + 1]
             reason == "reconcile_not_observable"
             k == Append(x.lifecycle, [to |-> "BLOCKED", reason |-> reason])
  <1>1. /\ IsRun(run) /\ RunFits(x.state, x.lifecycle, run)
        /\ IntentOf(x) = run.intent /\ LifeGood(x.state, x.lifecycle)
        /\ HasRun(x) => run = x.run
        /\ ~HasRun(x) => run = NewRun
    BY BeforeRun
  <1>2. /\ run.intent # None /\ x.state = "AUTHORIZED" /\ run.task = None
        /\ HasRun(x) /\ run = x.run
    BY <1>1 DEF RecordReconcileUnobserved, HeldRun, Saved, TargetOf, IntentOf, NewRun
  <1>3. [d EXCEPT !.missions[1].run.unobserved = @ + 1] = WithRun(d, 1, r)
    BY <1>2 DEF WithRun, Shape, IsMission
  <1>4. e = IF run.unobserved + 1 >= MaxReconcileAttempts
            THEN MoveIn(WithRun(d, 1, r), 1, "BLOCKED", reason) ELSE WithRun(d, 1, r)
    BY <1>2, <1>3 DEF RecordReconcileUnobserved, Saved
  <1>5. /\ IsRun(r) /\ r.cancel = run.cancel /\ r.quiescence = run.quiescence
        /\ r.intent = run.intent /\ r.unobserved = run.unobserved + 1
        /\ r.workspace = run.workspace /\ r.verification = run.verification
        /\ r.pending = run.pending /\ r.late = run.late /\ r.task = run.task
        /\ r.receipt = run.receipt
    <2>1. run.unobserved + 1 \in Nat
      BY <1>1 DEF IsRun
    <2> QED BY <1>1, <2>1 DEF IsRun
  <1>6. x.lifecycle = <<>> /\ ReasonOf(x.lifecycle) = "none" /\ ~Ran(x.lifecycle)
        /\ Len(x.lifecycle) = 0
    BY <1>1, <1>2 DEF LifeGood, RunStates, ReasonOf, Ran
  <1>7. /\ run.unobserved \in Nat /\ MaxReconcileAttempts \in Nat \ {0}
        /\ run.unobserved <= MaxReconcileAttempts /\ run.unobserved # MaxReconcileAttempts
    BY <1>1, <1>6, RunBoundsAssumption DEF RunFits, IsRun, RunBounds
  <1> HIDE DEF r, run
  <1>8. CASE run.unobserved + 1 >= MaxReconcileAttempts
    <2>1. [to |-> "BLOCKED", reason |-> reason] \in Moves /\ MayMove(x, "BLOCKED")
      BY <1>2 DEF Moves, RunStates, ReconcileStops, MayMove, RunTransitions
    <2>2. ReasonOf(k) = reason /\ Len(k) = 1 /\ ~Ran(k) /\ k[1].reason = reason
      <3>1. ReasonOf(k) = reason /\ Len(k) = 1 /\ ~Ran(k)
        BY <1>2, <2>1, MoveFacts
      <3> QED BY <1>6, <3>1
    <2>3. RunFits("BLOCKED", k, r)
      <3>1. reason \notin Failures
        BY DEF Failures
      <3> HIDE DEF k, x
      <3> QED BY <1>1, <1>2, <1>5, <1>6, <1>7, <1>8, <2>2, <3>1 DEF RunFits
    <2> HIDE DEF k
    <2> QED BY <1>2, <1>4, <1>5, <1>8, <2>1, <2>3, MovedRecorded DEF k, run
  <1>9. CASE ~(run.unobserved + 1 >= MaxReconcileAttempts)
    <2>1. RunFits(x.state, x.lifecycle, r)
      <3> HIDE DEF x
      <3> QED BY <1>1, <1>2, <1>5, <1>6, <1>7, <1>9 DEF RunFits
    <2> QED BY <1>2, <1>4, <1>5, <1>9, <2>1, WrittenRecorded DEF run
  <1> QED BY <1>8, <1>9
LEMMA VerificationRecorded ==
    ASSUME NEW d, Shape(d), RunGood(d.missions[1]), NEW failed \in Failures \cup {"none"},
           NEW held, NEW e \in RecordVerification(d, 1, failed, held)
    PROVE  RunRecorded(d, e)
  <1> DEFINE x == d.missions[1]
             run == RunOf(x)
             pending == [run EXCEPT !.pending = @ + 1]
             r(outcome) == [run EXCEPT !.verification = outcome]
  <1>1. /\ IsRun(run) /\ RunFits(x.state, x.lifecycle, run)
        /\ LifeGood(x.state, x.lifecycle)
        /\ HasRun(x) => run = x.run
        /\ x.state \in RunStates => HasRun(x)
    BY BeforeRun
  <1>2. x.state = "RUNNING" /\ HasRun(x) /\ run = x.run
    BY <1>1 DEF RecordVerification, RunStates
  <1>3. \/ failed # "none" /\ e = MoveIn(WithRun(d, 1, r(failed)), 1, "BLOCKED", failed)
        \/ run.pending < MaxVerifications /\ e = WithRun(d, 1, pending)
        \/ e = MoveIn(WithRun(d, 1, r("verified")), 1, "COMPLETED", "verified_completion")
    BY <1>2 DEF RecordVerification, Saved, WithRun
  <1>4. /\ run.intent # None /\ run.late = None /\ run.cancel = "none"
        /\ Len(x.lifecycle) = 1 /\ Ran(x.lifecycle) /\ ReasonOf(x.lifecycle) \in Seen
        /\ run.verification = "none"
    <2>1. x.lifecycle # <<>> /\ Len(x.lifecycle) # 2 /\ Len(x.lifecycle) <= 2
          /\ Last(x.lifecycle).to = "RUNNING"
      BY <1>1, <1>2 DEF LifeGood, RunStates
    <2>2. Len(x.lifecycle) = 1 /\ Last(x.lifecycle) = x.lifecycle[1]
      <3>1. x.lifecycle \in Seq(Moves)
        BY DEF Shape, IsMission
      <3>2. Len(x.lifecycle) \in Nat /\ Len(x.lifecycle) # 0
        BY <2>1, <3>1
      <3>3. \A n \in Nat : n <= 2 /\ n # 2 /\ n # 0 => n = 1
        OBVIOUS
      <3>4. Len(x.lifecycle) = 1
        BY <2>1, <3>2, <3>3, Zenon
      <3> QED BY <3>4 DEF Last
    <2>3. Ran(x.lifecycle) /\ ReasonOf(x.lifecycle) \in Seen
      BY <1>1, <2>1, <2>2 DEF LifeGood, Ran, ReasonOf
    <2> HIDE DEF run, x
    <2> QED BY <1>1, <1>2, <2>2, <2>3 DEF RunFits
  <1>5. CASE run.pending < MaxVerifications /\ e = WithRun(d, 1, pending)
    <2>1. run.pending \in Nat /\ MaxVerifications \in Nat
      BY <1>1, RunBoundsAssumption DEF IsRun, RunBounds
    <2>2. /\ IsRun(pending) /\ pending.cancel = run.cancel
          /\ pending.quiescence = run.quiescence /\ pending.intent = run.intent
          /\ pending.pending = run.pending + 1 /\ pending.unobserved = run.unobserved
          /\ pending.workspace = run.workspace /\ pending.verification = run.verification
          /\ pending.late = run.late /\ pending.task = run.task
          /\ pending.receipt = run.receipt
      <3>1. run.pending + 1 \in Nat
        BY <2>1
      <3> QED BY <1>1, <3>1 DEF IsRun
    <2>3. RunFits(x.state, x.lifecycle, pending)
      <3> HIDE DEF pending, x, run
      <3> QED BY <1>1, <1>2, <1>4, <1>5, <2>1, <2>2 DEF RunFits
    <2> HIDE DEF pending
    <2> QED BY <1>2, <1>5, <2>2, <2>3, WrittenRecorded
  <1>6. ASSUME NEW target \in {"BLOCKED", "COMPLETED"}, NEW outcome, NEW reason,
               e = MoveIn(WithRun(d, 1, r(outcome)), 1, target, reason),
               outcome # "none", target = "COMPLETED" \/ reason = outcome,
               target = "COMPLETED" \/ outcome # "verified",
               target = "COMPLETED" => outcome = "verified" /\ reason = "verified_completion",
               reason \in Failures \cup {"verified_completion"}
        PROVE  RunRecorded(d, e)
    <2> DEFINE s == r(outcome)
               k == Append(x.lifecycle, [to |-> target, reason |-> reason])
    <2>1. /\ IsRun(s) /\ s.cancel = run.cancel
          /\ s.quiescence = run.quiescence /\ s.intent = run.intent
          /\ s.pending = run.pending /\ s.unobserved = run.unobserved
          /\ s.workspace = run.workspace /\ s.verification = outcome
          /\ s.late = run.late /\ s.task = run.task
          /\ s.receipt = run.receipt
      BY <1>1 DEF IsRun
    <2>2. [to |-> target, reason |-> reason] \in Moves /\ MayMove(x, target)
      BY <1>2, <1>6 DEF Moves, RunStates, MayMove, RunTransitions
    <2>3. ReasonOf(k) = reason /\ Ran(k) /\ Len(k) = 2
      BY <1>2, <2>2, MoveFacts
    <2>4. RunFits(target, k, s)
      <3>1. reason \notin ReconcileStops /\ ReasonOf(x.lifecycle) \notin ReconcileStops
        BY <1>4, <1>6 DEF Failures, ReconcileStops, Seen
      <3> HIDE DEF k, s, x, run
      <3> QED BY <1>1, <1>2, <1>4, <1>6, <2>1, <2>3, <3>1 DEF RunFits, ReconcileStops
    <2>5. e = MoveIn(WithRun(d, 1, s), 1, target, reason)
      BY <1>6
    <2> HIDE DEF s, k, run
    <2> QED BY <1>2, <1>4, <2>1, <2>2, <2>4, <2>5, MovedRecorded DEF k, run
  <1>7. CASE failed # "none" /\ e = MoveIn(WithRun(d, 1, r(failed)), 1, "BLOCKED", failed)
    <2>1. failed \in Failures /\ failed # "verified"
      BY <1>7 DEF Failures
    <2> HIDE DEF r, run, x
    <2> QED BY <1>6, <1>7, <2>1
  <1>8. CASE e = MoveIn(WithRun(d, 1, r("verified")), 1, "COMPLETED", "verified_completion")
    <2> HIDE DEF r, run, x
    <2> QED BY <1>6, <1>8
  <1> QED BY <1>3, <1>5, <1>7, <1>8

\* A cancel says what it interrupted; what became of the target is said later.
LEMMA CancelRecorded ==
    ASSUME NEW d, Shape(d), RunGood(d.missions[1]), NEW achieved \in Cancels, NEW a,
           NEW e \in RecordCancel(d, 1, achieved, a)
    PROVE  /\ Shape(e) /\ RunOnly(d, e) /\ RunGood(e.missions[1])
           /\ RunOf(e.missions[1]).cancel = achieved
           /\ RunOf(e.missions[1]).quiescence = "none"
           /\ ~Terminal(d.missions[1])
  <1> DEFINE x == d.missions[1]
             run == RunOf(x)
             r == [run EXCEPT !.cancel = achieved]
             k == Append(x.lifecycle, [to |-> "CANCELLED", reason |-> achieved])
  <1>1. /\ IsRun(run) /\ RunFits(x.state, x.lifecycle, run)
        /\ IntentOf(x) = run.intent /\ LifeGood(x.state, x.lifecycle)
        /\ x.state \in RunStates => HasRun(x)
    BY BeforeRun
  <1>2. /\ achieved \in Achievable(x) /\ ~Terminal(x)
        /\ e = MoveIn(WithRun(d, 1, r), 1, "CANCELLED", achieved)
    BY DEF RecordCancel, Saved
  <1>3. /\ x.state \in {"AUTHORIZED", "RUNNING"}
        /\ x.state = "AUTHORIZED" =>
              (achieved = "cancelled_before_intent" <=> run.intent = None)
        /\ x.state = "RUNNING" => achieved # "cancelled_before_intent"
        /\ x.state = "RUNNING" <=> achieved \in CancelsObserved
    BY <1>1, <1>2 DEF Achievable, CancelsObserved
  <1>4. /\ IsRun(r) /\ r.cancel = achieved /\ achieved # "none"
        /\ r.quiescence = run.quiescence /\ r.intent = run.intent
        /\ r.pending = run.pending /\ r.unobserved = run.unobserved
        /\ r.workspace = run.workspace /\ r.verification = run.verification
        /\ r.late = run.late /\ r.task = run.task
        /\ r.receipt = run.receipt
    BY <1>1 DEF IsRun, Cancels
  <1>5. [to |-> "CANCELLED", reason |-> achieved] \in Moves /\ MayMove(x, "CANCELLED")
    BY <1>3 DEF Moves, RunStates, MayMove, RunTransitions
  <1>6. /\ ReasonOf(k) = achieved
        /\ x.state = "AUTHORIZED" => x.lifecycle = <<>> /\ Len(k) = 1 /\ ~Ran(x.lifecycle) /\ ~Ran(k)
        /\ x.state = "RUNNING" => Ran(x.lifecycle) /\ Ran(k) /\ Len(k) = 2
        /\ ReasonOf(x.lifecycle) \in {"none"} \cup Seen
    BY <1>5, MoveFacts
  <1>7. run.verification = "none" /\ run.quiescence = "none" /\ run.late = None
    <2>1. Len(x.lifecycle) # 2
      BY <1>1, <1>3 DEF LifeGood
    <2> HIDE DEF x, run
    <2> QED BY <1>1, <1>3, <2>1 DEF RunFits
  <1>8. RunFits("CANCELLED", k, r)
    <2>1. achieved \notin ReconcileStops /\ achieved \notin Failures
      BY DEF Cancels, ReconcileStops, Failures
    <2>2. Ran(k) <=> achieved \in CancelsObserved
      BY <1>3, <1>6
    <2> HIDE DEF k, r, x, run
    <2> QED BY <1>1, <1>3, <1>4, <1>6, <1>7, <2>1, <2>2 DEF RunFits, ReconcileStops, Seen
  <1>9. HasRun(x) \/ x.state = "AUTHORIZED"
    BY <1>1, <1>3 DEF RunStates
  <1>10. /\ Shape(e) /\ RunOnly(d, e) /\ RunGood(e.missions[1]) /\ RunOf(e.missions[1]) = r
    <2> HIDE DEF r, k, run
    <2> QED BY <1>2, <1>4, <1>5, <1>8, <1>9, MovedRun DEF k, run
  <1> QED BY <1>2, <1>4, <1>7, <1>10

LEMMA CompleteRecorded ==
    ASSUME NEW d, Shape(d), RunGood(d.missions[1]), NEW a, NEW q,
           q \in QuiescenceFor(RunOf(d.missions[1]).cancel), q # "owned_group_reaped",
           NEW e \in CompleteCancel(d, 1, q, a)
    PROVE  /\ Shape(e) /\ RunOnly(d, e) /\ RunGood(e.missions[1])
           /\ RunOf(e.missions[1]).cancel = RunOf(d.missions[1]).cancel
           /\ RunOf(e.missions[1]).quiescence = q
           /\ RunOf(d.missions[1]).quiescence = "none"
           /\ e.missions[1].state = d.missions[1].state
           /\ RunOf(e.missions[1]).intent = RunOf(d.missions[1]).intent
  <1> DEFINE x == d.missions[1]
             run == RunOf(x)
             r == [run EXCEPT !.quiescence = q]
  <1>1. /\ IsRun(run) /\ RunFits(x.state, x.lifecycle, run)
        /\ HasRun(x) => run = x.run
        /\ x.state \in RunStates => HasRun(x)
    BY BeforeRun
  <1>2. /\ x.state = "CANCELLED" /\ HasRun(x) /\ run = x.run
        /\ run.cancel # "none" /\ run.quiescence = "none"
        /\ e = WithRun(d, 1, r)
    BY <1>1 DEF CompleteCancel, Saved, WithRun, RunStates
  <1>3. /\ IsRun(r) /\ r.quiescence = q /\ r.cancel = run.cancel /\ r.intent = run.intent
        /\ r.pending = run.pending /\ r.unobserved = run.unobserved
        /\ r.workspace = run.workspace /\ r.verification = run.verification
        /\ r.late = run.late /\ r.task = run.task
        /\ r.receipt = run.receipt
    BY <1>1 DEF IsRun
  <1>4. RunFits(x.state, x.lifecycle, r)
    <2>1. q \in QuiescenceFor(run.cancel)
      OBVIOUS
    <2> HIDE DEF r, x, run
    <2> QED BY <1>1, <1>2, <1>3, <2>1 DEF RunFits
  <1>5. /\ Shape(e) /\ RunOnly(d, e) /\ RunGood(e.missions[1]) /\ RunOf(e.missions[1]) = r
        /\ e.missions[1] = [x EXCEPT !.run = r]
    <2> HIDE DEF r
    <2> QED BY <1>2, <1>3, <1>4, WrittenRun
  <1>6. e.missions[1].state = x.state
    BY <1>5 DEF Shape, IsMission
  <1> QED BY <1>2, <1>3, <1>5, <1>6
\* A mission without a run.
LEMMA NoRunGood ==
    ASSUME NEW x, IsMission(x), ~HasRun(x),
           x.state \in {"AUTHORIZED", "AWAITING_DECISION"}
    PROVE  RunGood(x) /\ RunOf(x) = NewRun
  <1>1. x.lifecycle = <<>> /\ Len(<<>>) = 0
    BY DEF IsMission
  <1>2. RunOf(x) = NewRun
    BY RunIs
  <1>3. LifeGood(x.state, <<>>)
    BY <1>1 DEF LifeGood, RunStates, Ran
  <1>4. RunFits(x.state, <<>>, NewRun)
    BY RunBoundsAssumption DEF RunFits, NewRun, Ran, ReasonOf, RunBounds, None, Failures
  <1> QED BY <1>1, <1>2, <1>3, <1>4 DEF RunGood
LEMMA RunOnlyIs ==
    ASSUME NEW d, NEW e, Shape(d), Shape(e), RunOnly(d, e)
    PROVE  /\ Revision(e.missions[1]) = Revision(d.missions[1])
           /\ Terminal(d.missions[1]) => e.missions[1].state = d.missions[1].state
           /\ d.missions[1].state \in RunStates => d.missions[1].run = RunOf(d.missions[1])
           /\ e.missions[1].state \in RunStates => e.missions[1].run = RunOf(e.missions[1])
  <1> DEFINE x == d.missions[1]
             y == e.missions[1]
  <1>1. \/ e = d
        \/ /\ e = [d EXCEPT !.missions = [d.missions EXCEPT ![1] =
                  [x EXCEPT !.run = y.run, !.state = y.state, !.lifecycle = y.lifecycle]]]
           /\ Terminal(x) => y.state = x.state
    BY DEF RunOnly
  <1>2. y = x \/ y = [x EXCEPT !.run = y.run, !.state = y.state, !.lifecycle = y.lifecycle]
    <2>1. CASE e = d
      BY <2>1
    <2>2. CASE e = [d EXCEPT !.missions = [d.missions EXCEPT ![1] =
                  [x EXCEPT !.run = y.run, !.state = y.state, !.lifecycle = y.lifecycle]]]
      <3> DEFINE z == [x EXCEPT !.run = y.run, !.state = y.state, !.lifecycle = y.lifecycle]
      <3>1. e = [d EXCEPT !.missions = [d.missions EXCEPT ![1] = z]]
        BY <2>2
      <3> HIDE DEF z
      <3>2. e.missions[1] = z
        BY <3>1 DEF Shape
      <3> QED BY <3>2 DEF z
    <2> QED BY <1>1, <2>1, <2>2
  <1>3. y.revisions = x.revisions
    BY <1>2 DEF Shape, IsMission
  <1>4. Terminal(x) => y.state = x.state
    BY <1>1
  <1>5. /\ x.state \in RunStates => HasRun(x)
        /\ y.state \in RunStates => HasRun(y)
    BY DEF Shape, IsMission
  <1> HIDE DEF x, y
  <1> QED BY <1>3, <1>4, <1>5 DEF Revision, RunOf, x, y

-----------------------------------------------------------------------------
(* The document                                                            *)

Entries ==
    [kind : {"ISSUED", "DENIED", "EXPIRED", "INVALIDATED_BY_EDIT"}, mission : Nat,
     revision : Nat, authorization : Nat, decision : Nat, at : Nat]

Issued ==
    [mission : Nat, revision : Nat, content : Content, scope : Scopes,
     by : Contexts, expires : Nat, issued : Nat, revoked : BOOLEAN]

Outcomes ==
    [state : MissionStates, revision : Nat, content : Content, authorization : Nat,
     invalidated : Seq(Nat)]

Decisions ==
    [id : Nat, by : Contexts, kind : DecisionKinds, revision : Nat,
     content : Content \cup {None}, scope : Scopes, expires : Nat, at : Nat,
     outcome : Outcomes]

\* The run of a mission whose workspace and intent were never recorded.
UnstartedRuns ==
    [held : {TRUE}, intent : {None}, receipt : {"none"}, task : {None}, pauses : Nat,
     paused : BOOLEAN, cancel : {"none", "cancelled_before_intent"},
     quiescence : {"none", "nothing_started"}, verification : {"none"},
     pending : {0}, workspace : {"none"}, path : {None}, refused : {FALSE},
     unobserved : {0}, late : {None}]

MissionRecords ==
    [request : Nat, proposer : Contexts, keyExpires : Nat, state : MissionStates,
     revisions : Seq(Revisions), decisions : Seq(Decisions), authorizations : Seq(Nat),
     withdrawn : Nat, run : {NoRun} \cup UnstartedRuns, lifecycle : Seq(Moves)]

Documents ==
    [missions : Seq(MissionRecords), authorizations : Seq(Issued),
     ledger : Seq(Entries), reservations : Seq(Reserved)]

\* What a mission's state says of its run, its withdrawal and its revisions.
StateGood(x) ==
    /\ x.revisions # <<>>
    /\ x.state \notin {"RUNNING", "COMPLETED", "BLOCKED"}
    /\ HasRun(x) => x.state \in {"AUTHORIZED", "CANCELLED"}
    /\ x.state = "CANCELLED" => HasRun(x)
    /\ x.withdrawn # None =>
          /\ x.state = "AWAITING_DECISION" /\ ~HasRun(x)
          /\ x.decisions = <<>> /\ x.authorizations = <<>>

\* Every decision of a mission has used an id of its own, reserved by its caller.
DecisionsGood(x, reservations) ==
    /\ \A n \in DOMAIN x.decisions :
          LET id == x.decisions[n].id IN
          /\ id \in DOMAIN reservations
          /\ reservations[id].kind = "decision"
          /\ reservations[id].context = x.decisions[n].by
          /\ reservations[id].consumed = id /\ id # None
    /\ \A k, n \in DOMAIN x.decisions :
          x.decisions[k].id = x.decisions[n].id => k = n

\* The authority that stands is of the current revision, and there is one at most.
AuthorityGood(x, m, authorizations) ==
    /\ \A n \in DOMAIN x.authorizations :
          LET a == x.authorizations[n] IN
          /\ a \in DOMAIN authorizations
          /\ authorizations[a].mission = m
          /\ ~authorizations[a].revoked =>
                /\ n = Len(x.authorizations)
                /\ authorizations[a].revision = Revision(x)
                /\ authorizations[a].content = Current(x)
                /\ x.state # "AWAITING_DECISION"
    /\ x.state = "AUTHORIZED" =>
          \E n \in DOMAIN x.authorizations : ~authorizations[x.authorizations[n]].revoked

\* A mission and the request id it was proposed under name each other.
RequestsGood(d) ==
    /\ \A m \in DOMAIN d.missions :
          LET id == d.missions[m].request IN
          /\ id \in DOMAIN d.reservations
          /\ d.reservations[id].kind = "request"
          /\ d.reservations[id].context = d.missions[m].proposer
          /\ d.reservations[id].consumed = m
    /\ \A i \in DOMAIN d.reservations :
          d.reservations[i].kind = "request" /\ ~Unconsumed(d, i) =>
             /\ d.reservations[i].consumed \in DOMAIN d.missions
             /\ d.missions[d.reservations[i].consumed].request = i

MissionGood(d, m) ==
    /\ StateGood(d.missions[m])
    /\ DecisionsGood(d.missions[m], d.reservations)
    /\ AuthorityGood(d.missions[m], m, d.authorizations)

RegistryGood(d) ==
    /\ d \in Documents
    /\ \A m \in DOMAIN d.missions : MissionGood(d, m)
    /\ RequestsGood(d)

\* Nothing of s goes and nothing comes before it.
Extends(s, t) == Len(s) <= Len(t) /\ \A n \in 1 .. Len(s) : t[n] = s[n]

MissionGrows(x, y) ==
    /\ y.request = x.request /\ y.proposer = x.proposer /\ y.keyExpires = x.keyExpires
    /\ Extends(x.revisions, y.revisions)
    /\ Extends(x.decisions, y.decisions)
    /\ Extends(x.authorizations, y.authorizations)
    /\ x.withdrawn # None => y = x

Grows(d, e) ==
    /\ Extends(d.ledger, e.ledger)
    /\ \A m \in DOMAIN d.missions :
          m \in DOMAIN e.missions /\ MissionGrows(d.missions[m], e.missions[m])
    /\ \A a \in DOMAIN d.authorizations :
          /\ a \in DOMAIN e.authorizations
          /\ d.authorizations[a].revoked => e.authorizations[a].revoked
          /\ [e.authorizations[a] EXCEPT !.revoked = TRUE]
                = [d.authorizations[a] EXCEPT !.revoked = TRUE]
    /\ \A i \in DOMAIN d.reservations :
          /\ i \in DOMAIN e.reservations
          /\ e.reservations[i].kind = d.reservations[i].kind
          /\ e.reservations[i].context = d.reservations[i].context
          /\ ~Unconsumed(d, i) => e.reservations[i] = d.reservations[i]

IdOf(d, id, kind, context) == IsReserved(d, id, kind, context) /\ id # None

-----------------------------------------------------------------------------
(* Sequences that only grow                                                *)

LEMMA ExtendsSelf == ASSUME NEW X, NEW s \in Seq(X) PROVE Extends(s, s)
  BY DEF Extends

LEMMA ExtendsAppend ==
    ASSUME NEW X, NEW s \in Seq(X), NEW x \in X
    PROVE  /\ Extends(s, Append(s, x)) /\ Append(s, x) \in Seq(X)
           /\ Len(Append(s, x)) = Len(s) + 1 /\ Append(s, x)[Len(s) + 1] = x
           /\ DOMAIN s = 1 .. Len(s) /\ DOMAIN Append(s, x) = 1 .. Len(s) + 1
           /\ \A n \in DOMAIN s : Append(s, x)[n] = s[n]
  BY DEF Extends

LEMMA ExtendsConcat ==
    ASSUME NEW X, NEW s \in Seq(X), NEW t \in Seq(X)
    PROVE  Extends(s, s \o t) /\ s \o t \in Seq(X)
  BY DEF Extends

LEMMA ExtendsTransitive ==
    ASSUME NEW X, NEW s \in Seq(X), NEW t \in Seq(X), NEW u \in Seq(X),
           Extends(s, t), Extends(t, u)
    PROVE  Extends(s, u)
  <1>1. Len(s) \in Nat /\ Len(t) \in Nat /\ Len(u) \in Nat /\ Len(s) <= Len(t) /\ Len(t) <= Len(u)
    BY DEF Extends
  <1>2. \A n \in 1 .. Len(s) : n \in 1 .. Len(t) /\ t[n] = s[n] /\ u[n] = t[n]
    BY <1>1 DEF Extends
  <1> QED BY <1>1, <1>2 DEF Extends

LEMMA ExtendsPrefix ==
    ASSUME NEW X, NEW s \in Seq(X), NEW t \in Seq(X), Extends(s, t)
    PROVE  IsPrefix(s, t)
  <1>1. Len(s) \in Nat /\ Len(t) \in Nat /\ Len(s) <= Len(t)
    BY DEF Extends
  <1>2. /\ SubSeq(s, 1, Len(s)) = [n \in 1 .. Len(s) |-> s[n]]
        /\ SubSeq(t, 1, Len(s)) = [n \in 1 .. Len(s) |-> t[n]]
    BY <1>1
  <1>3. [n \in 1 .. Len(s) |-> s[n]] = [n \in 1 .. Len(s) |-> t[n]]
    BY DEF Extends
  <1> QED BY <1>1, <1>2, <1>3, Zenon DEF IsPrefix

-----------------------------------------------------------------------------
(* A document in which one mission was replaced                            *)

\* Authorizations only grow, and those of other missions stay as they are.
AuthorizationsKept(as, bs, m) ==
    \A a \in DOMAIN as :
        /\ a \in DOMAIN bs
        /\ as[a].revoked => bs[a].revoked
        /\ [bs[a] EXCEPT !.revoked = TRUE] = [as[a] EXCEPT !.revoked = TRUE]
        /\ as[a].mission # m => bs[a] = as[a]

\* Of the reserved ids, only unused decision ids may change, by being used.
ReservationsKept(rs, ss) ==
    /\ \A i \in DOMAIN rs :
          /\ i \in DOMAIN ss
          /\ ss[i].kind = rs[i].kind /\ ss[i].context = rs[i].context
          /\ rs[i].consumed # None => ss[i] = rs[i]
    /\ \A i \in DOMAIN ss : ss[i].kind = "request" =>
          /\ i \in DOMAIN rs => ss[i] = rs[i]
          /\ i \notin DOMAIN rs => ss[i].consumed = None

LEMMA AuthorizationsKeptSelf ==
    ASSUME NEW as, NEW m PROVE AuthorizationsKept(as, as, m)
  BY DEF AuthorizationsKept

LEMMA ReservationsKeptSelf ==
    ASSUME NEW rs PROVE ReservationsKept(rs, rs)
  BY DEF ReservationsKept

LEMMA DocumentParts ==
    ASSUME NEW d \in Documents
    PROVE  /\ d.missions \in Seq(MissionRecords) /\ d.authorizations \in Seq(Issued)
           /\ d.ledger \in Seq(Entries) /\ d.reservations \in Seq(Reserved)
           /\ \A m \in DOMAIN d.missions : d.missions[m] \in MissionRecords
           /\ \A a \in DOMAIN d.authorizations : d.authorizations[a] \in Issued
           /\ \A i \in DOMAIN d.reservations : d.reservations[i] \in Reserved
           /\ \A m \in DOMAIN d.missions : m \in Nat /\ m # None
           /\ \A i \in DOMAIN d.reservations : i \in Nat /\ i # None
  BY DEF Documents, None

\* What the decisions of a mission rest on is not disturbed.
LEMMA DecisionsStay ==
    ASSUME NEW x, NEW rs, NEW ss, ReservationsKept(rs, ss), DecisionsGood(x, rs)
    PROVE  DecisionsGood(x, ss)
  BY DEF DecisionsGood, ReservationsKept

\* Nor is the authority of another mission than the one replaced.
LEMMA AuthorityStays ==
    ASSUME NEW x, NEW k, NEW m, k # m, NEW as, NEW bs, AuthorizationsKept(as, bs, m),
           AuthorityGood(x, k, as)
    PROVE  AuthorityGood(x, k, bs)
  <1>1. ASSUME NEW n \in DOMAIN x.authorizations
        PROVE  /\ x.authorizations[n] \in DOMAIN as /\ x.authorizations[n] \in DOMAIN bs
               /\ bs[x.authorizations[n]] = as[x.authorizations[n]]
    BY DEF AuthorityGood, AuthorizationsKept
  <1> QED BY <1>1 DEF AuthorityGood

LEMMA MissionReplaced ==
    ASSUME NEW d, RegistryGood(d), NEW m \in DOMAIN d.missions, NEW y \in MissionRecords,
           NEW as \in Seq(Issued), NEW l \in Seq(Entries), NEW rs \in Seq(Reserved),
           Extends(d.ledger, l), AuthorizationsKept(d.authorizations, as, m),
           ReservationsKept(d.reservations, rs), MissionGrows(d.missions[m], y),
           StateGood(y), DecisionsGood(y, rs), AuthorityGood(y, m, as),
           NEW e, e = [missions |-> [d.missions EXCEPT ![m] = y], authorizations |-> as,
                       ledger |-> l, reservations |-> rs]
    PROVE  RegistryGood(e) /\ Grows(d, e)
  <1>1. /\ d \in Documents
        /\ d.missions \in Seq(MissionRecords) /\ d.authorizations \in Seq(Issued)
        /\ \A k \in DOMAIN d.missions : d.missions[k] \in MissionRecords
    BY DocumentParts DEF RegistryGood
  <1>2. /\ e.missions = [d.missions EXCEPT ![m] = y] /\ e.authorizations = as
        /\ e.ledger = l /\ e.reservations = rs
    OBVIOUS
  <1>3. /\ e.missions \in Seq(MissionRecords) /\ DOMAIN e.missions = DOMAIN d.missions
        /\ e.missions[m] = y
        /\ \A k \in DOMAIN d.missions : k # m => e.missions[k] = d.missions[k]
    BY <1>1, <1>2
  <1>4. e \in Documents
    BY <1>2, <1>3 DEF Documents
  <1>5. ASSUME NEW k \in DOMAIN d.missions PROVE MissionGood(e, k)
    <2>1. CASE k = m
      BY <1>2, <1>3, <2>1 DEF MissionGood
    <2>2. CASE k # m
      <3>1. /\ StateGood(d.missions[k]) /\ DecisionsGood(d.missions[k], d.reservations)
            /\ AuthorityGood(d.missions[k], k, d.authorizations)
        BY DEF RegistryGood, MissionGood
      <3>2. DecisionsGood(d.missions[k], rs)
        BY <3>1, DecisionsStay
      <3>3. AuthorityGood(d.missions[k], k, as)
        BY <2>2, <3>1, AuthorityStays
      <3>4. e.missions[k] = d.missions[k] /\ e.reservations = rs /\ e.authorizations = as
        BY <1>2, <1>3, <2>2
      <3> QED BY <3>1, <3>2, <3>3, <3>4, Zenon DEF MissionGood
    <2> QED BY <2>1, <2>2
  <1>6. \A k \in DOMAIN d.missions :
           /\ e.missions[k].request = d.missions[k].request
           /\ e.missions[k].proposer = d.missions[k].proposer
    BY <1>3 DEF MissionGrows
  <1>7. RequestsGood(e)
    <2>1. RequestsGood(d)
      BY DEF RegistryGood
    <2>2. ASSUME NEW k \in DOMAIN e.missions
          PROVE  LET id == e.missions[k].request IN
                 /\ id \in DOMAIN e.reservations
                 /\ e.reservations[id].kind = "request"
                 /\ e.reservations[id].context = e.missions[k].proposer
                 /\ e.reservations[id].consumed = k
      <3>1. d.reservations[d.missions[k].request].consumed # None
        BY <1>1, <1>3, <2>1, DocumentParts DEF RequestsGood
      <3> QED BY <1>2, <1>3, <1>6, <2>1, <3>1 DEF RequestsGood, ReservationsKept
    <2>3. ASSUME NEW i \in DOMAIN e.reservations, e.reservations[i].kind = "request",
                 ~Unconsumed(e, i)
          PROVE  /\ e.reservations[i].consumed \in DOMAIN e.missions
                 /\ e.missions[e.reservations[i].consumed].request = i
      <3>1. i \in DOMAIN d.reservations /\ d.reservations[i] = e.reservations[i]
        BY <1>2, <2>3 DEF Unconsumed, ReservationsKept
      <3> QED BY <1>3, <1>6, <2>1, <2>3, <3>1 DEF RequestsGood, Unconsumed
    <2> QED BY <2>2, <2>3 DEF RequestsGood
  <1>8. ASSUME NEW k \in DOMAIN d.missions PROVE MissionGrows(d.missions[k], e.missions[k])
    <2>1. MissionGrows(d.missions[k], d.missions[k])
      <3> DEFINE x == d.missions[k]
      <3>1. /\ x.revisions \in Seq(Revisions) /\ x.decisions \in Seq(Decisions)
            /\ x.authorizations \in Seq(Nat)
        BY <1>1 DEF MissionRecords
      <3> HIDE DEF x
      <3>2. /\ Extends(x.revisions, x.revisions) /\ Extends(x.decisions, x.decisions)
            /\ Extends(x.authorizations, x.authorizations)
        BY <3>1, ExtendsSelf
      <3> QED BY <3>2 DEF MissionGrows, x
    <2> QED BY <1>3, <2>1
  <1>9. Grows(d, e)
    BY <1>2, <1>3, <1>8 DEF Grows, AuthorizationsKept, ReservationsKept, Unconsumed
  <1> QED BY <1>3, <1>4, <1>5, <1>7, <1>9 DEF RegistryGood

-----------------------------------------------------------------------------
(* Reserving, proposing and withdrawing                                    *)

LEMMA MissionGrowsSelf ==
    ASSUME NEW x \in MissionRecords PROVE MissionGrows(x, x)
  <1>1. /\ x.revisions \in Seq(Revisions) /\ x.decisions \in Seq(Decisions)
        /\ x.authorizations \in Seq(Nat)
    BY DEF MissionRecords
  <1>2. /\ Extends(x.revisions, x.revisions) /\ Extends(x.decisions, x.decisions)
        /\ Extends(x.authorizations, x.authorizations)
    BY <1>1, ExtendsSelf
  <1> QED BY <1>2 DEF MissionGrows

LEMMA GrowsSelf == ASSUME NEW d, d \in Documents PROVE Grows(d, d)
  <1>1. d.ledger \in Seq(Entries) /\ \A m \in DOMAIN d.missions : d.missions[m] \in MissionRecords
    BY DocumentParts
  <1>2. Extends(d.ledger, d.ledger) /\ \A m \in DOMAIN d.missions : MissionGrows(d.missions[m], d.missions[m])
    BY <1>1, ExtendsSelf, MissionGrowsSelf
  <1> QED BY <1>2 DEF Grows

LEMMA ReserveKeeps ==
    ASSUME NEW d, RegistryGood(d), NEW kind \in {"request", "decision"},
           NEW context \in Contexts, NEW e, e = ReserveIn(d, kind, context)
    PROVE  /\ RegistryGood(e) /\ Grows(d, e)
           /\ e.missions = d.missions /\ e.authorizations = d.authorizations
           /\ NextId(d) \notin DOMAIN d.reservations
           /\ IdOf(e, NextId(d), kind, context)
           /\ Unconsumed(e, NextId(d))
  <1> DEFINE new == [kind |-> kind, context |-> context, consumed |-> None]
             rs == Append(d.reservations, new)
  <1>1. d \in Documents /\ d.reservations \in Seq(Reserved) /\ d.ledger \in Seq(Entries)
    BY DocumentParts DEF RegistryGood
  <1>2. new \in Reserved
    BY DEF Reserved, None
  <1>3. /\ rs \in Seq(Reserved) /\ Len(d.reservations) \in Nat
        /\ rs[Len(d.reservations) + 1] = new
        /\ DOMAIN d.reservations = 1 .. Len(d.reservations)
        /\ DOMAIN rs = 1 .. Len(d.reservations) + 1
        /\ \A i \in DOMAIN d.reservations : rs[i] = d.reservations[i]
    BY <1>1, <1>2, ExtendsAppend
  <1>4. /\ e.reservations = rs /\ e.missions = d.missions
        /\ e.authorizations = d.authorizations /\ e.ledger = d.ledger
    BY <1>1 DEF ReserveIn, Documents
  <1>5. e \in Documents
    BY <1>1, <1>3, <1>4 DEF ReserveIn, Documents
  <1>6. new.kind = kind /\ new.context = context /\ new.consumed = None
    OBVIOUS
  <1> HIDE DEF new, rs
  <1>7. ReservationsKept(d.reservations, rs)
    <2>1. \A i \in DOMAIN d.reservations : i \in DOMAIN rs /\ rs[i] = d.reservations[i]
      BY <1>3
    <2>2. \A i \in DOMAIN rs : i \notin DOMAIN d.reservations => rs[i] = new
      BY <1>3
    <2> QED BY <1>6, <2>1, <2>2 DEF ReservationsKept
  <1>8. ASSUME NEW m \in DOMAIN d.missions PROVE MissionGood(e, m)
    <2>1. /\ StateGood(d.missions[m]) /\ DecisionsGood(d.missions[m], d.reservations)
          /\ AuthorityGood(d.missions[m], m, d.authorizations)
      BY DEF RegistryGood, MissionGood
    <2>2. DecisionsGood(d.missions[m], rs)
      BY <1>7, <2>1, DecisionsStay
    <2> QED BY <1>4, <2>1, <2>2, Zenon DEF MissionGood
  <1>9. RequestsGood(e)
    <2>1. RequestsGood(d)
      BY DEF RegistryGood
    <2>2. \A i \in DOMAIN d.reservations : i \in DOMAIN rs /\ rs[i] = d.reservations[i]
      BY <1>3
    <2>3. ASSUME NEW i \in DOMAIN e.reservations, ~Unconsumed(e, i)
          PROVE  i \in DOMAIN d.reservations /\ d.reservations[i] = e.reservations[i]
      BY <1>3, <1>4, <1>6, <2>3 DEF Unconsumed
    <2>4. \A i \in DOMAIN e.reservations : e.reservations[i].kind = "request" /\ ~Unconsumed(e, i) =>
             /\ e.reservations[i].consumed \in DOMAIN e.missions
             /\ e.missions[e.reservations[i].consumed].request = i
      BY <1>4, <2>1, <2>3 DEF RequestsGood, Unconsumed
    <2> QED BY <1>4, <2>1, <2>2, <2>4 DEF RequestsGood
  <1>10. Grows(d, e)
    <2>1. Grows(d, d)
      BY <1>1, GrowsSelf
    <2> QED BY <1>4, <1>7, <2>1 DEF Grows, ReservationsKept, Unconsumed
  <1>11. /\ NextId(d) \notin DOMAIN d.reservations /\ NextId(d) \in DOMAIN rs
         /\ NextId(d) # None /\ rs[NextId(d)] = new
    BY <1>3 DEF NextId, None
  <1>12. IdOf(e, NextId(d), kind, context) /\ Unconsumed(e, NextId(d))
    BY <1>4, <1>6, <1>11 DEF IdOf, IsReserved, Unconsumed
  <1> QED BY <1>4, <1>5, <1>8, <1>9, <1>10, <1>11, <1>12 DEF RegistryGood

LEMMA NewMissionIs ==
    ASSUME NEW id \in Nat, NEW proposer \in Contexts, NEW content \in Content,
           NEW keyExpires \in Nat, NEW rs, NEW m, NEW as
    PROVE  LET y == NewMission(id, proposer, content, keyExpires) IN
           /\ y \in MissionRecords /\ y.request = id /\ y.proposer = proposer
           /\ y.decisions = <<>>
           /\ StateGood(y) /\ DecisionsGood(y, rs) /\ AuthorityGood(y, m, as)
  <1> DEFINE y == NewMission(id, proposer, content, keyExpires)
             first == [content |-> content, by |-> None]
  <1>1. first \in Revisions
    BY DEF Revisions, None
  <1> HIDE DEF first
  <1>2. <<first>> \in Seq(Revisions) /\ <<first>> # <<>>
    BY <1>1
  <1> DEFINE all == <<first>>
  <1>3. y = [request |-> id, proposer |-> proposer, keyExpires |-> keyExpires,
             state |-> "AWAITING_DECISION", revisions |-> all, decisions |-> <<>>,
             authorizations |-> <<>>, withdrawn |-> None, run |-> NoRun,
             lifecycle |-> <<>>]
    BY DEF NewMission, first
  <1> HIDE DEF all, y
  <1>4. y \in MissionRecords
    BY <1>2, <1>3 DEF MissionRecords, MissionStates, None, all
  <1>5. /\ y.request = id /\ y.proposer = proposer /\ y.decisions = <<>>
        /\ y.authorizations = <<>> /\ y.revisions # <<>> /\ y.withdrawn = None
        /\ y.state = "AWAITING_DECISION" /\ y.run = NoRun
    BY <1>2, <1>3 DEF all
  <1>6. StateGood(y)
    BY <1>5 DEF StateGood, HasRun, NoRun
  <1>7. DecisionsGood(y, rs) /\ AuthorityGood(y, m, as)
    BY <1>5 DEF DecisionsGood, AuthorityGood
  <1> QED BY <1>4, <1>5, <1>6, <1>7 DEF y

LEMMA ProposeKeeps ==
    ASSUME NEW d, RegistryGood(d), NEW id, NEW context \in Contexts,
           NEW content \in Content, NEW keyExpires \in Nat, CanPropose(d, id, context),
           NEW e, e = ProposeIn(d, id, context, content, keyExpires)
    PROVE  /\ RegistryGood(e) /\ Grows(d, e) /\ e.authorizations = d.authorizations
           /\ e.reservations[id].consumed \in DOMAIN e.missions
           /\ e.missions[e.reservations[id].consumed].request = id
           /\ \A m \in DOMAIN d.missions : e.missions[m] = d.missions[m]
           /\ \A m \in DOMAIN e.missions : m \notin DOMAIN d.missions =>
                 e.missions[m].decisions = <<>>
  <1> DEFINE m == Len(d.missions) + 1
             y == NewMission(id, context, content, keyExpires)
             ms == Append(d.missions, y)
             used == [d.reservations[id] EXCEPT !.consumed = m]
             rs == [d.reservations EXCEPT ![id] = used]
  <1>1. /\ d \in Documents /\ d.reservations \in Seq(Reserved)
        /\ d.missions \in Seq(MissionRecords) /\ d.ledger \in Seq(Entries)
        /\ \A i \in DOMAIN d.reservations : d.reservations[i] \in Reserved /\ i \in Nat
        /\ \A k \in DOMAIN d.missions : d.missions[k] \in MissionRecords
    BY DocumentParts DEF RegistryGood
  <1>2. /\ id \in DOMAIN d.reservations /\ id \in Nat /\ d.reservations[id] \in Reserved
        /\ d.reservations[id].kind = "request" /\ d.reservations[id].context = context
        /\ d.reservations[id].consumed = None
    BY <1>1 DEF CanPropose, IsReserved, Unconsumed
  <1>3. /\ y \in MissionRecords /\ y.request = id /\ y.proposer = context
        /\ y.decisions = <<>> /\ StateGood(y) /\ \A ss, as : DecisionsGood(y, ss) /\ AuthorityGood(y, m, as)
    BY <1>2, NewMissionIs
  <1> HIDE DEF y
  <1>4. /\ ms \in Seq(MissionRecords) /\ Len(d.missions) \in Nat /\ ms[m] = y
        /\ DOMAIN d.missions = 1 .. Len(d.missions) /\ DOMAIN ms = 1 .. m
        /\ \A k \in DOMAIN d.missions : ms[k] = d.missions[k]
    BY <1>1, <1>3, ExtendsAppend
  <1>5. m \in Nat /\ m # None
    BY <1>4 DEF None
  <1> HIDE DEF ms, m
  <1>6. /\ used \in Reserved /\ used.consumed = m /\ used.kind = "request"
        /\ used.context = context
    BY <1>2, <1>5 DEF Reserved
  <1>7. /\ rs \in Seq(Reserved) /\ DOMAIN rs = DOMAIN d.reservations /\ rs[id] = used
        /\ \A i \in DOMAIN rs : i # id => rs[i] = d.reservations[i]
    <2> HIDE DEF used
    <2> QED BY <1>1, <1>2, <1>6
  <1>8. e = [missions |-> ms, authorizations |-> d.authorizations, ledger |-> d.ledger,
             reservations |-> rs]
    BY <1>1 DEF ProposeIn, Documents, ms, y, m
  <1> HIDE DEF rs, used
  <1>9. e.missions = ms /\ e.authorizations = d.authorizations /\ e.ledger = d.ledger /\ e.reservations = rs
    BY <1>8
  <1>10. e \in Documents
    BY <1>1, <1>4, <1>7, <1>8 DEF Documents
  <1>11. ASSUME NEW k \in DOMAIN d.missions PROVE MissionGood(e, k)
    <2>1. /\ StateGood(d.missions[k]) /\ DecisionsGood(d.missions[k], d.reservations)
          /\ AuthorityGood(d.missions[k], k, d.authorizations)
      BY DEF RegistryGood, MissionGood
    <2>2. DecisionsGood(d.missions[k], rs)
      <3>1. \A i \in DOMAIN d.reservations : d.reservations[i].kind = "decision" => rs[i] = d.reservations[i]
        BY <1>2, <1>7
      <3> QED BY <1>7, <2>1, <3>1 DEF DecisionsGood
    <2>3. e.missions[k] = d.missions[k]
      BY <1>4, <1>9
    <2> QED BY <1>9, <2>1, <2>2, <2>3, Zenon DEF MissionGood
  <1>12. MissionGood(e, m)
    <2>1. e.missions[m] = y
      BY <1>4, <1>9
    <2> QED BY <1>3, <2>1, Zenon DEF MissionGood
  <1>13. \A k \in DOMAIN e.missions : k \in DOMAIN d.missions \/ k = m
    BY <1>4, <1>9 DEF m
  <1>14. \A k \in DOMAIN d.missions : k \in DOMAIN e.missions /\ k # m
    BY <1>4, <1>9 DEF m
  <1>15. RequestsGood(e)
    <2>1. RequestsGood(d)
      BY DEF RegistryGood
    <2>2. ASSUME NEW k \in DOMAIN e.missions
          PROVE  LET i == e.missions[k].request IN
                 /\ i \in DOMAIN e.reservations
                 /\ e.reservations[i].kind = "request"
                 /\ e.reservations[i].context = e.missions[k].proposer
                 /\ e.reservations[i].consumed = k
      <3>1. CASE k = m
        BY <1>2, <1>3, <1>4, <1>6, <1>7, <1>9, <3>1
      <3>2. CASE k \in DOMAIN d.missions
        <4>1. d.missions[k].request # id
          BY <1>1, <1>2, <2>1, <3>2, DocumentParts DEF RequestsGood
        <4> QED BY <1>4, <1>7, <1>9, <2>1, <3>2, <4>1 DEF RequestsGood
      <3> QED BY <1>13, <3>1, <3>2
    <2>3. ASSUME NEW i \in DOMAIN e.reservations, e.reservations[i].kind = "request",
                 ~Unconsumed(e, i)
          PROVE  /\ e.reservations[i].consumed \in DOMAIN e.missions
                 /\ e.missions[e.reservations[i].consumed].request = i
      <3>1. CASE i = id
        <4>1. m \in DOMAIN ms
          BY <1>4, <1>5 DEF m
        <4> QED BY <1>3, <1>4, <1>6, <1>7, <1>9, <3>1, <4>1
      <3>2. CASE i # id
        <4>1. /\ d.reservations[i] = e.reservations[i] /\ i \in DOMAIN d.reservations
          BY <1>7, <1>9, <3>2
        <4> QED BY <1>4, <1>9, <1>14, <2>1, <2>3, <4>1 DEF RequestsGood, Unconsumed
      <3> QED BY <3>1, <3>2
    <2> QED BY <2>2, <2>3 DEF RequestsGood
  <1>16. Grows(d, e)
    <2>1. Grows(d, d)
      BY <1>1, GrowsSelf
    <2>2. \A i \in DOMAIN d.reservations :
            /\ i \in DOMAIN rs /\ rs[i].kind = d.reservations[i].kind
            /\ rs[i].context = d.reservations[i].context
            /\ ~Unconsumed(d, i) => rs[i] = d.reservations[i]
      BY <1>2, <1>6, <1>7 DEF Unconsumed
    <2>3. \A k \in DOMAIN d.missions : k \in DOMAIN e.missions /\ e.missions[k] = d.missions[k]
      BY <1>4, <1>9, <1>14
    <2> QED BY <1>9, <2>1, <2>2, <2>3 DEF Grows
  <1>17. e.reservations[id].consumed = m /\ m \in DOMAIN e.missions /\ e.missions[m] = y
    <2>1. m \in DOMAIN ms
      BY <1>4, <1>5 DEF m
    <2> QED BY <1>4, <1>6, <1>7, <1>9, <2>1
  <1> QED BY <1>3, <1>4, <1>9, <1>10, <1>11, <1>12, <1>13, <1>15, <1>16, <1>17 DEF RegistryGood

LEMMA WithdrawKeeps ==
    ASSUME NEW d, RegistryGood(d), NEW m \in DOMAIN d.missions, NEW id, NEW t \in Nat,
           t # None, CanWithdraw(d, m, id, t), NEW e, e = WithdrawIn(d, m, t)
    PROVE  /\ RegistryGood(e) /\ Grows(d, e)
           /\ m \in DOMAIN e.missions /\ e.missions[m].withdrawn # None
           /\ e.authorizations = d.authorizations /\ DOMAIN e.missions = DOMAIN d.missions
           /\ \A k \in DOMAIN d.missions : e.missions[k].decisions = d.missions[k].decisions
  <1>0. /\ d \in Documents /\ d.missions \in Seq(MissionRecords)
        /\ d.missions[m] \in MissionRecords /\ d.ledger \in Seq(Entries)
        /\ d.authorizations \in Seq(Issued) /\ d.reservations \in Seq(Reserved)
    BY DocumentParts DEF RegistryGood
  <1>1. CASE d.missions[m].withdrawn # None
    <2>1. e = d
      BY <1>1 DEF WithdrawIn
    <2> QED BY <1>0, <1>1, <2>1, GrowsSelf
  <1>2. CASE d.missions[m].withdrawn = None
    <2> DEFINE x == d.missions[m]
               y == [x EXCEPT !.withdrawn = t]
    <2>1. /\ x.state = "AWAITING_DECISION" /\ x.decisions = <<>> /\ x.authorizations = <<>>
      BY <1>2 DEF CanWithdraw, Undecided
    <2>2. StateGood(x) /\ DecisionsGood(x, d.reservations) /\ AuthorityGood(x, m, d.authorizations)
      BY DEF RegistryGood, MissionGood
    <2>3. /\ y \in MissionRecords /\ y.state = x.state /\ y.decisions = x.decisions
          /\ y.authorizations = x.authorizations /\ y.revisions = x.revisions
          /\ y.run = x.run /\ y.withdrawn = t /\ y.request = x.request
          /\ y.proposer = x.proposer /\ y.keyExpires = x.keyExpires
      BY <1>0 DEF MissionRecords
    <2>4. e = [missions |-> [d.missions EXCEPT ![m] = y], authorizations |-> d.authorizations,
               ledger |-> d.ledger, reservations |-> d.reservations]
      BY <1>0, <1>2 DEF WithdrawIn, Documents
    <2>5. MissionGrows(x, x)
      BY <1>0, MissionGrowsSelf
    <2> HIDE DEF y, x
    <2>6. StateGood(y)
      BY <2>1, <2>2, <2>3 DEF StateGood, HasRun
    <2>7. DecisionsGood(y, d.reservations) /\ AuthorityGood(y, m, d.authorizations)
      BY <2>1, <2>3 DEF DecisionsGood, AuthorityGood
    <2>8. MissionGrows(x, y)
      BY <1>2, <2>3, <2>5 DEF MissionGrows, x
    <2>9. Extends(d.ledger, d.ledger)
      BY <1>0, ExtendsSelf
    <2>10. RegistryGood(e) /\ Grows(d, e)
      BY <1>0, <2>3, <2>4, <2>6, <2>7, <2>8, <2>9, AuthorizationsKeptSelf,
         ReservationsKeptSelf, MissionReplaced DEF x
    <2>11. /\ e.authorizations = d.authorizations /\ DOMAIN e.missions = DOMAIN d.missions
           /\ e.missions[m] = y /\ \A k \in DOMAIN d.missions : k # m => e.missions[k] = d.missions[k]
      BY <1>0, <2>4
    <2> QED BY <2>3, <2>10, <2>11 DEF x
  <1> QED BY <1>1, <1>2
-----------------------------------------------------------------------------
(* Pausing, resuming and cancelling before the run starts                  *)

LEMMA NewRunUnstarted == NewRun \in UnstartedRuns
  BY DEF NewRun, UnstartedRuns, None

LEMMA RunUnstarted ==
    ASSUME NEW x \in MissionRecords
    PROVE  /\ HasRun(x) \in BOOLEAN /\ (HasRun(x) <=> x.run \in UnstartedRuns)
           /\ RunOf(x) \in UnstartedRuns /\ IntentOf(x) = None
  <1>1. x.run \in {NoRun} \cup UnstartedRuns
    BY DEF MissionRecords
  <1>2. CASE x.run = NoRun
    <2>1. x.run.held = FALSE
      BY <1>2 DEF NoRun
    <2>2. x.run \notin UnstartedRuns
      BY <2>1 DEF UnstartedRuns
    <2> QED BY <2>1, <2>2, NewRunUnstarted DEF HasRun, RunOf, IntentOf
  <1>3. CASE x.run \in UnstartedRuns
    <2>1. x.run.held = TRUE /\ x.run.intent = None
      BY <1>3 DEF UnstartedRuns
    <2> QED BY <1>3, <2>1 DEF HasRun, RunOf, IntentOf
  <1> QED BY <1>1, <1>2, <1>3

Controlled(d, m, r, state, l) ==
    [d EXCEPT !.missions = [d.missions EXCEPT ![m] =
        [d.missions[m] EXCEPT !.run = r, !.state = state, !.lifecycle = l]]]

LEMMA ControlledIs ==
    ASSUME NEW d, RegistryGood(d), NEW m \in DOMAIN d.missions,
           NEW r \in UnstartedRuns, NEW state, NEW l \in Seq(Moves),
           d.missions[m].state \in {"AUTHORIZED", "CANCELLED"},
           state \in {d.missions[m].state, "CANCELLED"}, NEW e,
           e = Controlled(d, m, r, state, l)
    PROVE  /\ RegistryGood(e) /\ Grows(d, e)
           /\ e.authorizations = d.authorizations /\ DOMAIN e.missions = DOMAIN d.missions
           /\ \A k \in DOMAIN d.missions : e.missions[k].decisions = d.missions[k].decisions
  <1> DEFINE x == d.missions[m]
             y == [x EXCEPT !.run = r, !.state = state, !.lifecycle = l]
  <1>0. /\ d \in Documents /\ d.missions \in Seq(MissionRecords)
        /\ x \in MissionRecords /\ d.ledger \in Seq(Entries)
        /\ d.authorizations \in Seq(Issued) /\ d.reservations \in Seq(Reserved)
    BY DocumentParts DEF RegistryGood
  <1>1. StateGood(x) /\ DecisionsGood(x, d.reservations) /\ AuthorityGood(x, m, d.authorizations)
    BY DEF RegistryGood, MissionGood
  <1>2. x.withdrawn = None
    BY <1>1 DEF StateGood
  <1>3. /\ y \in MissionRecords /\ y.state = state /\ y.decisions = x.decisions
        /\ y.authorizations = x.authorizations /\ y.revisions = x.revisions
        /\ y.run = r /\ y.withdrawn = x.withdrawn /\ y.request = x.request
        /\ y.proposer = x.proposer /\ y.keyExpires = x.keyExpires
    BY <1>0 DEF MissionRecords, MissionStates
  <1>4. e = [missions |-> [d.missions EXCEPT ![m] = y], authorizations |-> d.authorizations,
             ledger |-> d.ledger, reservations |-> d.reservations]
    BY <1>0 DEF Documents, Controlled
  <1>5. MissionGrows(x, x)
    BY <1>0, MissionGrowsSelf
  <1>6. r.held = TRUE /\ state \in {"AUTHORIZED", "CANCELLED"} /\ (state = "AUTHORIZED" => x.state = state)
        /\ x.state # "AWAITING_DECISION"
    BY DEF UnstartedRuns
  <1> HIDE DEF y, x
  <1>7. StateGood(y)
    BY <1>1, <1>2, <1>3, <1>6 DEF StateGood, HasRun
  <1>8. DecisionsGood(y, d.reservations)
    BY <1>1, <1>3 DEF DecisionsGood
  <1>9. AuthorityGood(y, m, d.authorizations)
    BY <1>1, <1>3, <1>6 DEF AuthorityGood, Revision, Current
  <1>10. MissionGrows(x, y)
    BY <1>2, <1>3, <1>5 DEF MissionGrows
  <1>11. Extends(d.ledger, d.ledger)
    BY <1>0, ExtendsSelf
  <1>12. RegistryGood(e) /\ Grows(d, e)
    BY <1>0, <1>3, <1>4, <1>7, <1>8, <1>9, <1>10, <1>11, AuthorizationsKeptSelf,
       ReservationsKeptSelf, MissionReplaced DEF x
  <1>13. /\ e.authorizations = d.authorizations /\ DOMAIN e.missions = DOMAIN d.missions
         /\ e.missions[m] = y /\ \A k \in DOMAIN d.missions : k # m => e.missions[k] = d.missions[k]
    BY <1>0, <1>4
  <1> QED BY <1>3, <1>12, <1>13 DEF x

\* The move a cancel records of a mission whose run has not started.
CancelMove == [to |-> "CANCELLED", reason |-> "cancelled_before_intent"]

\* What pausing, resuming, cancelling and completing the cancel do to a mission whose
\* run was not started: the run block alone, or the cancel's move with it.
ControlledTo(x, r, state, l) ==
    /\ r \in UnstartedRuns /\ l \in Seq(Moves)
    /\ x.state \in {"AUTHORIZED", "CANCELLED"} /\ state \in {x.state, "CANCELLED"}
    /\ \/ /\ state = x.state /\ l = x.lifecycle /\ r.cancel = RunOf(x).cancel
          /\ r.quiescence = RunOf(x).quiescence \/ state = "CANCELLED"
       \/ /\ x.state = "AUTHORIZED" /\ state = "CANCELLED" /\ r.cancel # "none"
          /\ l = Append(x.lifecycle, CancelMove)

LEMMA ControlIs ==
    ASSUME NEW d, RegistryGood(d), NEW m \in DOMAIN d.missions, NEW bound,
           NEW e \in RecordPause(d, m, bound) \cup RecordResume(d, m, bound)
                     \cup RecordCancel(d, m, "cancelled_before_intent", bound)
                     \cup CompleteCancel(d, m, "nothing_started", bound)
    PROVE  \E r, state, l : ControlledTo(d.missions[m], r, state, l)
                            /\ e = Controlled(d, m, r, state, l)
  <1> DEFINE x == d.missions[m]
             run == RunOf(x)
  <1>0. d \in Documents /\ x \in MissionRecords /\ StateGood(x) /\ x.lifecycle \in Seq(Moves)
    BY DocumentParts DEF RegistryGood, MissionGood, MissionRecords
  <1>1. /\ HasRun(x) \in BOOLEAN /\ (HasRun(x) <=> x.run \in UnstartedRuns)
        /\ run \in UnstartedRuns /\ IntentOf(x) = None
        /\ (HasRun(x) => run = x.run)
    BY <1>0, RunUnstarted DEF RunOf
  <1> HIDE DEF run
  <1>2. CASE e \in RecordPause(d, m, bound)
    <2> DEFINE r == [run EXCEPT !.pauses = @ + 1, !.paused = TRUE]
    <2>1. x.state \in {"AUTHORIZED", "RUNNING"} /\ e = [d EXCEPT !.missions[m].run = r]
      BY <1>2 DEF RecordPause, Saved, WithRun, run
    <2>2. x.state = "AUTHORIZED"
      BY <1>0, <2>1 DEF StateGood
    <2>3. r \in UnstartedRuns /\ r.cancel = run.cancel /\ r.quiescence = run.quiescence
      <3>1. run.pauses \in Nat /\ run.pauses + 1 \in Nat
        BY <1>1 DEF UnstartedRuns
      <3> DEFINE p == run.pauses + 1
      <3> HIDE DEF p
      <3>2. r = [run EXCEPT !.pauses = p, !.paused = TRUE]
        BY DEF p
      <3> QED BY <1>1, <3>1, <3>2 DEF UnstartedRuns, p
    <2> HIDE DEF r
    <2>4. e = Controlled(d, m, r, x.state, x.lifecycle)
      BY <1>0, <2>1 DEF Controlled, Documents, MissionRecords
    <2>5. ControlledTo(x, r, x.state, x.lifecycle)
      BY <1>0, <2>2, <2>3 DEF ControlledTo, run
    <2> QED BY <2>4, <2>5
  <1>3. CASE e \in RecordResume(d, m, bound)
    <2> DEFINE r == [run EXCEPT !.paused = FALSE]
    <2>1. HasRun(x) /\ e = [d EXCEPT !.missions[m].run.paused = FALSE]
      BY <1>3 DEF RecordResume, Saved, Paused
    <2>2. x.state \in {"AUTHORIZED", "CANCELLED"} /\ run = x.run
      BY <1>0, <1>1, <2>1 DEF StateGood
    <2>3. r \in UnstartedRuns /\ r.cancel = run.cancel /\ r.quiescence = run.quiescence
      BY <1>1 DEF UnstartedRuns
    <2>4. e = [d EXCEPT !.missions[m].run = r]
      BY <2>1, <2>2
    <2> HIDE DEF r
    <2>5. e = Controlled(d, m, r, x.state, x.lifecycle)
      BY <1>0, <2>4 DEF Controlled, Documents, MissionRecords
    <2>6. ControlledTo(x, r, x.state, x.lifecycle)
      BY <1>0, <2>2, <2>3 DEF ControlledTo, run
    <2> QED BY <2>5, <2>6
  <1>4. CASE e \in RecordCancel(d, m, "cancelled_before_intent", bound)
    <2> DEFINE r == [run EXCEPT !.cancel = "cancelled_before_intent"]
               l == Append(x.lifecycle, CancelMove)
    <2>1. /\ "cancelled_before_intent" \in Achievable(x)
          /\ e = MoveIn(WithRun(d, m, r), m, "CANCELLED", "cancelled_before_intent")
      BY <1>4 DEF RecordCancel, Saved, run
    <2>2. x.state = "AUTHORIZED"
      BY <2>1 DEF Achievable
    <2>3. r \in UnstartedRuns /\ r.cancel # "none"
      BY <1>1 DEF UnstartedRuns
    <2>4. CancelMove \in Moves
      BY DEF Moves, RunStates, Cancels, CancelMove
    <2> HIDE DEF r
    <2>5. l \in Seq(Moves)
      BY <1>0, <2>4, ExtendsAppend
    <2>6. e = Controlled(d, m, r, "CANCELLED", l)
      <3>1. WithRun(d, m, r) = [d EXCEPT !.missions = [d.missions EXCEPT ![m] = [d.missions[m] EXCEPT !.run = r]]]
        BY <1>0 DEF WithRun, Documents
      <3> DEFINE w == [d EXCEPT !.missions = [d.missions EXCEPT ![m] = [d.missions[m] EXCEPT !.run = r]]]
      <3>2. e = [w EXCEPT !.missions = [w.missions EXCEPT ![m] =
                   [w.missions[m] EXCEPT !.state = "CANCELLED",
                                         !.lifecycle = Append(w.missions[m].lifecycle, CancelMove)]]]
        BY <2>1, <3>1 DEF MoveIn, CancelMove
      <3>3. /\ w.missions = [d.missions EXCEPT ![m] = [d.missions[m] EXCEPT !.run = r]]
            /\ w.missions[m] = [d.missions[m] EXCEPT !.run = r]
            /\ w.missions[m].lifecycle = x.lifecycle
        BY <1>0 DEF Documents, MissionRecords
      <3>4. [w.missions[m] EXCEPT !.state = "CANCELLED", !.lifecycle = l]
              = [d.missions[m] EXCEPT !.run = r, !.state = "CANCELLED", !.lifecycle = l]
        BY <1>0, <3>3 DEF MissionRecords
      <3>5. \A y, z : [w EXCEPT !.missions = [w.missions EXCEPT ![m] = z]]
                       = [d EXCEPT !.missions = [d.missions EXCEPT ![m] = z]]
        BY <1>0 DEF Documents
      <3> HIDE DEF w
      <3> QED BY <3>2, <3>3, <3>4, <3>5 DEF Controlled
    <2>7. ControlledTo(x, r, "CANCELLED", l)
      BY <2>2, <2>3, <2>5 DEF ControlledTo
    <2> HIDE DEF l
    <2> QED BY <2>6, <2>7
  <1>5. CASE e \in CompleteCancel(d, m, "nothing_started", bound)
    <2> DEFINE r == [run EXCEPT !.quiescence = "nothing_started"]
    <2>1. x.state = "CANCELLED" /\ e = [d EXCEPT !.missions[m].run.quiescence = "nothing_started"]
      BY <1>5 DEF CompleteCancel, Saved
    <2>2. run = x.run
      BY <1>0, <1>1, <2>1 DEF StateGood
    <2>3. r \in UnstartedRuns /\ r.cancel = run.cancel
      BY <1>1 DEF UnstartedRuns
    <2>4. e = [d EXCEPT !.missions[m].run = r]
      BY <2>1, <2>2
    <2> HIDE DEF r
    <2>5. e = Controlled(d, m, r, x.state, x.lifecycle)
      BY <1>0, <2>4 DEF Controlled, Documents, MissionRecords
    <2>6. ControlledTo(x, r, x.state, x.lifecycle)
      BY <1>0, <2>1, <2>3 DEF ControlledTo, run
    <2> QED BY <2>5, <2>6
  <1> QED BY <1>2, <1>3, <1>4, <1>5

LEMMA ControlKeeps ==
    ASSUME NEW d, RegistryGood(d), NEW m \in DOMAIN d.missions, NEW bound,
           NEW e \in RecordPause(d, m, bound) \cup RecordResume(d, m, bound)
                     \cup RecordCancel(d, m, "cancelled_before_intent", bound)
                     \cup CompleteCancel(d, m, "nothing_started", bound)
    PROVE  /\ RegistryGood(e) /\ Grows(d, e)
           /\ e.authorizations = d.authorizations /\ DOMAIN e.missions = DOMAIN d.missions
           /\ \A k \in DOMAIN d.missions : e.missions[k].decisions = d.missions[k].decisions
  <1>1. PICK r, state, l : ControlledTo(d.missions[m], r, state, l)
                           /\ e = Controlled(d, m, r, state, l)
    BY ControlIs
  <1>2. /\ r \in UnstartedRuns /\ l \in Seq(Moves)
        /\ d.missions[m].state \in {"AUTHORIZED", "CANCELLED"}
        /\ state \in {d.missions[m].state, "CANCELLED"}
    BY <1>1 DEF ControlledTo
  <1> QED BY <1>1, <1>2, ControlledIs

-----------------------------------------------------------------------------
(* What a decision does to the mission and its authority                   *)

AnyAsks ==
    [id : Nat, by : Contexts, kind : DecisionKinds, revision : Nat,
     shown : {None} \cup Content, content : {None} \cup Content,
     scope : Scopes, expires : Nat]

\* An effect replaces the one mission, keeps its decisions, and leaves the authority
\* of its current revision only.
EffectGood(d, m, ask, f) ==
    LET x == d.missions[m]
        y == f.document.missions[m]
        as == f.document.authorizations
    IN
    /\ f.document = [missions |-> [d.missions EXCEPT ![m] = y], authorizations |-> as,
                     ledger |-> f.document.ledger, reservations |-> d.reservations]
    /\ y \in MissionRecords /\ as \in Seq(Issued) /\ f.document.ledger \in Seq(Entries)
    /\ Extends(d.ledger, f.document.ledger)
    /\ AuthorizationsKept(d.authorizations, as, m)
    /\ MissionGrows(x, y) /\ StateGood(y) /\ AuthorityGood(y, m, as)
    /\ y.decisions = x.decisions /\ y.withdrawn = None /\ ~HasRun(y)
    /\ f.outcome \in Outcomes
    /\ ask.kind = "APPROVE" =>
          \E a \in DOMAIN as :
             /\ as[a].mission = m /\ as[a].by = ask.by /\ as[a].content = Current(x)
             /\ as[a].revision = Revision(x) /\ as[a].expires = ask.expires

LEMMA CurrentOf ==
    ASSUME NEW x \in MissionRecords, x.revisions # <<>>
    PROVE  Revision(x) \in Nat /\ Revision(x) > 0 /\ Current(x) \in Content
  <1>1. x.revisions \in Seq(Revisions)
    BY DEF MissionRecords
  <1>2. Len(x.revisions) \in Nat /\ Len(x.revisions) > 0
    BY <1>1
  <1>3. x.revisions[Len(x.revisions)] \in Revisions
    BY <1>1, <1>2
  <1> QED BY <1>2, <1>3 DEF Revision, Current, Revisions

LEMMA OutcomeIs ==
    ASSUME NEW x \in MissionRecords, x.revisions # <<>>, NEW ask \in AnyAsks,
           ask.kind = "EDIT" => ask.content \in Content,
           NEW a \in Nat, NEW invalidated \in Seq(Nat)
    PROVE  Outcome(x, ask, a, invalidated) \in Outcomes
  <1>1. Revision(x) \in Nat /\ Current(x) \in Content
    BY CurrentOf
  <1>2. ask.kind \in DecisionKinds
    BY DEF AnyAsks
  <1>3. ResultOf(ask.kind) \in MissionStates
    BY <1>2 DEF ResultOf, MissionStates, DecisionKinds
  <1> DEFINE revision == Revision(x) + IF ask.kind = "EDIT" THEN 1 ELSE 0
             content == IF ask.kind = "EDIT" THEN ask.content ELSE Current(x)
  <1>4. revision \in Nat /\ content \in Content
    BY <1>1
  <1>5. Outcome(x, ask, a, invalidated) =
           [state |-> ResultOf(ask.kind), revision |-> revision, content |-> content,
            authorization |-> a, invalidated |-> invalidated]
    BY DEF Outcome
  <1> HIDE DEF revision, content
  <1> QED BY <1>3, <1>4, <1>5 DEF Outcomes

LEMMA NoSequence == ASSUME NEW X PROVE <<>> \in Seq(X)
  OBVIOUS

LEMMA EntryIs ==
    ASSUME NEW kind \in {"ISSUED", "DENIED", "EXPIRED", "INVALIDATED_BY_EDIT"},
           NEW m \in Nat, NEW revision \in Nat, NEW a \in Nat, NEW decision \in Nat, NEW t \in Nat
    PROVE  Entry(kind, m, revision, a, decision, t) \in Entries
  BY DEF Entry, Entries

LEMMA ApproveGood ==
    ASSUME NEW d, RegistryGood(d), NEW m \in DOMAIN d.missions, NEW ask \in AnyAsks,
           ask.kind = "APPROVE", NEW t \in Nat,
           d.missions[m].state = "AWAITING_DECISION", d.missions[m].withdrawn = None,
           ~HasRun(d.missions[m])
    PROVE  EffectGood(d, m, ask, ApproveIn(d, m, ask, t))
  <1> DEFINE x == d.missions[m]
             a == Len(d.authorizations) + 1
             new == [mission |-> m, revision |-> Revision(x), content |-> Current(x),
                     scope |-> ask.scope, by |-> ask.by, expires |-> ask.expires,
                     issued |-> t, revoked |-> FALSE]
             as == Append(d.authorizations, new)
             named == Append(x.authorizations, a)
             y == [x EXCEPT !.authorizations = named, !.state = "AUTHORIZED"]
             entry == Entry("ISSUED", m, Revision(x), a, ask.id, t)
             l == Append(d.ledger, entry)
             f == ApproveIn(d, m, ask, t)
  <1>0. /\ d \in Documents /\ d.missions \in Seq(MissionRecords)
        /\ x \in MissionRecords /\ d.ledger \in Seq(Entries) /\ m \in Nat
        /\ d.authorizations \in Seq(Issued) /\ d.reservations \in Seq(Reserved)
        /\ StateGood(x) /\ AuthorityGood(x, m, d.authorizations)
    BY DocumentParts DEF RegistryGood, MissionGood
  <1>1. Revision(x) \in Nat /\ Current(x) \in Content
    BY <1>0, CurrentOf DEF StateGood
  <1>2. new \in Issued /\ new.mission = m /\ new.revision = Revision(x)
        /\ new.content = Current(x) /\ new.by = ask.by /\ new.expires = ask.expires
        /\ new.revoked = FALSE
    BY <1>0, <1>1 DEF Issued, AnyAsks
  <1>3. f.outcome = Outcome(x, ask, a, <<>>)
    BY DEF ApproveIn
  <1>4. f.document = [missions |-> [d.missions EXCEPT ![m] = y], authorizations |-> as,
                      ledger |-> l, reservations |-> d.reservations]
    BY <1>0 DEF ApproveIn, Documents, MissionRecords
  <1> HIDE DEF f, new
  <1>5. /\ Len(d.authorizations) \in Nat /\ as \in Seq(Issued) /\ as[a] = new
        /\ DOMAIN d.authorizations = 1 .. Len(d.authorizations) /\ DOMAIN as = 1 .. a
        /\ \A b \in DOMAIN d.authorizations : as[b] = d.authorizations[b]
    BY <1>0, <1>2, ExtendsAppend
  <1>6. a \in Nat /\ a \in DOMAIN as /\ \A b \in DOMAIN d.authorizations : b \in DOMAIN as
    BY <1>5
  <1> HIDE DEF as, a
  <1>7. x.authorizations \in Seq(Nat)
    BY <1>0 DEF MissionRecords
  <1>8. /\ named \in Seq(Nat) /\ Extends(x.authorizations, named)
        /\ Len(x.authorizations) \in Nat
        /\ Len(named) = Len(x.authorizations) + 1 /\ named[Len(named)] = a
        /\ DOMAIN x.authorizations = 1 .. Len(x.authorizations) /\ DOMAIN named = 1 .. Len(named)
        /\ \A n \in DOMAIN x.authorizations : named[n] = x.authorizations[n]
    BY <1>6, <1>7, ExtendsAppend
  <1> HIDE DEF named
  <1>9. /\ y \in MissionRecords /\ y.state = "AUTHORIZED" /\ y.decisions = x.decisions
        /\ y.authorizations = named /\ y.revisions = x.revisions
        /\ y.run = x.run /\ y.withdrawn = x.withdrawn /\ y.request = x.request
        /\ y.proposer = x.proposer /\ y.keyExpires = x.keyExpires
    BY <1>0, <1>8 DEF MissionRecords, MissionStates
  <1>10. MissionGrows(x, x)
    BY <1>0, MissionGrowsSelf
  <1>11. entry \in Entries
    BY <1>0, <1>1, <1>6, EntryIs DEF AnyAsks
  <1> HIDE DEF entry
  <1>12. l \in Seq(Entries) /\ Extends(d.ledger, l)
    BY <1>0, <1>11, ExtendsAppend
  <1>13. f.outcome \in Outcomes
    BY <1>0, <1>3, <1>6, NoSequence, OutcomeIs DEF StateGood
  <1> HIDE DEF x, y, l
  <1>14. MissionGrows(x, y)
    BY <1>8, <1>9, <1>10 DEF MissionGrows, x
  <1>15. StateGood(y)
    BY <1>0, <1>9 DEF StateGood, HasRun, x
  <1>16. AuthorizationsKept(d.authorizations, as, m)
    BY <1>5, <1>6 DEF AuthorizationsKept
  <1>17. AuthorityGood(y, m, as)
    <2>1. ASSUME NEW n \in DOMAIN x.authorizations
          PROVE  /\ x.authorizations[n] \in DOMAIN d.authorizations
                 /\ d.authorizations[x.authorizations[n]].mission = m
                 /\ d.authorizations[x.authorizations[n]].revoked
      BY <1>0 DEF AuthorityGood, x
    <2>2. \A n \in DOMAIN named : n \in DOMAIN x.authorizations \/ n = Len(named)
      BY <1>8
    <2>3. Revision(y) = Revision(x) /\ Current(y) = Current(x)
      BY <1>9 DEF Revision, Current
    <2>4. ASSUME NEW n \in DOMAIN named
          PROVE  /\ named[n] \in DOMAIN as /\ as[named[n]].mission = m
                 /\ ~as[named[n]].revoked =>
                       /\ n = Len(named) /\ as[named[n]].revision = Revision(y)
                       /\ as[named[n]].content = Current(y)
      <3>1. CASE n \in DOMAIN x.authorizations
        BY <1>5, <1>6, <1>8, <2>1, <3>1
      <3>2. CASE n = Len(named)
        BY <1>2, <1>5, <1>6, <1>8, <2>3, <3>2
      <3> QED BY <2>2, <3>1, <3>2
    <2>5. Len(named) \in DOMAIN named /\ ~as[named[Len(named)]].revoked
      <3>1. Len(named) \in 1 .. Len(named)
        BY <1>8
      <3>2. named[Len(named)] = a /\ as[a] = new /\ new.revoked = FALSE
        BY <1>2, <1>5, <1>8
      <3>3. DOMAIN named = 1 .. Len(named)
        BY <1>8
      <3> QED BY <3>1, <3>2, <3>3, Zenon
    <2> QED BY <1>9, <2>4, <2>5 DEF AuthorityGood
  <1>18. as[a].mission = m /\ as[a].by = ask.by /\ as[a].content = Current(x)
         /\ as[a].revision = Revision(x) /\ as[a].expires = ask.expires
    BY <1>2, <1>5
  <1>19. /\ f.document.missions[m] = y /\ f.document.authorizations = as
         /\ f.document.ledger = l
    BY <1>0, <1>4
  <1>20. y.withdrawn = None /\ ~HasRun(y)
    BY <1>9 DEF HasRun, x
  <1>21. \E b \in DOMAIN as :
            /\ as[b].mission = m /\ as[b].by = ask.by /\ as[b].content = Current(x)
            /\ as[b].revision = Revision(x) /\ as[b].expires = ask.expires
    BY <1>6, <1>18
  <1>22. EffectGood(d, m, ask, f)
    BY <1>4, <1>5, <1>9, <1>12, <1>13, <1>14, <1>15, <1>16, <1>17, <1>19, <1>20, <1>21
       DEF EffectGood, x
  <1> QED BY <1>22 DEF f

\* A refusal of the proposal gives no authority, and there was none.
LEMMA RefusedGood ==
    ASSUME NEW d, RegistryGood(d), NEW m \in DOMAIN d.missions, NEW ask,
           ask.kind # "APPROVE",
           d.missions[m].state = "AWAITING_DECISION", d.missions[m].withdrawn = None,
           ~HasRun(d.missions[m]),
           NEW state \in {"DENIED", "REJECTED", "CHANGES_REQUESTED"},
           NEW l \in Seq(Entries), Extends(d.ledger, l), NEW f, f.outcome \in Outcomes,
           f.document = [missions |-> [d.missions EXCEPT ![m] =
                                         [d.missions[m] EXCEPT !.state = state]],
                         authorizations |-> d.authorizations, ledger |-> l,
                         reservations |-> d.reservations]
    PROVE  EffectGood(d, m, ask, f)
  <1> DEFINE x == d.missions[m]
             y == [x EXCEPT !.state = state]
  <1>0. /\ d \in Documents /\ d.missions \in Seq(MissionRecords)
        /\ x \in MissionRecords /\ d.authorizations \in Seq(Issued)
        /\ StateGood(x) /\ AuthorityGood(x, m, d.authorizations)
    BY DocumentParts DEF RegistryGood, MissionGood
  <1>1. /\ y \in MissionRecords /\ y.state = state /\ y.decisions = x.decisions
        /\ y.authorizations = x.authorizations /\ y.revisions = x.revisions
        /\ y.run = x.run /\ y.withdrawn = x.withdrawn /\ y.request = x.request
        /\ y.proposer = x.proposer /\ y.keyExpires = x.keyExpires
    BY <1>0 DEF MissionRecords, MissionStates
  <1>2. MissionGrows(x, x)
    BY <1>0, MissionGrowsSelf
  <1>3. /\ f.document = [missions |-> [d.missions EXCEPT ![m] = y],
                         authorizations |-> d.authorizations, ledger |-> l,
                         reservations |-> d.reservations]
        /\ x.state = "AWAITING_DECISION" /\ x.withdrawn = None /\ ~HasRun(x)
    OBVIOUS
  <1> HIDE DEF x, y
  <1>4. MissionGrows(x, y)
    BY <1>1, <1>2, <1>3 DEF MissionGrows
  <1>5. StateGood(y) /\ ~HasRun(y) /\ y.withdrawn = None
    BY <1>0, <1>1, <1>3 DEF StateGood, HasRun
  <1>6. AuthorityGood(y, m, d.authorizations)
    BY <1>0, <1>1, <1>3 DEF AuthorityGood
  <1>7. AuthorizationsKept(d.authorizations, d.authorizations, m)
    BY AuthorizationsKeptSelf
  <1>8. /\ f.document.missions[m] = y /\ f.document.authorizations = d.authorizations
        /\ f.document.ledger = l
    BY <1>0, <1>3
  <1> QED BY <1>0, <1>1, <1>3, <1>4, <1>5, <1>6, <1>7, <1>8 DEF EffectGood, x

\* An edit takes away whatever authority stood.
LEMMA EditGood ==
    ASSUME NEW d, RegistryGood(d), NEW m \in DOMAIN d.missions, NEW ask \in AnyAsks,
           ask.kind = "EDIT", ask.content \in Content, NEW t \in Nat,
           d.missions[m].withdrawn = None, ~HasRun(d.missions[m])
    PROVE  EffectGood(d, m, ask, EditIn(d, m, ask, t))
  <1> DEFINE x == d.missions[m]
             due == {a \in ToSet(x.authorizations) :
                        /\ d.authorizations[a].revision = Revision(x)
                        /\ ~d.authorizations[a].revoked}
             invalidated == Among(x.authorizations, due)
             as == [a \in DOMAIN d.authorizations |->
                      IF a \in ToSet(invalidated)
                      THEN [d.authorizations[a] EXCEPT !.revoked = TRUE]
                      ELSE d.authorizations[a]]
             new == [content |-> ask.content, by |-> ask.id]
             revised == Append(x.revisions, new)
             y == [x EXCEPT !.revisions = revised, !.state = "AWAITING_DECISION"]
             said == [i \in DOMAIN invalidated |->
                        Entry("INVALIDATED_BY_EDIT", m, Revision(x), invalidated[i], ask.id, t)]
             l == d.ledger \o said
             f == EditIn(d, m, ask, t)
  <1>0. /\ d \in Documents /\ d.missions \in Seq(MissionRecords)
        /\ x \in MissionRecords /\ d.ledger \in Seq(Entries) /\ m \in Nat
        /\ d.authorizations \in Seq(Issued) /\ d.reservations \in Seq(Reserved)
        /\ StateGood(x) /\ AuthorityGood(x, m, d.authorizations)
        /\ \A a \in DOMAIN d.authorizations : d.authorizations[a] \in Issued
    BY DocumentParts DEF RegistryGood, MissionGood
  <1>1. Revision(x) \in Nat /\ Current(x) \in Content
    BY <1>0, CurrentOf DEF StateGood
  <1>2. x.authorizations \in Seq(Nat) /\ x.revisions \in Seq(Revisions)
    BY <1>0 DEF MissionRecords
  <1>3. invalidated \in Seq(Nat) /\ ToSet(invalidated) = ToSet(x.authorizations) \cap due
    BY <1>2, AmongIs
  <1>4. ToSet(invalidated) = due
    BY <1>3
  <1>5. f.outcome = Outcome(x, ask, None, invalidated)
    BY DEF EditIn
  <1>6. f.document = [missions |-> [d.missions EXCEPT ![m] = y], authorizations |-> as,
                      ledger |-> l, reservations |-> d.reservations]
    BY <1>0 DEF EditIn, Documents, MissionRecords
  <1> HIDE DEF f, invalidated
  <1>7. as \in Seq(Issued)
    <2>1. \A a \in DOMAIN d.authorizations : as[a] \in Issued
      <3> TAKE a \in DOMAIN d.authorizations
      <3>1. d.authorizations[a] \in Issued
        BY <1>0
      <3>2. [d.authorizations[a] EXCEPT !.revoked = TRUE] \in Issued
        BY <3>1 DEF Issued
      <3> QED BY <3>1, <3>2
    <2>2. as = [a \in DOMAIN d.authorizations |-> as[a]]
      OBVIOUS
    <2> HIDE DEF as
    <2> QED BY <1>0, <2>1, <2>2, SeqLike
  <1>8. /\ DOMAIN as = DOMAIN d.authorizations
        /\ \A a \in DOMAIN as : a \in due => as[a] = [d.authorizations[a] EXCEPT !.revoked = TRUE]
        /\ \A a \in DOMAIN as : a \notin due => as[a] = d.authorizations[a]
    BY <1>4
  <1> HIDE DEF as
  <1>9. \A a \in due : a \in DOMAIN d.authorizations /\ d.authorizations[a].mission = m
    <2> SUFFICES ASSUME NEW a \in due
                 PROVE  a \in DOMAIN d.authorizations /\ d.authorizations[a].mission = m
      OBVIOUS
    <2>1. PICK n \in DOMAIN x.authorizations : x.authorizations[n] = a
      BY DEF ToSet
    <2> QED BY <1>0, <2>1 DEF AuthorityGood
  <1>10. new \in Revisions
    BY DEF Revisions, AnyAsks
  <1> HIDE DEF new
  <1>11. revised \in Seq(Revisions) /\ Extends(x.revisions, revised) /\ revised # <<>>
    BY <1>2, <1>10, ExtendsAppend
  <1> HIDE DEF revised
  <1>12. /\ y \in MissionRecords /\ y.state = "AWAITING_DECISION" /\ y.decisions = x.decisions
         /\ y.authorizations = x.authorizations /\ y.revisions = revised
         /\ y.run = x.run /\ y.withdrawn = x.withdrawn /\ y.request = x.request
         /\ y.proposer = x.proposer /\ y.keyExpires = x.keyExpires
    BY <1>0, <1>11 DEF MissionRecords, MissionStates
  <1>13. MissionGrows(x, x)
    BY <1>0, MissionGrowsSelf
  <1>14. said \in Seq(Entries)
    <2>1. \A i \in DOMAIN invalidated : said[i] \in Entries
      <3> TAKE i \in DOMAIN invalidated
      <3>1. invalidated[i] \in Nat
        BY <1>3
      <3> QED BY <1>0, <1>1, <3>1, EntryIs DEF AnyAsks
    <2>2. DOMAIN said = DOMAIN invalidated /\ DOMAIN invalidated = 1 .. Len(invalidated)
          /\ Len(invalidated) \in Nat /\ said = [i \in DOMAIN invalidated |-> said[i]]
      BY <1>3
    <2> HIDE DEF said
    <2> QED BY <2>1, <2>2
  <1> HIDE DEF said
  <1>15. l \in Seq(Entries) /\ Extends(d.ledger, l)
    BY <1>0, <1>14, ExtendsConcat
  <1>16. f.outcome \in Outcomes
    <2>1. None \in Nat
      BY DEF None
    <2> HIDE DEF x
    <2> QED BY <1>0, <1>3, <1>5, <2>1, OutcomeIs DEF StateGood
  <1> HIDE DEF y, l
  <1>17. x.withdrawn = None /\ ~HasRun(x)
    OBVIOUS
  <1> HIDE DEF x
  <1>18. MissionGrows(x, y)
    BY <1>11, <1>12, <1>13, <1>17 DEF MissionGrows
  <1>19. StateGood(y) /\ ~HasRun(y) /\ y.withdrawn = None
    BY <1>11, <1>12, <1>17 DEF StateGood, HasRun
  <1>20. AuthorizationsKept(d.authorizations, as, m)
    <2> SUFFICES ASSUME NEW a \in DOMAIN d.authorizations
                 PROVE  /\ a \in DOMAIN as
                        /\ d.authorizations[a].revoked => as[a].revoked
                        /\ [as[a] EXCEPT !.revoked = TRUE]
                              = [d.authorizations[a] EXCEPT !.revoked = TRUE]
                        /\ d.authorizations[a].mission # m => as[a] = d.authorizations[a]
      BY DEF AuthorizationsKept
    <2>1. d.authorizations[a] \in Issued
      BY <1>0
    <2>2. CASE a \in due
      <3>1. as[a] = [d.authorizations[a] EXCEPT !.revoked = TRUE] /\ d.authorizations[a].mission = m
        BY <1>8, <1>9, <2>2
      <3> QED BY <1>8, <2>1, <3>1 DEF Issued
    <2>3. CASE a \notin due
      BY <1>8, <2>3
    <2> QED BY <2>2, <2>3
  <1>21. AuthorityGood(y, m, as)
    <2>1. ASSUME NEW n \in DOMAIN x.authorizations
          PROVE  LET a == x.authorizations[n] IN
                 a \in DOMAIN as /\ as[a].mission = m /\ as[a].revoked = TRUE
      <3> DEFINE a == x.authorizations[n]
      <3>1. /\ a \in DOMAIN d.authorizations /\ d.authorizations[a].mission = m
            /\ ~d.authorizations[a].revoked => d.authorizations[a].revision = Revision(x)
            /\ d.authorizations[a] \in Issued
        BY <1>0 DEF AuthorityGood
      <3>2. a \in ToSet(x.authorizations)
        BY DEF ToSet
      <3> HIDE DEF a
      <3>3. CASE a \in due
        <4>1. as[a] = [d.authorizations[a] EXCEPT !.revoked = TRUE]
          BY <1>8, <3>1, <3>3
        <4> QED BY <1>8, <3>1, <4>1 DEF Issued, a
      <3>4. CASE a \notin due
        <4>1. d.authorizations[a].revoked
          BY <3>1, <3>2, <3>4
        <4>2. as[a] = d.authorizations[a] /\ d.authorizations[a].revoked = TRUE
          BY <1>8, <3>1, <3>4, <4>1 DEF Issued
        <4> QED BY <1>8, <3>1, <4>2 DEF a
      <3> QED BY <3>3, <3>4
    <2> QED BY <1>12, <2>1 DEF AuthorityGood
  <1>22. /\ f.document.missions[m] = y /\ f.document.authorizations = as
         /\ f.document.ledger = l
    BY <1>0, <1>6
  <1>23. EffectGood(d, m, ask, f)
    BY <1>6, <1>7, <1>12, <1>15, <1>16, <1>18, <1>19, <1>20, <1>21, <1>22 DEF EffectGood, x
  <1> QED BY <1>23 DEF f

LEMMA NoteKeeps ==
    ASSUME NEW d, RegistryGood(d), NEW m \in DOMAIN d.missions, NEW t \in Nat,
           NEW e, e = NoteExpirations(d, m, t)
    PROVE  /\ RegistryGood(e) /\ e.missions = d.missions
           /\ e.authorizations = d.authorizations /\ e.reservations = d.reservations
           /\ Extends(d.ledger, e.ledger)
  <1> DEFINE x == d.missions[m]
             due == Among(x.authorizations,
                          {a \in ToSet(x.authorizations) :
                              /\ ExpiredAt(d.authorizations[a], t)
                              /\ ~d.authorizations[a].revoked
                              /\ a \notin RecordedExpired(d)})
             said == [i \in DOMAIN due |->
                        Entry("EXPIRED", m, d.authorizations[due[i]].revision, due[i], None, t)]
             l == d.ledger \o said
  <1>0. /\ d \in Documents /\ x \in MissionRecords /\ d.ledger \in Seq(Entries) /\ m \in Nat
        /\ AuthorityGood(x, m, d.authorizations)
        /\ \A a \in DOMAIN d.authorizations : d.authorizations[a] \in Issued
    BY DocumentParts DEF RegistryGood, MissionGood
  <1>1. e = [d EXCEPT !.ledger = l]
    BY DEF NoteExpirations
  <1>2. x.authorizations \in Seq(Nat)
    BY <1>0 DEF MissionRecords
  <1>3. due \in Seq(Nat) /\ ToSet(due) \subseteq ToSet(x.authorizations)
    BY <1>2, AmongIs
  <1> HIDE DEF due
  <1>4. said \in Seq(Entries)
    <2>1. \A i \in DOMAIN due : said[i] \in Entries
      <3> TAKE i \in DOMAIN due
      <3>1. due[i] \in Nat /\ due[i] \in ToSet(due)
        BY <1>3 DEF ToSet
      <3>2. PICK n \in DOMAIN x.authorizations : x.authorizations[n] = due[i]
        BY <1>3, <3>1 DEF ToSet
      <3>3. d.authorizations[due[i]] \in Issued
        BY <1>0, <3>2 DEF AuthorityGood
      <3>4. d.authorizations[due[i]].revision \in Nat /\ None \in Nat
        BY <3>3 DEF Issued, None
      <3> QED BY <1>0, <3>1, <3>4, EntryIs
    <2>2. DOMAIN due = 1 .. Len(due) /\ Len(due) \in Nat /\ said = [i \in DOMAIN due |-> said[i]]
      BY <1>3
    <2> HIDE DEF said
    <2> QED BY <2>1, <2>2
  <1> HIDE DEF said
  <1>5. l \in Seq(Entries) /\ Extends(d.ledger, l)
    BY <1>0, <1>4, ExtendsConcat
  <1> HIDE DEF l
  <1>6. /\ e \in Documents /\ e.missions = d.missions /\ e.ledger = l
        /\ e.authorizations = d.authorizations /\ e.reservations = d.reservations
    BY <1>0, <1>1, <1>5 DEF Documents
  <1>7. RegistryGood(e)
    <2>1. \A k \in DOMAIN e.missions : MissionGood(e, k)
      BY <1>6 DEF RegistryGood, MissionGood
    <2>2. RequestsGood(e)
      BY <1>6 DEF RegistryGood, RequestsGood, Unconsumed
    <2> QED BY <1>6, <2>1, <2>2 DEF RegistryGood
  <1> QED BY <1>5, <1>6, <1>7

\* What a decision that may be taken does, before it is itself recorded.
LEMMA EffectIs ==
    ASSUME NEW d, RegistryGood(d), NEW m \in DOMAIN d.missions, NEW ask \in AnyAsks,
           ask.kind = "EDIT" => ask.content \in Content, NEW t \in Nat,
           DecisionOpen(d.missions[m]),
           \/ MovesTo(d.missions[m], ResultOf(ask.kind))
           \/ ask.kind = "EDIT" /\ d.missions[m].state = "AWAITING_DECISION"
    PROVE  EffectGood(d, m, ask, Effect(d, m, ask, t))
  <1> DEFINE x == d.missions[m]
             f == Effect(d, m, ask, t)
  <1>0. /\ d \in Documents /\ x \in MissionRecords /\ d.ledger \in Seq(Entries) /\ m \in Nat
        /\ StateGood(x) /\ x.revisions # <<>>
    BY DocumentParts DEF RegistryGood, MissionGood, StateGood
  <1>1. x.withdrawn = None /\ ~HasRun(x)
    BY DEF DecisionOpen
  <1>2. ask.kind # "EDIT" => x.state = "AWAITING_DECISION"
    <2>1. ask.kind \in DecisionKinds
      BY DEF AnyAsks
    <2> QED BY <2>1 DEF DecisionKinds, MovesTo, Transitions, RunTransitions, ResultOf
  <1>3. None \in Nat /\ <<>> \in Seq(Nat) /\ Revision(x) \in Nat
    BY <1>0, CurrentOf, NoSequence DEF None
  <1>4. Outcome(x, ask, None, <<>>) \in Outcomes
    <2> HIDE DEF x
    <2> QED BY <1>0, <1>3, OutcomeIs
  <1>5. CASE ask.kind = "APPROVE"
    <2>1. f = ApproveIn(d, m, ask, t)
      BY <1>5 DEF Effect
    <2> QED BY <1>1, <1>2, <1>5, <2>1, ApproveGood
  <1>6. CASE ask.kind = "EDIT"
    <2>1. f = EditIn(d, m, ask, t)
      BY <1>6 DEF Effect
    <2> QED BY <1>1, <1>6, <2>1, EditGood
  <1>7. CASE ask.kind = "DENY"
    <2> DEFINE entry == Entry("DENIED", m, Revision(x), None, ask.id, t)
               l == Append(d.ledger, entry)
    <2>1. f = DenyIn(d, m, ask, t)
      BY <1>7 DEF Effect
    <2>2. entry \in Entries
      BY <1>0, <1>3, EntryIs DEF AnyAsks
    <2>3. f.document = [missions |-> [d.missions EXCEPT ![m] =
                                         [d.missions[m] EXCEPT !.state = "DENIED"]],
                        authorizations |-> d.authorizations, ledger |-> l,
                        reservations |-> d.reservations]
      <3>1. f.document = [d EXCEPT !.missions = [d.missions EXCEPT ![m] =
                                      [d.missions[m] EXCEPT !.state = "DENIED"]],
                                   !.ledger = l]
        BY <2>1 DEF DenyIn
      <3> HIDE DEF l, f
      <3> QED BY <1>0, <3>1 DEF Documents
    <2>6. f.outcome = Outcome(x, ask, None, <<>>)
      BY <2>1 DEF DenyIn
    <2> HIDE DEF entry, f
    <2>4. l \in Seq(Entries) /\ Extends(d.ledger, l)
      BY <1>0, <2>2, ExtendsAppend
    <2> HIDE DEF l
    <2>5. EffectGood(d, m, ask, f)
      BY <1>1, <1>2, <1>4, <1>7, <2>3, <2>4, <2>6, RefusedGood
    <2> QED BY <2>5 DEF f
  <1>8. CASE ask.kind \in {"REJECT", "REQUEST_CHANGES"}
    <2> DEFINE state == ResultOf(ask.kind)
    <2>1. f = SetAsideIn(d, m, ask)
      BY <1>8 DEF Effect
    <2>2. state \in {"DENIED", "REJECTED", "CHANGES_REQUESTED"}
      BY <1>8 DEF ResultOf
    <2>3. f.document = [missions |-> [d.missions EXCEPT ![m] =
                                         [d.missions[m] EXCEPT !.state = state]],
                        authorizations |-> d.authorizations, ledger |-> d.ledger,
                        reservations |-> d.reservations]
      <3>1. f.document = [d EXCEPT !.missions = [d.missions EXCEPT ![m] =
                                      [d.missions[m] EXCEPT !.state = state]]]
        BY <2>1 DEF SetAsideIn
      <3> HIDE DEF state, f
      <3> QED BY <1>0, <3>1 DEF Documents
    <2>6. f.outcome = Outcome(x, ask, None, <<>>)
      BY <2>1 DEF SetAsideIn
    <2> HIDE DEF state, f
    <2>4. Extends(d.ledger, d.ledger)
      BY <1>0, ExtendsSelf
    <2>5. EffectGood(d, m, ask, f)
      BY <1>0, <1>1, <1>2, <1>4, <1>8, <2>2, <2>3, <2>4, <2>6, RefusedGood
    <2> QED BY <2>5 DEF f
  <1>9. ask.kind \in DecisionKinds
    BY DEF AnyAsks
  <1> QED BY <1>5, <1>6, <1>7, <1>8, <1>9 DEF DecisionKinds
\* A decision taken is recorded under its id, after those taken before.
\* From d to e mission m was decided as asked, and nothing else was.
Decided(d, m, ask, e) ==
    /\ RegistryGood(e) /\ Grows(d, e) /\ DOMAIN e.missions = DOMAIN d.missions
    /\ \A k \in DOMAIN d.missions : k # m =>
          e.missions[k].decisions = d.missions[k].decisions
    /\ \E decision \in Decisions :
          /\ decision.id = ask.id /\ decision.by = ask.by
          /\ e.missions[m].decisions = Append(d.missions[m].decisions, decision)
    /\ ask.kind = "APPROVE" =>
          \E a \in DOMAIN e.authorizations :
             /\ e.authorizations[a].mission = m /\ e.authorizations[a].by = ask.by
             /\ e.authorizations[a].content = Current(d.missions[m])
             /\ e.authorizations[a].revision = Revision(d.missions[m])
             /\ e.authorizations[a].expires = ask.expires

LEMMA DecideKeeps ==
    ASSUME NEW d, RegistryGood(d), NEW m \in DOMAIN d.missions, NEW ask \in AnyAsks,
           ask.kind = "EDIT" => ask.content \in Content, NEW t \in Nat,
           CanDecide(d, m, ask, t), NEW e, e = DecideIn(d, m, ask, t)
    PROVE  Decided(d, m, ask, e)
  <1> DEFINE x == d.missions[m]
             n == NoteExpirations(d, m, t)
             f == Effect(n, m, ask, t)
             z == f.document.missions[m]
             decision == [id |-> ask.id, by |-> ask.by, kind |-> ask.kind,
                          revision |-> ask.revision, content |-> ask.content,
                          scope |-> ask.scope, expires |-> ask.expires, at |-> t,
                          outcome |-> f.outcome]
             decisions == Append(x.decisions, decision)
             y == [z EXCEPT !.decisions = decisions]
             used == [d.reservations[ask.id] EXCEPT !.consumed = ask.id]
             rs == [d.reservations EXCEPT ![ask.id] = used]
  <1>0. /\ d \in Documents /\ x \in MissionRecords /\ d.ledger \in Seq(Entries) /\ m \in Nat
        /\ d.missions \in Seq(MissionRecords)
        /\ d.authorizations \in Seq(Issued) /\ d.reservations \in Seq(Reserved)
        /\ DecisionsGood(x, d.reservations)
        /\ \A i \in DOMAIN d.reservations : d.reservations[i] \in Reserved /\ i \in Nat /\ i # None
    BY DocumentParts DEF RegistryGood, MissionGood
  <1>1. /\ ask.id \in DOMAIN d.reservations /\ d.reservations[ask.id].kind = "decision"
        /\ d.reservations[ask.id].context = ask.by
        /\ d.reservations[ask.id].consumed = None
        /\ DecisionOpen(x)
        /\ \/ MovesTo(x, ResultOf(ask.kind))
           \/ ask.kind = "EDIT" /\ x.state = "AWAITING_DECISION"
    BY DEF CanDecide, IsReserved, Unconsumed
  <1>2. /\ RegistryGood(n) /\ n.missions = d.missions
        /\ n.authorizations = d.authorizations /\ n.reservations = d.reservations
        /\ Extends(d.ledger, n.ledger) /\ n.ledger \in Seq(Entries)
    <2>1. /\ RegistryGood(n) /\ n.missions = d.missions
          /\ n.authorizations = d.authorizations /\ n.reservations = d.reservations
          /\ Extends(d.ledger, n.ledger)
      BY NoteKeeps
    <2> HIDE DEF n
    <2> QED BY <2>1, DocumentParts DEF RegistryGood
  <1> HIDE DEF n
  <1>3. EffectGood(n, m, ask, f)
    BY <1>1, <1>2, EffectIs
  <1>4. e = [f.document EXCEPT !.missions[m].decisions = Append(@, decision),
                               !.reservations[ask.id].consumed = ask.id]
    BY DEF DecideIn, n
  <1> HIDE DEF f
  <1>5. /\ f.document = [missions |-> [d.missions EXCEPT ![m] = z],
                         authorizations |-> f.document.authorizations,
                         ledger |-> f.document.ledger, reservations |-> d.reservations]
        /\ z \in MissionRecords /\ f.document.authorizations \in Seq(Issued)
        /\ f.document.ledger \in Seq(Entries) /\ Extends(n.ledger, f.document.ledger)
        /\ AuthorizationsKept(d.authorizations, f.document.authorizations, m)
        /\ MissionGrows(x, z) /\ StateGood(z)
        /\ AuthorityGood(z, m, f.document.authorizations)
        /\ z.decisions = x.decisions /\ z.withdrawn = None /\ ~HasRun(z)
        /\ f.outcome \in Outcomes
        /\ ask.kind = "APPROVE" =>
              \E a \in DOMAIN f.document.authorizations :
                 /\ f.document.authorizations[a].mission = m
                 /\ f.document.authorizations[a].by = ask.by
                 /\ f.document.authorizations[a].content = Current(x)
                 /\ f.document.authorizations[a].revision = Revision(x)
                 /\ f.document.authorizations[a].expires = ask.expires
    BY <1>2, <1>3 DEF EffectGood
  <1>6. decision \in Decisions /\ decision.id = ask.id /\ decision.by = ask.by
    BY <1>5 DEF Decisions, AnyAsks
  <1> HIDE DEF decision
  <1>7. x.decisions \in Seq(Decisions)
    BY <1>0 DEF MissionRecords
  <1>8. /\ decisions \in Seq(Decisions) /\ Extends(x.decisions, decisions)
        /\ Len(x.decisions) \in Nat /\ decisions[Len(x.decisions) + 1] = decision
        /\ DOMAIN x.decisions = 1 .. Len(x.decisions)
        /\ DOMAIN decisions = 1 .. Len(x.decisions) + 1
        /\ \A k \in DOMAIN x.decisions : decisions[k] = x.decisions[k]
    BY <1>6, <1>7, ExtendsAppend
  <1>9. used \in Reserved /\ used.consumed = ask.id /\ used.kind = "decision"
        /\ used.context = ask.by
    <2>1. d.reservations[ask.id] \in Reserved /\ ask.id \in Nat
      BY <1>0, <1>1
    <2> QED BY <1>1, <2>1 DEF Reserved
  <1>10. /\ rs \in Seq(Reserved) /\ DOMAIN rs = DOMAIN d.reservations /\ rs[ask.id] = used
         /\ \A i \in DOMAIN rs : i # ask.id => rs[i] = d.reservations[i]
    <2> HIDE DEF used
    <2> QED BY <1>0, <1>1, <1>9
  <1>11. e = [missions |-> [d.missions EXCEPT ![m] = y],
              authorizations |-> f.document.authorizations,
              ledger |-> f.document.ledger, reservations |-> rs]
    <2> DEFINE as == f.document.authorizations
               l == f.document.ledger
               ms == [d.missions EXCEPT ![m] = z]
               g == [missions |-> ms, authorizations |-> as, ledger |-> l,
                     reservations |-> d.reservations]
    <2>1. f.document = g
      BY <1>5
    <2>2. ms[m] = z /\ [ms EXCEPT ![m] = y] = [d.missions EXCEPT ![m] = y]
      BY <1>0
    <2> HIDE DEF as, l
    <2>3. e = [g EXCEPT !.missions = [ms EXCEPT ![m] = [ms[m] EXCEPT !.decisions = Append(ms[m].decisions, decision)]],
                        !.reservations = rs]
      <3>1. e = [g EXCEPT !.missions[m].decisions = Append(@, decision),
                          !.reservations[ask.id].consumed = ask.id]
        BY <1>4, <2>1
      <3> HIDE DEF ms
      <3> QED BY <3>1
    <2>4. [ms[m] EXCEPT !.decisions = Append(ms[m].decisions, decision)] = y
      BY <1>5, <2>2
    <2> HIDE DEF ms, rs, y
    <2>5. e = [missions |-> [ms EXCEPT ![m] = y], authorizations |-> as, ledger |-> l,
               reservations |-> rs]
      BY <2>3, <2>4
    <2> QED BY <2>2, <2>5 DEF as, l
  <1> HIDE DEF decisions, used, rs
  <1>12. /\ y \in MissionRecords /\ y.state = z.state /\ y.decisions = decisions
         /\ y.authorizations = z.authorizations /\ y.revisions = z.revisions
         /\ y.run = z.run /\ y.withdrawn = z.withdrawn /\ y.request = z.request
         /\ y.proposer = z.proposer /\ y.keyExpires = z.keyExpires
    BY <1>5, <1>8 DEF MissionRecords
  <1> HIDE DEF y, z
  <1>13. x.withdrawn = None
    BY <1>1 DEF DecisionOpen
  <1>14. MissionGrows(x, y)
    BY <1>5, <1>8, <1>12, <1>13 DEF MissionGrows
  <1>15. StateGood(y)
    BY <1>5, <1>12 DEF StateGood, HasRun
  <1>16. AuthorityGood(y, m, f.document.authorizations)
    BY <1>5, <1>12 DEF AuthorityGood, Revision, Current
  <1>17. ReservationsKept(d.reservations, rs)
    BY <1>1, <1>9, <1>10 DEF ReservationsKept
  <1>18. DecisionsGood(y, rs)
    <2>1. ASSUME NEW k \in DOMAIN x.decisions
          PROVE  /\ x.decisions[k].id \in DOMAIN rs
                 /\ rs[x.decisions[k].id] = d.reservations[x.decisions[k].id]
                 /\ x.decisions[k].id # ask.id
      BY <1>0, <1>1, <1>10 DEF DecisionsGood
    <2>2. \A k \in DOMAIN decisions : k \in DOMAIN x.decisions \/ k = Len(x.decisions) + 1
      BY <1>8
    <2>3. ASSUME NEW k \in DOMAIN decisions
          PROVE  LET id == decisions[k].id IN
                 /\ id \in DOMAIN rs /\ rs[id].kind = "decision"
                 /\ rs[id].context = decisions[k].by
                 /\ rs[id].consumed = id /\ id # None
      <3>1. CASE k \in DOMAIN x.decisions
        <4>1. /\ decisions[k] = x.decisions[k] /\ rs[x.decisions[k].id] = d.reservations[x.decisions[k].id]
              /\ x.decisions[k].id \in DOMAIN rs
          BY <1>8, <2>1, <3>1
        <4>2. LET id == x.decisions[k].id IN
              /\ d.reservations[id].kind = "decision"
              /\ d.reservations[id].context = x.decisions[k].by
              /\ d.reservations[id].consumed = id /\ id # None
          BY <1>0, <3>1 DEF DecisionsGood
        <4> QED BY <4>1, <4>2
      <3>2. CASE k = Len(x.decisions) + 1
        BY <1>0, <1>1, <1>6, <1>8, <1>9, <1>10, <3>2
      <3> QED BY <2>2, <3>1, <3>2
    <2>4. ASSUME NEW j \in DOMAIN decisions, NEW k \in DOMAIN decisions,
                 decisions[j].id = decisions[k].id
          PROVE  j = k
      <3>1. CASE j \in DOMAIN x.decisions /\ k \in DOMAIN x.decisions
        BY <1>0, <1>8, <2>4, <3>1 DEF DecisionsGood
      <3>2. CASE j \in DOMAIN x.decisions /\ k = Len(x.decisions) + 1
        BY <1>6, <1>8, <2>1, <2>4, <3>2
      <3>3. CASE k \in DOMAIN x.decisions /\ j = Len(x.decisions) + 1
        BY <1>6, <1>8, <2>1, <2>4, <3>3
      <3> QED BY <2>2, <3>1, <3>2, <3>3
    <2> QED BY <1>12, <2>3, <2>4 DEF DecisionsGood
  <1>19. Extends(d.ledger, f.document.ledger)
    BY <1>0, <1>2, <1>5, ExtendsTransitive
  <1>20. RegistryGood(e) /\ Grows(d, e)
    <2> DEFINE as == f.document.authorizations
               l == f.document.ledger
    <2>1. /\ as \in Seq(Issued) /\ l \in Seq(Entries) /\ Extends(d.ledger, l)
          /\ AuthorizationsKept(d.authorizations, as, m) /\ AuthorityGood(y, m, as)
          /\ e = [missions |-> [d.missions EXCEPT ![m] = y], authorizations |-> as,
                  ledger |-> l, reservations |-> rs]
      BY <1>5, <1>11, <1>16, <1>19
    <2> HIDE DEF as, l
    <2> QED BY <1>10, <1>12, <1>14, <1>15, <1>17, <1>18, <2>1, MissionReplaced
  <1>21. /\ DOMAIN e.missions = DOMAIN d.missions /\ e.missions[m] = y
         /\ \A k \in DOMAIN d.missions : k # m => e.missions[k] = d.missions[k]
         /\ e.authorizations = f.document.authorizations
    BY <1>0, <1>11
  <1> QED BY <1>5, <1>6, <1>12, <1>20, <1>21 DEF decisions, Decided

-----------------------------------------------------------------------------
(* Replaying the decisions.  A replay reads of the document only what was  *)
(* issued and the texts of the revisions, so it goes the same way in every *)
(* document in which these are still found.                                *)

\* f is the replay of the decisions ds on d, up to the l-th.
Replays(d, m, ds, f, l) ==
    f = [n \in 0 .. l |-> IF n = 0 THEN ReplayStart
                          ELSE ReplayDecision(d, m, f[n - 1], ds[n])]

LEMMA ReplaysAt ==
    ASSUME NEW d, NEW m, NEW ds, NEW f, NEW l \in Nat, Replays(d, m, ds, f, l)
    PROVE  /\ f[0] = ReplayStart
           /\ \A n \in 1 .. l : f[n] = ReplayDecision(d, m, f[n - 1], ds[n])
  <1>1. \A n \in 0 .. l : f[n] = IF n = 0 THEN ReplayStart
                                 ELSE ReplayDecision(d, m, f[n - 1], ds[n])
    BY Zenon DEF Replays
  <1> QED BY <1>1

LEMMA ReplaysExist ==
    ASSUME NEW d, NEW m, NEW ds
    PROVE  \A l \in Nat : \E f : Replays(d, m, ds, f, l)
  <1> DEFINE T == {l \in Nat : \E f : Replays(d, m, ds, f, l)}
  <1>1. 0 \in T
    <2> DEFINE f == [n \in 0 .. 0 |-> ReplayStart]
    <2>1. Replays(d, m, ds, f, 0)
      BY DEF Replays
    <2> QED BY <2>1
  <1>2. ASSUME NEW l \in Nat, l \in T PROVE l + 1 \in T
    <2>1. PICK f : Replays(d, m, ds, f, l)
      BY <1>2
    <2> DEFINE at(g, n) == IF n = 0 THEN ReplayStart
                           ELSE ReplayDecision(d, m, g[n - 1], ds[n])
               h == [n \in 0 .. l + 1 |-> IF n \in 0 .. l THEN f[n] ELSE at(f, n)]
    <2>2. ASSUME NEW n \in 0 .. l + 1 PROVE h[n] = at(h, n)
      <3>1. CASE n \in 0 .. l
        <4>1. h[n] = f[n] /\ (n # 0 => h[n - 1] = f[n - 1])
          BY <3>1
        <4>2. f[n] = at(f, n)
          BY <2>1, <3>1, Zenon DEF Replays
        <4> QED BY <4>1, <4>2
      <3>2. CASE n = l + 1
        <4>1. n # 0 /\ n \notin 0 .. l /\ n - 1 \in 0 .. l
          BY <3>2
        <4>2. h[n - 1] = f[n - 1]
          BY <4>1
        <4> QED BY <4>1, <4>2
      <3> QED BY <3>1, <3>2
    <2>3. h = [n \in 0 .. l + 1 |-> h[n]]
      OBVIOUS
    <2> HIDE DEF h
    <2>4. Replays(d, m, ds, h, l + 1)
      BY <2>2, <2>3, Zenon DEF Replays
    <2> QED BY <2>4
  <1> HIDE DEF T
  <1>3. Nat \subseteq T
    BY <1>1, <1>2, Inductive
  <1> QED BY <1>3 DEF T

LEMMA HistoryIs ==
    ASSUME NEW d, NEW m, NEW ds, ds = d.missions[m].decisions, Len(ds) \in Nat
    PROVE  \E f : Replays(d, m, ds, f, Len(ds)) /\ History(d, m) = f[Len(ds)]
  <1> DEFINE f == CHOOSE g : Replays(d, m, ds, g, Len(ds))
  <1>1. Replays(d, m, ds, f, Len(ds))
    BY ReplaysExist
  <1>2. History(d, m) = f[Len(ds)]
    BY Zenon DEF History, Replays
  <1> HIDE DEF f
  <1> QED BY <1>1, <1>2

\* A history is a record of these fields.
IsHistory(h) ==
    h = [agrees |-> h.agrees, state |-> h.state, revision |-> h.revision,
         issued |-> h.issued, live |-> h.live, revoked |-> h.revoked,
         expired |-> h.expired, ledger |-> h.ledger]

\* In e is still found what d holds of the authorizations and of the mission's texts.
Sees(d, e, m) ==
    /\ \A a \in DOMAIN d.authorizations :
          LET p == d.authorizations[a]
              q == e.authorizations[a]
          IN
          /\ a \in DOMAIN e.authorizations
          /\ q.mission = p.mission /\ q.revision = p.revision /\ q.content = p.content
          /\ q.scope = p.scope /\ q.by = p.by /\ q.expires = p.expires
          /\ q.issued = p.issued
    /\ \A n \in DOMAIN d.missions[m].revisions :
          /\ n \in DOMAIN e.missions[m].revisions
          /\ e.missions[m].revisions[n] = d.missions[m].revisions[n]

\* What a replay on d has named is in d.
Within(d, m, h) ==
    /\ h.live \subseteq DOMAIN d.authorizations
    /\ h.expired \subseteq DOMAIN d.authorizations
    /\ h.revision \in DOMAIN d.missions[m].revisions

LEMMA ExpiredShape ==
    ASSUME NEW d, NEW m, NEW h, IsHistory(h), NEW decision,
           NEW noted, noted = ReplayExpired(d, m, h, decision)
    PROVE  /\ IsHistory(noted) /\ (noted.agrees <=> h.agrees) /\ noted.state = h.state
           /\ noted.revision = h.revision /\ noted.issued = h.issued
           /\ noted.live = h.live /\ noted.revoked = h.revoked
           /\ noted.expired = h.expired \cup
                {a \in h.live \ h.expired : ExpiredAt(d.authorizations[a], decision.at)}
  <1> DEFINE due == {a \in h.live \ h.expired : ExpiredAt(d.authorizations[a], decision.at)}
             order == SetToSeq(due)
             said == [i \in DOMAIN order |->
                        Entry("EXPIRED", m, d.authorizations[order[i]].revision,
                              order[i], None, decision.at)]
  <1>1. noted = [h EXCEPT !.expired = @ \cup due, !.ledger = @ \o said]
    BY DEF ReplayExpired
  <1> HIDE DEF due, said
  <1>2. noted = [h EXCEPT !.expired = h.expired \cup due, !.ledger = h.ledger \o said]
    BY <1>1
  <1>3. /\ IsHistory(noted) /\ (noted.agrees <=> h.agrees) /\ noted.state = h.state
        /\ noted.revision = h.revision /\ noted.issued = h.issued
        /\ noted.live = h.live /\ noted.revoked = h.revoked
        /\ noted.expired = h.expired \cup due
    BY <1>2 DEF IsHistory
  <1> QED BY <1>3 DEF due

LEMMA SequenceOfSet ==
    ASSUME NEW S, IsFiniteSet(S)
    PROVE  /\ SetToSeq(S) \in [1 .. Cardinality(S) -> S] /\ Cardinality(S) \in Nat
           /\ \A i \in DOMAIN SetToSeq(S) : SetToSeq(S)[i] \in S
  <1>1. Cardinality(S) \in Nat /\ ExistsBijection(1 .. Cardinality(S), S)
    BY FS_CardinalityType
  <1>2. PICK f \in Bijection(1 .. Cardinality(S), S) : TRUE
    BY <1>1 DEF ExistsBijection
  <1>3. f \in [1 .. Cardinality(S) -> S] /\ IsInjective(f)
    BY <1>2 DEF Bijection, Injection, IsInjective
  <1>4. SetToSeq(S) \in [1 .. Cardinality(S) -> S]
    BY <1>3, Zenon DEF SetToSeq
  <1> QED BY <1>1, <1>4

\* What the effect of a decision leaves of a history, whatever it is.
Taken(d, m, h, decision, after) ==
    /\ IsHistory(after)
    /\ after.agrees => h.agrees
    /\ after.expired = h.expired
    /\ after.live \subseteq h.live \cup {decision.outcome.authorization}
    /\ decision.kind # "APPROVE" => after.live \subseteq h.live
    /\ decision.kind # "EDIT" => after.revision = h.revision
    /\ decision.kind = "EDIT" => after.revision = h.revision + 1
    /\ after.agrees /\ decision.kind = "EDIT" =>
          h.revision + 1 \in DOMAIN d.missions[m].revisions

LEMMA EffectShape ==
    ASSUME NEW d, NEW m, NEW h, IsHistory(h), NEW decision, decision.kind \in DecisionKinds,
           NEW after, after = ReplayEffect(d, m, h, decision)
    PROVE  Taken(d, m, h, decision, after)
  <1>1. CASE decision.kind = "APPROVE"
    <2> DEFINE a == decision.outcome.authorization
               l == Append(h.ledger, Entry("ISSUED", m, h.revision, a, decision.id, decision.at))
               i == Append(h.issued, a)
    <2>1. after = [h EXCEPT !.state = "AUTHORIZED", !.issued = i, !.live = h.live \cup {a}, !.ledger = l]
      BY <1>1 DEF ReplayEffect
    <2> HIDE DEF l, i
    <2>2. /\ IsHistory(after) /\ (after.agrees <=> h.agrees) /\ after.expired = h.expired
          /\ after.live = h.live \cup {a} /\ after.revision = h.revision
      BY <2>1 DEF IsHistory
    <2> QED BY <1>1, <2>2 DEF Taken
  <1>2. CASE decision.kind = "DENY"
    <2> DEFINE l == Append(h.ledger, Entry("DENIED", m, h.revision, None, decision.id, decision.at))
    <2>1. after = [h EXCEPT !.state = "DENIED", !.ledger = l]
      BY <1>2 DEF ReplayEffect
    <2> HIDE DEF l
    <2>2. /\ IsHistory(after) /\ (after.agrees <=> h.agrees) /\ after.expired = h.expired
          /\ after.live = h.live /\ after.revision = h.revision
      BY <2>1 DEF IsHistory
    <2> QED BY <1>2, <2>2 DEF Taken
  <1>3. CASE decision.kind = "EDIT"
    <2> DEFINE superseded == {b \in h.live : d.authorizations[b].revision = h.revision}
               order == SetToSeq(superseded)
               l == h.ledger \o [i \in DOMAIN order |->
                       Entry("INVALIDATED_BY_EDIT", m, h.revision, order[i], decision.id, decision.at)]
               ok == /\ h.agrees /\ h.revision + 1 \in DOMAIN d.missions[m].revisions
                     /\ d.missions[m].revisions[h.revision + 1] =
                          [content |-> decision.content, by |-> decision.id]
    <2>1. after = [h EXCEPT !.state = "AWAITING_DECISION", !.revision = h.revision + 1,
                            !.live = h.live \ superseded, !.revoked = h.revoked \cup superseded,
                            !.agrees = ok, !.ledger = l]
      BY <1>3 DEF ReplayEffect
    <2>3. ok => h.agrees /\ h.revision + 1 \in DOMAIN d.missions[m].revisions
      OBVIOUS
    <2> HIDE DEF l, superseded, ok
    <2>2. /\ IsHistory(after) /\ after.agrees = ok /\ after.expired = h.expired
          /\ after.live = h.live \ superseded /\ after.revision = h.revision + 1
      BY <2>1 DEF IsHistory
    <2>4. after.agrees => h.agrees /\ h.revision + 1 \in DOMAIN d.missions[m].revisions
      BY <2>2, <2>3, Zenon
    <2>5. after.live \subseteq h.live
      BY <2>2
    <2> QED BY <1>3, <2>2, <2>4, <2>5 DEF Taken
  <1>4. CASE decision.kind \in {"REJECT", "REQUEST_CHANGES"}
    <2>1. after = [h EXCEPT !.state = ResultOf(decision.kind)]
      BY <1>4 DEF ReplayEffect
    <2>2. /\ IsHistory(after) /\ (after.agrees <=> h.agrees) /\ after.expired = h.expired
          /\ after.live = h.live /\ after.revision = h.revision
      BY <2>1 DEF IsHistory
    <2> QED BY <1>4, <2>2 DEF Taken
  <1> QED BY <1>1, <1>2, <1>3, <1>4 DEF DecisionKinds

LEMMA Relabelled ==
    ASSUME NEW h, IsHistory(h), NEW k
    PROVE  IsHistory([h EXCEPT !.agrees = k]) /\ ([h EXCEPT !.agrees = k].agrees <=> k)
  BY DEF IsHistory

LEMMA StepShape ==
    ASSUME NEW d, NEW m, NEW h, IsHistory(h), NEW decision, decision.kind \in DecisionKinds
    PROVE  /\ IsHistory(ReplayDecision(d, m, h, decision))
           /\ ReplayDecision(d, m, h, decision).agrees =>
                 LET noted == ReplayExpired(d, m, h, decision)
                     after == ReplayEffect(d, m, noted, decision)
                 IN
                 /\ h.agrees /\ noted.agrees /\ after.agrees
                 /\ Agrees(d, m, noted, decision) /\ OutcomeAgrees(d, m, noted, after, decision)
                 /\ ReplayDecision(d, m, h, decision) = after
  <1> DEFINE noted == ReplayExpired(d, m, h, decision)
             after == ReplayEffect(d, m, noted, decision)
             good == /\ h.agrees /\ Agrees(d, m, noted, decision) /\ after.agrees
                     /\ OutcomeAgrees(d, m, noted, after, decision)
             bad == [h EXCEPT !.agrees = FALSE]
  <1>1. ReplayDecision(d, m, h, decision) = IF good THEN after ELSE bad
    BY Zenon DEF ReplayDecision
  <1>0. noted = ReplayExpired(d, m, h, decision)
    OBVIOUS
  <1> HIDE DEF noted
  <1>2. IsHistory(noted) /\ (noted.agrees <=> h.agrees)
    BY <1>0, ExpiredShape
  <1>3. IsHistory(after)
    <2>1. Taken(d, m, noted, decision, after)
      BY <1>2, EffectShape
    <2> QED BY <2>1 DEF Taken
  <1>4. IsHistory(bad) /\ ~bad.agrees
    BY Relabelled, Zenon
  <1>5. good => h.agrees /\ Agrees(d, m, noted, decision) /\ after.agrees
                /\ OutcomeAgrees(d, m, noted, after, decision)
    OBVIOUS
  <1> HIDE DEF after, bad, good
  <1>6. IsHistory(ReplayDecision(d, m, h, decision))
    BY <1>1, <1>3, <1>4
  <1>7. ReplayDecision(d, m, h, decision).agrees => good
    BY <1>1, <1>4
  <1> QED BY <1>1, <1>2, <1>5, <1>6, <1>7 DEF noted, after

\* The steps of a replay read the same in e as in d.
LEMMA ExpiredSame ==
    ASSUME NEW d, NEW e, NEW m, Sees(d, e, m), IsFiniteSet(DOMAIN d.authorizations),
           NEW h, h.live \subseteq DOMAIN d.authorizations, NEW decision
    PROVE  ReplayExpired(e, m, h, decision) = ReplayExpired(d, m, h, decision)
  <1> DEFINE due(c) == {a \in h.live \ h.expired : ExpiredAt(c.authorizations[a], decision.at)}
             S == due(d)
             order == SetToSeq(S)
             said(c, o) == [i \in DOMAIN o |->
                        Entry("EXPIRED", m, c.authorizations[o[i]].revision, o[i], None, decision.at)]
  <1>1. due(e) = S
    BY DEF ExpiredAt, Sees
  <1>2. S \subseteq DOMAIN d.authorizations /\ IsFiniteSet(S)
    <2>1. S \subseteq DOMAIN d.authorizations
      OBVIOUS
    <2> HIDE DEF S
    <2> QED BY <2>1, FS_Subset
  <1>3. \A i \in DOMAIN order : order[i] \in S
    <2> HIDE DEF S
    <2> QED BY <1>2, SequenceOfSet
  <1>4. said(e, order) = said(d, order)
    <2> HIDE DEF S, order
    <2>1. \A i \in DOMAIN order : e.authorizations[order[i]].revision = d.authorizations[order[i]].revision
      BY <1>2, <1>3 DEF Sees
    <2> QED BY <2>1
  <1>5. ReplayExpired(d, m, h, decision)
          = [h EXCEPT !.expired = @ \cup S, !.ledger = @ \o said(d, order)]
    BY DEF ReplayExpired
  <1>6. ReplayExpired(e, m, h, decision)
          = [h EXCEPT !.expired = @ \cup due(e), !.ledger = @ \o said(e, SetToSeq(due(e)))]
    BY DEF ReplayExpired
  <1> HIDE DEF due, said, S
  <1> QED BY <1>1, <1>4, <1>5, <1>6

LEMMA AgreesSame ==
    ASSUME NEW d, NEW e, NEW m, Sees(d, e, m),
           NEW h, Within(d, m, h), NEW decision, Agrees(d, m, h, decision)
    PROVE  Agrees(e, m, h, decision)
  BY DEF Agrees, Sees, Within

LEMMA EffectSame ==
    ASSUME NEW d, NEW e, NEW m, Sees(d, e, m),
           NEW h, Within(d, m, h), NEW decision, decision.kind \in DecisionKinds,
           ReplayEffect(d, m, h, decision).agrees, IsHistory(h)
    PROVE  ReplayEffect(e, m, h, decision) = ReplayEffect(d, m, h, decision)
  <1>1. CASE decision.kind = "EDIT"
    <2> DEFINE superseded(c) == {b \in h.live : c.authorizations[b].revision = h.revision}
               said(o) == [i \in DOMAIN o |->
                       Entry("INVALIDATED_BY_EDIT", m, h.revision, o[i], decision.id, decision.at)]
               ok(c) == /\ h.agrees /\ h.revision + 1 \in DOMAIN c.missions[m].revisions
                        /\ c.missions[m].revisions[h.revision + 1] =
                             [content |-> decision.content, by |-> decision.id]
               after(c, S, k) == [h EXCEPT !.state = "AWAITING_DECISION", !.revision = @ + 1,
                            !.live = @ \ S, !.revoked = @ \cup S,
                            !.agrees = k, !.ledger = @ \o said(SetToSeq(S))]
    <2>1. superseded(e) = superseded(d)
      BY DEF Sees, Within
    <2>2. ReplayEffect(d, m, h, decision) = after(d, superseded(d), ok(d))
      BY <1>1 DEF ReplayEffect
    <2>3. ReplayEffect(e, m, h, decision) = after(e, superseded(e), ok(e))
      BY <1>1 DEF ReplayEffect
    <2>4. ok(d) \in BOOLEAN /\ ok(e) \in BOOLEAN
      OBVIOUS
    <2>5. \A S, k : after(d, S, k).agrees = k
      BY DEF IsHistory
    <2>6. ok(d) => ok(e)
      BY DEF Sees
    <2> HIDE DEF superseded, ok
    <2>7. ok(d)
      <3> HIDE DEF after
      <3> QED BY <2>2, <2>5
    <2>8. ok(d) = ok(e)
      BY <2>4, <2>6, <2>7
    <2> QED BY <2>1, <2>2, <2>3, <2>8
  <1>2. CASE decision.kind # "EDIT"
    BY <1>2 DEF ReplayEffect, DecisionKinds
  <1> QED BY <1>1, <1>2

LEMMA OutcomeSame ==
    ASSUME NEW d, NEW e, NEW m, Sees(d, e, m),
           NEW g, NEW h, h.revision \in DOMAIN d.missions[m].revisions,
           NEW decision, OutcomeAgrees(d, m, g, h, decision)
    PROVE  OutcomeAgrees(e, m, g, h, decision)
  BY DEF OutcomeAgrees, Sees

LEMMA StepSame ==
    ASSUME NEW d, NEW e, NEW m, Sees(d, e, m), IsFiniteSet(DOMAIN d.authorizations),
           NEW h, IsHistory(h), Within(d, m, h), NEW decision,
           decision.kind \in DecisionKinds, ReplayDecision(d, m, h, decision).agrees
    PROVE  /\ h.agrees
           /\ ReplayDecision(e, m, h, decision) = ReplayDecision(d, m, h, decision)
           /\ Within(d, m, ReplayDecision(d, m, h, decision))
  <1> DEFINE noted == ReplayExpired(d, m, h, decision)
             after == ReplayEffect(d, m, noted, decision)
  <1>1. /\ h.agrees /\ noted.agrees /\ after.agrees
        /\ Agrees(d, m, noted, decision) /\ OutcomeAgrees(d, m, noted, after, decision)
        /\ ReplayDecision(d, m, h, decision) = after
    BY StepShape
  <1>2. /\ IsHistory(noted) /\ noted.revision = h.revision /\ noted.live = h.live
        /\ noted.expired \subseteq h.expired \cup h.live
    BY ExpiredShape
  <1>3. ReplayExpired(e, m, h, decision) = noted
    BY ExpiredSame DEF Within
  <1> HIDE DEF noted
  <1>4. Within(d, m, noted)
    BY <1>2 DEF Within
  <1>7. ReplayEffect(e, m, noted, decision) = after
    BY <1>1, <1>2, <1>4, EffectSame
  <1>0. after = ReplayEffect(d, m, noted, decision)
    OBVIOUS
  <1> HIDE DEF after
  <1>5. /\ after.expired = noted.expired
        /\ after.live \subseteq noted.live \cup {decision.outcome.authorization}
        /\ decision.kind # "APPROVE" => after.live \subseteq noted.live
        /\ decision.kind # "EDIT" => after.revision = noted.revision
        /\ decision.kind = "EDIT" => after.revision = noted.revision + 1
                                     /\ noted.revision + 1 \in DOMAIN d.missions[m].revisions
    <2>1. Taken(d, m, noted, decision, after)
      BY <1>0, <1>2, EffectShape
    <2> QED BY <1>1, <2>1 DEF Taken
  <1>6. decision.kind = "APPROVE" => decision.outcome.authorization \in DOMAIN d.authorizations
    BY <1>1 DEF Agrees
  <1>8. Within(d, m, after)
    BY <1>4, <1>5, <1>6 DEF Within
  <1>9. Agrees(e, m, noted, decision) /\ OutcomeAgrees(e, m, noted, after, decision)
    BY <1>1, <1>4, <1>8, AgreesSame, OutcomeSame DEF Within
  <1>10. ReplayDecision(e, m, h, decision) = after
    BY <1>1, <1>3, <1>7, <1>9 DEF ReplayDecision
  <1> QED BY <1>1, <1>8, <1>10

\* e holds the decisions d holds of the mission, and perhaps more after them.
Continues(d, e, m) ==
    LET ds == d.missions[m].decisions
        es == e.missions[m].decisions
    IN
    /\ Len(ds) \in Nat /\ Len(es) \in Nat /\ Len(ds) <= Len(es)
    /\ \A n \in 1 .. Len(ds) : es[n] = ds[n] /\ ds[n].kind \in DecisionKinds

LEMMA ReplaySame ==
    ASSUME NEW d, NEW e, NEW m, Sees(d, e, m), Continues(d, e, m),
           IsFiniteSet(DOMAIN d.authorizations), 1 \in DOMAIN d.missions[m].revisions,
           History(d, m).agrees
    PROVE  /\ IsHistory(History(d, m)) /\ Within(d, m, History(d, m))
           /\ \E g : /\ Replays(e, m, e.missions[m].decisions, g, Len(e.missions[m].decisions))
                     /\ g[Len(d.missions[m].decisions)] = History(d, m)
                     /\ History(e, m) = g[Len(e.missions[m].decisions)]
  <1> DEFINE ds == d.missions[m].decisions
             es == e.missions[m].decisions
  <1>0. /\ Len(ds) \in Nat /\ Len(es) \in Nat /\ Len(ds) <= Len(es)
        /\ \A n \in 1 .. Len(ds) : es[n] = ds[n] /\ ds[n].kind \in DecisionKinds
    BY DEF Continues
  <1>1. PICK f : Replays(d, m, ds, f, Len(ds)) /\ History(d, m) = f[Len(ds)]
    BY <1>0, HistoryIs
  <1>2. PICK g : Replays(e, m, es, g, Len(es)) /\ History(e, m) = g[Len(es)]
    BY <1>0, HistoryIs
  <1> HIDE DEF ds, es
  <1> DEFINE P(n) == /\ IsHistory(f[n])
                     /\ f[n].agrees => Within(d, m, f[n]) /\ g[n] = f[n]
             T == {n \in Nat : n <= Len(ds) => P(n)}
  <1>3. 0 \in T
    <2>1. f[0] = ReplayStart /\ g[0] = ReplayStart
      BY <1>0, <1>1, <1>2, ReplaysAt
    <2>2. IsHistory(ReplayStart) /\ Within(d, m, ReplayStart)
      BY DEF ReplayStart, IsHistory, Within
    <2> QED BY <2>1, <2>2
  <1>4. ASSUME NEW n \in Nat, n \in T PROVE n + 1 \in T
    <2> SUFFICES ASSUME n + 1 <= Len(ds) PROVE P(n + 1)
      OBVIOUS
    <2>1. P(n) /\ n + 1 \in 1 .. Len(ds) /\ n + 1 \in 1 .. Len(es) /\ (n + 1) - 1 = n
      BY <1>0, <1>4
    <2> DEFINE x == ds[n + 1]
    <2>2. x.kind \in DecisionKinds /\ es[n + 1] = x
      BY <1>0, <2>1
    <2>3. f[n + 1] = ReplayDecision(d, m, f[n], x)
      BY <1>0, <1>1, <2>1, ReplaysAt
    <2>4. g[n + 1] = ReplayDecision(e, m, g[n], x)
      BY <1>0, <1>2, <2>1, <2>2, ReplaysAt
    <2> HIDE DEF x
    <2>5. IsHistory(f[n + 1]) /\ (f[n + 1].agrees => f[n].agrees)
      BY <2>1, <2>2, <2>3, StepShape
    <2>6. ASSUME f[n + 1].agrees PROVE Within(d, m, f[n + 1]) /\ g[n + 1] = f[n + 1]
      <3>1. Within(d, m, f[n]) /\ g[n] = f[n] /\ IsHistory(f[n])
        BY <2>1, <2>5, <2>6
      <3>2. ReplayDecision(d, m, f[n], x).agrees
        BY <2>3, <2>6
      <3> DEFINE h == f[n]
      <3> HIDE DEF h
      <3>3. /\ ReplayDecision(e, m, h, x) = ReplayDecision(d, m, h, x)
            /\ Within(d, m, ReplayDecision(d, m, h, x))
        BY <2>2, <3>1, <3>2, StepSame DEF h
      <3> QED BY <2>3, <2>4, <3>1, <3>3 DEF h
    <2> QED BY <2>5, <2>6
  <1> HIDE DEF T
  <1>5. Nat \subseteq T
    BY <1>3, <1>4, Inductive
  <1>6. P(Len(ds))
    BY <1>0, <1>5 DEF T
  <1> QED BY <1>1, <1>2, <1>6 DEF ds, es

LEMMA HistorySame ==
    ASSUME NEW d, NEW e, NEW m, Sees(d, e, m), Continues(d, e, m),
           e.missions[m].decisions = d.missions[m].decisions,
           IsFiniteSet(DOMAIN d.authorizations), 1 \in DOMAIN d.missions[m].revisions,
           History(d, m).agrees
    PROVE  History(e, m) = History(d, m)
  BY ReplaySame

LEMMA HistoryExtended ==
    ASSUME NEW d, NEW e, NEW m, Sees(d, e, m), Continues(d, e, m),
           NEW X, d.missions[m].decisions \in Seq(X), NEW x \in X,
           e.missions[m].decisions = Append(d.missions[m].decisions, x),
           IsFiniteSet(DOMAIN d.authorizations), 1 \in DOMAIN d.missions[m].revisions,
           History(d, m).agrees
    PROVE  /\ History(e, m) = ReplayDecision(e, m, History(d, m), x)
           /\ IsHistory(History(d, m)) /\ Within(d, m, History(d, m))
  <1> DEFINE ds == d.missions[m].decisions
             es == e.missions[m].decisions
  <1>1. /\ Len(es) = Len(ds) + 1 /\ Len(ds) \in Nat /\ es[Len(ds) + 1] = x
        /\ Len(es) \in Nat
    OBVIOUS
  <1>2. PICK g : /\ Replays(e, m, es, g, Len(es))
                 /\ g[Len(ds)] = History(d, m) /\ History(e, m) = g[Len(es)]
    <2> HIDE DEF Replays
    <2> QED BY ONLY ReplaySame, Sees(d, e, m), Continues(d, e, m),
               IsFiniteSet(DOMAIN d.authorizations), 1 \in DOMAIN d.missions[m].revisions,
               History(d, m).agrees
  <1> HIDE DEF ds, es
  <1>3. \A n \in 1 .. Len(es) : g[n] = ReplayDecision(e, m, g[n - 1], es[n])
    BY <1>1, <1>2, ReplaysAt
  <1>4. Len(ds) + 1 \in 1 .. Len(es) /\ (Len(ds) + 1) - 1 = Len(ds)
    BY <1>1
  <1>5. g[Len(ds) + 1] = ReplayDecision(e, m, g[(Len(ds) + 1) - 1], es[Len(ds) + 1])
    BY <1>3, <1>4
  <1>6. History(e, m) = ReplayDecision(e, m, History(d, m), x)
    BY <1>1, <1>2, <1>4, <1>5
  <1> QED BY <1>6, ReplaySame

-----------------------------------------------------------------------------
(* What a replay comes to, against what is saved                           *)

\* What the ledger says of one mission, and whose expiry it notes.
Mine(l, m) == Among(l, {x \in ToSet(l) : x.mission = m})
Expirations(l) == {l[i].authorization : i \in {j \in DOMAIN l : l[j].kind = "EXPIRED"}}

About(m) == {x \in Entries : x.mission = m}

LEMMA MineIs ==
    ASSUME NEW l \in Seq(Entries), NEW m PROVE Mine(l, m) = Among(l, About(m))
  <1>1. \A n \in 1 .. Len(l) : l[n] \in {x \in ToSet(l) : x.mission = m} <=> l[n] \in About(m)
    BY DEF ToSet, About
  <1>2. Len(l) \in Nat
    OBVIOUS
  <1> QED BY <1>1, <1>2, AmongAgree DEF Mine

LEMMA MineAppend ==
    ASSUME NEW l \in Seq(Entries), NEW x \in Entries, NEW k
    PROVE  /\ Append(l, x) \in Seq(Entries)
           /\ Mine(Append(l, x), k) = IF x.mission = k THEN Append(Mine(l, k), x) ELSE Mine(l, k)
  <1>1. Append(l, x) \in Seq(Entries)
    OBVIOUS
  <1>2. Among(Append(l, x), About(k)) =
          IF x \in About(k) THEN Append(Among(l, About(k)), x) ELSE Among(l, About(k))
    BY AmongAppend
  <1>3. x \in About(k) <=> x.mission = k
    BY DEF About
  <1>4. Mine(l, k) = Among(l, About(k)) /\ Mine(Append(l, x), k) = Among(Append(l, x), About(k))
    BY <1>1, MineIs
  <1> QED BY <1>1, <1>2, <1>3, <1>4

LEMMA MineIn ==
    ASSUME NEW l \in Seq(Entries), NEW m PROVE Mine(l, m) \in Seq(Entries)
  BY MineIs, AmongIs

LEMMA ShortSequence ==
    ASSUME NEW X, NEW s \in Seq(X), Len(s) <= 1
    PROVE  s = <<>> \/ \E x \in X : s = <<x>>
  <1>0. \A n \in Nat : n <= 1 => n = 0 \/ n = 1
    OBVIOUS
  <1>1. Len(s) \in Nat
    OBVIOUS
  <1>2. Len(s) = 0 \/ Len(s) = 1
    BY <1>0, <1>1, Zenon
  <1>3. CASE Len(s) = 0
    <2>1. s = <<>>
      BY <1>3
    <2> QED BY <2>1
  <1>4. CASE Len(s) = 1
    <2>1. 1 \in 1 .. Len(s)
      BY <1>4
    <2>2. s[1] \in X
      BY <2>1
    <2>3. s = <<s[1]>>
      BY <1>4
    <2> QED BY <2>2, <2>3
  <1> QED BY <1>2, <1>3, <1>4

LEMMA ShortConcat ==
    ASSUME NEW X, NEW s \in Seq(X)
    PROVE  s \o <<>> = s /\ \A x \in X : s \o <<x>> = Append(s, x)
  OBVIOUS

AllOf(s, m) == \A i \in DOMAIN s : s[i].mission = m

LEMMA MineConcat ==
    ASSUME NEW l \in Seq(Entries), NEW s \in Seq(Entries), Len(s) <= 1, NEW m, AllOf(s, m)
    PROVE  /\ l \o s \in Seq(Entries) /\ Mine(l \o s, m) = Mine(l, m) \o s
           /\ \A k : k # m => Mine(l \o s, k) = Mine(l, k)
  <1>1. Mine(l, m) \in Seq(Entries)
    BY MineIn
  <1>2. CASE s = <<>>
    BY <1>1, <1>2, ShortConcat
  <1>3. ASSUME NEW x \in Entries, s = <<x>>
        PROVE  /\ l \o s \in Seq(Entries) /\ Mine(l \o s, m) = Mine(l, m) \o s
               /\ \A k : k # m => Mine(l \o s, k) = Mine(l, k)
    <2>1. l \o s = Append(l, x) /\ Mine(l, m) \o s = Append(Mine(l, m), x)
      BY <1>1, <1>3, ShortConcat
    <2>2. x.mission = m
      <3>1. 1 \in DOMAIN s /\ s[1] = x
        BY <1>3
      <3> QED BY <3>1 DEF AllOf
    <2> QED BY <2>1, <2>2, MineAppend
  <1> QED BY <1>2, <1>3, ShortSequence

LEMMA ExpirationsConcat ==
    ASSUME NEW l \in Seq(Entries), NEW s \in Seq(Entries)
    PROVE  Expirations(l \o s) = Expirations(l) \cup Expirations(s)
  <1> DEFINE t == l \o s
  <1>1. /\ Len(l) \in Nat /\ Len(s) \in Nat /\ DOMAIN l = 1 .. Len(l) /\ DOMAIN s = 1 .. Len(s)
        /\ DOMAIN t = 1 .. Len(l) + Len(s)
        /\ \A i \in DOMAIN l : t[i] = l[i]
        /\ \A i \in DOMAIN s : t[Len(l) + i] = s[i]
    OBVIOUS
  <1> HIDE DEF t
  <1>2. \A i \in DOMAIN l : i \in DOMAIN t
    BY <1>1
  <1>3. \A i \in DOMAIN s : Len(l) + i \in DOMAIN t
    BY <1>1
  <1>4. \A i \in DOMAIN t : i \in DOMAIN l \/ (i - Len(l) \in DOMAIN s /\ i = Len(l) + (i - Len(l)))
    BY <1>1
  <1>5. ASSUME NEW a \in Expirations(t) PROVE a \in Expirations(l) \cup Expirations(s)
    <2>1. PICK i \in DOMAIN t : t[i].kind = "EXPIRED" /\ t[i].authorization = a
      BY <1>5 DEF Expirations
    <2> QED BY <1>1, <1>4, <2>1 DEF Expirations
  <1>6. ASSUME NEW a \in Expirations(l) \cup Expirations(s) PROVE a \in Expirations(t)
    <2>1. CASE a \in Expirations(l)
      BY <1>1, <1>2, <2>1 DEF Expirations
    <2>2. CASE a \in Expirations(s)
      <3>1. PICK i \in DOMAIN s : s[i].kind = "EXPIRED" /\ s[i].authorization = a
        BY <2>2 DEF Expirations
      <3>2. t[Len(l) + i] = s[i] /\ Len(l) + i \in DOMAIN t
        BY <1>1, <1>3
      <3> QED BY <3>1, <3>2 DEF Expirations
    <2> QED BY <1>6, <2>1, <2>2
  <1> QED BY <1>5, <1>6 DEF t

LEMMA AmongLast ==
    ASSUME NEW s, NEW S, Len(s) \in Nat, Len(s) > 0,
           \A n \in 1 .. Len(s) : s[n] \in S <=> n = Len(s)
    PROVE  Among(s, S) = Append(<<>>, s[Len(s)])
  <1>1. PICK f : Takes(s, S, f, Len(s)) /\ Among(s, S) = f[Len(s)]
    BY AmongTakes
  <1> DEFINE T == {n \in Nat : n < Len(s) => f[n] = <<>>}
  <1>2. 0 \in T
    BY <1>1, TakesAt
  <1>3. ASSUME NEW n \in Nat, n \in T PROVE n + 1 \in T
    <2> SUFFICES ASSUME n + 1 < Len(s) PROVE f[n + 1] = <<>>
      OBVIOUS
    <2>1. f[n] = <<>> /\ n + 1 \in 1 .. Len(s) /\ (n + 1) - 1 = n /\ n + 1 # Len(s)
      BY <1>3
    <2>2. f[n + 1] = IF s[n + 1] \in S THEN Append(f[(n + 1) - 1], s[n + 1]) ELSE f[(n + 1) - 1]
      BY <1>1, <2>1, TakesAt
    <2> QED BY <2>1, <2>2
  <1> HIDE DEF T
  <1>4. Nat \subseteq T
    BY <1>2, <1>3, Inductive
  <1>5. /\ Len(s) - 1 \in Nat /\ Len(s) - 1 < Len(s) /\ Len(s) \in 1 .. Len(s)
    OBVIOUS
  <1>6. f[Len(s) - 1] = <<>>
    BY <1>4, <1>5 DEF T
  <1>7. f[Len(s)] = IF s[Len(s)] \in S THEN Append(f[Len(s) - 1], s[Len(s)]) ELSE f[Len(s) - 1]
    BY <1>1, <1>5, TakesAt
  <1> QED BY <1>1, <1>5, <1>6, <1>7

\* At most the last of s lies in S.
LEMMA OnlyLast ==
    ASSUME NEW s \in Seq(Nat), NEW S, S \subseteq ToSet(s),
           \A n \in DOMAIN s : s[n] \in S => n = Len(s)
    PROVE  /\ Among(s, S) = SetToSeq(S)
           /\ SetToSeq(S) \in Seq(Nat) /\ Len(SetToSeq(S)) <= 1
           /\ ToSet(SetToSeq(S)) = S
  <1>0. Len(s) \in Nat /\ DOMAIN s = 1 .. Len(s)
    OBVIOUS
  <1>1. CASE S = {}
    <2>1. Among(s, S) = <<>>
      BY <1>0, <1>1, AmongNone
    <2>2. SetToSeq(S) \in [1 .. 0 -> S]
      BY <1>1, FS_EmptySet, SequenceOfSet
    <2>3. SetToSeq(S) = <<>>
      BY <1>1, <2>2
    <2>4. <<>> \in Seq(Nat) /\ Len(<<>>) <= 1 /\ ToSet(<<>>) = {}
      BY DEF ToSet
    <2> QED BY <1>1, <2>1, <2>3, <2>4
  <1>2. CASE S # {}
    <2> DEFINE a == s[Len(s)]
    <2>1. Len(s) > 0 /\ S = {a} /\ a \in Nat
      <3>1. PICK b : b \in S
        BY <1>2
      <3>2. PICK n \in DOMAIN s : s[n] = b
        BY <3>1 DEF ToSet
      <3>3. Len(s) \in DOMAIN s
        BY <3>1, <3>2
      <3>4. \A c \in S : c = a
        BY DEF ToSet
      <3>5. Len(s) > 0
        BY <1>0, <3>3
      <3>6. a \in Nat
        BY <3>3
      <3> QED BY <3>1, <3>4, <3>5, <3>6
    <2>2. \A n \in 1 .. Len(s) : s[n] \in S <=> n = Len(s)
      BY <1>0, <2>1
    <2>8. Among(s, S) = <<a>>
      <3>1. Among(s, S) = Append(<<>>, s[Len(s)])
        BY <1>0, <2>1, <2>2, AmongLast
      <3>2. Append(<<>>, a) = <<a>>
        OBVIOUS
      <3> QED BY <3>1, <3>2
    <2> HIDE DEF a
    <2>9. SetToSeq(S) \in [1 .. 1 -> {a}]
      BY <2>1, FS_Singleton, SequenceOfSet
    <2>10. SetToSeq(S) = <<a>>
      BY <2>9
    <2>11. <<a>> \in Seq(Nat) /\ Len(<<a>>) <= 1 /\ ToSet(<<a>>) = {a}
      BY <2>1 DEF ToSet
    <2>12. /\ Among(s, S) = SetToSeq(S) /\ SetToSeq(S) \in Seq(Nat)
           /\ Len(SetToSeq(S)) <= 1
      BY <2>8, <2>10, <2>11, Zenon
    <2>13. ToSet(SetToSeq(S)) = {a}
      BY <2>10, <2>11, Zenon
    <2> QED BY <2>1, <2>12, <2>13, Zenon
  <1> QED BY <1>1, <1>2

\* The state a mission was decided into, whatever became of its run.
BaseState(x) == IF x.lifecycle = <<>> THEN x.state ELSE "AUTHORIZED"

Stands(x, as) == {a \in ToSet(x.authorizations) : ~as[a].revoked}
Withdrawn(x, as) == {a \in ToSet(x.authorizations) : as[a].revoked}

\* The history h of mission m comes to what is saved: the mission x, what was
\* issued and the ledger.
Matches(x, as, l, m, h) ==
    /\ IsHistory(h) /\ h.agrees
    /\ h.state = BaseState(x) /\ h.revision = Revision(x)
    /\ h.issued = x.authorizations
    /\ h.live = Stands(x, as) /\ h.revoked = Withdrawn(x, as)
    /\ h.ledger = Mine(l, m)
    /\ h.expired \subseteq DOMAIN as
    /\ \A a \in ToSet(x.authorizations) : a \in h.expired <=> a \in Expirations(l)

ReplayGood(d, m) ==
    Matches(d.missions[m], d.authorizations, d.ledger, m, History(d, m))

\* The ledger notes the expiry of authorizations of the mission it names.
LedgerAbout(l, as) ==
    \A i \in DOMAIN l : l[i].kind = "EXPIRED" =>
        l[i].authorization \in DOMAIN as /\ as[l[i].authorization].mission = l[i].mission

LEMMA AuthorizationsOf ==
    ASSUME NEW d, RegistryGood(d), NEW m \in DOMAIN d.missions
    PROVE  LET x == d.missions[m]
               as == d.authorizations
           IN
           /\ x.authorizations \in Seq(Nat) /\ ToSet(x.authorizations) \subseteq DOMAIN as
           /\ \A a \in ToSet(x.authorizations) : as[a].mission = m
           /\ \A n \in DOMAIN x.authorizations :
                 x.authorizations[n] \in Stands(x, as) => n = Len(x.authorizations)
           /\ \A a \in Stands(x, as) : as[a].revision = Revision(x)
           /\ x.state = "AWAITING_DECISION" => Stands(x, as) = {}
           /\ IsFiniteSet(DOMAIN as)
  <1> DEFINE x == d.missions[m]
             as == d.authorizations
  <1>1. x \in MissionRecords /\ AuthorityGood(x, m, as) /\ as \in Seq(Issued)
    BY DocumentParts DEF RegistryGood, MissionGood
  <1>2. x.authorizations \in Seq(Nat)
    BY <1>1 DEF MissionRecords
  <1>3. DOMAIN as = 1 .. Len(as) /\ Len(as) \in Nat
    BY <1>1
  <1>4. IsFiniteSet(DOMAIN as)
    BY <1>3, FS_Interval
  <1> HIDE DEF x, as
  <1>5. \A a \in ToSet(x.authorizations) : \E n \in DOMAIN x.authorizations : x.authorizations[n] = a
    BY DEF ToSet
  <1> QED BY <1>1, <1>2, <1>4, <1>5 DEF AuthorityGood, Stands, x, as

\* From d to n the expiry of authorizations of mission m was noted, and noted is
\* what its history came to.
Noted(d, m, n, noted) ==
    /\ Matches(d.missions[m], d.authorizations, n.ledger, m, noted)
    /\ \A k : k # m => Mine(n.ledger, k) = Mine(d.ledger, k)
    /\ Expirations(n.ledger)
          \subseteq Expirations(d.ledger) \cup ToSet(d.missions[m].authorizations)
    /\ Expirations(d.ledger) \subseteq Expirations(n.ledger)
    /\ LedgerAbout(d.ledger, d.authorizations) => LedgerAbout(n.ledger, d.authorizations)

\* Noting what has expired does to the ledger what replaying it does.
LEMMA NotedMatches ==
    ASSUME NEW d, RegistryGood(d), NEW m \in DOMAIN d.missions, NEW t \in Nat,
           NEW h, Matches(d.missions[m], d.authorizations, d.ledger, m, h),
           NEW decision, decision.at = t,
           NEW n, n = NoteExpirations(d, m, t),
           NEW noted, noted = ReplayExpired(d, m, h, decision)
    PROVE  Noted(d, m, n, noted)
  <1> DEFINE x == d.missions[m]
             as == d.authorizations
             S == {a \in ToSet(x.authorizations) :
                      /\ ExpiredAt(as[a], t) /\ ~as[a].revoked /\ a \notin RecordedExpired(d)}
             R == {a \in h.live \ h.expired : ExpiredAt(as[a], t)}
             order == SetToSeq(S)
             said == [i \in DOMAIN order |->
                        Entry("EXPIRED", m, as[order[i]].revision, order[i], None, t)]
  <1>0. /\ d \in Documents /\ d.ledger \in Seq(Entries) /\ m \in Nat
        /\ as \in Seq(Issued) /\ \A a \in DOMAIN as : as[a] \in Issued
    BY DocumentParts DEF RegistryGood
  <1>1. /\ x.authorizations \in Seq(Nat) /\ ToSet(x.authorizations) \subseteq DOMAIN as
        /\ \A a \in ToSet(x.authorizations) : as[a].mission = m
        /\ \A k \in DOMAIN x.authorizations :
              x.authorizations[k] \in Stands(x, as) => k = Len(x.authorizations)
    BY AuthorizationsOf
  <1>2. R = S
    <2>1. RecordedExpired(d) = Expirations(d.ledger)
      BY DEF RecordedExpired, Expirations
    <2>2. h.live = Stands(x, as)
          /\ \A a \in ToSet(x.authorizations) : a \in h.expired <=> a \in Expirations(d.ledger)
      BY DEF Matches
    <2>3. S = {a \in Stands(x, as) : ExpiredAt(as[a], t) /\ a \notin Expirations(d.ledger)}
      BY <2>1 DEF Stands
    <2>4. \A a \in Stands(x, as) : a \in ToSet(x.authorizations)
      BY DEF Stands
    <2> HIDE DEF S, x, as
    <2> QED BY <2>2, <2>3, <2>4 DEF as
  <1>3. /\ S \subseteq ToSet(x.authorizations) /\ S \subseteq Stands(x, as)
        /\ \A k \in DOMAIN x.authorizations : x.authorizations[k] \in S => k = Len(x.authorizations)
    BY <1>1 DEF Stands
  <1>4. n = [d EXCEPT !.ledger = @ \o [i \in DOMAIN Among(x.authorizations, S) |->
               Entry("EXPIRED", m, as[Among(x.authorizations, S)[i]].revision,
                     Among(x.authorizations, S)[i], None, t)]]
    BY DEF NoteExpirations
  <1>5. noted = [h EXCEPT !.expired = @ \cup R, !.ledger = @ \o
                   [i \in DOMAIN SetToSeq(R) |->
                      Entry("EXPIRED", m, as[SetToSeq(R)[i]].revision, SetToSeq(R)[i], None, t)]]
    BY DEF ReplayExpired
  <1> HIDE DEF S, R, x, as
  <1>6. /\ Among(x.authorizations, S) = order /\ order \in Seq(Nat) /\ Len(order) <= 1
        /\ ToSet(order) = S
    BY <1>1, <1>3, OnlyLast
  <1> HIDE DEF order
  <1>7. n.ledger = d.ledger \o said
    <2>1. n = [d EXCEPT !.ledger = d.ledger \o said]
      BY <1>4, <1>6
    <2> HIDE DEF said
    <2> QED BY <1>0, <2>1 DEF Documents
  <1>8. said \in Seq(Entries) /\ Len(said) <= 1
    <2>1. \A i \in DOMAIN order : said[i] \in Entries
      <3> TAKE i \in DOMAIN order
      <3>1. order[i] \in Nat /\ order[i] \in ToSet(order)
        BY <1>6 DEF ToSet
      <3>2. order[i] \in DOMAIN as
        BY <1>1, <1>3, <1>6, <3>1
      <3>3. as[order[i]].revision \in Nat /\ None \in Nat
        BY <1>0, <3>2 DEF Issued, None, as
      <3> QED BY <1>0, <3>1, <3>3, EntryIs
    <2>2. DOMAIN order = 1 .. Len(order) /\ Len(order) \in Nat /\ said = [i \in DOMAIN order |-> said[i]]
      BY <1>6
    <2> HIDE DEF said
    <2> QED BY <1>6, <2>1, <2>2
  <1>9. DOMAIN said = DOMAIN order /\ \A i \in DOMAIN said :
            said[i].mission = m /\ said[i].kind = "EXPIRED" /\ said[i].authorization = order[i]
    BY DEF Entry
  <1>10. noted = [h EXCEPT !.expired = h.expired \cup S, !.ledger = h.ledger \o said]
    BY <1>2, <1>5 DEF order
  <1> HIDE DEF said
  <1>11. /\ Mine(n.ledger, m) = Mine(d.ledger, m) \o said
         /\ \A k : k # m => Mine(n.ledger, k) = Mine(d.ledger, k)
    <2>1. AllOf(said, m)
      BY <1>9 DEF AllOf
    <2>2. /\ Mine(d.ledger \o said, m) = Mine(d.ledger, m) \o said
          /\ \A k : k # m => Mine(d.ledger \o said, k) = Mine(d.ledger, k)
      BY ONLY <1>0, <1>8, <2>1, MineConcat
    <2> QED BY ONLY <1>7, <2>2
  <1>12. Expirations(said) = S
    <2>1. Expirations(said) = ToSet(order)
      BY <1>9 DEF Expirations, ToSet
    <2> QED BY <1>6, <2>1
  <1>13. Expirations(n.ledger) = Expirations(d.ledger) \cup S
    BY <1>0, <1>7, <1>8, <1>12, ExpirationsConcat
  <1>14. /\ IsHistory(noted) /\ (noted.agrees <=> h.agrees) /\ noted.state = h.state
         /\ noted.revision = h.revision /\ noted.issued = h.issued
         /\ noted.live = h.live /\ noted.revoked = h.revoked
         /\ noted.expired = h.expired \cup S /\ noted.ledger = h.ledger \o said
    BY <1>10 DEF Matches, IsHistory
  <1>15. Matches(x, as, n.ledger, m, noted)
    <2>0. Matches(x, as, d.ledger, m, h)
      BY DEF x, as
    <2>1. noted.expired \subseteq DOMAIN as
      BY <1>1, <1>3, <1>14, <2>0 DEF Matches
    <2>2. \A a \in ToSet(x.authorizations) : a \in noted.expired <=> a \in Expirations(n.ledger)
      BY <1>13, <1>14, <2>0 DEF Matches
    <2>3. noted.ledger = Mine(n.ledger, m)
      BY <1>11, <1>14, <2>0 DEF Matches
    <2> QED BY <1>14, <2>0, <2>1, <2>2, <2>3 DEF Matches
  <1>16. ASSUME LedgerAbout(d.ledger, as) PROVE LedgerAbout(n.ledger, as)
    <2> SUFFICES ASSUME NEW i \in DOMAIN n.ledger, n.ledger[i].kind = "EXPIRED"
                 PROVE  /\ n.ledger[i].authorization \in DOMAIN as
                        /\ as[n.ledger[i].authorization].mission = n.ledger[i].mission
      BY DEF LedgerAbout
    <2>1. \/ i \in DOMAIN d.ledger /\ n.ledger[i] = d.ledger[i]
          \/ \E j \in DOMAIN said : n.ledger[i] = said[j]
      <3>1. i \in 1 .. Len(d.ledger) + Len(said)
        BY <1>0, <1>7, <1>8
      <3>2. CASE i <= Len(d.ledger)
        BY <1>0, <1>7, <1>8, <3>1, <3>2
      <3>3. CASE i > Len(d.ledger)
        <4>1. i - Len(d.ledger) \in DOMAIN said /\ n.ledger[i] = said[i - Len(d.ledger)]
          BY <1>0, <1>7, <1>8, <3>1, <3>3
        <4> QED BY <4>1
      <3> QED BY <1>0, <3>1, <3>2, <3>3
    <2>2. CASE i \in DOMAIN d.ledger /\ n.ledger[i] = d.ledger[i]
      BY <1>16, <2>2 DEF LedgerAbout
    <2>3. ASSUME NEW j \in DOMAIN said, n.ledger[i] = said[j]
          PROVE  /\ n.ledger[i].authorization \in DOMAIN as
                 /\ as[n.ledger[i].authorization].mission = n.ledger[i].mission
      <3>1. order[j] \in S
        BY <1>6, <1>9 DEF ToSet
      <3> QED BY <1>1, <1>3, <1>9, <2>3, <3>1
    <2> QED BY <2>1, <2>2, <2>3
  <1> QED BY <1>3, <1>11, <1>13, <1>15, <1>16 DEF Noted, x, as

-----------------------------------------------------------------------------
(* Replaying a decision as it is taken                                     *)

LEMMA AppendedSet ==
    ASSUME NEW X, NEW s \in Seq(X), NEW x \in X
    PROVE  ToSet(Append(s, x)) = ToSet(s) \cup {x}
  <1>1. /\ DOMAIN s = 1 .. Len(s) /\ DOMAIN Append(s, x) = 1 .. Len(s) + 1
        /\ Len(s) \in Nat /\ Append(s, x)[Len(s) + 1] = x
        /\ \A n \in DOMAIN s : Append(s, x)[n] = s[n]
    BY ExtendsAppend
  <1>2. \A n \in 1 .. Len(s) + 1 : n \in 1 .. Len(s) \/ n = Len(s) + 1
    BY <1>1
  <1>3. ASSUME NEW z \in ToSet(Append(s, x)) PROVE z \in ToSet(s) \cup {x}
    BY <1>1, <1>2 DEF ToSet
  <1>4. ASSUME NEW z \in ToSet(s) PROVE z \in ToSet(Append(s, x))
    <2>1. PICK n \in DOMAIN s : z = s[n]
      BY DEF ToSet
    <2>2. n \in DOMAIN Append(s, x) /\ z = Append(s, x)[n]
      BY <1>1, <2>1
    <2> QED BY <2>2 DEF ToSet
  <1>5. x \in ToSet(Append(s, x))
    <2>1. Len(s) + 1 \in DOMAIN Append(s, x)
      BY <1>1
    <2> QED BY <1>1, <2>1 DEF ToSet
  <1> QED BY <1>3, <1>4, <1>5

\* An entry that notes no expiry.
LEMMA EntryAppended ==
    ASSUME NEW l \in Seq(Entries), NEW x \in Entries, x.kind # "EXPIRED", NEW as
    PROVE  /\ Expirations(Append(l, x)) = Expirations(l)
           /\ LedgerAbout(l, as) => LedgerAbout(Append(l, x), as)
  <1>1. /\ DOMAIN l = 1 .. Len(l) /\ DOMAIN Append(l, x) = 1 .. Len(l) + 1
        /\ Len(l) \in Nat /\ Append(l, x)[Len(l) + 1] = x
        /\ \A n \in DOMAIN l : Append(l, x)[n] = l[n]
    BY ExtendsAppend
  <1> DEFINE k == Append(l, x)
  <1>2. \A n \in DOMAIN k : (n \in DOMAIN l /\ k[n] = l[n]) \/ k[n] = x
    BY <1>1
  <1>3. \A n \in DOMAIN l : n \in DOMAIN k /\ k[n] = l[n]
    BY <1>1
  <1> HIDE DEF k
  <1>4. Expirations(k) = Expirations(l)
    BY <1>2, <1>3 DEF Expirations
  <1>5. LedgerAbout(l, as) => LedgerAbout(k, as)
    BY <1>2 DEF LedgerAbout
  <1> QED BY <1>4, <1>5 DEF k

\* The ledger speaks of authorizations that are still there.
LEMMA AboutKept ==
    ASSUME NEW l, NEW as, NEW bs, LedgerAbout(l, as),
           \A a \in DOMAIN as : a \in DOMAIN bs /\ bs[a].mission = as[a].mission
    PROVE  LedgerAbout(l, bs)
  BY DEF LedgerAbout

\* The decision, as it is recorded, that was asked for.
Asked(decision, ask, t) ==
    /\ decision.id = ask.id /\ decision.by = ask.by /\ decision.kind = ask.kind
    /\ decision.revision = ask.revision /\ decision.content = ask.content
    /\ decision.scope = ask.scope /\ decision.expires = ask.expires /\ decision.at = t

\* What a replay finds of a mission in e as the effect f left it.
Leaves(f, e, m) ==
    LET y == f.document.missions[m]
        z == e.missions[m]
    IN
    /\ e.authorizations = f.document.authorizations /\ e.ledger = f.document.ledger
    /\ z.state = y.state /\ z.revisions = y.revisions
    /\ z.authorizations = y.authorizations /\ z.lifecycle = y.lifecycle

\* The history that h becomes by the decision is what is saved, and the ledger
\* notes no further expiry and nothing of other missions.
Replayed(d, e, m, h, decision) ==
    LET after == ReplayEffect(e, m, h, decision) IN
    /\ Agrees(e, m, h, decision) /\ after.agrees
    /\ OutcomeAgrees(e, m, h, after, decision)
    /\ Matches(e.missions[m], e.authorizations, e.ledger, m, after)
    /\ \A k : k # m => Mine(e.ledger, k) = Mine(d.ledger, k)
    /\ Expirations(e.ledger) = Expirations(d.ledger)
    /\ LedgerAbout(e.ledger, e.authorizations)
    /\ e.missions[m].lifecycle = <<>>

LEMMA ApproveReplayed ==
    ASSUME NEW d, RegistryGood(d), LedgerAbout(d.ledger, d.authorizations),
           NEW m \in DOMAIN d.missions, d.missions[m].lifecycle = <<>>,
           NEW h, Matches(d.missions[m], d.authorizations, d.ledger, m, h),
           NEW ask \in AnyAsks, ask.kind = "APPROVE", ask.revision = Revision(d.missions[m]),
           d.missions[m].state = "AWAITING_DECISION", NEW t \in Nat,
           NEW decision, Asked(decision, ask, t),
           NEW f, f = ApproveIn(d, m, ask, t), decision.outcome = f.outcome,
           NEW e, Leaves(f, e, m)
    PROVE  Replayed(d, e, m, h, decision)
  <1> DEFINE x == d.missions[m]
             as == d.authorizations
             a == Len(as) + 1
             new == [mission |-> m, revision |-> Revision(x), content |-> Current(x),
                     scope |-> ask.scope, by |-> ask.by, expires |-> ask.expires,
                     issued |-> t, revoked |-> FALSE]
             said == Entry("ISSUED", m, Revision(x), a, ask.id, t)
             z == e.missions[m]
             after == ReplayEffect(e, m, h, decision)
  <1>0. /\ d \in Documents /\ x \in MissionRecords /\ d.ledger \in Seq(Entries) /\ m \in Nat
        /\ d.missions \in Seq(MissionRecords) /\ as \in Seq(Issued)
        /\ x.revisions # <<>>
    BY DocumentParts DEF RegistryGood, MissionGood, StateGood
  <1>1. /\ x.authorizations \in Seq(Nat) /\ ToSet(x.authorizations) \subseteq DOMAIN as
    BY AuthorizationsOf
  <1>2. /\ Revision(x) \in Nat /\ Current(x) \in Content
    BY <1>0, CurrentOf
  <1>3. new \in Issued
    BY <1>0, <1>2 DEF Issued, AnyAsks
  <1>4. a \in Nat /\ a \notin DOMAIN as /\ DOMAIN as = 1 .. Len(as)
    BY <1>0
  <1>5. said \in Entries /\ said.mission = m /\ said.kind = "ISSUED"
    <2>1. said \in Entries
      BY <1>0, <1>2, <1>4, EntryIs DEF AnyAsks
    <2> QED BY <2>1 DEF Entry
  <1>6. /\ f.document.authorizations = Append(as, new)
        /\ f.document.ledger = Append(d.ledger, said)
        /\ f.document.missions[m].state = "AUTHORIZED"
        /\ f.document.missions[m].revisions = x.revisions
        /\ f.document.missions[m].authorizations = Append(x.authorizations, a)
        /\ f.document.missions[m].lifecycle = x.lifecycle
        /\ f.outcome = Outcome(x, ask, a, <<>>)
    <2>1. f.document = [d EXCEPT !.authorizations = Append(as, new),
                                 !.missions = [d.missions EXCEPT ![m] =
                                    [x EXCEPT !.authorizations = Append(x.authorizations, a),
                                              !.state = "AUTHORIZED"]],
                                 !.ledger = Append(d.ledger, said)]
          /\ f.outcome = Outcome(x, ask, a, <<>>)
      BY DEF ApproveIn, Documents
    <2> DEFINE y == [x EXCEPT !.authorizations = Append(x.authorizations, a),
                              !.state = "AUTHORIZED"]
               ms == [d.missions EXCEPT ![m] = y]
               bs == Append(as, new)
               l == Append(d.ledger, said)
    <2> HIDE DEF new, said, a
    <2>2. /\ y.state = "AUTHORIZED" /\ y.revisions = x.revisions
          /\ y.authorizations = Append(x.authorizations, a) /\ y.lifecycle = x.lifecycle
      BY <1>0 DEF MissionRecords
    <2>3. f.document = [d EXCEPT !.authorizations = bs, !.missions = ms, !.ledger = l]
      BY <2>1
    <2> HIDE DEF y
    <2>4. ms[m] = y
      OBVIOUS
    <2> HIDE DEF ms, bs, l
    <2>5. /\ f.document.authorizations = bs /\ f.document.ledger = l
          /\ f.document.missions = ms
      BY <1>0, <2>3 DEF Documents
    <2> QED BY <2>1, <2>2, <2>4, <2>5 DEF bs, l
  <1> HIDE DEF new, said, a, x, as
  <1>7. /\ e.authorizations = Append(as, new) /\ e.ledger = Append(d.ledger, said)
        /\ z.state = "AUTHORIZED" /\ z.revisions = x.revisions
        /\ z.authorizations = Append(x.authorizations, a) /\ z.lifecycle = <<>>
    BY <1>6 DEF Leaves, x
  <1> HIDE DEF z
  <1>8. /\ IsHistory(h) /\ h.agrees /\ h.state = "AWAITING_DECISION"
        /\ h.revision = Revision(x) /\ h.issued = x.authorizations
        /\ h.live = Stands(x, as) /\ h.revoked = Withdrawn(x, as)
        /\ h.ledger = Mine(d.ledger, m) /\ h.expired \subseteq DOMAIN as
        /\ \A b \in ToSet(x.authorizations) : b \in h.expired <=> b \in Expirations(d.ledger)
    BY DEF Matches, BaseState, x, as
  <1>9. /\ DOMAIN e.authorizations = DOMAIN as \cup {a} /\ e.authorizations[a] = new
        /\ \A b \in DOMAIN as : e.authorizations[b] = as[b]
    <2>1. DOMAIN Append(as, new) = 1 .. Len(as) + 1 /\ Append(as, new)[Len(as) + 1] = new
          /\ \A b \in DOMAIN as : Append(as, new)[b] = as[b]
      BY <1>0, <1>3, ExtendsAppend DEF as
    <2>2. DOMAIN Append(as, new) = DOMAIN as \cup {a}
      BY <1>0, <1>4, <2>1 DEF a, as
    <2> QED BY <1>7, <2>1, <2>2 DEF a
  <1>10. /\ decision.outcome.authorization = a /\ decision.outcome.state = "AUTHORIZED"
         /\ decision.outcome.revision = Revision(x) /\ decision.outcome.invalidated = <<>>
         /\ decision.outcome.content = Current(x)
    BY <1>2, <1>6 DEF Outcome, ResultOf
  <1>11. /\ decision.revision = Revision(x) /\ decision.kind = "APPROVE"
         /\ decision.id = ask.id /\ decision.at = t /\ decision.by = ask.by
         /\ decision.scope = ask.scope /\ decision.expires = ask.expires
    BY DEF Asked, x
  <1>12. Agrees(e, m, h, decision)
    <2>1. a \notin ToSet(h.issued)
      BY <1>1, <1>4, <1>8 DEF x, as
    <2>2. /\ new.mission = m /\ new.revision = Revision(x) /\ new.content = Current(x)
          /\ new.scope = ask.scope /\ new.expires = ask.expires /\ new.by = ask.by
          /\ new.issued = t
      BY DEF new
    <2>3. z.revisions[Revision(x)].content = Current(x)
      BY <1>7 DEF Current
    <2> QED BY <1>8, <1>9, <1>10, <1>11, <2>1, <2>2, <2>3 DEF Agrees, z
  <1>13. /\ IsHistory(after) /\ after.agrees /\ after.state = "AUTHORIZED"
         /\ after.revision = Revision(x) /\ after.issued = Append(x.authorizations, a)
         /\ after.live = Stands(x, as) \cup {a} /\ after.revoked = Withdrawn(x, as)
         /\ after.ledger = Append(Mine(d.ledger, m), said) /\ after.expired = h.expired
    <2>1. after = [h EXCEPT !.state = "AUTHORIZED", !.issued = Append(h.issued, a),
                            !.live = h.live \cup {a}, !.ledger = Append(h.ledger, said)]
      BY <1>8, <1>10, <1>11 DEF ReplayEffect, said
    <2> HIDE DEF after
    <2> QED BY <1>8, <2>1 DEF IsHistory
  <1> HIDE DEF after
  <1>14. OutcomeAgrees(e, m, h, after, decision)
    <2>1. z.revisions[Revision(x)].content = Current(x)
      BY <1>7 DEF Current
    <2>2. ToSet(<<>>) = {}
      BY DEF ToSet
    <2> QED BY <1>8, <1>10, <1>13, <2>1, <2>2 DEF OutcomeAgrees, z
  <1>15. ToSet(z.authorizations) = ToSet(x.authorizations) \cup {a}
    BY <1>1, <1>4, <1>7, AppendedSet DEF x
  <1>16. /\ Stands(z, e.authorizations) = Stands(x, as) \cup {a}
         /\ Withdrawn(z, e.authorizations) = Withdrawn(x, as)
    <2>1. new.revoked = FALSE
      BY DEF new
    <2>2. \A b \in ToSet(x.authorizations) : e.authorizations[b] = as[b] /\ b # a
      BY <1>1, <1>4, <1>9 DEF x, as
    <2> QED BY <1>9, <1>15, <2>1, <2>2 DEF Stands, Withdrawn
  <1>17. /\ Mine(e.ledger, m) = Append(Mine(d.ledger, m), said)
         /\ \A k : k # m => Mine(e.ledger, k) = Mine(d.ledger, k)
    BY <1>0, <1>5, <1>7, MineAppend
  <1>18. Expirations(e.ledger) = Expirations(d.ledger)
    BY <1>0, <1>5, <1>7, EntryAppended
  <1>19. a \notin Expirations(d.ledger)
    <2>1. \A b \in Expirations(d.ledger) : b \in DOMAIN as
      BY DEF Expirations, LedgerAbout, as
    <2> QED BY <1>4, <2>1 DEF as
  <1>20. LedgerAbout(e.ledger, e.authorizations)
    <2>1. LedgerAbout(d.ledger, e.authorizations)
      BY <1>9, AboutKept DEF as
    <2> QED BY <1>0, <1>5, <1>7, <2>1, EntryAppended
  <1>21. Matches(z, e.authorizations, e.ledger, m, after)
    <2>1. BaseState(z) = "AUTHORIZED" /\ Revision(z) = Revision(x)
      BY <1>7 DEF BaseState, Revision
    <2>2. \A b \in ToSet(z.authorizations) : b \in after.expired <=> b \in Expirations(e.ledger)
      BY <1>4, <1>8, <1>13, <1>15, <1>18, <1>19 DEF as
    <2>3. after.expired \subseteq DOMAIN e.authorizations
      BY <1>8, <1>9, <1>13
    <2> QED BY <1>7, <1>13, <1>16, <1>17, <2>1, <2>2, <2>3 DEF Matches
  <1> QED BY <1>7, <1>12, <1>13, <1>14, <1>17, <1>18, <1>20, <1>21 DEF Replayed, after, z

LEMMA RefusedReplayed ==
    ASSUME NEW d, RegistryGood(d), LedgerAbout(d.ledger, d.authorizations),
           NEW m \in DOMAIN d.missions, d.missions[m].lifecycle = <<>>,
           NEW h, Matches(d.missions[m], d.authorizations, d.ledger, m, h),
           NEW ask \in AnyAsks, ask.kind \in {"DENY", "REJECT", "REQUEST_CHANGES"},
           ask.revision = Revision(d.missions[m]),
           d.missions[m].state = "AWAITING_DECISION", NEW t \in Nat,
           NEW decision, Asked(decision, ask, t),
           NEW f, f = Effect(d, m, ask, t), decision.outcome = f.outcome,
           NEW e, Leaves(f, e, m)
    PROVE  Replayed(d, e, m, h, decision)
  <1> DEFINE x == d.missions[m]
             as == d.authorizations
             said == Entry("DENIED", m, Revision(x), None, ask.id, t)
             l == IF ask.kind = "DENY" THEN Append(d.ledger, said) ELSE d.ledger
             z == e.missions[m]
             after == ReplayEffect(e, m, h, decision)
  <1>0. /\ d \in Documents /\ x \in MissionRecords /\ d.ledger \in Seq(Entries) /\ m \in Nat
        /\ d.missions \in Seq(MissionRecords) /\ as \in Seq(Issued)
        /\ x.revisions # <<>>
    BY DocumentParts DEF RegistryGood, MissionGood, StateGood
  <1>1. /\ Revision(x) \in Nat /\ Current(x) \in Content
    BY <1>0, CurrentOf
  <1>2. said \in Entries /\ said.mission = m /\ said.kind = "DENIED"
    <2>1. said \in Entries
      BY <1>0, <1>1, EntryIs DEF AnyAsks, None
    <2> QED BY <2>1 DEF Entry
  <1>3. /\ f.document.authorizations = as /\ f.document.ledger = l
        /\ f.document.missions[m].state = ResultOf(ask.kind)
        /\ f.document.missions[m].revisions = x.revisions
        /\ f.document.missions[m].authorizations = x.authorizations
        /\ f.document.missions[m].lifecycle = x.lifecycle
        /\ f.outcome = Outcome(x, ask, None, <<>>)
    <2> DEFINE state == ResultOf(ask.kind)
               y == [x EXCEPT !.state = state]
               ms == [d.missions EXCEPT ![m] = y]
    <2>1. /\ f.document = [d EXCEPT !.missions = ms, !.ledger = l]
          /\ f.outcome = Outcome(x, ask, None, <<>>)
      <3>1. CASE ask.kind = "DENY"
        <4>1. f = DenyIn(d, m, ask, t) /\ ResultOf(ask.kind) = "DENIED"
          BY <3>1 DEF Effect, ResultOf
        <4>2. /\ f.document = [d EXCEPT !.missions = [d.missions EXCEPT ![m] = [x EXCEPT !.state = "DENIED"]],
                                        !.ledger = Append(d.ledger, said)]
              /\ f.outcome = Outcome(x, ask, None, <<>>)
          BY <4>1 DEF DenyIn
        <4>3. l = Append(d.ledger, said) /\ state = "DENIED"
          BY <3>1, <4>1
        <4> HIDE DEF l, state, said
        <4> QED BY <4>2, <4>3
      <3>2. CASE ask.kind \in {"REJECT", "REQUEST_CHANGES"}
        <4>1. f = SetAsideIn(d, m, ask)
          BY <3>2 DEF Effect
        <4>2. f.document = [d EXCEPT !.missions = ms] /\ l = d.ledger
          BY <3>2, <4>1 DEF SetAsideIn
        <4>3. [d EXCEPT !.missions = ms] = [d EXCEPT !.missions = ms, !.ledger = d.ledger]
          <5> HIDE DEF ms
          <5> QED BY <1>0 DEF Documents
        <4>4. f.outcome = Outcome(x, ask, None, <<>>)
          BY <4>1 DEF SetAsideIn
        <4> HIDE DEF l, ms
        <4> QED BY <4>2, <4>3, <4>4
      <3> QED BY <3>1, <3>2
    <2> HIDE DEF said, l, state
    <2>2. /\ y.state = state /\ y.revisions = x.revisions
          /\ y.authorizations = x.authorizations /\ y.lifecycle = x.lifecycle
      BY <1>0 DEF MissionRecords
    <2> HIDE DEF y
    <2>3. ms[m] = y
      OBVIOUS
    <2> HIDE DEF ms
    <2>4. /\ f.document.authorizations = as /\ f.document.ledger = l
          /\ f.document.missions = ms
      BY <1>0, <2>1 DEF Documents
    <2> QED BY <2>1, <2>2, <2>3, <2>4 DEF l, state
  <1> HIDE DEF said, x, as, l
  <1>4. /\ e.authorizations = as /\ e.ledger = l
        /\ z.state = ResultOf(ask.kind) /\ z.revisions = x.revisions
        /\ z.authorizations = x.authorizations /\ z.lifecycle = <<>>
    BY <1>3 DEF Leaves, x
  <1> HIDE DEF z
  <1>5. /\ IsHistory(h) /\ h.agrees /\ h.state = "AWAITING_DECISION"
        /\ h.revision = Revision(x) /\ h.issued = x.authorizations
        /\ h.live = Stands(x, as) /\ h.revoked = Withdrawn(x, as)
        /\ h.ledger = Mine(d.ledger, m) /\ h.expired \subseteq DOMAIN as
        /\ \A b \in ToSet(x.authorizations) : b \in h.expired <=> b \in Expirations(d.ledger)
    BY DEF Matches, BaseState, x, as
  <1>6. /\ decision.outcome.authorization = None /\ decision.outcome.state = ResultOf(ask.kind)
        /\ decision.outcome.revision = Revision(x) /\ decision.outcome.invalidated = <<>>
        /\ decision.outcome.content = Current(x)
    BY <1>1, <1>3 DEF Outcome
  <1>7. /\ decision.revision = Revision(x) /\ decision.kind = ask.kind
        /\ decision.id = ask.id /\ decision.at = t
    BY DEF Asked, x
  <1>8. Agrees(e, m, h, decision)
    BY <1>5, <1>6, <1>7 DEF Agrees
  <1>9. /\ IsHistory(after) /\ after.agrees /\ after.state = ResultOf(ask.kind)
        /\ after.revision = Revision(x) /\ after.issued = x.authorizations
        /\ after.live = Stands(x, as) /\ after.revoked = Withdrawn(x, as)
        /\ after.expired = h.expired
        /\ after.ledger = IF ask.kind = "DENY" THEN Append(h.ledger, said) ELSE h.ledger
    <2>1. CASE ask.kind = "DENY"
      <3>1. after = [h EXCEPT !.state = "DENIED", !.ledger = Append(h.ledger, said)]
        BY <1>5, <1>7, <2>1 DEF ReplayEffect, said
      <3>2. ResultOf(ask.kind) = "DENIED"
        BY <2>1 DEF ResultOf
      <3> HIDE DEF after
      <3> QED BY <1>5, <2>1, <3>1, <3>2 DEF IsHistory
    <2>2. CASE ask.kind \in {"REJECT", "REQUEST_CHANGES"}
      <3> DEFINE state == ResultOf(ask.kind)
      <3>1. after = [h EXCEPT !.state = state]
        BY <1>7, <2>2 DEF ReplayEffect
      <3>2. ask.kind # "DENY"
        BY <2>2
      <3> HIDE DEF after, state
      <3>3. /\ IsHistory(after) /\ after.agrees /\ after.state = state
            /\ after.revision = h.revision /\ after.issued = h.issued
            /\ after.live = h.live /\ after.revoked = h.revoked
            /\ after.expired = h.expired /\ after.ledger = h.ledger
        BY <1>5, <3>1 DEF IsHistory
      <3> QED BY <1>5, <3>2, <3>3 DEF state
    <2> QED BY <2>1, <2>2
  <1> HIDE DEF after
  <1>10. OutcomeAgrees(e, m, h, after, decision)
    <2>1. z.revisions[Revision(x)].content = Current(x)
      BY <1>4 DEF Current
    <2>2. ToSet(<<>>) = {}
      BY DEF ToSet
    <2> QED BY <1>5, <1>6, <1>9, <2>1, <2>2 DEF OutcomeAgrees, z
  <1>11. /\ Stands(z, e.authorizations) = Stands(x, as)
         /\ Withdrawn(z, e.authorizations) = Withdrawn(x, as)
    BY <1>4 DEF Stands, Withdrawn
  <1>12. /\ Mine(e.ledger, m) = IF ask.kind = "DENY" THEN Append(Mine(d.ledger, m), said)
                                ELSE Mine(d.ledger, m)
         /\ \A k : k # m => Mine(e.ledger, k) = Mine(d.ledger, k)
    <2>1. CASE ask.kind = "DENY"
      <3>1. e.ledger = Append(d.ledger, said)
        BY <1>4, <2>1 DEF l
      <3> QED BY <1>0, <1>2, <2>1, <3>1, MineAppend
    <2>2. CASE ask.kind # "DENY"
      BY <1>4, <2>2 DEF l
    <2> QED BY <2>1, <2>2
  <1>13. /\ Expirations(e.ledger) = Expirations(d.ledger)
         /\ LedgerAbout(e.ledger, e.authorizations)
    <2>1. CASE ask.kind = "DENY"
      <3>1. e.ledger = Append(d.ledger, said)
        BY <1>4, <2>1 DEF l
      <3> QED BY <1>0, <1>2, <1>4, <2>1, <3>1, EntryAppended DEF as
    <2>2. CASE ask.kind # "DENY"
      BY <1>4, <2>2 DEF l, as
    <2> QED BY <2>1, <2>2
  <1>14. Matches(z, e.authorizations, e.ledger, m, after)
    <2>1. BaseState(z) = ResultOf(ask.kind) /\ Revision(z) = Revision(x)
      BY <1>4 DEF BaseState, Revision
    <2>2. \A b \in ToSet(z.authorizations) : b \in after.expired <=> b \in Expirations(e.ledger)
      BY <1>4, <1>5, <1>9, <1>13
    <2>3. after.expired \subseteq DOMAIN e.authorizations
      BY <1>4, <1>5, <1>9
    <2>4. after.ledger = Mine(e.ledger, m)
      BY <1>5, <1>9, <1>12
    <2> QED BY <1>4, <1>9, <1>11, <2>1, <2>2, <2>3, <2>4 DEF Matches
  <1> QED BY <1>4, <1>8, <1>9, <1>10, <1>12, <1>13, <1>14 DEF Replayed, after, z

\* Entries that note no expiry.
LEMMA EntriesAdded ==
    ASSUME NEW l \in Seq(Entries), NEW s \in Seq(Entries),
           \A i \in DOMAIN s : s[i].kind # "EXPIRED", NEW as
    PROVE  /\ Expirations(l \o s) = Expirations(l)
           /\ LedgerAbout(l, as) => LedgerAbout(l \o s, as)
  <1> DEFINE k == l \o s
  <1>1. /\ DOMAIN l = 1 .. Len(l) /\ DOMAIN k = 1 .. Len(l) + Len(s)
        /\ DOMAIN s = 1 .. Len(s)
        /\ Len(l) \in Nat /\ Len(s) \in Nat
        /\ \A n \in 1 .. Len(l) : k[n] = l[n]
        /\ \A n \in 1 .. Len(l) + Len(s) : n > Len(l) => k[n] = s[n - Len(l)]
    OBVIOUS
  <1> HIDE DEF k
  <1>2. \A n \in DOMAIN k : (n \in DOMAIN l /\ k[n] = l[n]) \/ k[n].kind # "EXPIRED"
    <2> TAKE n \in DOMAIN k
    <2>1. CASE n <= Len(l)
      BY <1>1, <2>1
    <2>2. CASE n > Len(l)
      <3>1. n - Len(l) \in DOMAIN s /\ k[n] = s[n - Len(l)]
        BY <1>1, <2>2
      <3> QED BY <3>1
    <2> QED BY <1>1, <2>1, <2>2
  <1>3. \A n \in DOMAIN l : n \in DOMAIN k /\ k[n] = l[n]
    BY <1>1
  <1>4. Expirations(k) = Expirations(l)
    BY <1>2, <1>3 DEF Expirations
  <1>5. LedgerAbout(l, as) => LedgerAbout(k, as)
    BY <1>2 DEF LedgerAbout
  <1> QED BY <1>4, <1>5 DEF k

LEMMA EditReplayed ==
    ASSUME NEW d, RegistryGood(d), LedgerAbout(d.ledger, d.authorizations),
           NEW m \in DOMAIN d.missions, d.missions[m].lifecycle = <<>>,
           NEW h, Matches(d.missions[m], d.authorizations, d.ledger, m, h),
           NEW ask \in AnyAsks, ask.kind = "EDIT", ask.content \in Content,
           ask.revision = Revision(d.missions[m]),
           d.missions[m].state # "REJECTED", NEW t \in Nat,
           NEW decision, Asked(decision, ask, t),
           NEW f, f = EditIn(d, m, ask, t), decision.outcome = f.outcome,
           NEW e, Leaves(f, e, m)
    PROVE  Replayed(d, e, m, h, decision)
  <1> DEFINE x == d.missions[m]
             as == d.authorizations
             S == Stands(x, as)
             R == {a \in ToSet(x.authorizations) :
                     as[a].revision = Revision(x) /\ ~as[a].revoked}
             order == SetToSeq(S)
             bs == [a \in DOMAIN as |->
                       IF a \in S THEN [as[a] EXCEPT !.revoked = TRUE] ELSE as[a]]
             said == [i \in DOMAIN order |->
                        Entry("INVALIDATED_BY_EDIT", m, Revision(x), order[i], ask.id, t)]
             text == [content |-> ask.content, by |-> ask.id]
             z == e.missions[m]
             after == ReplayEffect(e, m, h, decision)
  <1>0. /\ d \in Documents /\ x \in MissionRecords /\ d.ledger \in Seq(Entries) /\ m \in Nat
        /\ d.missions \in Seq(MissionRecords) /\ as \in Seq(Issued)
        /\ x.revisions # <<>> /\ x.revisions \in Seq(Revisions)
        /\ \A a \in DOMAIN as : as[a] \in Issued
    BY DocumentParts DEF RegistryGood, MissionGood, StateGood, MissionRecords
  <1>1. /\ x.authorizations \in Seq(Nat) /\ ToSet(x.authorizations) \subseteq DOMAIN as
        /\ \A k \in DOMAIN x.authorizations :
              x.authorizations[k] \in S => k = Len(x.authorizations)
        /\ \A a \in S : as[a].revision = Revision(x)
        /\ S \subseteq ToSet(x.authorizations)
    BY AuthorizationsOf DEF Stands
  <1>2. /\ Revision(x) \in Nat /\ Revision(x) > 0 /\ Current(x) \in Content
    BY <1>0, CurrentOf
  <1>3. R = S
    BY <1>1 DEF Stands
  <1> HIDE DEF S, R
  <1>4. /\ Among(x.authorizations, S) = order /\ order \in Seq(Nat) /\ Len(order) <= 1
        /\ ToSet(order) = S
    BY <1>1, OnlyLast
  <1> HIDE DEF order
  <1>5. /\ said \in Seq(Entries) /\ Len(said) <= 1 /\ AllOf(said, m)
        /\ \A i \in DOMAIN said : said[i].kind # "EXPIRED"
    <2>1. \A i \in DOMAIN order : said[i] \in Entries /\ said[i].mission = m
                                  /\ said[i].kind = "INVALIDATED_BY_EDIT"
      <3> TAKE i \in DOMAIN order
      <3>1. order[i] \in Nat
        BY <1>4
      <3>2. said[i] = Entry("INVALIDATED_BY_EDIT", m, Revision(x), order[i], ask.id, t)
        OBVIOUS
      <3>3. said[i] \in Entries
        BY <1>0, <1>2, <3>1, <3>2, EntryIs DEF AnyAsks
      <3> QED BY <3>2, <3>3 DEF Entry
    <2>2. DOMAIN order = 1 .. Len(order) /\ Len(order) \in Nat /\ said = [i \in DOMAIN order |-> said[i]]
      BY <1>4
    <2> HIDE DEF said
    <2> QED BY <1>4, <2>1, <2>2 DEF AllOf
  <1>6. /\ f.document.authorizations = bs
        /\ f.document.ledger = d.ledger \o said
        /\ f.document.missions[m].state = "AWAITING_DECISION"
        /\ f.document.missions[m].revisions = Append(x.revisions, text)
        /\ f.document.missions[m].authorizations = x.authorizations
        /\ f.document.missions[m].lifecycle = x.lifecycle
        /\ f.outcome = Outcome(x, ask, None, order)
    <2> DEFINE inv == Among(x.authorizations, R)
               y == [x EXCEPT !.revisions = Append(x.revisions, text),
                              !.state = "AWAITING_DECISION"]
               ms == [d.missions EXCEPT ![m] = y]
               l == d.ledger \o said
    <2>1. inv = order
      BY <1>3, <1>4
    <2>2. /\ f.document =
               [d EXCEPT !.authorizations = [a \in DOMAIN as |->
                            IF a \in ToSet(inv) THEN [as[a] EXCEPT !.revoked = TRUE] ELSE as[a]],
                         !.missions = ms,
                         !.ledger = d.ledger \o [i \in DOMAIN inv |->
                            Entry("INVALIDATED_BY_EDIT", m, Revision(x), inv[i], ask.id, t)]]
          /\ f.outcome = Outcome(x, ask, None, inv)
      BY DEF EditIn, R
    <2> HIDE DEF inv, text
    <2>3. /\ y.state = "AWAITING_DECISION" /\ y.revisions = Append(x.revisions, text)
          /\ y.authorizations = x.authorizations /\ y.lifecycle = x.lifecycle
      BY <1>0 DEF MissionRecords
    <2> HIDE DEF y
    <2>4. ms[m] = y
      OBVIOUS
    <2> HIDE DEF ms
    <2>5. f.document = [d EXCEPT !.authorizations = bs, !.missions = ms, !.ledger = l]
      BY <1>4, <2>1, <2>2
    <2> HIDE DEF bs, l
    <2>6. /\ f.document.authorizations = bs /\ f.document.ledger = l
          /\ f.document.missions = ms
      BY <1>0, <2>5 DEF Documents
    <2> QED BY <2>1, <2>2, <2>3, <2>4, <2>6 DEF l
  <1> HIDE DEF said, x, as, text
  <1>7. /\ e.authorizations = bs /\ e.ledger = d.ledger \o said
        /\ z.state = "AWAITING_DECISION" /\ z.revisions = Append(x.revisions, text)
        /\ z.authorizations = x.authorizations /\ z.lifecycle = <<>>
    BY <1>6 DEF Leaves, x
  <1> HIDE DEF z
  <1>8. /\ IsHistory(h) /\ h.agrees /\ h.state = x.state
        /\ h.revision = Revision(x) /\ h.issued = x.authorizations
        /\ h.live = S /\ h.revoked = Withdrawn(x, as)
        /\ h.ledger = Mine(d.ledger, m) /\ h.expired \subseteq DOMAIN as
        /\ \A b \in ToSet(x.authorizations) : b \in h.expired <=> b \in Expirations(d.ledger)
    BY DEF Matches, BaseState, x, as, S
  <1>9. /\ DOMAIN bs = DOMAIN as
        /\ \A b \in DOMAIN as :
              /\ bs[b].mission = as[b].mission /\ bs[b].revision = as[b].revision
              /\ bs[b].revoked <=> b \in S \/ as[b].revoked
    BY <1>0 DEF Issued
  <1> HIDE DEF bs
  <1>10. /\ decision.outcome.authorization = None
         /\ decision.outcome.state = "AWAITING_DECISION"
         /\ decision.outcome.revision = Revision(x) + 1 /\ decision.outcome.invalidated = order
         /\ decision.outcome.content = ask.content
    BY <1>6 DEF Outcome, ResultOf
  <1>11. /\ decision.revision = Revision(x) /\ decision.kind = "EDIT"
         /\ decision.id = ask.id /\ decision.at = t /\ decision.content = ask.content
    BY DEF Asked, x
  <1>12. Agrees(e, m, h, decision)
    BY <1>8, <1>10, <1>11 DEF Agrees, x
  <1>13. /\ DOMAIN z.revisions = 1 .. Revision(x) + 1 /\ Len(z.revisions) = Revision(x) + 1
         /\ z.revisions[Revision(x) + 1] = text
         /\ Revision(x) + 1 \in DOMAIN z.revisions
    <2>1. text \in Revisions
      BY DEF text, Revisions, AnyAsks
    <2>2. /\ DOMAIN Append(x.revisions, text) = 1 .. Len(x.revisions) + 1
          /\ Len(Append(x.revisions, text)) = Len(x.revisions) + 1
          /\ Append(x.revisions, text)[Len(x.revisions) + 1] = text
      BY <1>0, <2>1, ExtendsAppend DEF x
    <2> QED BY <1>2, <1>7, <2>2 DEF Revision, x
  <1>14. {b \in h.live : e.authorizations[b].revision = h.revision} = S
    BY <1>1, <1>7, <1>8, <1>9 DEF x, as
  <1>15. /\ IsHistory(after) /\ after.agrees /\ after.state = "AWAITING_DECISION"
         /\ after.revision = Revision(x) + 1 /\ after.issued = x.authorizations
         /\ after.live = {} /\ after.revoked = Withdrawn(x, as) \cup S
         /\ after.ledger = Mine(d.ledger, m) \o said /\ after.expired = h.expired
    <2> DEFINE due == {b \in h.live : e.authorizations[b].revision = h.revision}
               more == [i \in DOMAIN SetToSeq(due) |->
                          Entry("INVALIDATED_BY_EDIT", m, h.revision, SetToSeq(due)[i],
                                decision.id, decision.at)]
               k == h.agrees /\ h.revision + 1 \in DOMAIN e.missions[m].revisions
                             /\ e.missions[m].revisions[h.revision + 1]
                                  = [content |-> decision.content, by |-> decision.id]
    <2>1. after = [h EXCEPT !.state = "AWAITING_DECISION", !.revision = h.revision + 1,
                            !.live = h.live \ due, !.revoked = h.revoked \cup due,
                            !.agrees = k, !.ledger = h.ledger \o more]
      BY <1>11 DEF ReplayEffect
    <2>2. more = said
      <3>1. due = S
        BY <1>14
      <3> HIDE DEF due
      <3> QED BY <1>8, <1>11, <3>1 DEF said, order
    <2>3. k = TRUE
      BY <1>8, <1>11, <1>13 DEF text, z
    <2>4. due = S
      BY <1>14
    <2> HIDE DEF due, more, k, after
    <2>5. after = [h EXCEPT !.state = "AWAITING_DECISION", !.revision = Revision(x) + 1,
                            !.live = {}, !.revoked = Withdrawn(x, as) \cup S,
                            !.agrees = TRUE, !.ledger = Mine(d.ledger, m) \o said]
      BY <1>8, <2>1, <2>2, <2>3, <2>4
    <2> QED BY <1>8, <2>5 DEF IsHistory
  <1> HIDE DEF after
  <1>16. Withdrawn(x, as) \cap S = {}
    BY DEF Withdrawn, Stands, S
  <1>17. OutcomeAgrees(e, m, h, after, decision)
    <2>1. z.revisions[Revision(x) + 1].content = ask.content
      BY <1>13 DEF text
    <2> QED BY <1>4, <1>8, <1>10, <1>15, <1>16, <2>1 DEF OutcomeAgrees, z
  <1>18. /\ Stands(z, e.authorizations) = {}
         /\ Withdrawn(z, e.authorizations) = Withdrawn(x, as) \cup S
    <2>1. \A b \in ToSet(x.authorizations) :
             e.authorizations[b].revoked <=> b \in S \/ as[b].revoked
      BY <1>1, <1>7, <1>9 DEF x, as
    <2>2. \A b \in ToSet(x.authorizations) : b \in S <=> ~as[b].revoked
      BY DEF S, Stands
    <2> QED BY <1>1, <1>7, <2>1, <2>2 DEF Stands, Withdrawn, x, as
  <1>19. /\ Mine(e.ledger, m) = Mine(d.ledger, m) \o said
         /\ \A k : k # m => Mine(e.ledger, k) = Mine(d.ledger, k)
    <2>1. said \in Seq(Entries) /\ Len(said) <= 1 /\ AllOf(said, m) /\ d.ledger \in Seq(Entries)
      BY <1>0, <1>5
    <2>2. /\ Mine(d.ledger \o said, m) = Mine(d.ledger, m) \o said
          /\ \A k : k # m => Mine(d.ledger \o said, k) = Mine(d.ledger, k)
      BY ONLY <2>1, MineConcat
    <2> QED BY ONLY <1>7, <2>2
  <1>20. Expirations(e.ledger) = Expirations(d.ledger)
    BY <1>0, <1>5, <1>7, EntriesAdded
  <1>21. LedgerAbout(e.ledger, e.authorizations)
    <2>1. LedgerAbout(d.ledger, e.authorizations)
      BY <1>7, <1>9, AboutKept DEF as
    <2> QED BY <1>0, <1>5, <1>7, <2>1, EntriesAdded
  <1>22. Matches(z, e.authorizations, e.ledger, m, after)
    <2>1. BaseState(z) = "AWAITING_DECISION" /\ Revision(z) = Revision(x) + 1
      BY <1>7, <1>13 DEF BaseState, Revision
    <2>2. \A b \in ToSet(z.authorizations) : b \in after.expired <=> b \in Expirations(e.ledger)
      BY <1>7, <1>8, <1>15, <1>20
    <2>3. after.expired \subseteq DOMAIN e.authorizations
      BY <1>7, <1>8, <1>9, <1>15
    <2> QED BY <1>7, <1>15, <1>18, <1>19, <2>1, <2>2, <2>3 DEF Matches
  <1> QED BY <1>7, <1>12, <1>15, <1>17, <1>19, <1>20, <1>21, <1>22 DEF Replayed, after, z

\* From d to e mission m was decided as asked at t: what had expired was noted in
\* n, f is what the decision did, and it was recorded with its id marked as used.
DecidedAs(d, m, ask, t, n, f, decision, e) ==
    LET x == d.missions[m]
        z == f.document.missions[m]
        y == e.missions[m]
    IN
    /\ RegistryGood(n) /\ n.missions = d.missions /\ n.authorizations = d.authorizations
    /\ n.reservations = d.reservations /\ Extends(d.ledger, n.ledger)
    /\ EffectGood(n, m, ask, f)
    /\ decision \in Decisions /\ Asked(decision, ask, t) /\ decision.outcome = f.outcome
    /\ y \in MissionRecords /\ y.decisions = Append(x.decisions, decision)
    /\ y.state = z.state /\ y.revisions = z.revisions /\ y.run = z.run
    /\ y.authorizations = z.authorizations /\ y.withdrawn = z.withdrawn
    /\ y.lifecycle = z.lifecycle /\ y.request = z.request
    /\ y.proposer = z.proposer /\ y.keyExpires = z.keyExpires
    /\ e = [missions |-> [d.missions EXCEPT ![m] = y],
            authorizations |-> f.document.authorizations, ledger |-> f.document.ledger,
            reservations |-> [d.reservations EXCEPT ![ask.id] =
                                [d.reservations[ask.id] EXCEPT !.consumed = ask.id]]]

LEMMA DecideIs ==
    ASSUME NEW d, RegistryGood(d), NEW m \in DOMAIN d.missions, NEW ask \in AnyAsks,
           ask.kind = "EDIT" => ask.content \in Content, NEW t \in Nat,
           CanDecide(d, m, ask, t), NEW e, e = DecideIn(d, m, ask, t),
           NEW n, n = NoteExpirations(d, m, t), NEW f, f = Effect(n, m, ask, t)
    PROVE  \E decision : DecidedAs(d, m, ask, t, n, f, decision, e)
  <1> DEFINE x == d.missions[m]
             z == f.document.missions[m]
             decision == [id |-> ask.id, by |-> ask.by, kind |-> ask.kind,
                          revision |-> ask.revision, content |-> ask.content,
                          scope |-> ask.scope, expires |-> ask.expires, at |-> t,
                          outcome |-> f.outcome]
             y == [z EXCEPT !.decisions = Append(x.decisions, decision)]
             rs == [d.reservations EXCEPT ![ask.id] =
                      [d.reservations[ask.id] EXCEPT !.consumed = ask.id]]
             as == f.document.authorizations
             l == f.document.ledger
             ms == [d.missions EXCEPT ![m] = z]
             g == [missions |-> ms, authorizations |-> as, ledger |-> l,
                   reservations |-> d.reservations]
  <1>0. d \in Documents /\ x \in MissionRecords /\ d.missions \in Seq(MissionRecords)
    BY DocumentParts DEF RegistryGood
  <1>1. /\ DecisionOpen(x)
        /\ \/ MovesTo(x, ResultOf(ask.kind))
           \/ ask.kind = "EDIT" /\ x.state = "AWAITING_DECISION"
    BY DEF CanDecide
  <1>2. /\ RegistryGood(n) /\ n.missions = d.missions
        /\ n.authorizations = d.authorizations /\ n.reservations = d.reservations
        /\ Extends(d.ledger, n.ledger)
    BY NoteKeeps
  <1>3. EffectGood(n, m, ask, f)
    BY <1>1, <1>2, EffectIs
  <1>4. /\ f.document = g /\ z \in MissionRecords
        /\ z.decisions = x.decisions /\ f.outcome \in Outcomes
    BY <1>2, <1>3 DEF EffectGood
  <1>5. e = [f.document EXCEPT !.missions[m].decisions = Append(@, decision),
                               !.reservations[ask.id].consumed = ask.id]
    BY DEF DecideIn
  <1>6. decision \in Decisions /\ Asked(decision, ask, t) /\ decision.outcome = f.outcome
    BY <1>4 DEF Decisions, AnyAsks, Asked
  <1> HIDE DEF decision
  <1>7. Append(x.decisions, decision) \in Seq(Decisions)
    BY <1>0, <1>6, ExtendsAppend DEF MissionRecords
  <1>8. /\ y \in MissionRecords /\ y.decisions = Append(x.decisions, decision)
        /\ y.state = z.state /\ y.revisions = z.revisions /\ y.run = z.run
        /\ y.authorizations = z.authorizations /\ y.withdrawn = z.withdrawn
        /\ y.lifecycle = z.lifecycle /\ y.request = z.request
        /\ y.proposer = z.proposer /\ y.keyExpires = z.keyExpires
    BY <1>4, <1>7 DEF MissionRecords
  <1>9. e = [missions |-> [d.missions EXCEPT ![m] = y], authorizations |-> as,
             ledger |-> l, reservations |-> rs]
    <2>1. ms[m] = z /\ [ms EXCEPT ![m] = y] = [d.missions EXCEPT ![m] = y]
      BY <1>0
    <2> HIDE DEF as, l
    <2>2. e = [g EXCEPT !.missions = [ms EXCEPT ![m] =
                             [ms[m] EXCEPT !.decisions = Append(ms[m].decisions, decision)]],
                        !.reservations = rs]
      <3>1. e = [g EXCEPT !.missions[m].decisions = Append(@, decision),
                          !.reservations[ask.id].consumed = ask.id]
        BY <1>4, <1>5
      <3> HIDE DEF ms
      <3> QED BY <3>1
    <2>3. [ms[m] EXCEPT !.decisions = Append(ms[m].decisions, decision)] = y
      BY <1>4, <2>1
    <2> HIDE DEF ms, rs, y
    <2>4. e = [missions |-> [ms EXCEPT ![m] = y], authorizations |-> as, ledger |-> l,
               reservations |-> rs]
      BY <2>2, <2>3
    <2> QED BY <2>1, <2>4
  <1> HIDE DEF y
  <1>10. e.missions[m] = y
    BY <1>0, <1>9
  <1> QED BY <1>2, <1>3, <1>6, <1>8, <1>9, <1>10 DEF DecidedAs

LEMMA SeesGrown ==
    ASSUME NEW d, RegistryGood(d), NEW e, RegistryGood(e), Grows(d, e),
           NEW m \in DOMAIN d.missions
    PROVE  /\ Sees(d, e, m) /\ m \in DOMAIN e.missions
           /\ IsFiniteSet(DOMAIN d.authorizations) /\ 1 \in DOMAIN d.missions[m].revisions
           /\ d.missions[m].decisions \in Seq(Decisions)
           /\ e.missions[m].decisions \in Seq(Decisions)
  <1> DEFINE x == d.missions[m]
             y == e.missions[m]
  <1>1. /\ d \in Documents /\ e \in Documents /\ m \in DOMAIN e.missions
        /\ x \in MissionRecords /\ y \in MissionRecords /\ StateGood(x)
        /\ MissionGrows(x, y)
        /\ \A a \in DOMAIN d.authorizations : d.authorizations[a] \in Issued
        /\ \A a \in DOMAIN e.authorizations : e.authorizations[a] \in Issued
    BY DocumentParts DEF RegistryGood, MissionGood, Grows
  <1>2. IsFiniteSet(DOMAIN d.authorizations)
    BY AuthorizationsOf
  <1>3. /\ x.revisions \in Seq(Revisions) /\ y.revisions \in Seq(Revisions)
        /\ x.revisions # <<>>
        /\ x.decisions \in Seq(Decisions) /\ y.decisions \in Seq(Decisions)
    BY <1>1 DEF MissionRecords, StateGood
  <1>4. Extends(x.revisions, y.revisions)
    BY <1>1 DEF MissionGrows
  <1> HIDE DEF x, y
  <1>5. 1 \in DOMAIN x.revisions /\ \A n \in DOMAIN x.revisions :
            n \in DOMAIN y.revisions /\ y.revisions[n] = x.revisions[n]
    BY <1>3, <1>4 DEF Extends
  <1>6. ASSUME NEW a \in DOMAIN d.authorizations
        PROVE  LET p == d.authorizations[a]
                   q == e.authorizations[a]
               IN
               /\ a \in DOMAIN e.authorizations
               /\ q.mission = p.mission /\ q.revision = p.revision /\ q.content = p.content
               /\ q.scope = p.scope /\ q.by = p.by /\ q.expires = p.expires
               /\ q.issued = p.issued
    <2> DEFINE p == d.authorizations[a]
               q == e.authorizations[a]
    <2>1. a \in DOMAIN e.authorizations /\ [q EXCEPT !.revoked = TRUE] = [p EXCEPT !.revoked = TRUE]
      BY DEF Grows
    <2>2. p \in Issued /\ q \in Issued
      BY <1>1, <2>1
    <2> HIDE DEF p, q
    <2> DEFINE r == [p EXCEPT !.revoked = TRUE]
               s == [q EXCEPT !.revoked = TRUE]
    <2>3. /\ r.mission = p.mission /\ r.revision = p.revision /\ r.content = p.content
          /\ r.scope = p.scope /\ r.by = p.by /\ r.expires = p.expires
          /\ r.issued = p.issued
          /\ s.mission = q.mission /\ s.revision = q.revision /\ s.content = q.content
          /\ s.scope = q.scope /\ s.by = q.by /\ s.expires = q.expires
          /\ s.issued = q.issued
      BY <2>2 DEF Issued
    <2>5. r = s
      BY <2>1
    <2> HIDE DEF r, s
    <2>4. /\ q.mission = p.mission /\ q.revision = p.revision /\ q.content = p.content
          /\ q.scope = p.scope /\ q.by = p.by /\ q.expires = p.expires
          /\ q.issued = p.issued
      BY <2>3, <2>5
    <2> QED BY <2>1, <2>4 DEF p, q
  <1> QED BY <1>1, <1>2, <1>3, <1>5, <1>6 DEF Sees, x, y

\* What a mission's replay came to, and nothing it is compared with, was changed.
Same(d, e, k) ==
    LET x == d.missions[k]
        y == e.missions[k]
    IN
    /\ y.decisions = x.decisions /\ y.authorizations = x.authorizations
    /\ Revision(y) = Revision(x) /\ BaseState(y) = BaseState(x)
    /\ \A a \in ToSet(x.authorizations) :
          /\ e.authorizations[a].revoked <=> d.authorizations[a].revoked
          /\ a \in Expirations(e.ledger) <=> a \in Expirations(d.ledger)
    /\ Mine(e.ledger, k) = Mine(d.ledger, k)

LEMMA ReplayKept ==
    ASSUME NEW d, RegistryGood(d), NEW e, RegistryGood(e), Grows(d, e),
           NEW k \in DOMAIN d.missions, ReplayGood(d, k), Same(d, e, k)
    PROVE  ReplayGood(e, k) /\ History(e, k) = History(d, k)
  <1> DEFINE x == d.missions[k]
             y == e.missions[k]
             h == History(d, k)
  <1>1. /\ Sees(d, e, k) /\ IsFiniteSet(DOMAIN d.authorizations)
        /\ 1 \in DOMAIN d.missions[k].revisions
        /\ x.decisions \in Seq(Decisions)
    BY SeesGrown
  <1>2. y.decisions = x.decisions
    BY DEF Same
  <1>3. Continues(d, e, k)
    <2>1. \A n \in 1 .. Len(x.decisions) : x.decisions[n] \in Decisions
      BY <1>1
    <2>2. \A n \in 1 .. Len(x.decisions) : x.decisions[n].kind \in DecisionKinds
      <3> HIDE DEF x
      <3> QED BY <2>1 DEF Decisions
    <2>3. Len(x.decisions) \in Nat
      BY <1>1
    <2> HIDE DEF x, y
    <2> QED BY <1>2, <2>2, <2>3 DEF Continues, x, y
  <1>4. Matches(x, d.authorizations, d.ledger, k, h)
    BY DEF ReplayGood
  <1>5. h.agrees
    BY <1>4 DEF Matches
  <1>6. History(e, k) = h
    BY <1>1, <1>2, <1>3, <1>5, HistorySame
  <1> HIDE DEF h
  <1>7. ToSet(x.authorizations) \subseteq DOMAIN d.authorizations
    BY AuthorizationsOf
  <1>8. /\ Stands(y, e.authorizations) = Stands(x, d.authorizations)
        /\ Withdrawn(y, e.authorizations) = Withdrawn(x, d.authorizations)
    BY DEF Same, Stands, Withdrawn
  <1>9. DOMAIN d.authorizations \subseteq DOMAIN e.authorizations
    BY DEF Grows
  <1>10. Matches(y, e.authorizations, e.ledger, k, h)
    BY <1>4, <1>8, <1>9 DEF Matches, Same
  <1> QED BY <1>6, <1>10 DEF ReplayGood, h

\* After mission m was decided its replay, and that of every other, still comes to
\* what is saved.
ReplaysOn(d, m, e) ==
    /\ ReplayGood(e, m) /\ LedgerAbout(e.ledger, e.authorizations)
    /\ \A k \in DOMAIN d.missions : k # m /\ ReplayGood(d, k) => ReplayGood(e, k)
    /\ \A k : k # m => Mine(e.ledger, k) = Mine(d.ledger, k)
    /\ e.missions[m].lifecycle = <<>>

LEMMA DecideReplays ==
    ASSUME NEW d, RegistryGood(d), LedgerAbout(d.ledger, d.authorizations),
           NEW m \in DOMAIN d.missions, ReplayGood(d, m), d.missions[m].lifecycle = <<>>,
           NEW ask \in AnyAsks,
           ask.kind = "EDIT" => ask.content \in Content, NEW t \in Nat,
           CanDecide(d, m, ask, t), NEW e, e = DecideIn(d, m, ask, t)
    PROVE  ReplaysOn(d, m, e)
  <1> DEFINE x == d.missions[m]
             n == NoteExpirations(d, m, t)
             f == Effect(n, m, ask, t)
             h == History(d, m)
  <1>0. /\ RegistryGood(e) /\ Grows(d, e) /\ m \in DOMAIN e.missions
        /\ DOMAIN e.missions = DOMAIN d.missions
    BY DecideKeeps DEF Decided
  <1>1. PICK decision : DecidedAs(d, m, ask, t, n, f, decision, e)
    BY DecideIs
  <1>2. /\ ask.revision = Revision(x) /\ DecisionOpen(x)
        /\ \/ MovesTo(x, ResultOf(ask.kind))
           \/ ask.kind = "EDIT" /\ x.state = "AWAITING_DECISION"
    BY DEF CanDecide
  <1>3. Matches(x, d.authorizations, d.ledger, m, h)
    BY DEF ReplayGood
  <1> HIDE DEF h
  <1> DEFINE noted == ReplayExpired(d, m, h, decision)
  <1>4. decision.at = t /\ decision \in Decisions
    BY <1>1 DEF DecidedAs, Asked
  <1>5. /\ Matches(x, d.authorizations, n.ledger, m, noted)
        /\ \A k : k # m => Mine(n.ledger, k) = Mine(d.ledger, k)
        /\ Expirations(n.ledger) \subseteq Expirations(d.ledger) \cup ToSet(x.authorizations)
        /\ Expirations(d.ledger) \subseteq Expirations(n.ledger)
        /\ LedgerAbout(n.ledger, d.authorizations)
    <2>1. n = NoteExpirations(d, m, t) /\ noted = ReplayExpired(d, m, h, decision)
      OBVIOUS
    <2>2. Matches(d.missions[m], d.authorizations, d.ledger, m, h)
      BY <1>3
    <2> HIDE DEF n, noted
    <2>3. Noted(d, m, n, noted)
      BY <1>4, <2>1, <2>2, NotedMatches
    <2> QED BY <2>3 DEF Noted
  <1>6. /\ RegistryGood(n) /\ n.missions = d.missions /\ n.authorizations = d.authorizations
        /\ n.reservations = d.reservations /\ EffectGood(n, m, ask, f)
        /\ Asked(decision, ask, t) /\ decision.outcome = f.outcome
        /\ e.missions[m].decisions = Append(x.decisions, decision)
        /\ e.authorizations = f.document.authorizations
        /\ e.missions = [d.missions EXCEPT ![m] = e.missions[m]]
    BY <1>1 DEF DecidedAs
  <1>7. Leaves(f, e, m)
    BY <1>1 DEF DecidedAs, Leaves
  <1>8. Replayed(n, e, m, noted, decision)
    <2>1. /\ RegistryGood(n) /\ LedgerAbout(n.ledger, n.authorizations)
          /\ m \in DOMAIN n.missions /\ n.missions[m] = x
          /\ n.missions[m].lifecycle = <<>>
          /\ Matches(n.missions[m], n.authorizations, n.ledger, m, noted)
          /\ ask.revision = Revision(n.missions[m])
      BY <1>2, <1>5, <1>6
    <2>2. f = Effect(n, m, ask, t)
      OBVIOUS
    <2>3. ask.kind \in DecisionKinds
      BY DEF AnyAsks
    <2>4. ask.kind # "EDIT" => x.state = "AWAITING_DECISION"
      BY <1>2, <2>3 DEF MovesTo, ResultOf, Transitions, RunTransitions, DecisionKinds
    <2>5. x.state # "REJECTED"
      BY <1>2 DEF DecisionOpen, Terminal, TerminalStates
    <2> HIDE DEF n, f, noted, x
    <2>6. CASE ask.kind = "APPROVE"
      <3>1. f = ApproveIn(n, m, ask, t)
        BY <2>2, <2>6 DEF Effect
      <3> QED BY <1>6, <1>7, <2>1, <2>4, <2>6, <3>1, ApproveReplayed
    <2>7. CASE ask.kind = "EDIT"
      <3>1. f = EditIn(n, m, ask, t)
        BY <2>2, <2>7 DEF Effect
      <3> QED BY <1>6, <1>7, <2>1, <2>5, <2>7, <3>1, EditReplayed
    <2>8. CASE ask.kind \in {"DENY", "REJECT", "REQUEST_CHANGES"}
      BY <1>6, <1>7, <2>1, <2>2, <2>4, <2>8, RefusedReplayed
    <2> QED BY <2>3, <2>6, <2>7, <2>8 DEF DecisionKinds
  <1> HIDE DEF n, f
  <1>9. /\ Sees(d, e, m) /\ IsFiniteSet(DOMAIN d.authorizations)
        /\ 1 \in DOMAIN x.revisions
        /\ x.decisions \in Seq(Decisions) /\ e.missions[m].decisions \in Seq(Decisions)
    BY <1>0, SeesGrown
  <1>10. Continues(d, e, m)
    <2>1. /\ DOMAIN x.decisions = 1 .. Len(x.decisions) /\ Len(x.decisions) \in Nat
          /\ Len(e.missions[m].decisions) = Len(x.decisions) + 1
          /\ \A k \in DOMAIN x.decisions : e.missions[m].decisions[k] = x.decisions[k]
      BY <1>4, <1>6, <1>9, ExtendsAppend
    <2>2. \A k \in DOMAIN x.decisions : x.decisions[k] \in Decisions
      BY <1>9
    <2>3. \A k \in DOMAIN x.decisions : x.decisions[k].kind \in DecisionKinds
      BY <2>2 DEF Decisions
    <2> HIDE DEF x
    <2> QED BY <2>1, <2>3 DEF Continues, x
  <1>11. h.agrees
    BY <1>3 DEF Matches
  <1>12. /\ History(e, m) = ReplayDecision(e, m, h, decision)
         /\ IsHistory(h) /\ Within(d, m, h)
    BY <1>4, <1>6, <1>9, <1>10, <1>11, HistoryExtended DEF h
  <1>13. ReplayExpired(e, m, h, decision) = noted
    BY <1>9, <1>12, ExpiredSame DEF Within
  <1> HIDE DEF noted
  <1>14. /\ Agrees(e, m, noted, decision) /\ ReplayEffect(e, m, noted, decision).agrees
         /\ OutcomeAgrees(e, m, noted, ReplayEffect(e, m, noted, decision), decision)
         /\ Matches(e.missions[m], e.authorizations, e.ledger, m,
                    ReplayEffect(e, m, noted, decision))
         /\ \A k : k # m => Mine(e.ledger, k) = Mine(n.ledger, k)
         /\ Expirations(e.ledger) = Expirations(n.ledger)
         /\ LedgerAbout(e.ledger, e.authorizations)
         /\ e.missions[m].lifecycle = <<>>
    BY <1>8 DEF Replayed
  <1>15. ReplayDecision(e, m, h, decision) = ReplayEffect(e, m, noted, decision)
    BY <1>11, <1>13, <1>14 DEF ReplayDecision
  <1>16. ReplayGood(e, m)
    BY <1>12, <1>14, <1>15 DEF ReplayGood
  <1>17. ASSUME NEW k \in DOMAIN d.missions, k # m, ReplayGood(d, k) PROVE ReplayGood(e, k)
    <2>1. e.missions[k] = d.missions[k]
      <3>1. d.missions \in Seq(MissionRecords)
        BY DocumentParts DEF RegistryGood
      <3> QED BY <1>6, <1>17, <3>1
    <2>2. AuthorizationsKept(d.authorizations, e.authorizations, m)
      BY <1>6 DEF EffectGood
    <2>3. ASSUME NEW a \in ToSet(d.missions[k].authorizations)
          PROVE  /\ e.authorizations[a] = d.authorizations[a]
                 /\ a \in Expirations(e.ledger) <=> a \in Expirations(d.ledger)
      <3>1. a \in DOMAIN d.authorizations /\ d.authorizations[a].mission = k
        BY AuthorizationsOf
      <3>2. e.authorizations[a] = d.authorizations[a]
        BY <1>17, <2>2, <3>1 DEF AuthorizationsKept
      <3>3. a \notin ToSet(x.authorizations)
        BY <1>17, <3>1, AuthorizationsOf
      <3> QED BY <1>5, <1>14, <3>2, <3>3
    <2>4. Mine(e.ledger, k) = Mine(d.ledger, k)
      BY <1>5, <1>14, <1>17
    <2>5. Same(d, e, k)
      BY <2>1, <2>3, <2>4 DEF Same
    <2> QED BY <1>0, <1>17, <2>5, ReplayKept
  <1> QED BY <1>5, <1>14, <1>16, <1>17 DEF ReplaysOn

-----------------------------------------------------------------------------
(* A document a load accepts                                               *)


\* A mission whose run was never started moved on only by being cancelled.
CancelledGood(x) ==
    /\ x.lifecycle = IF x.state = "CANCELLED" THEN <<CancelMove>> ELSE <<>>
    /\ RunOf(x).cancel # "none" <=> x.state = "CANCELLED"
    /\ RunOf(x).quiescence # "none" => x.state = "CANCELLED"

\* No two missions share a decision, and an id marked as used was used by one.
IdsGood(d) ==
    /\ Len(d.missions) <= MaxMissions
    /\ \A m \in DOMAIN d.missions : Len(d.missions[m].decisions) <= MaxDecisions
    /\ \A k, m \in DOMAIN d.missions :
          \A i \in DOMAIN d.missions[k].decisions, j \in DOMAIN d.missions[m].decisions :
             d.missions[k].decisions[i].id = d.missions[m].decisions[j].id => k = m
    /\ \A i \in DOMAIN d.reservations : d.reservations[i].kind = "decision" =>
          /\ d.reservations[i].consumed \in {None, i}
          /\ d.reservations[i].consumed = i =>
                \E m \in DOMAIN d.missions : \E j \in DOMAIN d.missions[m].decisions :
                   d.missions[m].decisions[j].id = i

\* The ledger speaks of what there is.
LedgerGood(d) ==
    /\ LedgerAbout(d.ledger, d.authorizations)
    /\ \A k \in Nat \ DOMAIN d.missions : Mine(d.ledger, k) = <<>>

LEMMA Identified ==
    ASSUME NEW d, RegistryGood(d), IdsGood(d)
    PROVE  IdsAgree(d)
  <1> DEFINE makers(i) == {m \in DOMAIN d.missions : d.missions[m].request = i}
             takers(i) == {at \in (1 .. MaxMissions) \X (1 .. MaxDecisions) :
                            /\ at[1] \in DOMAIN d.missions
                            /\ at[2] \in DOMAIN d.missions[at[1]].decisions
                            /\ d.missions[at[1]].decisions[at[2]].id = i}
             used(i) == d.reservations[i].consumed
  <1>0. /\ d \in Documents /\ d.missions \in Seq(MissionRecords)
        /\ \A i \in DOMAIN d.reservations : d.reservations[i] \in Reserved /\ i # None
        /\ \A m \in DOMAIN d.missions : d.missions[m] \in MissionRecords /\ m # None
        /\ \A m \in DOMAIN d.missions : DecisionsGood(d.missions[m], d.reservations)
        /\ RequestsGood(d)
    BY DocumentParts DEF RegistryGood, MissionGood
  <1>1. ASSUME NEW i \in DOMAIN d.reservations, d.reservations[i].kind = "request"
        PROVE  makers(i) = IF used(i) = None THEN {} ELSE {used(i)}
    <2>1. \A m \in makers(i) : used(i) = m /\ m # None
      BY <1>0 DEF RequestsGood
    <2>2. used(i) # None => used(i) \in makers(i)
      BY <1>0, <1>1 DEF RequestsGood, Unconsumed
    <2> HIDE DEF makers, used
    <2> QED BY <2>1, <2>2
  <1>2. ASSUME NEW i \in DOMAIN d.reservations, d.reservations[i].kind # "request"
        PROVE  /\ Cardinality(takers(i)) = IF used(i) = None THEN 0 ELSE 1
               /\ used(i) \in {None, i}
    <2>1. d.reservations[i].kind = "decision"
      BY <1>0, <1>2 DEF Reserved
    <2>2. used(i) \in {None, i}
      BY <2>1 DEF IdsGood
    <2>3. ASSUME NEW m \in DOMAIN d.missions, NEW j \in DOMAIN d.missions[m].decisions,
                 d.missions[m].decisions[j].id = i
          PROVE  used(i) = i
      BY <1>0, <2>3 DEF DecisionsGood
    <2>4. ASSUME NEW k \in DOMAIN d.missions, NEW j \in DOMAIN d.missions[k].decisions,
                 NEW m \in DOMAIN d.missions, NEW n \in DOMAIN d.missions[m].decisions,
                 d.missions[k].decisions[j].id = i, d.missions[m].decisions[n].id = i
          PROVE  k = m /\ j = n
      <3>1. k = m
        BY <2>4 DEF IdsGood
      <3> QED BY <1>0, <2>4, <3>1 DEF DecisionsGood
    <2>5. CASE used(i) = None
      <3>1. takers(i) = {}
        BY <1>0, <2>3, <2>5
      <3> QED BY <2>2, <2>5, <3>1, FS_EmptySet
    <2>6. CASE used(i) = i
      <3>1. PICK m \in DOMAIN d.missions : \E j \in DOMAIN d.missions[m].decisions :
                d.missions[m].decisions[j].id = i
        BY <2>1, <2>6 DEF IdsGood
      <3>2. PICK j \in DOMAIN d.missions[m].decisions : d.missions[m].decisions[j].id = i
        BY <3>1
      <3>3. <<m, j>> \in (1 .. MaxMissions) \X (1 .. MaxDecisions)
        <4>1. m \in 1 .. Len(d.missions) /\ Len(d.missions) \in Nat
              /\ Len(d.missions) <= MaxMissions
          BY <1>0 DEF IdsGood
        <4>2. d.missions[m].decisions \in Seq(Decisions)
          BY <1>0 DEF MissionRecords
        <4>3. /\ j \in 1 .. Len(d.missions[m].decisions) /\ Len(d.missions[m].decisions) \in Nat
              /\ Len(d.missions[m].decisions) <= MaxDecisions
          BY <4>2 DEF IdsGood
        <4>4. MaxMissions \in Nat /\ MaxDecisions \in Nat
          BY BoundsAssumption DEF Bounds
        <4> QED BY <4>1, <4>3, <4>4
      <3>4. takers(i) = {<<m, j>>}
        <4>1. <<m, j>> \in takers(i)
          BY <3>2, <3>3
        <4>2. ASSUME NEW at \in takers(i) PROVE at = <<m, j>>
          <5>1. at[1] = m /\ at[2] = j
            BY <2>4, <3>2, <4>2
          <5>2. at \in (1 .. MaxMissions) \X (1 .. MaxDecisions)
            OBVIOUS
          <5>3. at = <<at[1], at[2]>>
            BY <5>2
          <5> QED BY <5>1, <5>3
        <4> QED BY <4>1, <4>2
      <3>5. used(i) # None
        BY <1>0, <2>6
      <3> HIDE DEF takers, used
      <3> QED BY <2>2, <3>4, <3>5, FS_Singleton
    <2> QED BY <2>2, <2>5, <2>6
  <1>3. ASSUME NEW m \in DOMAIN d.missions
        PROVE  /\ IsReserved(d, d.missions[m].request, "request", d.missions[m].proposer)
               /\ \A decision \in DecisionsOf(d, m) :
                     IsReserved(d, decision.id, "decision", decision.by)
    BY <1>0 DEF RequestsGood, DecisionsGood, IsReserved, DecisionsOf
  <1> QED BY <1>1, <1>2, <1>3 DEF IdsAgree

LEMMA UnstartedValid ==
    ASSUME NEW x \in MissionRecords, StateGood(x), CancelledGood(x)
    PROVE  LifecycleValid(x) /\ RunValid(x) /\ CancelValid(x)
  <1>1. /\ HasRun(x) \in BOOLEAN /\ (HasRun(x) <=> x.run \in UnstartedRuns)
        /\ RunOf(x) \in UnstartedRuns /\ (HasRun(x) => RunOf(x) = x.run)
        /\ (~HasRun(x) => RunOf(x) = NewRun)
    BY RunUnstarted DEF RunOf
  <1>2. /\ x.state \in {"AWAITING_DECISION", "AUTHORIZED", "DENIED", "CANCELLED",
                        "REJECTED", "CHANGES_REQUESTED"}
    BY DEF MissionRecords, MissionStates, StateGood
  <1>3. x.state \in RunStates <=> x.state = "CANCELLED"
    BY <1>2 DEF RunStates
  <1>4. /\ x.state = "CANCELLED" =>
              /\ x.lifecycle # <<>> /\ Len(x.lifecycle) = 1 /\ x.lifecycle[1] = CancelMove
              /\ Last(x.lifecycle) = CancelMove
        /\ x.state # "CANCELLED" => x.lifecycle = <<>> /\ Len(x.lifecycle) = 0
    BY DEF CancelledGood, Last
  <1>5. CancelMove.to = "CANCELLED" /\ CancelMove.reason = "cancelled_before_intent"
    BY DEF CancelMove
  <1>6. LastReason(x) = IF x.state = "CANCELLED" THEN "cancelled_before_intent" ELSE "none"
    BY <1>4, <1>5 DEF LastReason
  <1>7. ~ReachedRunning(x)
    BY <1>4, <1>5 DEF ReachedRunning
  <1>8. LifecycleValid(x)
    <2>1. CASE x.state = "CANCELLED"
      <3>1. Chain(x)[0] = "AUTHORIZED" /\ Chain(x)[1] = "CANCELLED"
        BY <1>4, <1>5, <2>1 DEF Chain
      <3>2. \A n \in 1 .. Len(x.lifecycle) : n = 1
        <4>1. Len(x.lifecycle) = 1
          BY <1>4, <2>1
        <4>2. \A n \in 1 .. 1 : n = 1
          OBVIOUS
        <4> QED BY ONLY <4>1, <4>2
      <3> QED BY <1>3, <1>4, <2>1, <3>1, <3>2 DEF LifecycleValid, StateGood, RunTransitions
    <2>2. CASE x.state # "CANCELLED"
      BY <1>3, <1>4, <2>2 DEF LifecycleValid, StateGood
    <2> QED BY <2>1, <2>2
  <1> DEFINE run == RunOf(x)
  <1>9. /\ run.intent = None /\ run.receipt = "none" /\ run.verification = "none"
        /\ run.pending = 0 /\ run.unobserved = 0 /\ run.late = None
        /\ run.cancel \in {"none", "cancelled_before_intent"}
        /\ run.quiescence \in {"none", "nothing_started"}
    BY <1>1 DEF UnstartedRuns
  <1>10. run.cancel # "none" <=> x.state = "CANCELLED"
    BY DEF CancelledGood
  <1> HIDE DEF run
  <1>11. MaxReconcileAttempts # 0
    BY RunBoundsAssumption DEF RunBounds
  <1>12. RunValid(x)
    <2> SUFFICES ASSUME HasRun(x) PROVE RunValid(x)
      BY DEF RunValid
    <2>1. x.run = run
      BY <1>1 DEF run
    <2>2. (run.unobserved = MaxReconcileAttempts) = (LastReason(x) = "reconcile_not_observable")
      BY <1>6, <1>9, <1>11
    <2>3. x.state \notin {"RUNNING", "COMPLETED", "BLOCKED"}
      BY DEF StateGood
    <2>4. (run.cancel # "none") = (x.state = "CANCELLED")
      BY <1>10
    <2>5. ~(run.pending > 0) /\ ~(run.unobserved > 0)
      BY <1>9
    <2>6. \A n \in DOMAIN x.lifecycle : x.lifecycle[n].reason \notin Failures
      <3>1. CASE x.state = "CANCELLED"
        <4>1. Last(x.lifecycle).reason \notin Failures
          BY <1>4, <1>5, <3>1 DEF Failures
        <4>2. x.lifecycle = <<CancelMove>>
          BY <3>1 DEF CancelledGood
        <4>3. \A n \in DOMAIN <<CancelMove>> : <<CancelMove>>[n] = CancelMove
          OBVIOUS
        <4> QED BY <1>5, <4>2, <4>3 DEF Failures
      <3>2. CASE x.state # "CANCELLED"
        <4>1. x.lifecycle = <<>> /\ DOMAIN <<>> = {}
          BY <1>4, <3>2
        <4> QED BY <4>1
      <3> QED BY <3>1, <3>2
    <2> QED BY <1>6, <1>7, <1>9, <2>1, <2>2, <2>3, <2>4, <2>5, <2>6 DEF RunValid
  <1>13. CancelValid(x)
    <2> SUFFICES ASSUME HasRun(x), x.run.cancel # "none" PROVE CancelValid(x)
      BY DEF CancelValid
    <2>1. x.run = run
      BY <1>1 DEF run
    <2>2. QuiescenceFor("cancelled_before_intent") = {"nothing_started"}
      BY DEF QuiescenceFor
    <2>3. "cancelled_before_intent" \notin CancelsObserved
      BY DEF CancelsObserved
    <2> QED BY <1>6, <1>7, <1>9, <1>10, <2>1, <2>2, <2>3 DEF CancelValid
  <1> QED BY <1>8, <1>12, <1>13

\* A mission nothing was decided of has an empty history.
LEMMA UndecidedHistory ==
    ASSUME NEW d, NEW m, d.missions[m].decisions = <<>>
    PROVE  History(d, m) = ReplayStart
  <1>1. PICK f : Replays(d, m, <<>>, f, Len(<<>>)) /\ History(d, m) = f[Len(<<>>)]
    BY HistoryIs
  <1>2. Len(<<>>) = 0
    OBVIOUS
  <1> QED BY <1>1, <1>2, ReplaysAt

LEMMA Reconciled ==
    ASSUME NEW d, RegistryGood(d), NEW m \in DOMAIN d.missions, ReplayGood(d, m),
           CancelledGood(d.missions[m])
    PROVE  Reconciles(d, m)
  <1> DEFINE x == d.missions[m]
             as == d.authorizations
             h == History(d, m)
  <1>1. /\ x \in MissionRecords /\ StateGood(x)
        /\ \A a \in DOMAIN as : as[a] \in Issued
    BY DocumentParts DEF RegistryGood, MissionGood
  <1>2. Matches(x, as, d.ledger, m, h)
    BY DEF ReplayGood
  <1>3. IntentOf(x) = None
    BY <1>1, RunUnstarted
  <1>4. ToSet(x.authorizations) \subseteq DOMAIN as
    BY AuthorizationsOf
  <1>5. x.withdrawn # None => h = ReplayStart
    BY <1>1, UndecidedHistory DEF StateGood
  <1> HIDE DEF h, x, as
  <1>6. /\ h.agrees /\ h.state = BaseState(x) /\ h.revision = Revision(x)
        /\ h.issued = x.authorizations /\ h.revoked = Withdrawn(x, as)
        /\ h.ledger = Mine(d.ledger, m)
    BY <1>2 DEF Matches
  <1>7. CancelledGood(x)
    BY DEF x
  <1>8. RunAgrees(d, m, h)
    <2>1. HasRun(x) => h.state = "AUTHORIZED" /\ x.withdrawn = None
      BY <1>1, <1>6, <1>7 DEF BaseState, StateGood, CancelledGood
    <2> QED BY <1>3, <2>1 DEF RunAgrees, x
  <1>9. x.state = IF x.lifecycle = <<>> THEN h.state ELSE Last(x.lifecycle).to
    <2>1. CASE x.lifecycle = <<>>
      BY <1>6, <2>1 DEF BaseState
    <2>2. CASE x.lifecycle # <<>>
      <3>1. x.state = "CANCELLED" /\ x.lifecycle = <<CancelMove>>
        BY <1>7, <2>2 DEF CancelledGood
      <3>2. Last(x.lifecycle) = CancelMove
        BY <3>1 DEF Last
      <3> QED BY <2>2, <3>1, <3>2 DEF CancelMove
    <2> QED BY <2>1, <2>2
  <1>10. \A i \in DOMAIN h.issued :
            d.authorizations[h.issued[i]].revoked = (h.issued[i] \in h.revoked)
    <2> TAKE i \in DOMAIN h.issued
    <2> DEFINE a == h.issued[i]
    <2>1. a \in ToSet(x.authorizations)
      BY <1>6 DEF ToSet
    <2> HIDE DEF a
    <2>2. as[a].revoked \in BOOLEAN
      BY <1>1, <1>4, <2>1 DEF Issued, x, as
    <2>3. as[a].revoked <=> a \in h.revoked
      BY <1>6, <2>1 DEF Withdrawn
    <2> QED BY <2>2, <2>3 DEF a, as
  <1>11. x.withdrawn # None => Undecided(x)
    <2>1. x.withdrawn # None => Revision(x) = 1
      BY <1>5, <1>6 DEF ReplayStart
    <2> QED BY <1>1, <2>1 DEF StateGood, Undecided
  <1> QED BY <1>6, <1>8, <1>9, <1>10, <1>11 DEF Reconciles, Mine, x, h

StoreGood(d) ==
    /\ LedgerGood(d) /\ IdsGood(d)
    /\ \A m \in DOMAIN d.missions : ReplayGood(d, m) /\ CancelledGood(d.missions[m])

LEMMA StoreAcceptable ==
    ASSUME NEW d, RegistryGood(d), StoreGood(d)
    PROVE  IdsAgree(d) /\ \A m \in DOMAIN d.missions : Accepted(d, m)
  <1>1. IdsAgree(d)
    BY Identified DEF StoreGood
  <1>2. ASSUME NEW m \in DOMAIN d.missions PROVE Accepted(d, m)
    <2>1. d.missions[m] \in MissionRecords /\ StateGood(d.missions[m])
      BY DocumentParts DEF RegistryGood, MissionGood
    <2>2. ReplayGood(d, m) /\ CancelledGood(d.missions[m])
      BY DEF StoreGood
    <2> QED BY <2>1, <2>2, UnstartedValid, Reconciled DEF Accepted
  <1> QED BY <1>1, <1>2

\* Nothing was decided: no decision came, and no id of one was used.
LEMMA IdsKept ==
    ASSUME NEW d, IdsGood(d), NEW e, RegistryGood(e), Len(e.missions) <= MaxMissions,
           DOMAIN d.missions \subseteq DOMAIN e.missions,
           \A m \in DOMAIN d.missions : e.missions[m].decisions = d.missions[m].decisions,
           \A m \in DOMAIN e.missions \ DOMAIN d.missions : e.missions[m].decisions = <<>>,
           \A i \in DOMAIN e.reservations : e.reservations[i].kind = "decision" =>
              \/ i \in DOMAIN d.reservations /\ e.reservations[i] = d.reservations[i]
              \/ e.reservations[i].consumed = None
    PROVE  IdsGood(e)
  <1>1. \A i \in DOMAIN e.reservations : i # None
    BY DocumentParts DEF RegistryGood
  <1>2. \A m \in DOMAIN e.missions : Len(e.missions[m].decisions) <= MaxDecisions
    <2> TAKE m \in DOMAIN e.missions
    <2>1. CASE m \in DOMAIN d.missions
      BY <2>1 DEF IdsGood
    <2>2. CASE m \notin DOMAIN d.missions
      <3>1. e.missions[m].decisions = <<>> /\ Len(<<>>) = 0
        BY <2>2
      <3>2. MaxDecisions \in Nat
        BY BoundsAssumption DEF Bounds
      <3> QED BY <3>1, <3>2
    <2> QED BY <2>1, <2>2
  <1>3. \A m \in DOMAIN e.missions : \A j \in DOMAIN e.missions[m].decisions :
            m \in DOMAIN d.missions /\ j \in DOMAIN d.missions[m].decisions
            /\ e.missions[m].decisions[j] = d.missions[m].decisions[j]
    <2> TAKE m \in DOMAIN e.missions
    <2> TAKE j \in DOMAIN e.missions[m].decisions
    <2>1. m \in DOMAIN d.missions
      <3>1. DOMAIN <<>> = {}
        OBVIOUS
      <3>2. CASE m \notin DOMAIN d.missions
        <4>1. e.missions[m].decisions = <<>>
          BY <3>2
        <4> QED BY <3>1, <4>1
      <3> QED BY <3>2
    <2> QED BY <2>1
  <1>4. ASSUME NEW i \in DOMAIN e.reservations, e.reservations[i].kind = "decision"
        PROVE  /\ e.reservations[i].consumed \in {None, i}
               /\ e.reservations[i].consumed = i =>
                     \E m \in DOMAIN e.missions : \E j \in DOMAIN e.missions[m].decisions :
                        e.missions[m].decisions[j].id = i
    <2>1. CASE e.reservations[i].consumed = None
      BY <1>1, <2>1
    <2>2. CASE i \in DOMAIN d.reservations /\ e.reservations[i] = d.reservations[i]
      BY <1>4, <2>2 DEF IdsGood
    <2> QED BY <1>4, <2>1, <2>2
  <1>5. ASSUME NEW k \in DOMAIN e.missions, NEW m \in DOMAIN e.missions,
               NEW i \in DOMAIN e.missions[k].decisions, NEW j \in DOMAIN e.missions[m].decisions,
               e.missions[k].decisions[i].id = e.missions[m].decisions[j].id
        PROVE  k = m
    <2>1. /\ k \in DOMAIN d.missions /\ i \in DOMAIN d.missions[k].decisions
          /\ m \in DOMAIN d.missions /\ j \in DOMAIN d.missions[m].decisions
          /\ d.missions[k].decisions[i].id = d.missions[m].decisions[j].id
      BY <1>3, <1>5
    <2> QED BY <2>1 DEF IdsGood
  <1> QED BY <1>2, <1>4, <1>5 DEF IdsGood

\* A mission as far as a replay and a load look at it is what it was.
Alike(x, y) ==
    /\ y.decisions = x.decisions /\ y.authorizations = x.authorizations
    /\ Revision(y) = Revision(x) /\ BaseState(y) = BaseState(x)

\* Nothing was decided and the ledger stayed as it was; missions without decisions
\* may have come.
LEMMA StoreKept ==
    ASSUME NEW d, RegistryGood(d), StoreGood(d), NEW e, RegistryGood(e), Grows(d, e),
           e.ledger = d.ledger, e.authorizations = d.authorizations, IdsGood(e),
           \A m \in DOMAIN d.missions : Alike(d.missions[m], e.missions[m]),
           \A m \in DOMAIN e.missions : CancelledGood(e.missions[m]),
           \A m \in DOMAIN e.missions \ DOMAIN d.missions :
              /\ e.missions[m].decisions = <<>> /\ e.missions[m].authorizations = <<>>
              /\ e.missions[m].state = "AWAITING_DECISION" /\ Revision(e.missions[m]) = 1
    PROVE  StoreGood(e)
  <1>1. DOMAIN d.missions \subseteq DOMAIN e.missions
    BY DEF Grows
  <1>2. LedgerGood(e)
    BY <1>1 DEF LedgerGood, StoreGood
  <1>3. ASSUME NEW m \in DOMAIN d.missions PROVE ReplayGood(e, m)
    <2>1. Same(d, e, m)
      BY DEF Alike, Same
    <2>2. ReplayGood(d, m)
      BY DEF StoreGood
    <2> QED BY <2>1, <2>2, ReplayKept
  <1>4. ASSUME NEW m \in DOMAIN e.missions, m \notin DOMAIN d.missions PROVE ReplayGood(e, m)
    <2> DEFINE y == e.missions[m]
               as == e.authorizations
    <2>1. History(e, m) = ReplayStart
      BY <1>4, UndecidedHistory
    <2>2. Mine(e.ledger, m) = <<>>
      <3>1. m \in Nat
        BY DocumentParts DEF RegistryGood
      <3> QED BY <1>4, <3>1 DEF StoreGood, LedgerGood
    <2>3. y.authorizations = <<>> /\ Revision(y) = 1 /\ y.state = "AWAITING_DECISION"
      BY <1>4
    <2>4. y.lifecycle = <<>>
      BY <2>3 DEF CancelledGood
    <2> HIDE DEF y
    <2>5. ToSet(<<>>) = {}
      BY DEF ToSet
    <2>6. Stands(y, as) = {} /\ Withdrawn(y, as) = {}
      BY <2>3, <2>5 DEF Stands, Withdrawn
    <2>7. BaseState(y) = "AWAITING_DECISION"
      BY <2>3, <2>4 DEF BaseState
    <2>8. IsHistory(ReplayStart)
      BY DEF IsHistory, ReplayStart
    <2>9. Matches(y, as, e.ledger, m, ReplayStart)
      BY <2>2, <2>3, <2>5, <2>6, <2>7, <2>8 DEF Matches, ReplayStart
    <2> QED BY <2>1, <2>9 DEF ReplayGood, y
  <1> QED BY <1>2, <1>3, <1>4 DEF StoreGood

LEMMA EmptyStores ==
    RegistryGood(EmptyDoc) /\ StoreGood(EmptyDoc)
  <1> DEFINE d == EmptyDoc
  <1>1. /\ d.missions = <<>> /\ d.authorizations = <<>> /\ d.ledger = <<>>
        /\ d.reservations = <<>>
    BY DEF EmptyDoc
  <1>2. RegistryGood(d)
    <2>1. /\ <<>> \in Seq(MissionRecords) /\ <<>> \in Seq(Issued) /\ <<>> \in Seq(Entries)
          /\ <<>> \in Seq(Reserved)
      BY NoSequence
    <2>2. d \in Documents
      BY <2>1 DEF EmptyDoc, Documents
    <2> QED BY <1>1, <2>2 DEF RegistryGood, RequestsGood
  <1>3. ASSUME NEW k PROVE Mine(<<>>, k) = <<>>
    <2>1. Len(<<>>) = 0
      OBVIOUS
    <2> DEFINE S == {x \in ToSet(<<>>) : x.mission = k}
    <2>2. Mine(<<>>, k) = Among(<<>>, S)
      BY DEF Mine
    <2>3. Among(<<>>, S) = <<>>
      <3> HIDE DEF S
      <3>1. Len(<<>>) \in Nat /\ \A n \in 1 .. Len(<<>>) : <<>>[n] \notin S
        BY <2>1
      <3> QED BY <3>1, AmongNone
    <2> QED BY <2>2, <2>3
  <1>4. /\ DOMAIN d.missions = {} /\ DOMAIN d.reservations = {} /\ DOMAIN d.ledger = {}
        /\ Len(d.missions) = 0 /\ 0 <= MaxMissions
    BY <1>1, BoundsAssumption DEF Bounds
  <1>5. LedgerGood(d)
    BY <1>1, <1>3, <1>4 DEF LedgerGood, LedgerAbout
  <1>6. IdsGood(d)
    BY <1>4 DEF IdsGood
  <1> HIDE DEF d
  <1>7. StoreGood(d)
    BY <1>4, <1>5, <1>6 DEF StoreGood
  <1> QED BY <1>2, <1>7 DEF d

LEMMA ReserveStores ==
    ASSUME NEW d, RegistryGood(d), StoreGood(d), NEW kind \in {"request", "decision"},
           NEW context \in Contexts, NEW e, e = ReserveIn(d, kind, context)
    PROVE  StoreGood(e)
  <1> DEFINE new == [kind |-> kind, context |-> context, consumed |-> None]
  <1>1. /\ RegistryGood(e) /\ Grows(d, e)
        /\ e.missions = d.missions /\ e.authorizations = d.authorizations
    BY ReserveKeeps
  <1>2. d \in Documents /\ d.reservations \in Seq(Reserved) /\ d.missions \in Seq(MissionRecords)
    BY DocumentParts DEF RegistryGood
  <1>3. e = [d EXCEPT !.reservations = Append(d.reservations, new)]
    BY DEF ReserveIn
  <1>4. new \in Reserved /\ new.consumed = None
    BY DEF Reserved, None
  <1> HIDE DEF new
  <1>5. e.ledger = d.ledger /\ e.reservations = Append(d.reservations, new)
    BY <1>2, <1>3 DEF Documents
  <1>6. \A i \in DOMAIN e.reservations :
            \/ i \in DOMAIN d.reservations /\ e.reservations[i] = d.reservations[i]
            \/ e.reservations[i].consumed = None
    BY <1>2, <1>4, <1>5, ExtendsAppend
  <1>7. IdsGood(e)
    <2>1. IdsGood(d) /\ Len(e.missions) <= MaxMissions
      BY <1>1 DEF StoreGood, IdsGood
    <2> QED BY <1>1, <1>6, <2>1, IdsKept
  <1> QED BY <1>1, <1>5, <1>7, StoreKept DEF Alike, StoreGood

LEMMA ProposeStores ==
    ASSUME NEW d, RegistryGood(d), StoreGood(d), NEW id, NEW context \in Contexts,
           NEW content \in Content, NEW keyExpires \in Nat, CanPropose(d, id, context),
           NEW e, e = ProposeIn(d, id, context, content, keyExpires)
    PROVE  StoreGood(e)
  <1> DEFINE y == NewMission(id, context, content, keyExpires)
             used == [d.reservations[id] EXCEPT !.consumed = Len(d.missions) + 1]
             rs == [d.reservations EXCEPT ![id] = used]
  <1>1. /\ RegistryGood(e) /\ Grows(d, e) /\ e.authorizations = d.authorizations
        /\ \A m \in DOMAIN d.missions : e.missions[m] = d.missions[m]
    BY ProposeKeeps
  <1>2. /\ d \in Documents /\ d.reservations \in Seq(Reserved)
        /\ d.missions \in Seq(MissionRecords)
        /\ \A i \in DOMAIN d.reservations : d.reservations[i] \in Reserved /\ i \in Nat
    BY DocumentParts DEF RegistryGood
  <1>3. /\ id \in DOMAIN d.reservations /\ d.reservations[id].kind = "request"
        /\ Len(d.missions) < MaxMissions
    BY DEF CanPropose, IsReserved
  <1>4. e = [d EXCEPT !.missions = Append(d.missions, y), !.reservations = rs]
    BY DEF ProposeIn
  <1>5. y \in MissionRecords
    BY <1>2, <1>3, NewMissionIs
  <1>6. /\ y.decisions = <<>> /\ y.authorizations = <<>> /\ y.state = "AWAITING_DECISION"
        /\ Revision(y) = 1 /\ y.lifecycle = <<>> /\ y.run = NoRun
    BY DEF NewMission, Revision
  <1>7. used.kind = "request"
    <2>1. d.reservations[id] \in Reserved
      BY <1>2, <1>3
    <2> QED BY <1>3, <2>1 DEF Reserved
  <1> HIDE DEF y, used
  <1>8. CancelledGood(y)
    <2>1. ~HasRun(y)
      BY <1>6 DEF HasRun, NoRun
    <2>2. RunOf(y) = NewRun
      BY <2>1 DEF RunOf
    <2> QED BY <1>6, <2>2 DEF CancelledGood, NewRun
  <1>9. \A i \in DOMAIN rs : i \in DOMAIN d.reservations /\ (i # id => rs[i] = d.reservations[i])
    BY <1>2, <1>3
  <1>10. rs[id] = used
    BY <1>2, <1>3
  <1> HIDE DEF rs
  <1>11. e.ledger = d.ledger /\ e.reservations = rs /\ e.missions = Append(d.missions, y)
    BY <1>2, <1>4 DEF Documents
  <1>12. /\ DOMAIN e.missions = DOMAIN d.missions \cup {Len(d.missions) + 1}
         /\ e.missions[Len(d.missions) + 1] = y
         /\ Len(e.missions) = Len(d.missions) + 1 /\ Len(d.missions) \in Nat
    <2>1. /\ DOMAIN e.missions = 1 .. Len(d.missions) + 1 /\ DOMAIN d.missions = 1 .. Len(d.missions)
          /\ e.missions[Len(d.missions) + 1] = y
          /\ Len(e.missions) = Len(d.missions) + 1 /\ Len(d.missions) \in Nat
      BY <1>2, <1>5, <1>11, ExtendsAppend
    <2> QED BY <2>1
  <1>13. \A i \in DOMAIN e.reservations : e.reservations[i].kind = "decision" =>
            i \in DOMAIN d.reservations /\ e.reservations[i] = d.reservations[i]
    BY <1>7, <1>9, <1>10, <1>11
  <1>14. \A m \in DOMAIN e.missions \ DOMAIN d.missions : e.missions[m] = y
    BY <1>12
  <1>15. IdsGood(e)
    <2>1. MaxMissions \in Nat /\ IdsGood(d)
      BY BoundsAssumption DEF Bounds, StoreGood
    <2>2. Len(e.missions) <= MaxMissions
      BY <1>3, <1>12, <2>1
    <2>3. DOMAIN d.missions \subseteq DOMAIN e.missions
      BY <1>12
    <2> QED BY <1>1, <1>6, <1>13, <1>14, <2>1, <2>2, <2>3, IdsKept
  <1>16. \A m \in DOMAIN e.missions : CancelledGood(e.missions[m])
    BY <1>1, <1>8, <1>14 DEF StoreGood
  <1> QED BY <1>1, <1>6, <1>11, <1>14, <1>15, <1>16, StoreKept DEF Alike

LEMMA WithdrawStores ==
    ASSUME NEW d, RegistryGood(d), StoreGood(d), NEW m \in DOMAIN d.missions, NEW id,
           NEW t \in Nat, t # None, CanWithdraw(d, m, id, t), NEW e, e = WithdrawIn(d, m, t)
    PROVE  StoreGood(e)
  <1> DEFINE x == d.missions[m]
             y == [x EXCEPT !.withdrawn = t]
  <1>1. RegistryGood(e) /\ Grows(d, e) /\ e.authorizations = d.authorizations
    BY WithdrawKeeps
  <1>2. /\ d \in Documents /\ d.missions \in Seq(MissionRecords) /\ x \in MissionRecords
        /\ CancelledGood(x)
    BY DocumentParts DEF RegistryGood, StoreGood
  <1>3. CASE x.withdrawn # None
    BY <1>3 DEF WithdrawIn
  <1>4. CASE x.withdrawn = None
    <2>1. e = [d EXCEPT !.missions = [d.missions EXCEPT ![m] = y]]
      BY <1>4 DEF WithdrawIn
    <2>2. /\ y.decisions = x.decisions /\ y.authorizations = x.authorizations
          /\ y.state = x.state /\ y.revisions = x.revisions
          /\ y.run = x.run /\ y.lifecycle = x.lifecycle
      BY <1>2 DEF MissionRecords
    <2> HIDE DEF y
    <2>3. Alike(x, y) /\ CancelledGood(y)
      BY <1>2, <2>2 DEF Alike, Revision, BaseState, CancelledGood, RunOf, HasRun
    <2>4. /\ e.ledger = d.ledger /\ e.reservations = d.reservations
          /\ e.missions = [d.missions EXCEPT ![m] = y]
      BY <1>2, <2>1 DEF Documents
    <2>5. /\ DOMAIN e.missions = DOMAIN d.missions /\ e.missions[m] = y
          /\ Len(e.missions) = Len(d.missions)
          /\ \A k \in DOMAIN d.missions : k # m => e.missions[k] = d.missions[k]
      BY <1>2, <2>4
    <2>6. \A k \in DOMAIN d.missions :
             /\ Alike(d.missions[k], e.missions[k]) /\ CancelledGood(e.missions[k])
             /\ e.missions[k].decisions = d.missions[k].decisions
      <3> TAKE k \in DOMAIN d.missions
      <3>1. CASE k = m
        BY <2>2, <2>3, <2>5, <3>1
      <3>2. CASE k # m
        <4>1. e.missions[k] = d.missions[k] /\ CancelledGood(d.missions[k])
          BY <2>5, <3>2 DEF StoreGood
        <4> QED BY <4>1 DEF Alike
      <3> QED BY <3>1, <3>2
    <2>7. IdsGood(e)
      <3>1. IdsGood(d) /\ Len(e.missions) <= MaxMissions
        BY <2>5 DEF StoreGood, IdsGood
      <3> QED BY <1>1, <2>4, <2>5, <2>6, <3>1, IdsKept
    <2> QED BY <1>1, <2>4, <2>5, <2>6, <2>7, StoreKept
  <1> QED BY <1>3, <1>4

LEMMA ControlStores ==
    ASSUME NEW d, RegistryGood(d), StoreGood(d), NEW m \in DOMAIN d.missions, NEW bound,
           NEW e \in RecordPause(d, m, bound) \cup RecordResume(d, m, bound)
                     \cup RecordCancel(d, m, "cancelled_before_intent", bound)
                     \cup CompleteCancel(d, m, "nothing_started", bound)
    PROVE  StoreGood(e)
  <1>0. /\ RegistryGood(e) /\ Grows(d, e) /\ e.authorizations = d.authorizations
        /\ DOMAIN e.missions = DOMAIN d.missions
        /\ \A k \in DOMAIN d.missions : e.missions[k].decisions = d.missions[k].decisions
    BY ControlKeeps
  <1>1. PICK r, state, l : ControlledTo(d.missions[m], r, state, l)
                           /\ e = Controlled(d, m, r, state, l)
    BY ControlIs
  <1> DEFINE x == d.missions[m]
             y == [x EXCEPT !.run = r, !.state = state, !.lifecycle = l]
  <1>2. /\ d \in Documents /\ d.missions \in Seq(MissionRecords) /\ x \in MissionRecords
        /\ CancelledGood(x)
    BY DocumentParts DEF RegistryGood, StoreGood
  <1>3. e = [d EXCEPT !.missions = [d.missions EXCEPT ![m] = y]]
    BY <1>1 DEF Controlled
  <1>4. /\ y.decisions = x.decisions /\ y.authorizations = x.authorizations
        /\ y.state = state /\ y.revisions = x.revisions /\ y.run = r /\ y.lifecycle = l
    BY <1>2 DEF MissionRecords
  <1> HIDE DEF y
  <1>5. ControlledTo(x, r, state, l)
    BY <1>1
  <1> HIDE DEF x
  <1>6. RunOf(y) = r
    <2>1. r.held
      BY <1>5 DEF ControlledTo, UnstartedRuns
    <2> QED BY <1>4, <2>1 DEF RunOf, HasRun
  <1>7. Alike(x, y) /\ CancelledGood(y)
    <2>1. CASE /\ state = x.state /\ l = x.lifecycle /\ r.cancel = RunOf(x).cancel
               /\ r.quiescence = RunOf(x).quiescence \/ state = "CANCELLED"
      BY <1>2, <1>4, <1>6, <2>1 DEF Alike, Revision, BaseState, CancelledGood
    <2>2. CASE /\ x.state = "AUTHORIZED" /\ state = "CANCELLED" /\ r.cancel # "none"
               /\ l = Append(x.lifecycle, CancelMove)
      <3>1. x.lifecycle = <<>>
        BY <1>2, <2>2 DEF CancelledGood
      <3>2. l = <<CancelMove>> /\ l # <<>>
        BY <2>2, <3>1
      <3> QED BY <1>4, <1>6, <2>2, <3>1, <3>2 DEF Alike, Revision, BaseState, CancelledGood
    <2> QED BY <1>5, <2>1, <2>2 DEF ControlledTo
  <1>8. /\ e.ledger = d.ledger /\ e.reservations = d.reservations
        /\ e.missions = [d.missions EXCEPT ![m] = y]
    BY <1>2, <1>3 DEF Documents
  <1>9. /\ e.missions[m] = y /\ Len(e.missions) = Len(d.missions)
        /\ \A k \in DOMAIN d.missions : k # m => e.missions[k] = d.missions[k]
    BY <1>2, <1>8
  <1>10. \A k \in DOMAIN d.missions :
            Alike(d.missions[k], e.missions[k]) /\ CancelledGood(e.missions[k])
    <2> TAKE k \in DOMAIN d.missions
    <2>1. CASE k = m
      BY <1>7, <1>9, <2>1 DEF x
    <2>2. CASE k # m
      <3>1. e.missions[k] = d.missions[k] /\ CancelledGood(d.missions[k])
        BY <1>9, <2>2 DEF StoreGood
      <3> QED BY <3>1 DEF Alike
    <2> QED BY <2>1, <2>2
  <1>11. IdsGood(e)
    <2>1. IdsGood(d) /\ Len(e.missions) <= MaxMissions
      BY <1>9 DEF StoreGood, IdsGood
    <2> QED BY <1>0, <1>8, <2>1, IdsKept
  <1> QED BY <1>0, <1>8, <1>10, <1>11, StoreKept

LEMMA DecideStores ==
    ASSUME NEW d, RegistryGood(d), StoreGood(d), NEW m \in DOMAIN d.missions,
           NEW ask \in AnyAsks, ask.kind = "EDIT" => ask.content \in Content, NEW t \in Nat,
           CanDecide(d, m, ask, t), NEW e, e = DecideIn(d, m, ask, t)
    PROVE  StoreGood(e)
  <1> DEFINE x == d.missions[m]
             y == e.missions[m]
             n == NoteExpirations(d, m, t)
             f == Effect(n, m, ask, t)
  <1>0. /\ RegistryGood(e) /\ Grows(d, e) /\ DOMAIN e.missions = DOMAIN d.missions
    BY DecideKeeps DEF Decided
  <1>1. PICK decision : DecidedAs(d, m, ask, t, n, f, decision, e)
    BY DecideIs
  <1> HIDE DEF n, f
  <1>2. /\ x \in MissionRecords /\ StateGood(x) /\ CancelledGood(x)
        /\ d.missions \in Seq(MissionRecords) /\ d.reservations \in Seq(Reserved)
        /\ DecisionsGood(x, d.reservations)
        /\ \A k \in DOMAIN d.missions : DecisionsGood(d.missions[k], d.reservations)
    BY DocumentParts DEF RegistryGood, MissionGood, StoreGood
  <1>3. /\ DecisionOpen(x) /\ ask.id \in DOMAIN d.reservations
        /\ d.reservations[ask.id].consumed = None /\ Len(x.decisions) < MaxDecisions
    BY DEF CanDecide, IsReserved, Unconsumed
  <1>4. x.lifecycle = <<>>
    BY <1>2, <1>3 DEF DecisionOpen, StateGood, CancelledGood
  <1>5. /\ ReplayGood(e, m) /\ LedgerAbout(e.ledger, e.authorizations)
        /\ \A k \in DOMAIN d.missions : k # m /\ ReplayGood(d, k) => ReplayGood(e, k)
        /\ \A k : k # m => Mine(e.ledger, k) = Mine(d.ledger, k)
        /\ y.lifecycle = <<>>
    <2>1. LedgerAbout(d.ledger, d.authorizations) /\ ReplayGood(d, m)
      BY DEF StoreGood, LedgerGood
    <2>2. d.missions[m].lifecycle = <<>>
      BY <1>4
    <2>3. ReplaysOn(d, m, e)
      BY <2>1, <2>2, DecideReplays
    <2> QED BY <2>3 DEF ReplaysOn
  <1>6. LedgerGood(e)
    <2>1. \A k \in Nat \ DOMAIN e.missions : Mine(e.ledger, k) = <<>>
      BY <1>0, <1>5 DEF StoreGood, LedgerGood
    <2> QED BY <1>5, <2>1 DEF LedgerGood
  <1>7. /\ decision.id = ask.id /\ decision \in Decisions
        /\ y.decisions = Append(x.decisions, decision) /\ y.run = f.document.missions[m].run
        /\ e.missions = [d.missions EXCEPT ![m] = y]
        /\ e.reservations = [d.reservations EXCEPT ![ask.id] =
                               [d.reservations[ask.id] EXCEPT !.consumed = ask.id]]
    BY <1>1 DEF DecidedAs, Asked
  <1>8. ~HasRun(y)
    BY <1>1 DEF DecidedAs, EffectGood, HasRun
  <1>9. /\ e.missions[m] = y /\ Len(e.missions) = Len(d.missions)
        /\ \A k \in DOMAIN d.missions : k # m => e.missions[k] = d.missions[k]
    BY <1>2, <1>7
  <1>10. CancelledGood(y)
    <2>1. StateGood(y)
      BY <1>0 DEF RegistryGood, MissionGood
    <2>2. y.state # "CANCELLED"
      BY <1>8, <2>1 DEF StateGood
    <2>3. RunOf(y) = NewRun
      BY <1>8 DEF RunOf
    <2> HIDE DEF y
    <2> QED BY <1>5, <2>2, <2>3 DEF CancelledGood, NewRun
  <1>11. /\ x.decisions \in Seq(Decisions)
         /\ DOMAIN x.decisions = 1 .. Len(x.decisions) /\ Len(x.decisions) \in Nat
         /\ DOMAIN y.decisions = 1 .. Len(x.decisions) + 1
         /\ Len(y.decisions) = Len(x.decisions) + 1
         /\ y.decisions[Len(x.decisions) + 1] = decision
         /\ \A j \in DOMAIN x.decisions : y.decisions[j] = x.decisions[j]
    <2>1. x.decisions \in Seq(Decisions)
      BY <1>2 DEF MissionRecords
    <2> QED BY <1>7, <2>1, ExtendsAppend
  <1> HIDE DEF x, y
  <1>12. \A k \in DOMAIN d.missions : \A j \in DOMAIN d.missions[k].decisions :
             d.missions[k].decisions[j].id # ask.id
    BY <1>2, <1>3 DEF DecisionsGood
  <1>13. \A j \in DOMAIN y.decisions :
             \/ j \in DOMAIN x.decisions /\ y.decisions[j] = x.decisions[j]
             \/ y.decisions[j].id = ask.id
    <2>1. \A j \in 1 .. Len(x.decisions) + 1 : j \in 1 .. Len(x.decisions) \/ j = Len(x.decisions) + 1
      BY <1>11
    <2> QED BY <1>7, <1>11, <2>1
  <1>14. IdsGood(e)
    <2>0. IdsGood(d)
      BY DEF StoreGood
    <2>1. Len(e.missions) <= MaxMissions
      BY <1>9, <2>0 DEF IdsGood
    <2>2. \A k \in DOMAIN e.missions : Len(e.missions[k].decisions) <= MaxDecisions
      <3> TAKE k \in DOMAIN e.missions
      <3>1. MaxDecisions \in Nat
        BY BoundsAssumption DEF Bounds
      <3>2. CASE k = m
        BY <1>3, <1>9, <1>11, <3>1, <3>2
      <3>3. CASE k # m
        BY <1>0, <1>9, <2>0, <3>3 DEF IdsGood
      <3> QED BY <3>2, <3>3
    <2>3. \* an id is old, and of a decision d holds of the same mission, or the new one
          \A k \in DOMAIN e.missions : \A j \in DOMAIN e.missions[k].decisions :
             LET id == e.missions[k].decisions[j].id IN
             \/ id = ask.id /\ k = m
             \/ /\ id # ask.id /\ k \in DOMAIN d.missions /\ j \in DOMAIN d.missions[k].decisions
                /\ d.missions[k].decisions[j].id = id
      <3> TAKE k \in DOMAIN e.missions
      <3> TAKE j \in DOMAIN e.missions[k].decisions
      <3>1. CASE k = m
        BY <1>0, <1>9, <1>12, <1>13, <3>1 DEF x
      <3>2. CASE k # m
        <4>1. e.missions[k] = d.missions[k] /\ k \in DOMAIN d.missions
          BY <1>0, <1>9, <3>2
        <4> QED BY <1>12, <4>1
      <3> QED BY <3>1, <3>2
    <2>4. ASSUME NEW k \in DOMAIN e.missions, NEW p \in DOMAIN e.missions,
                 NEW i \in DOMAIN e.missions[k].decisions, NEW j \in DOMAIN e.missions[p].decisions,
                 e.missions[k].decisions[i].id = e.missions[p].decisions[j].id
          PROVE  k = p
      BY <2>0, <2>3, <2>4 DEF IdsGood
    <2>5. ASSUME NEW i \in DOMAIN e.reservations, e.reservations[i].kind = "decision"
          PROVE  /\ e.reservations[i].consumed \in {None, i}
                 /\ e.reservations[i].consumed = i =>
                       \E k \in DOMAIN e.missions : \E j \in DOMAIN e.missions[k].decisions :
                          e.missions[k].decisions[j].id = i
      <3>1. CASE i = ask.id
        <4>1. d.reservations[ask.id] \in Reserved
          BY <1>2, <1>3
        <4>2. [d.reservations[ask.id] EXCEPT !.consumed = ask.id].consumed = ask.id
          BY <4>1 DEF Reserved
        <4>3. e.reservations[i].consumed = i
          BY <1>3, <1>7, <3>1, <4>2
        <4>4. Len(x.decisions) + 1 \in DOMAIN y.decisions
              /\ y.decisions[Len(x.decisions) + 1].id = i
          BY <1>7, <1>11, <3>1
        <4>5. m \in DOMAIN e.missions
          BY <1>0
        <4> QED BY <1>9, <4>3, <4>4, <4>5
      <3>2. CASE i # ask.id
        <4>1. i \in DOMAIN d.reservations /\ e.reservations[i] = d.reservations[i]
          BY <1>2, <1>7, <3>2
        <4>2. /\ e.reservations[i].consumed \in {None, i}
              /\ e.reservations[i].consumed = i =>
                    \E k \in DOMAIN d.missions : \E j \in DOMAIN d.missions[k].decisions :
                       d.missions[k].decisions[j].id = i
          BY <2>0, <2>5, <4>1 DEF IdsGood
        <4>3. \A k \in DOMAIN d.missions : \A j \in DOMAIN d.missions[k].decisions :
                 k \in DOMAIN e.missions /\ j \in DOMAIN e.missions[k].decisions
                 /\ e.missions[k].decisions[j] = d.missions[k].decisions[j]
          <5> TAKE k \in DOMAIN d.missions
          <5> TAKE j \in DOMAIN d.missions[k].decisions
          <5>1. CASE k = m
            <6>1. j \in 1 .. Len(x.decisions)
              BY <1>11, <5>1 DEF x
            <6>2. j \in DOMAIN y.decisions
              BY <1>11, <6>1
            <6> QED BY <1>0, <1>9, <1>11, <5>1, <6>1, <6>2 DEF x
          <5>2. CASE k # m
            BY <1>0, <1>9, <5>2
          <5> QED BY <5>1, <5>2
        <4> QED BY <4>2, <4>3
      <3> QED BY <3>1, <3>2
    <2> QED BY <2>1, <2>2, <2>4, <2>5 DEF IdsGood
  <1>15. ASSUME NEW k \in DOMAIN e.missions
         PROVE  ReplayGood(e, k) /\ CancelledGood(e.missions[k])
    <2>1. CASE k = m
      BY <1>5, <1>9, <1>10, <2>1
    <2>2. CASE k # m
      BY <1>0, <1>5, <1>9, <2>2 DEF StoreGood
    <2> QED BY <2>1, <2>2
  <1> QED BY <1>6, <1>14, <1>15 DEF StoreGood
=============================================================================
