-------------------------- MODULE RouteGuide_proofs --------------------------
(***************************************************************************)
(* The loops of the RouteGuide application are recursive functions.  They  *)
(* are total, for any database: a set of numbers has a least member, and   *)
(* so facts about a loop are proved by looking at the first number for     *)
(* which they would fail.                                                  *)
(***************************************************************************)
EXTENDS RouteGuide, FiniteSetTheorems, WellFoundedInduction, TLAPS

-----------------------------------------------------------------------------
(* Induction *)

LEMMA Least ==
  ASSUME NEW T \in SUBSET Nat, T # {}
  PROVE  \E m \in T : \A n \in T : m <= n
<1> DEFINE R == OpToRel(<, Nat)
<1>1. IsWellFoundedOn(R, Nat)
  BY NatLessThanWellFounded
<1>2. \A m, n \in Nat : m < n => <<m, n>> \in R
  BY DEF OpToRel
<1> HIDE DEF R
<1>3. \E x \in T : \A y \in T : ~ (<<y, x>> \in R)
  BY <1>1, WFMin
<1>4. PICK x \in T : \A y \in T : ~ (<<y, x>> \in R)
  BY <1>3
<1>5. \A y \in T : ~(y < x)
  BY <1>2, <1>4, Zenon
<1>6. QED
  BY <1>5

\* What holds of 0 and of every number whose predecessor it holds of holds of
\* them all: "holds" is the set of those of which it does.
LEMMA UpTo ==
  ASSUME NEW N \in Nat, NEW holds, 0 \in holds,
         \A n \in 1..N : n - 1 \in holds => n \in holds
  PROVE  \A n \in 0..N : n \in holds
<1> SUFFICES ASSUME (0..N) \ holds # {} PROVE FALSE
  OBVIOUS
<1>1. PICK m \in (0..N) \ holds : \A n \in (0..N) \ holds : m <= n
  <2>1. (0..N) \ holds \in SUBSET Nat
    OBVIOUS
  <2>2. QED
    BY <2>1, Least
<1>2. m \in 1..N
  BY <1>1
<1>3. m - 1 \in 0..N /\ ~(m <= m - 1)
  BY <1>2
<1>4. m - 1 \in holds
  BY <1>1, <1>3
<1>5. QED
  BY <1>1, <1>2, <1>4

\* The loops of the application: m steps, each from one value to the next.
Runs(V, first, Step, m, f) ==
  /\ f \in [0..m -> V]
  /\ f[0] = first
  /\ \A n \in 1..m : f[n] = Step[n][f[n - 1]]

LEMMA LoopExists ==
  ASSUME NEW N \in Nat, NEW V, NEW first \in V, NEW Step \in [1..N -> [V -> V]]
  PROVE  \E f : Runs(V, first, Step, N, f)
<1> DEFINE holds == {m \in 0..N : \E f : Runs(V, first, Step, m, f)}
<1>1. 0 \in holds
  <2>1. Runs(V, first, Step, 0, [n \in 0..0 |-> first])
    BY DEF Runs
  <2>2. QED
    BY <2>1
<1>2. ASSUME NEW m \in 1..N, m - 1 \in holds PROVE m \in holds
  <2>1. PICK f : Runs(V, first, Step, m - 1, f)
    BY <1>2
  <2>2. f \in [0..(m - 1) -> V]
    BY <2>1 DEF Runs
  <2>3. f[m - 1] \in V
    BY <2>2
  <2> DEFINE g == [n \in 0..m |-> IF n = m THEN Step[m][f[m - 1]] ELSE f[n]]
  <2>4. Step[m][f[m - 1]] \in V
    BY <2>3
  <2>5. g \in [0..m -> V]
    BY <2>2, <2>4
  <2>6. g[0] = first
    BY <2>1 DEF Runs
  <2>7. ASSUME NEW n \in 1..m PROVE g[n] = Step[n][g[n - 1]]
    <3>1. CASE n = m
      BY <3>1
    <3>2. CASE n # m
      <4>1. n \in 1..(m - 1) /\ n \in 0..m /\ n - 1 \in 0..m /\ n - 1 # m
        BY <3>2
      <4>2. g[n] = f[n] /\ g[n - 1] = f[n - 1]
        BY <3>2, <4>1
      <4>3. QED
        BY <2>1, <4>1, <4>2 DEF Runs
    <3>3. QED
      BY <3>1, <3>2
  <2> HIDE DEF g
  <2>8. Runs(V, first, Step, m, g)
    BY <2>5, <2>6, <2>7 DEF Runs
  <2>9. QED
    BY <2>8
<1> HIDE DEF holds
<1>3. \A n \in 0..N : n \in holds
  BY <1>1, <1>2, UpTo
<1>4. QED
  <2>1. N \in holds
    BY <1>3
  <2>2. QED
    BY <2>1 DEF holds

-----------------------------------------------------------------------------
(* ListFeatures *)

Features == {FeatureList[i] : i \in DOMAIN FeatureList}

\* A run of the loop of ListFeaturesProcessor.
Lister(rectangle, sent) ==
  sent = [n \in 0..Len(FeatureList) |->
            IF n = 0 THEN <<>>
            ELSE IF Inside(FeatureList[n].location, rectangle)
                 THEN Append(sent[n - 1], FeatureList[n])
                 ELSE sent[n - 1]]

LEMMA ListerExists ==
  ASSUME NEW rectangle
  PROVE  \E sent : Lister(rectangle, sent) /\ FeaturesIn(rectangle) = sent[Len(FeatureList)]
<1> DEFINE N == Len(FeatureList)
           Step == [n \in 1..N |-> [s \in Seq(Features) |->
                      IF Inside(FeatureList[n].location, rectangle)
                      THEN Append(s, FeatureList[n]) ELSE s]]
<1>1. N \in Nat /\ \A n \in 1..N : FeatureList[n] \in Features
  BY FeatureListAssumption DEF Features
<1>2. <<>> \in Seq(Features)
  OBVIOUS
<1>3. Step \in [1..N -> [Seq(Features) -> Seq(Features)]]
  BY <1>1
<1>4. PICK f : Runs(Seq(Features), <<>>, Step, N, f)
  <2>1. PICK V, first : V = Seq(Features) /\ first = <<>>
    OBVIOUS
  <2>2. first \in V /\ Step \in [1..N -> [V -> V]]
    BY <1>2, <1>3, <2>1
  <2>3. \E f : Runs(V, first, Step, N, f)
    <3> HIDE DEF Step, N
    <3>1. QED
      BY <1>1, <2>2, LoopExists
  <2>4. QED
    BY <2>1, <2>3
<1>5. Lister(rectangle, f)
  <2>1. \A n \in 0..N : f[n] = IF n = 0 THEN <<>>
            ELSE IF Inside(FeatureList[n].location, rectangle)
                 THEN Append(f[n - 1], FeatureList[n])
                 ELSE f[n - 1]
    <3>0. f[0] = <<>>
      BY <1>4 DEF Runs
    <3>1. ASSUME NEW n \in 1..N
          PROVE  f[n] = IF Inside(FeatureList[n].location, rectangle)
                        THEN Append(f[n - 1], FeatureList[n])
                        ELSE f[n - 1]
      <4>1. f[n - 1] \in Seq(Features) /\ f[n] = Step[n][f[n - 1]]
        <5> HIDE DEF Step, N
        <5>1. QED
          BY <1>1, <1>4 DEF Runs
      <4>2. QED
        BY <4>1
    <3>2. \A n \in 0..N : n = 0 \/ n \in 1..N
      BY <1>1
    <3>3. QED
      BY <3>0, <3>1, <3>2
  <2>2. f = [n \in 0..N |-> f[n]]
    BY <1>4 DEF Runs
  <2>3. QED
    BY <2>1, <2>2 DEF Lister
<1>6. QED
  BY <1>5 DEF FeaturesIn, Lister

-----------------------------------------------------------------------------
(* GetFeature *)

LEMMA FirstFeature ==
  ASSUME NEW point, NEW at, at = {i \in DOMAIN FeatureList : FeatureList[i].location = point}
  PROVE  IF at = {} THEN GetFeatureName(point) = ""
         ELSE \E i \in at : /\ \A k \in at : i <= k
                            /\ GetFeatureName(point) = FeatureList[i].name
<1>1. at \in SUBSET Nat
  BY FeatureListAssumption
<1>2. CASE at = {}
  BY <1>2 DEF GetFeatureName
<1>3. CASE at # {}
  <2>1. PICK i : i = CHOOSE n \in at : \A k \in at : n <= k
    OBVIOUS
  <2>2. i \in at /\ \A k \in at : i <= k
    BY <1>1, <1>3, <2>1, Least
  <2>3. GetFeatureName(point) = FeatureList[i].name
    BY <1>3, <2>1 DEF GetFeatureName
  <2>4. QED
    BY <1>3, <2>2, <2>3
<1>4. QED
  BY <1>2, <1>3

-----------------------------------------------------------------------------
(* RecordRoute *)

LEMMA DistanceIsNatural ==
  ASSUME NEW p, NEW q, IsPoint(p), IsPoint(q)
  PROVE  Distance(p, q) \in Nat
BY DEF IsPoint, Distance, Greater, Lesser

LEMMA NewStateIsState == NewRecordRouteState \in RecordRouteStates
BY DEF NewRecordRouteState, RecordRouteStates, Point
=============================================================================
