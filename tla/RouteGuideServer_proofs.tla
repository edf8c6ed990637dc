----------------------- MODULE RouteGuideServer_proofs -----------------------
(***************************************************************************)
(* The asynchronous RouteGuide server and the chat server are right for    *)
(* any number of jobs, any kinds of RPC, any route and any database.       *)
(* AsyncServer_proofs has what every server of the framework shares; here  *)
(* it is put together with the handlers of this server.                    *)
(***************************************************************************)
EXTENDS RouteGuideServer, AsyncServer_proofs, RouteGuide_proofs

-----------------------------------------------------------------------------
(* What the application computes is what the properties of                 *)
(* RouteGuideServer ask for, for any database, rectangle and route.        *)

LEMMA ListGrows ==
  ASSUME NEW n \in DOMAIN FeatureList, NEW chosen \in SUBSET (1..(n - 1)),
         NEW list \in Seq(Features), ListsInOrder(list, chosen),
         NEW more, more = Append(list, FeatureList[n])
  PROVE  ListsInOrder(more, chosen \cup {n})
<1>1. PICK at \in [DOMAIN list -> chosen] :
        /\ \A k \in DOMAIN list : list[k] = FeatureList[at[k]]
        /\ \A k, m \in DOMAIN list : k < m => at[k] < at[m]
        /\ \A i \in chosen : \E k \in DOMAIN list : at[k] = i
  BY DEF ListsInOrder
<1>2. n \in Nat /\ n > 0 /\ \A i \in chosen : i \in Nat /\ i < n
  BY FeatureListAssumption
<1>3. PICK L \in Nat : L = Len(list)
  OBVIOUS
<1>4. /\ DOMAIN list = 1..L /\ DOMAIN more = 1..(L + 1)
      /\ \A k \in 1..L : more[k] = list[k]
      /\ more[L + 1] = FeatureList[n]
  BY <1>3
<1> DEFINE to == [k \in 1..(L + 1) |-> IF k = L + 1 THEN n ELSE at[k]]
<1>5. \A k \in 1..(L + 1) : k = L + 1 \/ k \in 1..L
  OBVIOUS
<1>6. /\ \A k \in 1..L : to[k] = at[k] /\ k \in 1..(L + 1)
      /\ to[L + 1] = n /\ L + 1 \in 1..(L + 1)
  OBVIOUS
<1>7. to \in [1..(L + 1) -> chosen \cup {n}]
  BY <1>1, <1>4, <1>5
<1> HIDE DEF to
<1>8. \A k \in 1..(L + 1) : more[k] = FeatureList[to[k]]
  BY <1>1, <1>4, <1>5, <1>6
<1>9. ASSUME NEW k \in 1..(L + 1), NEW m \in 1..(L + 1), k < m
      PROVE  to[k] < to[m]
  <2>1. k \in 1..L /\ at[k] \in chosen /\ to[k] = at[k]
    BY <1>1, <1>4, <1>6, <1>9
  <2>2. CASE m = L + 1
    BY <1>2, <1>6, <2>1, <2>2
  <2>3. CASE m \in 1..L
    BY <1>1, <1>4, <1>6, <1>9, <2>1, <2>3
  <2>4. QED
    BY <1>5, <2>2, <2>3
<1>10. ASSUME NEW i \in chosen \cup {n} PROVE \E k \in 1..(L + 1) : to[k] = i
  <2>1. CASE i = n
    BY <1>6, <2>1
  <2>2. CASE i \in chosen
    BY <1>1, <1>4, <1>6, <2>2
  <2>3. QED
    BY <2>1, <2>2
<1>11. /\ to \in [DOMAIN more -> chosen \cup {n}]
       /\ \A k \in DOMAIN more : more[k] = FeatureList[to[k]]
       /\ \A k, m \in DOMAIN more : k < m => to[k] < to[m]
       /\ \A i \in chosen \cup {n} : \E k \in DOMAIN more : to[k] = i
  BY <1>4, <1>7, <1>8, <1>9, <1>10
<1>12. QED
  BY <1>11 DEF ListsInOrder

(* ListFeatures sends the features inside the rectangle, in their order.   *)
LEMMA FeaturesAreListed ==
  ASSUME NEW rectangle
  PROVE  /\ FeaturesIn(rectangle) \in Seq(Features)
         /\ ListsInOrder(FeaturesIn(rectangle),
                         {i \in DOMAIN FeatureList :
                            Inside(FeatureList[i].location, rectangle)})
<1> DEFINE N == Len(FeatureList)
           In(n) == {i \in 1..n : Inside(FeatureList[i].location, rectangle)}
<1>1. PICK sent : Lister(rectangle, sent) /\ FeaturesIn(rectangle) = sent[N]
  BY ListerExists
<1>2. /\ N \in Nat /\ DOMAIN FeatureList = 1..N
      /\ \A n \in 1..N : FeatureList[n] \in Features
  BY FeatureListAssumption DEF Features
<1>3. /\ sent[0] = <<>>
      /\ \A n \in 1..N : /\ n - 1 \in 0..N /\ n \in 0..N
                         /\ sent[n] = IF Inside(FeatureList[n].location, rectangle)
                                      THEN Append(sent[n - 1], FeatureList[n])
                                      ELSE sent[n - 1]
  <2>1. \A n \in 0..N : sent[n] =
            IF n = 0 THEN <<>>
            ELSE IF Inside(FeatureList[n].location, rectangle)
                 THEN Append(sent[n - 1], FeatureList[n])
                 ELSE sent[n - 1]
    BY <1>1 DEF Lister
  <2>2. \A n \in 1..N : n - 1 \in 0..N /\ n \in 0..N /\ n # 0
    BY <1>2
  <2>3. QED
    BY <1>2, <2>1, <2>2
<1> DEFINE holds == {n \in 0..N : sent[n] \in Seq(Features) /\ ListsInOrder(sent[n], In(n))}
<1>4. 0 \in holds
  <2>1. In(0) = {}
    OBVIOUS
  <2>2. ListsInOrder(<<>>, {})
    <3>1. PICK list : list = <<>> /\ DOMAIN list = {}
      OBVIOUS
    <3>2. [k \in {} |-> k] \in [{} -> {}]
      OBVIOUS
    <3>3. ListsInOrder(list, {})
      BY <3>1, <3>2 DEF ListsInOrder
    <3>4. QED
      BY <3>1, <3>3
  <2>3. <<>> \in Seq(Features)
    OBVIOUS
  <2> HIDE DEF In, N
  <2>4. QED
    <3>1. ListsInOrder(sent[0], In(0)) /\ sent[0] \in Seq(Features)
      BY <1>3, <2>1, <2>2, <2>3
    <3>2. 0 \in 0..N
      BY <1>2
    <3>3. QED
      BY <3>1, <3>2
<1>5. ASSUME NEW n \in 1..N, n - 1 \in holds PROVE n \in holds
  <2>1. sent[n - 1] \in Seq(Features) /\ ListsInOrder(sent[n - 1], In(n - 1))
    BY <1>5
  <2>2. CASE Inside(FeatureList[n].location, rectangle)
    <3>1. In(n) = In(n - 1) \cup {n}
      BY <1>2, <2>2
    <3>2. In(n - 1) \in SUBSET (1..(n - 1))
      OBVIOUS
    <3>3. sent[n] = Append(sent[n - 1], FeatureList[n])
      BY <1>3, <2>2
    <3>4. PICK list, more, chosen : /\ list = sent[n - 1] /\ more = sent[n]
                                    /\ chosen = In(n - 1)
      OBVIOUS
    <3> HIDE DEF In, N
    <3>5. list \in Seq(Features) /\ more = Append(list, FeatureList[n])
      BY <2>1, <3>3, <3>4
    <3>6. ListsInOrder(more, chosen \cup {n})
      BY <1>2, <2>1, <3>2, <3>4, <3>5, ListGrows
    <3>7. more \in Seq(Features)
      BY <1>2, <3>5
    <3>8. QED
      BY <1>3, <3>1, <3>4, <3>6, <3>7
  <2>3. CASE ~Inside(FeatureList[n].location, rectangle)
    <3>1. In(n) = In(n - 1)
      BY <1>2, <2>3
    <3>2. sent[n] = sent[n - 1]
      BY <1>3, <2>3
    <3> HIDE DEF In, N
    <3>3. QED
      BY <1>3, <2>1, <3>1, <3>2
  <2>4. QED
    BY <2>2, <2>3
<1> HIDE DEF holds
<1>6. \A n \in 0..N : n \in holds
  BY <1>2, <1>4, <1>5, UpTo
<1>7. N \in holds
  BY <1>2, <1>6
<1>8. QED
  BY <1>1, <1>2, <1>7 DEF holds

(* Between the corners and inside the rectangle are the same.              *)
LEMMA InsideIsBetween ==
  ASSUME NEW p, NEW lo, NEW hi, IsPoint(p), IsPoint(lo), IsPoint(hi),
         NEW rectangle, rectangle.lo = lo, rectangle.hi = hi
  PROVE  Inside(p, rectangle) <=>
           /\ Between(lo.latitude, p.latitude, hi.latitude)
           /\ Between(lo.longitude, p.longitude, hi.longitude)
<1>1. ASSUME NEW a \in Int, NEW x \in Int, NEW b \in Int
      PROVE  Between(a, x, b) <=> Lesser(a, b) <= x /\ x <= Greater(a, b)
  <2>1. ASSUME NEW u \in Int, NEW v \in Int
        PROVE  u * v <= 0 <=> \/ u <= 0 /\ v >= 0
                              \/ u >= 0 /\ v <= 0
    <3>1. u > 0 /\ v > 0 => u * v > 0
      OBVIOUS
    <3>2. u < 0 /\ v < 0 => u * v > 0
      OBVIOUS
    <3>3. u <= 0 /\ v >= 0 => u * v <= 0
      OBVIOUS
    <3>4. u >= 0 /\ v <= 0 => u * v <= 0
      OBVIOUS
    <3>5. QED
      BY <3>1, <3>2, <3>3, <3>4
  <2>2. PICK u \in Int, v \in Int : u = a - x /\ v = b - x
    OBVIOUS
  <2>3. Between(a, x, b) <=> u * v <= 0
    BY <2>2 DEF Between
  <2>4. QED
    BY <2>1, <2>2, <2>3 DEF Lesser, Greater
<1>2. QED
  BY <1>1 DEF IsPoint, Inside

(* GetFeature answers with the point it is asked for, and with the name of *)
(* a feature there if there is one.                                        *)
LEMMA PointIsNamed ==
  ASSUME NEW point
  PROVE  /\ FeatureAt(point).location = point
         /\ \/ \E i \in DOMAIN FeatureList :
                 /\ FeatureList[i].location = point
                 /\ FeatureList[i].name = FeatureAt(point).name
            \/ /\ FeatureAt(point).name = ""
               /\ \A i \in DOMAIN FeatureList : FeatureList[i].location # point
         /\ GetFeatureName(point) # "" <=> NamedPoint(point)
<1>1. PICK at : at = {i \in DOMAIN FeatureList : FeatureList[i].location = point}
  OBVIOUS
<1>2. /\ FeatureAt(point).location = point
      /\ FeatureAt(point).name = GetFeatureName(point)
  BY DEF FeatureAt
<1>3. CASE at = {}
  <2>1. GetFeatureName(point) = ""
    BY <1>1, <1>3, FirstFeature
  <2>2. \A i \in DOMAIN FeatureList : FeatureList[i].location # point
    BY <1>1, <1>3
  <2>3. ~NamedPoint(point)
    BY <2>2 DEF NamedPoint
  <2>4. QED
    BY <1>2, <2>1, <2>2, <2>3
<1>4. CASE at # {}
  <2>1. PICK i \in at : /\ \A k \in at : i <= k
                        /\ GetFeatureName(point) = FeatureList[i].name
    BY <1>1, <1>4, FirstFeature
  <2>2. /\ i \in DOMAIN FeatureList /\ FeatureList[i].location = point
        /\ \A k \in DOMAIN FeatureList : FeatureList[k].location = point => i <= k
    BY <1>1, <2>1
  <2>3. ASSUME NEW k \in DOMAIN FeatureList, FeatureList[k].location = point,
               \A l \in DOMAIN FeatureList : FeatureList[l].location = point => k <= l
        PROVE  k = i
    <3>1. k <= i /\ i <= k
      BY <2>2, <2>3
    <3>2. k \in Nat /\ i \in Nat
      BY <2>2, FeatureListAssumption
    <3>3. QED
      BY <3>1, <3>2
  <2>4. NamedPoint(point) <=> FeatureList[i].name # ""
    BY <2>2, <2>3 DEF NamedPoint
  <2>5. QED
    BY <1>2, <2>1, <2>2, <2>4
<1>5. QED
  BY <1>3, <1>4

RouteHasPoints == \A i \in DOMAIN Route : IsPoint(Route[i])

(* The length of the route so far is that of the route before, and that of *)
(* the last leg.                                                           *)
LEMMA RouteLengthGrows ==
  ASSUME RouteHasPoints
  PROVE  /\ RouteLength[0] = 0
         /\ \A n \in 1..Len(Route) :
              /\ RouteLength[n] = IF n < 2 THEN 0
                                  ELSE RouteLength[n - 1] + Distance(Route[n - 1], Route[n])
              /\ RouteLength[n - 1] \in Nat
              /\ RouteLength[n] \in Nat
<1> DEFINE N == Len(Route)
           Leg(n) == IF n < 2 THEN 0 ELSE Distance(Route[n - 1], Route[n])
           Step == [n \in 1..N |-> [s \in Nat |-> IF n < 2 THEN 0 ELSE s + Leg(n)]]
           Adds(f) == f = [n \in 0..N |->
                             IF n < 2 THEN 0 ELSE f[n - 1] + Distance(Route[n - 1], Route[n])]
<1>1. N \in Nat /\ DOMAIN Route = 1..N
  BY RouteAssumption
<1>2. \A n \in 1..N : Leg(n) \in Nat
  <2> SUFFICES ASSUME NEW n \in 1..N, ~(n < 2) PROVE Distance(Route[n - 1], Route[n]) \in Nat
    OBVIOUS
  <2>1. n - 1 \in 1..N
    BY <1>1
  <2>2. QED
    BY <1>1, <2>1, DistanceIsNatural DEF RouteHasPoints
<1>3. Step \in [1..N -> [Nat -> Nat]]
  <2> HIDE DEF Leg, N
  <2>1. QED
    BY <1>2
<1>4. PICK f : Runs(Nat, 0, Step, N, f)
  <2> HIDE DEF Step, N
  <2>1. QED
    BY <1>1, <1>3, LoopExists
<1>5. Adds(f)
  <2>1. f \in [0..N -> Nat] /\ f[0] = 0 /\ \A n \in 1..N : f[n] = Step[n][f[n - 1]]
    BY <1>4 DEF Runs
  <2>2. ASSUME NEW n \in 1..N
        PROVE  f[n] = IF n < 2 THEN 0 ELSE f[n - 1] + Distance(Route[n - 1], Route[n])
    <3>1. f[n - 1] \in Nat
      <4> HIDE DEF N
      <4>1. QED
        BY <1>1, <2>1
    <3>2. QED
      BY <2>1, <3>1
  <2> HIDE DEF N, Step
  <2>3. \A n \in 0..N : n = 0 \/ n \in 1..N
    BY <1>1
  <2>4. ASSUME NEW n \in 0..N
        PROVE  f[n] = IF n < 2 THEN 0 ELSE f[n - 1] + Distance(Route[n - 1], Route[n])
    <3>1. CASE n = 0
      BY <2>1, <3>1
    <3>2. CASE n \in 1..N
      BY <2>2, <3>2
    <3>3. QED
      BY <2>3, <3>1, <3>2
  <2>5. f = [n \in 0..N |-> f[n]]
    BY <2>1
  <2>6. QED
    BY <2>4, <2>5
<1>6. Adds(RouteLength)
  BY <1>5 DEF RouteLength
<1>7. /\ RouteLength[0] = 0
      /\ \A n \in 1..N : RouteLength[n] = IF n < 2 THEN 0 ELSE RouteLength[n - 1] + Leg(n)
  <2>1. \A n \in 0..N : RouteLength[n] =
          IF n < 2 THEN 0 ELSE RouteLength[n - 1] + Distance(Route[n - 1], Route[n])
    BY <1>6
  <2>2. 0 \in 0..N /\ 0 < 2 /\ \A n \in 1..N : n \in 0..N
    BY <1>1
  <2> HIDE DEF N
  <2>3. QED
    BY <2>1, <2>2
<1> DEFINE holds == {n \in 0..N : RouteLength[n] \in Nat}
<1>8. \A n \in 0..N : n \in holds
  <2>1. 0 \in holds
    BY <1>1, <1>7
  <2>2. \A n \in 1..N : n - 1 \in holds => n \in holds
    <3> HIDE DEF Leg, N
    <3>1. QED
      BY <1>1, <1>2, <1>7
  <2> HIDE DEF holds, N
  <2>3. QED
    BY <1>1, <2>1, <2>2, UpTo
<1>9. \A n \in 1..N : n - 1 \in 0..N /\ n \in 0..N
  BY <1>1
<1>10. \A n \in 1..N : RouteLength[n - 1] \in Nat /\ RouteLength[n] \in Nat
  <2> HIDE DEF N
  <2>1. QED
    BY <1>8, <1>9
<1>11. QED
  BY <1>7, <1>10

NamedPoints(n) == {i \in 1..n : NamedPoint(Route[i])}

LEMMA NamedPointsGrow ==
  ASSUME NEW n \in Nat, n > 0
  PROVE  /\ Cardinality(NamedPoints(n - 1)) \in Nat
         /\ Cardinality(NamedPoints(n)) =
              Cardinality(NamedPoints(n - 1)) + (IF NamedPoint(Route[n]) THEN 1 ELSE 0)
<1>1. IsFiniteSet(1..(n - 1))
  BY FS_Interval
<1>2. /\ IsFiniteSet(NamedPoints(n - 1))
      /\ Cardinality(NamedPoints(n - 1)) \in Nat
  BY <1>1, FS_Subset, FS_CardinalityType DEF NamedPoints
<1>3. CASE NamedPoint(Route[n])
  <2>1. NamedPoints(n) = NamedPoints(n - 1) \cup {n} /\ n \notin NamedPoints(n - 1)
    BY <1>3 DEF NamedPoints
  <2>2. QED
    BY <1>2, <1>3, <2>1, FS_AddElement
<1>4. CASE ~NamedPoint(Route[n])
  <2>1. NamedPoints(n) = NamedPoints(n - 1)
    BY <1>4 DEF NamedPoints
  <2>2. QED
    BY <1>2, <1>4, <2>1
<1>5. QED
  BY <1>3, <1>4

\* No point of the first n of the route is missing from the state, or from
\* the summary.
Covers(state, n) ==
  /\ state.pointCount >= n
  /\ state.featureCount >= Cardinality(NamedPoints(n))
  /\ state.distance >= RouteLength[n]

SummaryCovers(summary, n) ==
  /\ summary.point_count >= n
  /\ summary.feature_count >= Cardinality(NamedPoints(n))
  /\ summary.distance >= RouteLength[n]
  /\ n > 0 => summary.elapsed_since = "firstPoint"

\* A state that has recorded a point.
Recorded(state) ==
  /\ state \in RecordRouteStates
  /\ state.pointCount > 0
  /\ state.startTime = "firstPoint"

LEMMA NothingIsCovered ==
  ASSUME NEW state \in RecordRouteStates, RouteHasPoints
  PROVE  Covers(state, 0)
<1>1. NamedPoints(0) = {}
  BY DEF NamedPoints
<1>2. Cardinality(NamedPoints(0)) = 0
  BY <1>1, FS_EmptySet
<1>3. RouteLength[0] = 0
  BY RouteLengthGrows
<1>4. QED
  BY <1>2, <1>3 DEF Covers, RecordRouteStates

(* RecordRouteProcessor adds the next point of the route.                  *)
LEMMA PointIsCovered ==
  ASSUME RouteHasPoints, NEW n \in 1..Len(Route),
         NEW state, state = NewRecordRouteState \/ Recorded(state),
         Covers(state, n - 1),
         n > 1 => Recorded(state) /\ state.previous = Route[n - 1],
         NEW after, after = RecordPoint(state, Route[n])
  PROVE  Recorded(after) /\ after.previous = Route[n] /\ Covers(after, n)
<1>1. /\ state \in RecordRouteStates
      /\ state.pointCount > 0 => state.startTime = "firstPoint"
  <2>1. NewRecordRouteState.pointCount = 0
    BY DEF NewRecordRouteState
  <2>2. QED
    BY <2>1, NewStateIsState DEF Recorded
<1>2. /\ state.pointCount \in Nat /\ state.featureCount \in Nat /\ state.distance \in Nat
      /\ IsPoint(state.previous)
  BY <1>1 DEF RecordRouteStates, IsPoint
<1>3. IsPoint(Route[n]) /\ n \in Nat
  BY RouteAssumption DEF RouteHasPoints
<1>4. PICK d \in Nat : d = Distance(state.previous, Route[n])
  BY <1>2, <1>3, DistanceIsNatural
<1>5. PICK named \in {0, 1} : named = IF GetFeatureName(Route[n]) = "" THEN 0 ELSE 1
  OBVIOUS
<1>6. after = [pointCount   |-> state.pointCount + 1,
               featureCount |-> state.featureCount + named,
               distance     |-> state.distance + (IF state.pointCount = 0 THEN 0 ELSE d),
               previous     |-> Route[n],
               startTime    |-> IF state.pointCount = 0 THEN "firstPoint" ELSE state.startTime]
  BY <1>4, <1>5 DEF RecordPoint
<1>7. /\ after.pointCount = state.pointCount + 1
      /\ after.featureCount = state.featureCount + named
      /\ after.distance = state.distance + (IF state.pointCount = 0 THEN 0 ELSE d)
      /\ after.previous = Route[n]
      /\ after.startTime = "firstPoint"
  BY <1>1, <1>2, <1>6
<1>8. after \in RecordRouteStates
  <2>1. PICK count, features, distance :
          /\ count = state.pointCount + 1
          /\ features = state.featureCount + named
          /\ distance = state.distance + (IF state.pointCount = 0 THEN 0 ELSE d)
    OBVIOUS
  <2>2. count \in Nat /\ features \in Nat
    <3>1. \A m \in Nat : m + 1 \in Nat /\ m + named \in Nat
      OBVIOUS
    <3>2. QED
      BY <1>2, <2>1, <3>1
  <2>3. distance \in Nat
    <3>1. CASE state.pointCount = 0
      BY <1>2, <2>1, <3>1
    <3>2. CASE state.pointCount # 0
      BY <1>2, <2>1, <3>2
    <3>3. QED
      BY <3>1, <3>2
  <2>4. after = [pointCount |-> count, featureCount |-> features, distance |-> distance,
                 previous |-> Route[n], startTime |-> "firstPoint"]
    BY <1>1, <1>2, <1>6, <2>1
  <2>5. QED
    BY <1>3, <2>2, <2>3, <2>4 DEF RecordRouteStates, IsPoint
<1>9. Recorded(after)
  BY <1>2, <1>7, <1>8 DEF Recorded
<1>10. after.featureCount >= Cardinality(NamedPoints(n))
  <2>1. /\ Cardinality(NamedPoints(n - 1)) \in Nat
        /\ Cardinality(NamedPoints(n)) =
             Cardinality(NamedPoints(n - 1)) + (IF NamedPoint(Route[n]) THEN 1 ELSE 0)
    BY <1>3, NamedPointsGrow
  <2>2. named = IF NamedPoint(Route[n]) THEN 1 ELSE 0
    BY <1>5, PointIsNamed
  <2>3. QED
    BY <1>2, <1>7, <2>1, <2>2 DEF Covers
<1>11. after.distance >= RouteLength[n]
  <2>1. /\ RouteLength[n] = IF n < 2 THEN 0
                            ELSE RouteLength[n - 1] + Distance(Route[n - 1], Route[n])
        /\ RouteLength[n - 1] \in Nat
    BY RouteLengthGrows
  <2>2. CASE n > 1
    <3>1. state.pointCount # 0 /\ d = Distance(Route[n - 1], Route[n])
      BY <1>2, <1>4, <2>2 DEF Recorded
    <3>2. RouteLength[n] = RouteLength[n - 1] + d
      BY <1>3, <2>1, <2>2, <3>1
    <3>3. QED
      BY <1>2, <1>7, <2>1, <3>1, <3>2 DEF Covers
  <2>3. CASE ~(n > 1)
    BY <1>2, <1>3, <1>7, <2>1, <2>3
  <2>4. QED
    BY <2>2, <2>3
<1>12. after.pointCount >= n
  BY <1>2, <1>3, <1>7 DEF Covers
<1>13. QED
  BY <1>7, <1>9, <1>10, <1>11, <1>12 DEF Covers

LEMMA SummaryIsCovered ==
  ASSUME NEW n, NEW state, Covers(state, n), n > 0 => Recorded(state)
  PROVE  SummaryCovers(RouteSummary(state), n)
BY DEF Covers, SummaryCovers, RouteSummary, Recorded

-----------------------------------------------------------------------------
(* The turns of the processor thread *)

\* What the handler of operation op of job j makes of the job.
HandlerResult(j, op, ok, r) ==
  \/ /\ op = "QUEUED_REQUEST" /\ job[j].type = "Unary"
     /\ r = UnaryOnRead(job[j], ok, FeatureAt(job[j].mRequest))
  \/ /\ op = "QUEUED_REQUEST" /\ job[j].type = "ServerStreaming"
     /\ r = ServerStreamingOnRead(job[j], ok, FeaturesIn(job[j].mRequest))
  \/ /\ op = "QUEUED_REQUEST" /\ job[j].type = "ClientStreaming"
     /\ r = ClientStreamingOnInit(job[j], ok)
  \/ /\ op = "QUEUED_REQUEST" /\ job[j].type = "Bidirectional"
     /\ r = BidirectionalOnInit(job[j], ok)
  \/ /\ op = "READ" /\ job[j].type = "ClientStreaming"
     /\ r = ClientStreamingOnRead(job[j], ok, RouteSummary(RecordRouteState(j)))
  \/ /\ op = "READ" /\ job[j].type = "Bidirectional"
     /\ r = BidirectionalOnRead(job[j], ok)
  \/ /\ op = "WRITE" /\ job[j].type \in {"ServerStreaming", "Bidirectional"}
     /\ r = ResponseWritten(job[j], ok)
  \/ op = "FINISH" /\ r = OnFinish(job[j])
  \/ op = "DONE" /\ r = OnDone(job[j])

\* What it makes of the application's map.
MapResult(j, op, ok, r) ==
  mRecordStateMap' =
    IF op = "READ" /\ job[j].type = "ClientStreaming"
    THEN [mRecordStateMap EXCEPT ![j] = RecordRouteEntry(j, r, ok)]
    ELSE mRecordStateMap

LEMMA TagIsTurn ==
  ASSUME IInv, ProcessTag
  PROVE  \E j, op, ok, r : /\ Turn(j, op, ok, r)
                           /\ HandlerResult(j, op, ok, r)
                           /\ MapResult(j, op, ok, r)
<1>1. PICK j, op, ok : j = Head(tags).job /\ op = Head(tags).op /\ ok = Head(tags).ok
  OBVIOUS
<1>2. tags # <<>> => Head(tags) = [job |-> j, op |-> op, ok |-> ok]
  <2>1. tags # <<>> => Head(tags) \in TagInfo
    BY DEF IInv, TypeOK
  <2>2. QED
    BY <1>1, <2>1 DEF TagInfo
<1>3. ASSUME NEW types, NEW o, Front(types, o)
      PROVE  tags # <<>> /\ op = o /\ job[j].type \in types
  BY <1>1, <1>3 DEF Front
<1>4. CASE GetFeatureOnRead
  <2>1. Front({"Unary"}, "QUEUED_REQUEST")
    BY <1>4 DEF GetFeatureOnRead
  <2>2. PICK r : /\ r = UnaryOnRead(job[j], ok, FeatureAt(job[j].mRequest))
                 /\ AcceptStep(j, r)
    BY <1>1, <1>4 DEF GetFeatureOnRead
  <2>3. mRecordStateMap' = mRecordStateMap
    BY <1>4 DEF GetFeatureOnRead
  <2>4. QED
    BY <1>2, <1>3, <2>1, <2>2, <2>3 DEF Turn, HandlerResult, MapResult
<1>5. CASE ListFeaturesOnRead
  <2>1. Front({"ServerStreaming"}, "QUEUED_REQUEST")
    BY <1>5 DEF ListFeaturesOnRead
  <2>2. PICK r : /\ r = ServerStreamingOnRead(job[j], ok, FeaturesIn(job[j].mRequest))
                 /\ AcceptStep(j, r)
    BY <1>1, <1>5 DEF ListFeaturesOnRead
  <2>3. mRecordStateMap' = mRecordStateMap
    BY <1>5 DEF ListFeaturesOnRead
  <2>4. QED
    BY <1>2, <1>3, <2>1, <2>2, <2>3 DEF Turn, HandlerResult, MapResult
<1>6. CASE ListFeaturesOnWrite \/ RouteChatOnWrite
  <2>1. Front({"ServerStreaming"}, "WRITE") \/ Front({"Bidirectional"}, "WRITE")
    BY <1>6 DEF ListFeaturesOnWrite, RouteChatOnWrite
  <2>2. PICK r : r = ResponseWritten(job[j], ok) /\ HandlerStep(j, r)
    BY <1>1, <1>6 DEF ListFeaturesOnWrite, ServerStreamingOnWrite,
                      RouteChatOnWrite, BidirectionalOnWrite
  <2>3. mRecordStateMap' = mRecordStateMap
    BY <1>6 DEF ListFeaturesOnWrite, RouteChatOnWrite
  <2>4. QED
    BY <1>2, <1>3, <2>1, <2>2, <2>3 DEF Turn, HandlerResult, MapResult
<1>7. CASE RecordRouteOnInit
  <2>1. Front({"ClientStreaming"}, "QUEUED_REQUEST")
    BY <1>7 DEF RecordRouteOnInit
  <2>2. PICK r : r = ClientStreamingOnInit(job[j], ok) /\ AcceptStep(j, r)
    BY <1>1, <1>7 DEF RecordRouteOnInit
  <2>3. mRecordStateMap' = mRecordStateMap
    BY <1>7 DEF RecordRouteOnInit
  <2>4. QED
    BY <1>2, <1>3, <2>1, <2>2, <2>3 DEF Turn, HandlerResult, MapResult
<1>8. CASE RecordRouteOnRead
  <2>1. Front({"ClientStreaming"}, "READ")
    BY <1>8 DEF RecordRouteOnRead
  <2>2. PICK r : /\ r = ClientStreamingOnRead(job[j], ok, RouteSummary(RecordRouteState(j)))
                 /\ HandlerStep(j, r)
                 /\ mRecordStateMap' =
                      [mRecordStateMap EXCEPT ![j] = RecordRouteEntry(j, r, ok)]
    BY <1>1, <1>8 DEF RecordRouteOnRead
  <2>3. op = "READ" /\ job[j].type = "ClientStreaming" /\ tags # <<>>
    BY <1>3, <2>1
  <2>4. MapResult(j, op, ok, r)
    BY <2>2, <2>3 DEF MapResult
  <2>5. HandlerResult(j, op, ok, r)
    BY <2>2, <2>3 DEF HandlerResult
  <2>6. Turn(j, op, ok, r)
    BY <1>2, <2>2, <2>3 DEF Turn
  <2>7. QED
    BY <2>4, <2>5, <2>6
<1>9. CASE RouteChatOnInit
  <2>1. Front({"Bidirectional"}, "QUEUED_REQUEST")
    BY <1>9 DEF RouteChatOnInit
  <2>2. PICK r : r = BidirectionalOnInit(job[j], ok) /\ AcceptStep(j, r)
    BY <1>1, <1>9 DEF RouteChatOnInit
  <2>3. mRecordStateMap' = mRecordStateMap
    BY <1>9 DEF RouteChatOnInit
  <2>4. QED
    BY <1>2, <1>3, <2>1, <2>2, <2>3 DEF Turn, HandlerResult, MapResult
<1>10. CASE RouteChatOnRead
  <2>1. Front({"Bidirectional"}, "READ")
    BY <1>10 DEF RouteChatOnRead
  <2>2. PICK r : r = BidirectionalOnRead(job[j], ok) /\ HandlerStep(j, r)
    BY <1>1, <1>10 DEF RouteChatOnRead
  <2>3. mRecordStateMap' = mRecordStateMap
    BY <1>10 DEF RouteChatOnRead
  <2>4. QED
    BY <1>2, <1>3, <2>1, <2>2, <2>3 DEF Turn, HandlerResult, MapResult
<1>11. CASE JobOnFinish
  <2>1. Front(RpcTypes, "FINISH")
    BY <1>11 DEF JobOnFinish
  <2>2. PICK r : r = OnFinish(job[j]) /\ HandlerStep(j, r)
    BY <1>1, <1>11 DEF JobOnFinish
  <2>3. mRecordStateMap' = mRecordStateMap
    BY <1>11 DEF JobOnFinish
  <2>4. QED
    BY <1>2, <1>3, <2>1, <2>2, <2>3 DEF Turn, HandlerResult, MapResult
<1>12. CASE JobOnDone
  <2>1. Front(RpcTypes, "DONE")
    BY <1>12 DEF JobOnDone
  <2>2. PICK r : r = OnDone(job[j]) /\ HandlerStep(j, r)
    BY <1>1, <1>12 DEF JobOnDone
  <2>3. mRecordStateMap' = mRecordStateMap
    BY <1>12 DEF JobOnDone
  <2>4. QED
    BY <1>2, <1>3, <2>1, <2>2, <2>3 DEF Turn, HandlerResult, MapResult
<1>13. QED
  BY <1>4, <1>5, <1>6, <1>7, <1>8, <1>9, <1>10, <1>11, <1>12 DEF ProcessTag

(* Every handler treats the operation of its tag as Handled says.          *)
LEMMA ResultIsHandled ==
  ASSUME NEW j, NEW op, NEW ok, NEW r, HandlerResult(j, op, ok, r),
         NEW F, JobInv(job[j], F), job[j].alive, op \in F, op \notin job[j].held
  PROVE  Handled(job[j], F, op, r)
<1>1. CASE op = "QUEUED_REQUEST"
  BY <1>1, UnaryRequestHandled, ServerStreamingRequestHandled,
     StreamRequestHandled DEF HandlerResult
<1>2. CASE op = "READ"
  BY <1>2, ClientStreamingReadHandled, BidirectionalReadHandled DEF HandlerResult
<1>3. CASE op = "WRITE"
  BY <1>3, WriteHandled DEF HandlerResult
<1>4. CASE op = "FINISH"
  BY <1>4, FinishHandled DEF HandlerResult
<1>5. CASE op = "DONE"
  BY <1>5, DoneHandled DEF HandlerResult
<1>6. QED
  BY <1>1, <1>2, <1>3, <1>4, <1>5 DEF HandlerResult

\* A step of the processor thread.
Handles(j, op, ok, r) ==
  /\ TurnOf(j, op, ok, r)
  /\ HandlerResult(j, op, ok, r)
  /\ MapResult(j, op, ok, r)

LEMMA TagIsHandled ==
  ASSUME IInv, ProcessTag
  PROVE  \E j, op, ok, r : Handles(j, op, ok, r)
<1>1. PICK j, op, ok, r : /\ Turn(j, op, ok, r)
                          /\ HandlerResult(j, op, ok, r)
                          /\ MapResult(j, op, ok, r)
  BY TagIsTurn
<1>2. tags # <<>> /\ j = Head(tags).job /\ op = Head(tags).op
  BY <1>1 DEF Turn
<1>3. /\ job[j].alive /\ JobInv(job[j], OpsInFlight(j))
      /\ op \in OpsInFlight(j) /\ op \notin job[j].held
  BY <1>2, FrontTag
<1>4. Handled(job[j], OpsInFlight(j), op, r)
  BY <1>1, <1>3, ResultIsHandled
<1>5. DOMAIN mRecordStateMap' = Jobs
  BY <1>1 DEF MapResult, IInv, TypeOK
<1>6. QED
  BY <1>1, <1>4, <1>5 DEF Handles, TurnOf

(* Every step is a client's, gRPC's or a turn of the processor thread.     *)
LEMMA StepCases ==
  ASSUME IInv, Next
  PROVE  \/ \E j \in Jobs : ClientStep(j)
         \/ \E j \in Jobs, op \in TagOp : HandleRpcs(j, op)
         \/ TakeIncomingTags
         \/ \E j, op, ok, r : Handles(j, op, ok, r)
<1>1. ASSUME NEW j \in Jobs, Client(j) PROVE ClientStep(j)
  BY <1>1 DEF Client, ClientStep
<1>2. QED
  BY <1>1, TagIsHandled DEF Next

-----------------------------------------------------------------------------
(* IInv is inductive *)

LEMMA InitIInv == Init => IInv
<1> SUFFICES ASSUME Init PROVE IInv
  OBVIOUS
<1>1. PICK first \in [RpcTypes -> Jobs] :
        /\ job = [j \in Jobs |->
                    IF \E t \in RpcTypes : first[t] = j
                    THEN NewRpcJob(CHOOSE t \in RpcTypes : first[t] = j)
                    ELSE FreeMemory]
        /\ mResponders = {first[t] : t \in RpcTypes}
  BY DEF Init
<1>2. /\ gIncomingTags = <<>> /\ tags = <<>>
      /\ call = [j \in Jobs |-> NoCall]
      /\ mRecordStateMap = [j \in Jobs |-> NULL]
      /\ gRpcCounter = [t \in RpcTypes |-> 1]
  BY DEF Init
<1>3. ASSUME NEW j \in Jobs
      PROVE  job[j] = FreeMemory \/ \E t \in RpcType : job[j] = NewRpcJob(t)
  <2>1. CASE \E t \in RpcTypes : first[t] = j
    <3>1. (CHOOSE t \in RpcTypes : first[t] = j) \in RpcType
      BY <2>1, RpcTypesAssumption
    <3>2. QED
      BY <1>1, <2>1, <3>1
  <2>2. CASE ~\E t \in RpcTypes : first[t] = j
    BY <1>1, <2>2
  <2>3. QED
    BY <2>1, <2>2
<1>4. \A j, op : ~InQueue(gIncomingTags, j, op) /\ ~InQueue(tags, j, op)
  BY <1>2 DEF InQueue
<1>5. \A j : OpsInFlight(j) = {op \in TagOp : op \in job[j].held}
  BY <1>4 DEF OpsInFlight, InFlight
<1>6. ASSUME NEW j \in Jobs
      PROVE  JobInv(job[j], OpsInFlight(j))
  <2>1. CASE job[j] = FreeMemory
    <3>0. "Unary" \in RpcType
      BY DEF RpcType
    <3>1. IsJob(FreeMemory) /\ ~FreeMemory.alive /\ FreeMemory.held = {}
      BY <3>0, Memory
    <3>2. OpsInFlight(j) = {}
      BY <1>5, <2>1, <3>1
    <3>3. ~FreeMemory.asserted
      BY DEF FreeMemory, RpcJobFields
    <3>4. QED
      BY <2>1, <3>1, <3>2, <3>3 DEF JobInv
  <2>2. ASSUME NEW t \in RpcType, job[j] = NewRpcJob(t)
        PROVE  JobInv(job[j], OpsInFlight(j))
    <3>1. /\ JobInv(job[j], {"QUEUED_REQUEST", "DONE"})
          /\ job[j].held = {"QUEUED_REQUEST", "DONE"}
      BY <2>2, Memory
    <3>2. OpsInFlight(j) = {"QUEUED_REQUEST", "DONE"}
      BY <1>5, <3>1 DEF TagOp, AsyncOpType
    <3>3. QED
      BY <3>1, <3>2
  <2>3. QED
    BY <1>3, <2>1, <2>2
<1>7. BooksOfAllJobs
  BY <1>6 DEF BooksOfAllJobs
<1>8. OpsInOnePlace
  BY <1>2, <1>4 DEF OpsInOnePlace, NoRepeat
<1>9. TypeOK
  <2>1. \A j \in Jobs : IsJob(job[j])
    BY <1>6 DEF JobInv
  <2>2. IsCall(NoCall)
    BY DEF IsCall, NoCall
  <2>3. DOMAIN job = Jobs /\ mResponders \subseteq Jobs
    BY <1>1
  <2>4. QED
    BY <1>2, <2>1, <2>2, <2>3 DEF TypeOK
<1>10. QED
  BY <1>7, <1>8, <1>9 DEF IInv

LEMMA NextIInv == IInv /\ [Next]_vars => IInv'
<1> SUFFICES ASSUME IInv, [Next]_vars PROVE IInv'
  OBVIOUS
<1>1. CASE UNCHANGED vars
  <2>1. OtherTypesOK'
    BY <1>1 DEF vars, IInv, TypeOK, OtherTypesOK
  <2>2. QED
    BY <1>1, <2>1, SameOps DEF vars
<1>2. CASE Next
  BY <1>2, StepCases, ClientStepKeepsIInv, HandleRpcsKeepsIInv, TakeKeepsIInv,
     TurnKeepsIInv DEF Handles
<1>3. QED
  BY <1>1, <1>2

(* The books of every job fit its operations in flight, in every state.    *)
THEOREM Invariant == Spec => []IInv
<1>1. Init => IInv
  BY InitIInv
<1>2. IInv /\ [Next]_vars => IInv'
  BY NextIInv
<1>3. QED
  BY <1>1, <1>2, PTL DEF Spec

-----------------------------------------------------------------------------
(* What it says *)

(* Every variable keeps its type, for any jobs, kinds of RPC and messages: *)
(* in particular no mAsyncOpCounter goes below zero.                       *)
THEOREM TypeCorrect == Spec => []TypeOK
<1>1. IInv => TypeOK
  BY DEF IInv
<1>2. QED
  BY <1>1, Invariant, PTL

(* No use after free: a deleted job has no operation with gRPC and no tag  *)
(* in the completion queue's or the processor's lists.                     *)
THEOREM TagsNeverDangle == Spec => []NoDanglingTag
BY BooksPreventDangling, Invariant, PTL

(* mAsyncOpCounter counts the operations in flight, and the flags          *)
(* mAsyncReadInProgress and mAsyncWriteInProgress say which of them are.   *)
THEOREM CountersAreRight == Spec => []CounterCountsOperations
BY BooksCount, Invariant, PTL

(* Of one job only a read and a write are ever in flight together, and it  *)
(* calls Finish at most once.                                              *)
THEOREM OperationsExcludeEachOther == Spec => []OperationsExclusive
BY StagesExclude, Invariant, PTL

-----------------------------------------------------------------------------
(* The initial state and the jobs in it *)

\* createXxxRpc was called once for each kind of RPC, and nothing else was.
StartedUp(first) ==
  /\ first \in [RpcTypes -> Jobs]
  /\ \A s, t \in RpcTypes : first[s] = first[t] => s = t
  /\ \A t \in RpcTypes : /\ job[first[t]] = NewRpcJob(t)
                         /\ OpsInFlight(first[t]) = {"QUEUED_REQUEST", "DONE"}
                         /\ job[first[t]].alive /\ job[first[t]].type = t
  /\ \A j \in Jobs : \/ \E t \in RpcTypes : first[t] = j
                     \/ /\ job[j] = FreeMemory
                        /\ OpsInFlight(j) = {} /\ ~job[j].alive
  /\ mResponders = {first[t] : t \in RpcTypes}
  /\ gRpcCounter = [t \in RpcTypes |-> 1]

LEMMA InitStartsUp ==
  ASSUME Init
  PROVE  \E first : StartedUp(first)
<1>1. PICK first \in [RpcTypes -> Jobs] :
        /\ \A s, t \in RpcTypes : first[s] = first[t] => s = t
        /\ job = [j \in Jobs |->
                    IF \E t \in RpcTypes : first[t] = j
                    THEN NewRpcJob(CHOOSE t \in RpcTypes : first[t] = j)
                    ELSE FreeMemory]
        /\ mResponders = {first[t] : t \in RpcTypes}
  BY DEF Init
<1>2. /\ gIncomingTags = <<>> /\ tags = <<>>
      /\ gRpcCounter = [t \in RpcTypes |-> 1]
  BY DEF Init
<1>3. \A j : OpsInFlight(j) = {op \in TagOp : op \in job[j].held}
  BY <1>2 DEF OpsInFlight, InFlight, InQueue
<1>4. ASSUME NEW t \in RpcTypes
      PROVE  /\ job[first[t]] = NewRpcJob(t)
             /\ OpsInFlight(first[t]) = {"QUEUED_REQUEST", "DONE"}
             /\ job[first[t]].alive /\ job[first[t]].type = t
  <2>1. (CHOOSE s \in RpcTypes : first[s] = first[t]) = t
    BY <1>1
  <2>2. job[first[t]] = NewRpcJob(t)
    BY <1>1, <2>1
  <2>3. t \in RpcType
    BY RpcTypesAssumption
  <2>4. /\ NewRpcJob(t).held = {"QUEUED_REQUEST", "DONE"}
        /\ NewRpcJob(t).alive /\ NewRpcJob(t).type = t
    BY <2>3, Memory
  <2>5. QED
    BY <1>3, <2>2, <2>4 DEF TagOp, AsyncOpType
<1>5. ASSUME NEW j \in Jobs, ~\E t \in RpcTypes : first[t] = j
      PROVE  job[j] = FreeMemory /\ OpsInFlight(j) = {} /\ ~job[j].alive
  <2>1. job[j] = FreeMemory
    BY <1>1, <1>5
  <2>2. "Unary" \in RpcType
    BY DEF RpcType
  <2>3. FreeMemory.held = {} /\ ~FreeMemory.alive
    BY <2>2, Memory
  <2>4. QED
    BY <1>3, <2>1, <2>3
<1>6. StartedUp(first)
  BY <1>1, <1>2, <1>4, <1>5 DEF StartedUp
<1>7. QED
  BY <1>6

LEMMA InitReferences == Init => References!Init
<1> SUFFICES ASSUME Init PROVE References!Init
  OBVIOUS
<1>1. PICK first : StartedUp(first)
  BY InitStartsUp
<1>2. \A j \in Jobs : OpsInFlight(j) = IF job[j].alive THEN References!NewReferences
                                                       ELSE {}
  BY <1>1 DEF StartedUp, References!NewReferences
<1>3. Refs = [j \in Jobs |-> IF j \in Alive THEN References!NewReferences ELSE {}]
  BY <1>2, RefsAndAlive
<1>4. Alive \in SUBSET Jobs
  BY DEF Alive
<1>5. QED
  BY <1>3, <1>4 DEF References!Init, Refs, Alive

LEMMA InitAwaits ==
  ASSUME Init, NEW type \in RpcTypes
  PROVE  OneJobAwaits(type)
<1>1. PICK first : StartedUp(first)
  BY InitStartsUp
<1>2. first[type] \in Jobs
  BY <1>1 DEF StartedUp
<1>3. \A i \in Jobs : i = first[type] <=> Awaits(i, type)
  BY <1>1 DEF StartedUp, Awaits
<1>4. QED
  BY <1>2, <1>3, OneAwaits

LEMMA InitBalances == Init => FiniteBooksBalance
<1> SUFFICES ASSUME Init PROVE FiniteBooksBalance
  OBVIOUS
<1>1. PICK first : StartedUp(first)
  BY InitStartsUp
<1>2. mResponders = Jobs \ Free
  BY <1>1 DEF StartedUp, Free
<1>3. ASSUME NEW t \in RpcTypes
      PROVE  IsFiniteSet(LiveOf(t)) /\ gRpcCounter[t] = Cardinality(LiveOf(t))
  <2>1. LiveOf(t) = {first[t]}
    BY <1>1 DEF StartedUp, LiveOf, Free
  <2>2. gRpcCounter[t] = 1
    BY <1>1 DEF StartedUp
  <2>3. QED
    BY <2>1, <2>2, FS_Singleton
<1>4. QED
  BY <1>2, <1>3 DEF FiniteBooksBalance

LEMMA NextIsServerStep == IInv /\ Next => ServerStep
BY StepCases DEF ServerStep, Handles

(* The framework's counters, flags and lists implement reference counting: *)
(* a job is deleted by the handler that drops the last reference to it.    *)
THEOREM ReferencesImplemented == Spec => JobsAreReferenceCounted
<1>1. Init => References!Init
  BY InitReferences
<1>2. IInv /\ [Next]_vars => [References!Next]_(References!vars)
  <2> SUFFICES ASSUME IInv, [Next]_vars
               PROVE  References!Next \/ UNCHANGED <<Refs, Alive>>
    BY DEF References!vars, Refs, Alive
  <2>1. CASE UNCHANGED vars
    BY <2>1 DEF vars, Refs, Alive, Free, InFlight, InQueue
  <2>2. CASE Next
    BY <2>2, NextIsServerStep, StepIsReferenceStep
  <2>3. QED
    BY <2>1, <2>2
<1>3. QED
  BY <1>1, <1>2, Invariant, PTL DEF Spec, JobsAreReferenceCounted, References!Spec

(* Each kind of RPC always has exactly one job whose request is queued or  *)
(* just met.                                                               *)
THEOREM OneJobAwaitsEach == Spec => []OneJobAwaitsEachKind
<1>1. Init => OneJobAwaitsEachKind
  BY InitAwaits DEF OneJobAwaitsEachKind
<1>2. IInv /\ OneJobAwaitsEachKind /\ [Next]_vars => OneJobAwaitsEachKind'
  <2> SUFFICES ASSUME IInv, OneJobAwaitsEachKind, [Next]_vars,
                      NEW t \in RpcTypes
               PROVE  OneJobAwaits(t)'
    BY DEF OneJobAwaitsEachKind
  <2>0. OneJobAwaits(t)
    BY DEF OneJobAwaitsEachKind
  <2>1. CASE UNCHANGED vars
    BY <2>0, <2>1 DEF vars, OneJobAwaits, InFlight, InQueue
  <2>2. CASE Next
    BY <2>0, <2>2, NextIsServerStep, StepKeepsAwaiting
  <2>3. QED
    BY <2>1, <2>2
<1>3. QED
  BY <1>1, <1>2, Invariant, PTL DEF Spec

(* The counters of the four kinds of RPC and the responder maps account    *)
(* for exactly the jobs that have not been deleted.                        *)
THEOREM BooksAlwaysBalance == Spec => []BooksBalance
<1>1. Init => FiniteBooksBalance
  BY InitBalances
<1>2. IInv /\ FiniteBooksBalance /\ [Next]_vars => FiniteBooksBalance'
  <2> SUFFICES ASSUME IInv, FiniteBooksBalance, [Next]_vars
               PROVE  FiniteBooksBalance'
    OBVIOUS
  <2>1. CASE UNCHANGED vars
    BY <2>1 DEF vars, FiniteBooksBalance, LiveOf, Free
  <2>2. CASE Next
    BY <2>2, NextIsServerStep, StepKeepsBalance
  <2>3. QED
    BY <2>1, <2>2
<1>3. QED
  BY <1>1, <1>2, Invariant, BalanceIsFinite, PTL DEF Spec

-----------------------------------------------------------------------------
(* The application *)

LEMMA PrefixGrows ==
  ASSUME NEW n \in Nat, n > 0, n <= Len(Route)
  PROVE  Followed(SubSeq(Route, 1, n - 1), Route[n]) = SubSeq(Route, 1, n)
<1>1. PICK T : Route \in Seq(T)
  BY RouteAssumption
<1>2. QED
  BY <1>1 DEF Followed

-----------------------------------------------------------------------------
(* The responses *)

\* What job r has answered to its call c.  The responses of a stream are in
\* "written" and in the queue; a chat has answered what was read and handled.
ResponsesFit(r, c, F, S) ==
  /\ ~r.asserted
  /\ QueueFits(r, F)
  /\ r.mResponseQueue # <<>> /\ "WRITE" \notin F => c.phase = "Dead"
  /\ "QUEUED_REQUEST" \in F => r.mResponseQueue = <<>> /\ r.written = <<>>
  /\ r.type = "Unary" /\ r.finishes > 0 => r.mResponse = FeatureAt(c.request)
  /\ r.type = "ServerStreaming" /\ "QUEUED_REQUEST" \notin F =>
       Outgoing(r, F) = FeaturesIn(c.request)
  /\ r.type = "Bidirectional" =>
       /\ r.finishes > 0 => r.mServerStreamingDone
       /\ r.mServerStreamingDone => r.mClientStreamingDone
       /\ Outgoing(r, F) = SubSeq(Route, 1, c.delivered - One("READ" \in S))

(* A handler that changes no message.                                      *)
LEMMA ResponsesKept ==
  ASSUME NEW q, NEW c, NEW F, NEW S, ResponsesFit(q, c, F, S),
         NEW s, Keeps(q, s, {"mOnDoneCalled"}),
         NEW G, "WRITE" \in G <=> "WRITE" \in F,
         "QUEUED_REQUEST" \in G => "QUEUED_REQUEST" \in F,
         q.type = "ServerStreaming" /\ "QUEUED_REQUEST" \in F => "QUEUED_REQUEST" \in G,
         NEW T, "READ" \in T <=> "READ" \in S
  PROVE  ResponsesFit(s, c, G, T)
<1>1. /\ s.asserted = q.asserted /\ s.mResponseQueue = q.mResponseQueue
      /\ s.written = q.written /\ s.type = q.type /\ s.finishes = q.finishes
      /\ s.mResponse = q.mResponse
      /\ s.mServerStreamingDone = q.mServerStreamingDone
      /\ s.mClientStreamingDone = q.mClientStreamingDone
  BY Fields DEF Keeps, Books
<1>2. QueueFits(s, G) /\ Outgoing(s, G) = Outgoing(q, F)
  BY <1>1 DEF ResponsesFit, QueueFits, Outgoing
<1>3. One("READ" \in T) = One("READ" \in S)
  BY DEF One
<1>4. QED
  BY <1>1, <1>2, <1>3, Zenon DEF ResponsesFit

(* Handlers of request tags. *)
LEMMA RequestAnswered ==
  ASSUME NEW q, NEW c, NEW F, NEW S, NEW X, JobInv(q, F), q.alive,
         Placed(q, F, S, X), CallFits(q, c, F, S, X), ResponsesFit(q, c, F, S),
         "QUEUED_REQUEST" \in S,
         NEW s, s.alive, JobInv(s, (F \ {"QUEUED_REQUEST"}) \cup s.held),
         \/ q.type = "Unary" /\ s = UnaryOnRead(q, TRUE, FeatureAt(q.mRequest))
         \/ /\ q.type = "ServerStreaming"
            /\ s = ServerStreamingOnRead(q, TRUE, FeaturesIn(q.mRequest))
         \/ q.type = "ClientStreaming" /\ s = ClientStreamingOnInit(q, TRUE)
         \/ q.type = "Bidirectional" /\ s = BidirectionalOnInit(q, TRUE)
  PROVE  /\ KeepsRequests(q, "QUEUED_REQUEST", TRUE, s)
         /\ ResponsesFit(s, c, (F \ {"QUEUED_REQUEST"}) \cup s.held,
                         S \ {"QUEUED_REQUEST"})
<1> DEFINE G == (F \ {"QUEUED_REQUEST"}) \cup s.held
           T == S \ {"QUEUED_REQUEST"}
<1>1. /\ "QUEUED_REQUEST" \in F /\ "QUEUED_REQUEST" \notin q.held
      /\ "WRITE" \notin F /\ "READ" \notin S /\ q.finishes = 0
      /\ q.mRequest = c.request
      /\ q.mResponseQueue = <<>> /\ q.written = <<>> /\ ~q.asserted
  BY DEF Placed, CallFits, ResponsesFit, JobInv, StagesFit
<1>2. "READ" \in T <=> "READ" \in S
  OBVIOUS
<1>3. StagesFit(s, G) /\ s.finishes \in Nat
  BY DEF JobInv, IsJob
<1>4. CASE q.type = "Unary" /\ s = UnaryOnRead(q, TRUE, FeatureAt(q.mRequest))
  <2>b. PICK feature : feature = FeatureAt(q.mRequest)
    OBVIOUS
  <2>c. s = UnaryOnRead(q, TRUE, feature)
    BY <1>4, <2>b
  <2>a. /\ Keeps(q, s, {"mResponse", "finishes"})
        /\ s.mResponse = feature
        /\ s.finishes = q.finishes + 1
    BY <2>c, UnaryAnswers
  <2>1. /\ Keeps(q, s, {"mResponse", "finishes"})
        /\ s.mResponse = FeatureAt(c.request)
        /\ s.finishes = 1
    BY <1>1, <2>a, <2>b
  <2>2. /\ s.mResponseQueue = <<>> /\ s.written = <<>> /\ s.type = "Unary"
        /\ s.asserted = q.asserted /\ s.mRequest = q.mRequest
        /\ s.mClientStreamingDone = q.mClientStreamingDone
    BY <1>1, <1>4, <2>1, Fields DEF Keeps, Books
  <2>3. "WRITE" \notin G
    BY <1>3, <2>2 DEF StagesFit
  <2> HIDE DEF G, T
  <2>4. ResponsesFit(s, c, G, T)
    BY <1>1, <2>1, <2>2, <2>3, EmptySequence DEF ResponsesFit, QueueFits
  <2>5. KeepsRequests(q, "QUEUED_REQUEST", TRUE, s)
    BY <1>1, <2>1, <2>2 DEF KeepsRequests
  <2>6. QED
    BY <2>4, <2>5 DEF G, T
<1>5. CASE q.type = "ServerStreaming" /\ s = ServerStreamingOnRead(q, TRUE, FeaturesIn(q.mRequest))
  <2>1. PICK responses : responses = FeaturesIn(c.request) /\ IsSequence(responses)
    BY FeaturesAreListed DEF IsSequence
  <2>a. s = ServerStreamingOnRead(q, TRUE, responses)
    BY <1>1, <1>5, <2>1
  <2>2. /\ Keeps(q, s, {"mResponseQueue", "written", "finishes",
                        "mServerStreamingDone"})
        /\ s.finishes >= q.finishes
        /\ QueueFits(s, G)
        /\ Outgoing(s, G) = responses
        /\ "WRITE" \notin G => s.mResponseQueue = <<>>
    <3>1. PICK H : H = G
      OBVIOUS
    <3>2. H = (F \ {"QUEUED_REQUEST"}) \cup s.held
      BY <3>1
    <3> HIDE DEF G
    <3>3. Lists(q, s, H, responses)
      BY <1>1, <1>5, <2>1, <2>a, <3>2, ListSent
    <3>4. QED
      BY <3>1, <3>3 DEF Lists
  <2>3. /\ s.type = "ServerStreaming" /\ s.asserted = q.asserted
        /\ s.mRequest = q.mRequest
        /\ s.mClientStreamingDone = q.mClientStreamingDone
    BY <1>5, <2>2, Fields DEF Keeps, Books
  <2>4. "QUEUED_REQUEST" \notin G
    <3>1. Handled(q, F, "QUEUED_REQUEST", s)
      BY <1>1, <1>5, <2>a, ServerStreamingRequestHandled
    <3>2. QED
      BY <1>1, <3>1 DEF Handled, Startable
  <2> HIDE DEF G, T
  <2>5. ResponsesFit(s, c, G, T)
    BY <1>1, <2>1, <2>2, <2>3, <2>4 DEF ResponsesFit
  <2>6. KeepsRequests(q, "QUEUED_REQUEST", TRUE, s)
    BY <1>1, <2>2, <2>3 DEF KeepsRequests
  <2>7. QED
    BY <2>5, <2>6 DEF G, T
<1>6. CASE \/ q.type = "ClientStreaming" /\ s = ClientStreamingOnInit(q, TRUE)
           \/ q.type = "Bidirectional" /\ s = BidirectionalOnInit(q, TRUE)
  <2>1. Keeps(q, s, {}) /\ s.held \subseteq q.held \cup {"READ"}
    BY <1>6, StreamAccepted
  <2>2. q.held \subseteq F /\ q.finishes \in Nat
    BY DEF JobInv, IsJob
  <2>3. /\ "WRITE" \in G <=> "WRITE" \in F
        /\ "QUEUED_REQUEST" \in G => "QUEUED_REQUEST" \in F
    BY <1>1, <2>1, <2>2
  <2>4. Keeps(q, s, {"mOnDoneCalled"})
    BY <2>1 DEF Keeps
  <2> HIDE DEF G, T
  <2>5. ResponsesFit(s, c, G, T)
    BY <1>2, <1>6, <2>3, <2>4, ResponsesKept
  <2>6. KeepsRequests(q, "QUEUED_REQUEST", TRUE, s)
    BY <2>1, <2>2, Fields DEF KeepsRequests, Keeps, Books
  <2>7. QED
    BY <2>5, <2>6 DEF G, T
<1>7. QED
  BY <1>4, <1>5, <1>6

(* Handlers of reads. *)
LEMMA RecordRouteReadAnswered ==
  ASSUME NEW q, NEW c, NEW F, NEW S, JobInv(q, F), q.alive,
         ResponsesFit(q, c, F, S), q.type = "ClientStreaming", "READ" \in F,
         NEW ok \in BOOLEAN, NEW summary,
         NEW s, s = ClientStreamingOnRead(q, ok, summary), s.alive,
         NEW G, JobInv(s, G), "QUEUED_REQUEST" \notin G, NEW T
  PROVE  KeepsRequests(q, "READ", ok, s) /\ ResponsesFit(s, c, G, T)
<1>1. "WRITE" \notin F /\ q.finishes \in Nat
  BY DEF JobInv, StagesFit, IsJob
<1>2. /\ ok => Keeps(q, s, {})
      /\ ~ok => /\ Keeps(q, s, {"mResponse", "finishes", "mClientStreamingDone"})
                /\ s.finishes = q.finishes + 1
  BY StreamRead
<1>3. Keeps(q, s, {"mResponse", "finishes", "mClientStreamingDone"})
  BY <1>2 DEF Keeps
<1>4. /\ s.asserted = q.asserted /\ s.mResponseQueue = q.mResponseQueue
      /\ s.written = q.written /\ s.type = "ClientStreaming"
      /\ s.mRequest = q.mRequest
  BY <1>3, Fields DEF Keeps, Books
<1>5. ok => s.mClientStreamingDone = q.mClientStreamingDone /\ s.finishes = q.finishes
  BY <1>2, Fields DEF Keeps, Books
<1>6. "WRITE" \notin G
  BY <1>4 DEF JobInv, StagesFit
<1>7. ResponsesFit(s, c, G, T)
  BY <1>1, <1>4, <1>6 DEF ResponsesFit, QueueFits
<1>8. s.finishes = q.finishes \/ s.finishes = q.finishes + 1
  BY <1>2, <1>5
<1>9. s.finishes >= q.finishes
  BY <1>1, <1>8, NoFewer
<1>10. KeepsRequests(q, "READ", ok, s)
  BY <1>4, <1>5, <1>9 DEF KeepsRequests
<1>11. QED
  BY <1>7, <1>10

\* The handler of op leaves the job as s, with what it makes of the requests
\* and the responses.
Answers(q, c, S, op, ok, s, G) ==
  KeepsRequests(q, op, ok, s) /\ ResponsesFit(s, c, G, S \ {op})

LEMMA RouteChatReadAnswered ==
  ASSUME NEW q, NEW c, NEW F, NEW S, NEW X, JobInv(q, F), q.alive, IsCall(c),
         Placed(q, F, S, X), CallFits(q, c, F, S, X), ResponsesFit(q, c, F, S),
         q.type = "Bidirectional",
         NEW ok \in BOOLEAN, "READ" \in (IF ok THEN S ELSE X),
         NEW s, s = BidirectionalOnRead(q, ok), s.alive,
         NEW G, G = (F \ {"READ"}) \cup s.held, JobInv(s, G),
         "QUEUED_REQUEST" \notin G
  PROVE  Answers(q, c, S, "READ", ok, s, G)
<1>1. /\ "READ" \in F /\ "READ" \notin q.held /\ q.finishes = 0
      /\ QueueFits(q, F) /\ ~q.asserted
      /\ Outgoing(q, F) = SubSeq(Route, 1, c.delivered - One("READ" \in S))
      /\ q.mResponseQueue # <<>> /\ "WRITE" \notin F => c.phase = "Dead"
  <2>1. "READ" \in F /\ "READ" \notin q.held
    BY DEF Placed
  <2>2. q.finishes \in Nat /\ q.finishes <= 1 /\ q.finishes # 1
    BY <2>1 DEF JobInv, StagesFit, IsJob
  <2>3. q.finishes = 0
    BY <2>2
  <2>4. /\ QueueFits(q, F) /\ ~q.asserted
        /\ Outgoing(q, F) = SubSeq(Route, 1, c.delivered - One("READ" \in S))
        /\ q.mResponseQueue # <<>> /\ "WRITE" \notin F => c.phase = "Dead"
    BY DEF ResponsesFit
  <2>5. QED
    BY <2>1, <2>3, <2>4
<1>2. c.delivered \in Nat /\ c.delivered <= Len(Route)
  <2>1. c.sent <= Len(Route)
    BY DEF CallFits
  <2>2. QED
    BY <2>1, RouteAssumption DEF IsCall
<1>3. CASE ok
  <2>1. "READ" \in S /\ c.delivered > 0 /\ q.mRequest = Route[c.delivered]
    BY <1>3 DEF CallFits
  <2>2. s = BidirectionalOnRead(q, TRUE)
    BY <1>3
  <2>3. /\ Keeps(q, s, {"mResponseQueue", "written"})
        /\ QueueFits(s, G)
        /\ Outgoing(s, G) = Followed(Outgoing(q, F), q.mRequest)
        /\ "WRITE" \in G
    <3>1. Echoes(q, F, s, G)
      BY <1>1, <2>2, NoteEchoed
    <3>2. QED
      BY <3>1 DEF Echoes
  <2>4. /\ s.asserted = q.asserted /\ s.type = "Bidirectional"
        /\ s.mRequest = q.mRequest /\ s.finishes = q.finishes
        /\ s.mServerStreamingDone = q.mServerStreamingDone
        /\ s.mClientStreamingDone = q.mClientStreamingDone
    BY <2>3, Fields DEF Keeps, Books
  <2>5. Outgoing(s, G) = SubSeq(Route, 1, c.delivered - One("READ" \in S \ {"READ"}))
    <3>1. /\ One("READ" \in S) = 1
          /\ One("READ" \in S \ {"READ"}) = 0
      BY <2>1 DEF One
    <3>2. Followed(SubSeq(Route, 1, c.delivered - 1), Route[c.delivered])
            = SubSeq(Route, 1, c.delivered)
      BY <1>2, <2>1, PrefixGrows
    <3>3. c.delivered - 0 = c.delivered
      BY <1>2
    <3>4. QED
      BY <1>1, <2>1, <2>3, <3>1, <3>2, <3>3
  <2>6. ResponsesFit(s, c, G, S \ {"READ"})
    BY <1>1, <2>3, <2>4, <2>5 DEF ResponsesFit
  <2>7. KeepsRequests(q, "READ", ok, s)
    BY <1>1, <2>4 DEF KeepsRequests
  <2>8. QED
    BY <2>6, <2>7 DEF Answers
<1>4. CASE ~ok
  <2>1. "READ" \notin S
    BY <1>4 DEF Placed
  <2>2. s = BidirectionalOnRead(q, FALSE)
    BY <1>4
  <2>3. /\ Keeps(q, s, {"mClientStreamingDone", "mServerStreamingDone", "finishes"})
        /\ s.mClientStreamingDone /\ s.mServerStreamingDone
        /\ s.finishes >= q.finishes
        /\ s.held \subseteq q.held \cup {"FINISH"}
    BY <1>1, <2>2, NotesEnded
  <2>4. /\ s.asserted = q.asserted /\ s.type = "Bidirectional"
        /\ s.mRequest = q.mRequest /\ s.mResponseQueue = q.mResponseQueue
        /\ s.written = q.written
    BY <2>3, Fields DEF Keeps, Books
  <2>5. "WRITE" \in G <=> "WRITE" \in F
    BY <2>3 DEF JobInv
  <2>6. QueueFits(s, G) /\ Outgoing(s, G) = Outgoing(q, F)
    BY <1>1, <2>4, <2>5 DEF QueueFits, Outgoing
  <2>7. One("READ" \in S \ {"READ"}) = One("READ" \in S)
    BY <2>1 DEF One
  <2>8. ResponsesFit(s, c, G, S \ {"READ"})
    BY <1>1, <2>3, <2>4, <2>5, <2>6, <2>7 DEF ResponsesFit
  <2>9. KeepsRequests(q, "READ", ok, s)
    BY <1>4, <2>3, <2>4 DEF KeepsRequests
  <2>10. QED
    BY <2>8, <2>9 DEF Answers
<1>5. QED
  BY <1>3, <1>4

(* The handler of a write.                                                 *)
LEMMA WriteAnswered ==
  ASSUME NEW q, NEW c, NEW F, NEW S, NEW X, JobInv(q, F), q.alive,
         Placed(q, F, S, X), CallFits(q, c, F, S, X), ResponsesFit(q, c, F, S),
         NEW ok \in BOOLEAN, "WRITE" \in (IF ok THEN S ELSE X),
         NEW s, s = ResponseWritten(q, ok), s.alive,
         NEW G, G = (F \ {"WRITE"}) \cup s.held, JobInv(s, G),
         "QUEUED_REQUEST" \notin G
  PROVE  Answers(q, c, S, "WRITE", ok, s, G)
<1>1. /\ "WRITE" \in F /\ "WRITE" \notin q.held /\ "QUEUED_REQUEST" \notin F
      /\ q.type \in {"ServerStreaming", "Bidirectional"} /\ q.finishes \in Nat
      /\ QueueFits(q, F) /\ ~q.asserted
  BY DEF Placed, JobInv, StagesFit, ResponsesFit, IsJob
<1>2. ~ok => c.phase = "Dead"
  BY DEF CallFits
<1>3. /\ Keeps(q, s, {"mResponseQueue", "written", "finishes"})
      /\ QueueFits(s, G)
      /\ Outgoing(s, G) = Outgoing(q, F)
      /\ "WRITE" \notin G => ~ok \/ s.mResponseQueue = <<>>
      /\ s.finishes # q.finishes =>
           s.finishes = q.finishes + 1 /\ s.mServerStreamingDone
  BY <1>1, WriteOutgoing
<1>4. /\ s.asserted = q.asserted /\ s.type = q.type
      /\ s.mRequest = q.mRequest /\ s.mResponse = q.mResponse
      /\ s.mServerStreamingDone = q.mServerStreamingDone
      /\ s.mClientStreamingDone = q.mClientStreamingDone
  BY <1>3, Fields DEF Keeps, Books
<1>5. s.finishes = q.finishes \/ s.finishes = q.finishes + 1
  BY <1>3
<1>6. s.finishes >= q.finishes
  BY <1>1, <1>5, NoFewer
<1>7. One("READ" \in S \ {"WRITE"}) = One("READ" \in S)
  BY DEF One
<1>8. q.type = "Bidirectional" /\ s.finishes > 0 => s.mServerStreamingDone
  <2>1. CASE s.finishes = q.finishes
    BY <1>4, <2>1 DEF ResponsesFit
  <2>2. CASE s.finishes # q.finishes
    BY <1>3, <2>2
  <2>3. QED
    BY <2>1, <2>2
<1>9. ResponsesFit(s, c, G, S \ {"WRITE"})
  <2>1. /\ q.type = "ServerStreaming" => Outgoing(s, G) = FeaturesIn(c.request)
        /\ q.type = "Bidirectional" =>
             /\ s.mServerStreamingDone => s.mClientStreamingDone
             /\ Outgoing(s, G) = SubSeq(Route, 1, c.delivered - One("READ" \in S))
    BY <1>1, <1>3, <1>4 DEF ResponsesFit
  <2>2. QED
    BY <1>1, <1>2, <1>3, <1>4, <1>7, <1>8, <2>1 DEF ResponsesFit
<1>10. KeepsRequests(q, "WRITE", ok, s)
  BY <1>4, <1>6 DEF KeepsRequests
<1>11. QED
  BY <1>9, <1>10 DEF Answers

(* The handlers of the last two operations. *)
LEMMA EndAnswered ==
  ASSUME NEW q, NEW c, NEW F, NEW S, JobInv(q, F), ResponsesFit(q, c, F, S),
         NEW ok, NEW s, s.alive, NEW op,
         \/ op = "FINISH" /\ s = OnFinish(q)
         \/ op = "DONE" /\ s = OnDone(q),
         NEW G, G = (F \ {op}) \cup s.held
  PROVE  KeepsRequests(q, op, ok, s) /\ ResponsesFit(s, c, G, S \ {op})
<1>1. Keeps(q, s, {"mOnDoneCalled"}) /\ s.held = q.held
  <2>1. CASE op = "FINISH" /\ s = OnFinish(q)
    BY <2>1, Retired DEF OnFinish, Keeps
  <2>2. CASE op = "DONE" /\ s = OnDone(q)
    BY <2>2, DoneKeeps
  <2>3. QED
    BY <2>1, <2>2
<1>2. q.held \subseteq F /\ q.finishes \in Nat
  BY DEF JobInv, IsJob
<1>3. ResponsesFit(s, c, G, S \ {op})
  <2>1. /\ "WRITE" \in G <=> "WRITE" \in F
        /\ "QUEUED_REQUEST" \in G <=> "QUEUED_REQUEST" \in F
        /\ "READ" \in S \ {op} <=> "READ" \in S
    BY <1>1, <1>2
  <2>2. QED
    BY <1>1, <2>1, ResponsesKept
<1>4. /\ s.mRequest = q.mRequest /\ s.finishes = q.finishes
      /\ s.mClientStreamingDone = q.mClientStreamingDone
  BY <1>1, Fields DEF Keeps, Books
<1>5. QED
  BY <1>2, <1>3, <1>4 DEF KeepsRequests

(* Whatever handler runs. *)
LEMMA TurnAnswered ==
  ASSUME IInv, CallsFit, NEW j, NEW op, NEW ok, NEW r, Handles(j, op, ok, r), r.alive,
         ResponsesFit(job[j], call[j], OpsInFlight(j), Results(j, TRUE))
  PROVE  /\ KeepsRequests(job[j], op, ok, r)
         /\ ResponsesFit(r, call[j], (OpsInFlight(j) \ {op}) \cup r.held,
                         Results(j, TRUE) \ {op})
<1> DEFINE q == job[j]
           c == call[j]
           F == OpsInFlight(j)
           S == Results(j, TRUE)
           X == Results(j, FALSE)
           G == (F \ {op}) \cup r.held
<1>1. /\ j \in Jobs /\ op \in TagOp /\ ok \in BOOLEAN
      /\ q.alive /\ JobInv(q, F) /\ op \in Results(j, ok) /\ op \in F
  BY TurnKeepsIInv DEF Handles
<1>2. CallFits(q, c, F, S, X) /\ Placed(q, F, S, X) /\ IsCall(c)
  BY <1>1, OpsInFlightPlaced DEF CallsFit, FitsAt, IInv, TypeOK
<1>3. op \in (IF ok THEN S ELSE X)
  BY <1>1
<1>4. Handled(q, F, op, r)
  BY DEF Handles, TurnOf
<1>5. JobInv(r, G)
  BY <1>4 DEF Handled
<1>6. HandlerResult(j, op, ok, r)
  BY DEF Handles
<1>7. op \in {"READ", "WRITE"} => "QUEUED_REQUEST" \notin G
  BY <1>1, <1>4 DEF Handled, Startable, JobInv, StagesFit
<1>8. CASE op = "QUEUED_REQUEST"
  <2>1. ok /\ op \in S /\ q.mRequest = c.request
    BY <1>2, <1>3, <1>8 DEF CallFits
  <2>2. \/ q.type = "Unary" /\ r = UnaryOnRead(q, TRUE, FeatureAt(q.mRequest))
        \/ /\ q.type = "ServerStreaming"
           /\ r = ServerStreamingOnRead(q, TRUE, FeaturesIn(q.mRequest))
        \/ q.type = "ClientStreaming" /\ r = ClientStreamingOnInit(q, TRUE)
        \/ q.type = "Bidirectional" /\ r = BidirectionalOnInit(q, TRUE)
    BY <1>1, <1>6, <1>8, <2>1 DEF HandlerResult
  <2> HIDE DEF q, c, F, S, X
  <2>3. QED
    BY <1>1, <1>2, <1>5, <1>8, <2>1, <2>2, RequestAnswered
       DEF q, c, F, S, X
<1>9. CASE op = "READ" /\ q.type = "ClientStreaming"
  <2>1. PICK summary : r = ClientStreamingOnRead(q, ok, summary)
    BY <1>6, <1>9 DEF HandlerResult
  <2>2. KeepsRequests(q, "READ", ok, r) /\ ResponsesFit(r, c, G, S \ {op})
    <3>1. PICK H, T : H = G /\ T = S \ {op}
      OBVIOUS
    <3>2. JobInv(r, H) /\ "QUEUED_REQUEST" \notin H
      BY <1>5, <1>7, <1>9, <3>1
    <3>3. ResponsesFit(q, c, F, S)
      OBVIOUS
    <3>4. "READ" \in F
      BY <1>1, <1>9
    <3>5. KeepsRequests(q, "READ", ok, r) /\ ResponsesFit(r, c, H, T)
      <4> HIDE DEF q, c, F, S, G
      <4>1. QED
        BY <1>1, <1>9, <2>1, <3>2, <3>3, <3>4, RecordRouteReadAnswered
    <3>6. QED
      BY <3>1, <3>5
  <2>3. QED
    BY <1>9, <2>2
<1>10. CASE op = "READ" /\ q.type = "Bidirectional"
  <2>1. r = BidirectionalOnRead(q, ok)
    BY <1>6, <1>10 DEF HandlerResult
  <2>2. PICK H : H = G
    OBVIOUS
  <2>3. Answers(q, c, S, "READ", ok, r, H)
    <3>1. /\ JobInv(r, H) /\ "QUEUED_REQUEST" \notin H
          /\ H = (F \ {"READ"}) \cup r.held
          /\ "READ" \in (IF ok THEN S ELSE X)
      BY <1>3, <1>5, <1>7, <1>10, <2>2
    <3>2. ResponsesFit(q, c, F, S)
      OBVIOUS
    <3> HIDE DEF q, c, F, S, X, G
    <3>3. QED
      BY <1>1, <1>2, <1>10, <2>1, <3>1, <3>2, RouteChatReadAnswered
  <2>4. QED
    BY <1>10, <2>2, <2>3 DEF Answers
<1>11. CASE op = "WRITE"
  <2>1. r = ResponseWritten(q, ok)
    BY <1>6, <1>11 DEF HandlerResult
  <2>2. PICK H : H = G
    OBVIOUS
  <2>3. Answers(q, c, S, "WRITE", ok, r, H)
    <3>1. /\ JobInv(r, H) /\ "QUEUED_REQUEST" \notin H
          /\ H = (F \ {"WRITE"}) \cup r.held
          /\ "WRITE" \in (IF ok THEN S ELSE X)
      BY <1>3, <1>5, <1>7, <1>11, <2>2
    <3>2. ResponsesFit(q, c, F, S)
      OBVIOUS
    <3> HIDE DEF q, c, F, S, X, G
    <3>3. QED
      BY <1>1, <1>2, <2>1, <3>1, <3>2, WriteAnswered
  <2>4. QED
    BY <1>11, <2>2, <2>3 DEF Answers
<1>12. CASE op = "FINISH" \/ op = "DONE"
  <2>1. \/ op = "FINISH" /\ r = OnFinish(q)
        \/ op = "DONE" /\ r = OnDone(q)
    <3>1. CASE op = "FINISH"
      <4>1. r = OnFinish(job[j])
        BY <1>6, <3>1 DEF HandlerResult
      <4>2. QED
        BY <3>1, <4>1
    <3>2. CASE op = "DONE"
      BY <1>6, <3>2 DEF HandlerResult
    <3>3. QED
      BY <1>12, <3>1, <3>2
  <2>2. PICK H : H = G
    OBVIOUS
  <2>3. KeepsRequests(q, op, ok, r) /\ ResponsesFit(r, c, H, S \ {op})
    <3> HIDE DEF q, c, F, S
    <3>1. QED
      BY <1>1, <2>1, <2>2, EndAnswered DEF q, c, F, S
  <2>4. QED
    BY <2>2, <2>3
<1>13. QED
  BY <1>6, <1>8, <1>9, <1>10, <1>11, <1>12 DEF HandlerResult

-----------------------------------------------------------------------------
(* The responses of every call, in every state *)

Answered(j) ==
  OpsInFlight(j) # {} =>
    ResponsesFit(job[j], call[j], OpsInFlight(j), Results(j, TRUE))

AnswersFit == \A j \in Jobs : Answered(j)

LEMMA UnmovedStillAnswered ==
  ASSUME AnswersFit, NEW i \in Jobs, Unmoved(i), call'[i] = call[i]
  PROVE  Answered(i)'
BY DEF AnswersFit, Answered, Unmoved

LEMMA ClientKeepsResponses ==
  ASSUME NEW q, NEW c, NEW d, NEW F, NEW S, NEW X, JobInv(q, F), q.alive,
         IsCall(c), IsCall(d), Placed(q, F, S, X), CallFits(q, c, F, S, X),
         ResponsesFit(q, c, F, S), ClientMoves(q, c, d)
  PROVE  ResponsesFit(q, d, F, S)
<1>1. CASE c.phase = "None" /\ "QUEUED_REQUEST" \in q.held /\ d.phase = "Open" /\ d.sent = 0
  <2>1. "QUEUED_REQUEST" \in F /\ q.finishes = 0 /\ c.delivered = 0
    BY <1>1 DEF JobInv, StagesFit, CallFits
  <2>2. d.delivered = 0
    BY <1>1 DEF IsCall
  <2>3. QED
    BY <2>1, <2>2 DEF ResponsesFit
<1>2. CASE /\ d.request = c.request /\ d.delivered = c.delivered
           /\ c.phase = "Dead" => d.phase = "Dead"
  BY <1>2 DEF ResponsesFit
<1>3. QED
  BY <1>1, <1>2 DEF ClientMoves

LEMMA CompletionKeepsResponses ==
  ASSUME NEW q, NEW c, NEW F, NEW S, NEW X, NEW op, NEW ok \in BOOLEAN,
         JobInv(q, F), IsCall(c), Placed(q, F, S, X), ResponsesFit(q, c, F, S), op \in q.held,
         NEW s, s = Complete(q, c, op, ok), NEW d, d = Delivered(c, op, ok),
         NEW T, T = (IF ok THEN S \cup {op} ELSE S)
  PROVE  ResponsesFit(s, d, F, T)
<1>1. /\ s.asserted = q.asserted /\ s.mResponseQueue = q.mResponseQueue
      /\ s.written = q.written /\ s.type = q.type /\ s.finishes = q.finishes
      /\ s.mResponse = q.mResponse
      /\ s.mServerStreamingDone = q.mServerStreamingDone
      /\ s.mClientStreamingDone = q.mClientStreamingDone
  BY Fields DEF Complete, JobInv, IsJob
<1>2. /\ d.phase = c.phase /\ d.request = c.request
      /\ d.delivered = IF op = "READ" /\ ok THEN c.delivered + 1 ELSE c.delivered
  BY CallFields DEF Delivered, IsCall
<1>3. d.delivered - One("READ" \in T) = c.delivered - One("READ" \in S)
  <2>1. c.delivered \in Nat
    BY DEF IsCall
  <2>2. op \notin S
    BY DEF Placed
  <2>3. CASE op = "READ" /\ ok
    BY <1>2, <2>1, <2>2, <2>3 DEF One
  <2>4. CASE ~(op = "READ" /\ ok)
    <3>1. "READ" \in T <=> "READ" \in S
      BY <2>4
    <3>2. QED
      BY <1>2, <2>4, <3>1 DEF One
  <2>5. QED
    BY <2>3, <2>4
<1>4. QueueFits(s, F) /\ Outgoing(s, F) = Outgoing(q, F)
  BY <1>1 DEF ResponsesFit, QueueFits, Outgoing
<1>5. QED
  BY <1>1, <1>2, <1>3, <1>4, Zenon DEF ResponsesFit

LEMMA NewJobAnswersNothing ==
  ASSUME NEW type \in RpcType
  PROVE  ResponsesFit(NewRpcJob(type), NoCall, {"QUEUED_REQUEST", "DONE"}, {})
<1> DEFINE q == NewRpcJob(type)
           F == {"QUEUED_REQUEST", "DONE"}
<1>1. /\ ~q.asserted /\ q.mResponseQueue = <<>> /\ q.written = <<>>
      /\ q.finishes = 0 /\ ~q.mServerStreamingDone
  BY Memory DEF NewRpcJob, GrpcHolds, AsyncOpStarted, RpcJobFields
<1>2. NoCall.delivered = 0 /\ One("READ" \in {}) = 0
  BY DEF NoCall, One
<1>3. SubSeq(Route, 1, 0) = <<>>
  BY RouteAssumption
<1> HIDE DEF q
<1>4. Outgoing(q, F) = <<>>
  BY <1>1, EmptySequence, SequenceConcat DEF Outgoing
<1>5. ResponsesFit(q, NoCall, F, {})
  BY <1>1, <1>2, <1>3, <1>4, EmptySequence DEF ResponsesFit, QueueFits
<1>6. QED
  BY <1>5 DEF q

LEMMA ClientStepKeepsAnswers ==
  ASSUME IInv, CallsFit, AnswersFit, NEW j \in Jobs, ClientStep(j)
  PROVE  AnswersFit'
<1> DEFINE q == job[j]
           c == call[j]
           d == call'[j]
<1>1. /\ IInv' /\ \A i \in Jobs : Unmoved(i)
      /\ \A i \in Jobs \ {j} : call'[i] = call[i]
  BY ClientStepKeepsIInv
<1>2. IsCall(c) /\ IsCall(d)
  BY <1>1 DEF IInv, TypeOK
<1>3. /\ ClientMoves(q, c, d) /\ OpsInFlight(j) # {} /\ JobInv(q, OpsInFlight(j))
      /\ CallFits(q, c, OpsInFlight(j), Results(j, TRUE), Results(j, FALSE))
      /\ q.alive
  BY ClientStepMoves
<1>4. ResponsesFit(q, c, OpsInFlight(j), Results(j, TRUE))
  BY <1>3 DEF AnswersFit, Answered
<1>5. ResponsesFit(q, d, OpsInFlight(j), Results(j, TRUE))
  <2>1. Placed(q, OpsInFlight(j), Results(j, TRUE), Results(j, FALSE))
    BY OpsInFlightPlaced
  <2> HIDE DEF q, c, d
  <2>2. QED
    BY <1>2, <1>3, <1>4, <2>1, ClientKeepsResponses
<1>6. Answered(j)'
  BY <1>1, <1>5 DEF Answered, Unmoved
<1>7. QED
  BY <1>1, <1>6, UnmovedStillAnswered DEF AnswersFit

LEMMA CompletionKeepsAnswers ==
  ASSUME IInv, CallsFit, AnswersFit, NEW j \in Jobs, NEW op \in TagOp,
         NEW ok \in BOOLEAN, CompletedFor(j, op, ok)
  PROVE  AnswersFit'
<1> DEFINE q == job[j]
           c == call[j]
           F == OpsInFlight(j)
           S == Results(j, TRUE)
<1>1. /\ op \in q.held
      /\ job'[j] = Complete(q, c, op, ok)
      /\ call' = [call EXCEPT ![j] = Delivered(c, op, ok)]
      /\ F' = F
      /\ S' = (IF ok THEN S \cup {op} ELSE S)
      /\ \A i \in Jobs \ {j} : Unmoved(i)
  BY DEF CompletedFor
<1>2. F # {} /\ JobInv(q, F)
  BY <1>1, CallHasJob
<1>3. IsCall(c) /\ DOMAIN call = Jobs
  BY DEF IInv, TypeOK
<1>4. /\ call'[j] = Delivered(c, op, ok)
      /\ \A i \in Jobs \ {j} : call'[i] = call[i]
  BY <1>1, <1>3
<1>5. ResponsesFit(q, c, F, S)
  BY <1>2 DEF AnswersFit, Answered
<1>6. ResponsesFit(job'[j], call'[j], F', S')
  <2>1. Placed(q, F, S, Results(j, FALSE))
    BY OpsInFlightPlaced
  <2>2. PICK s, d, T : s = job'[j] /\ d = call'[j] /\ T = S'
    OBVIOUS
  <2> HIDE DEF q, c, F, S
  <2>3. ResponsesFit(s, d, F, T)
    BY <1>1, <1>2, <1>3, <1>4, <1>5, <2>1, <2>2, CompletionKeepsResponses
  <2>4. QED
    BY <1>1, <2>2, <2>3
<1>7. Answered(j)'
  BY <1>6 DEF Answered
<1>8. QED
  BY <1>1, <1>4, <1>7, UnmovedStillAnswered DEF AnswersFit

LEMMA TurnKeepsAnswers ==
  ASSUME IInv, CallsFit, AnswersFit, NEW j, NEW op, NEW ok, NEW r,
         Handles(j, op, ok, r)
  PROVE  CallsFit' /\ AnswersFit'
<1>1. TurnOf(j, op, ok, r)
  BY DEF Handles
<1>2. /\ Processed(j, op, ok, r)
      /\ j \in Jobs /\ op \in OpsInFlight(j)
  BY <1>1, TurnKeepsIInv
<1>3. ResponsesFit(job[j], call[j], OpsInFlight(j), Results(j, TRUE))
  BY <1>2 DEF AnswersFit, Answered
<1>4. r.alive => /\ KeepsRequests(job[j], op, ok, r)
                 /\ ResponsesFit(r, call[j], (OpsInFlight(j) \ {op}) \cup r.held,
                                 Results(j, TRUE) \ {op})
  BY <1>3, TurnAnswered
<1>5. CallsFit'
  BY <1>1, <1>4, TurnKeepsCalls
<1>6. JobInv(r, (OpsInFlight(j) \ {op}) \cup r.held)
  BY <1>1 DEF TurnOf, Handled
<1>7. /\ job'[j] = r
      /\ OpsInFlight(j)' = (OpsInFlight(j) \ {op}) \cup r.held
      /\ Results(j, TRUE)' = Results(j, TRUE) \ {op}
      /\ call' = [call EXCEPT ![j] = IF r.alive THEN @ ELSE NoCall]
  BY <1>2 DEF Processed
<1>8. DOMAIN call = Jobs
  BY DEF IInv, TypeOK
<1>9. Answered(j)'
  <2>1. CASE ~r.alive
    <3>1. OpsInFlight(j)' = {}
      BY <1>6, <1>7, <2>1 DEF JobInv
    <3>2. QED
      BY <3>1 DEF Answered
  <2>2. CASE r.alive
    <3>1. call'[j] = call[j]
      BY <1>2, <1>7, <1>8, <2>2
    <3>2. QED
      BY <1>4, <1>7, <2>2, <3>1 DEF Answered
  <2>3. QED
    BY <2>1, <2>2
<1>10. \A i \in Jobs \ {j} : call'[i] = call[i]
  BY <1>7, <1>8
<1>11. CASE op = "QUEUED_REQUEST"
  <2>1. PICK k \in Jobs \ {j} : /\ Created(k, r.type)
                                /\ \A i \in Jobs \ {j, k} : Unmoved(i)
    BY <1>2, <1>11 DEF Processed
  <2>2. r.type \in RpcType
    BY <1>6 DEF JobInv, IsJob
  <2>3. call[k] = NoCall
    BY <2>1, CallHasJob DEF Created
  <2>4. ResponsesFit(NewRpcJob(r.type), NoCall, {"QUEUED_REQUEST", "DONE"}, {})
    BY <2>2, NewJobAnswersNothing
  <2>5. Answered(k)'
    BY <1>10, <2>1, <2>3, <2>4 DEF Created, Answered
  <2>6. QED
    BY <1>5, <1>9, <1>10, <2>1, <2>5, UnmovedStillAnswered DEF AnswersFit
<1>12. CASE op # "QUEUED_REQUEST"
  <2>1. \A i \in Jobs \ {j} : Unmoved(i)
    BY <1>2, <1>12 DEF Processed
  <2>2. QED
    BY <1>5, <1>9, <1>10, <2>1, UnmovedStillAnswered DEF AnswersFit
<1>13. QED
  BY <1>11, <1>12

\* The messages of every job fit its call.
MessagesFit == CallsFit /\ AnswersFit

LEMMA InitMessages == Init => MessagesFit
<1> SUFFICES ASSUME Init PROVE MessagesFit
  OBVIOUS
<1>1. PICK first : StartedUp(first)
  BY InitStartsUp
<1>2. /\ \A j \in Jobs : call[j] = NoCall
      /\ \A j : Results(j, TRUE) = {} /\ Results(j, FALSE) = {}
  BY DEF Init, Results, HasTag
<1>3. ASSUME NEW j \in Jobs PROVE FitsAt(j) /\ Answered(j)
  <2>1. CASE OpsInFlight(j) = {}
    BY <1>2, <2>1 DEF FitsAt, Answered
  <2>2. ASSUME NEW t \in RpcTypes, first[t] = j
        PROVE  FitsAt(j) /\ Answered(j)
    <3>1. job[j] = NewRpcJob(t) /\ OpsInFlight(j) = {"QUEUED_REQUEST", "DONE"}
      BY <1>1, <2>2 DEF StartedUp
    <3>2. t \in RpcType
      BY RpcTypesAssumption
    <3>3. /\ CallFits(NewRpcJob(t), NoCall, {"QUEUED_REQUEST", "DONE"}, {}, {})
          /\ ResponsesFit(NewRpcJob(t), NoCall, {"QUEUED_REQUEST", "DONE"}, {})
      BY <3>2, NewJobHasNoCall, NewJobAnswersNothing
    <3>4. QED
      BY <1>2, <3>1, <3>3 DEF FitsAt, Answered
  <2>3. QED
    BY <1>1, <2>1, <2>2 DEF StartedUp
<1>4. QED
  BY <1>3 DEF MessagesFit, CallsFit, AnswersFit

LEMMA NextMessages == IInv /\ MessagesFit /\ [Next]_vars => MessagesFit'
<1> SUFFICES ASSUME IInv, CallsFit, AnswersFit, [Next]_vars
             PROVE  CallsFit' /\ AnswersFit'
  BY DEF MessagesFit
<1>1. ASSUME NEW j \in Jobs, ClientStep(j) PROVE CallsFit' /\ AnswersFit'
  BY <1>1, ClientStepKeepsCalls, ClientStepKeepsAnswers
<1>2. ASSUME NEW j \in Jobs, NEW op \in TagOp, HandleRpcs(j, op)
      PROVE  CallsFit' /\ AnswersFit'
  BY <1>2, HandleRpcsKeepsIInv, CompletionKeepsCalls, CompletionKeepsAnswers
<1>3. ASSUME \A i \in Jobs : Unmoved(i), call' = call
      PROVE  CallsFit' /\ AnswersFit'
  BY <1>3, UnmovedStillFits, UnmovedStillAnswered DEF CallsFit, AnswersFit
<1>4. CASE TakeIncomingTags
  BY <1>3, <1>4, TakeKeepsIInv DEF TakeIncomingTags
<1>5. CASE UNCHANGED vars
  BY <1>3, <1>5, NothingMoves DEF vars
<1>6. ASSUME NEW j, NEW op, NEW ok, NEW r, Handles(j, op, ok, r)
      PROVE  CallsFit' /\ AnswersFit'
  BY <1>6, TurnKeepsAnswers
<1>7. QED
  BY <1>1, <1>2, <1>4, <1>5, <1>6, StepCases

(* What a job has received and answered fits its call, in every state.     *)
THEOREM MessagesAlwaysFit == Spec => []MessagesFit
<1>1. Init => MessagesFit
  BY InitMessages
<1>2. IInv /\ MessagesFit /\ [Next]_vars => MessagesFit'
  BY NextMessages
<1>3. QED
  BY <1>1, <1>2, Invariant, PTL DEF Spec

-----------------------------------------------------------------------------
(* What clients get *)

(* The first part of a prefix of the route is a prefix of it.              *)
LEMMA PrefixStarts ==
  ASSUME NEW n \in Nat, n <= Len(Route), NEW s, IsSequence(s), NEW t, IsSequence(t),
         Joined(s, t) = SubSeq(Route, 1, n)
  PROVE  Len(s) <= n /\ s = SubSeq(Route, 1, Len(s))
<1>1. PICK T : Route \in Seq(T)
  BY RouteAssumption
<1>2. PICK V : s \in Seq(V)
  BY DEF IsSequence
<1>3. PICK W : t \in Seq(W)
  BY DEF IsSequence
<1>4. PICK p : p = SubSeq(Route, 1, n)
  OBVIOUS
<1>5. /\ Len(p) = n /\ \A i \in 1..n : p[i] = Route[i]
  BY <1>1, <1>4
<1>6. /\ p = s \o t
  BY <1>4 DEF Joined
<1>7. /\ Len(p) = Len(s) + Len(t)
      /\ \A i \in 1..Len(s) : p[i] = s[i]
  BY <1>2, <1>3, <1>6
<1>8. Len(s) \in Nat /\ Len(t) \in Nat /\ Len(s) <= n
  BY <1>2, <1>3, <1>5, <1>7
<1>9. \A i \in 1..Len(s) : s[i] = Route[i]
  BY <1>5, <1>7, <1>8
<1>10. s = SubSeq(Route, 1, Len(s))
  BY <1>1, <1>2, <1>8, <1>9
<1>11. QED
  BY <1>8, <1>10

(* The facts about a job that serves a call, or waits for one.             *)
LEMMA ServingFits ==
  ASSUME IInv, MessagesFit, NEW j \in Jobs, job[j].alive,
         ~Idle(j)
  PROVE  /\ JobInv(job[j], OpsInFlight(j))
         /\ CallFits(job[j], call[j], OpsInFlight(j), Results(j, TRUE), Results(j, FALSE))
         /\ Placed(job[j], OpsInFlight(j), Results(j, TRUE), Results(j, FALSE))
         /\ ResponsesFit(job[j], call[j], OpsInFlight(j), Results(j, TRUE))
         /\ IsCall(call[j])
<1>1. JobInv(job[j], OpsInFlight(j))
  BY DEF IInv, BooksOfAllJobs
<1>2. OpsInFlight(j) # {}
  BY <1>1 DEF JobInv, BooksFit
<1>3. QED
  BY <1>1, <1>2, OpsInFlightPlaced
     DEF MessagesFit, CallsFit, FitsAt, AnswersFit, Answered, IInv, TypeOK

LEMMA IdleHasNothing ==
  ASSUME NEW j \in Jobs, Idle(j)
  PROVE  /\ ~job[j].asserted /\ job[j].written = <<>> /\ job[j].finishes = 0
         /\ job[j].type = "Bidirectional" /\ \A op \in TagOp : ~InFlight(j, op)
<1>1. \A op \in TagOp : ~InFlight(j, op)
  BY DEF Idle, OpsInFlight
<1>2. QED
  BY <1>1 DEF Idle, RpcJobFields

(* As long as a write is under way, what was written last is at the front  *)
(* of the queue, where its completion looks for it, whatever is queued     *)
(* meanwhile.                                                              *)
THEOREM WrittenIsQueued == Spec => []WrittenMessageIsQueued
<1>1. IInv /\ MessagesFit => WrittenMessageIsQueued
  <2> SUFFICES ASSUME IInv, MessagesFit, NEW j \in Jobs, job[j].alive,
                      InFlight(j, "WRITE")
               PROVE  /\ job[j].mResponseQueue # <<>>
                      /\ job[j].written # <<>>
                      /\ Head(job[j].mResponseQueue)
                           = job[j].written[Len(job[j].written)]
    BY DEF WrittenMessageIsQueued
  <2>1. "WRITE" \in OpsInFlight(j) /\ ~Idle(j)
    BY DEF OpsInFlight, Idle, TagOp, AsyncOpType
  <2>2. ResponsesFit(job[j], call[j], OpsInFlight(j), Results(j, TRUE))
    BY <2>1, ServingFits
  <2>3. QED
    BY <2>1, <2>2 DEF ResponsesFit, QueueFits
<1>2. QED
  BY <1>1, Invariant, MessagesAlwaysFit, PTL

(* No handler ever reaches a GPR_ASSERT that fails, whatever the clients   *)
(* and the network do.                                                     *)
THEOREM AssertionsHold == Spec => []NoAssertionFails
<1>1. IInv /\ MessagesFit => NoAssertionFails
  <2> SUFFICES ASSUME IInv, MessagesFit, NEW j \in Jobs
               PROVE  ~job[j].asserted
    BY DEF NoAssertionFails
  <2>1. CASE Idle(j)
    BY <2>1, IdleHasNothing
  <2>2. CASE ~Idle(j) /\ ~job[j].alive
    BY <2>2 DEF IInv, BooksOfAllJobs, JobInv
  <2>3. CASE ~Idle(j) /\ job[j].alive
    BY <2>3, ServingFits DEF ResponsesFit
  <2>4. QED
    BY <2>1, <2>2, <2>3
<1>2. QED
  BY <1>1, Invariant, MessagesAlwaysFit, PTL

(* A chat's notes are echoed in the order they were sent, none twice and   *)
(* none left out, whatever reads and writes overlap.                       *)
THEOREM NotesEchoedInOrder == Spec => []EchoInOrder
<1>1. IInv /\ MessagesFit => EchoInOrder
  <2> SUFFICES ASSUME IInv, MessagesFit, NEW j \in Jobs, Serves(j, "Bidirectional")
               PROVE  /\ Len(job[j].written) <= call[j].delivered
                      /\ job[j].written = SubSeq(Route, 1, Len(job[j].written))
    BY DEF EchoInOrder
  <2> DEFINE q == job[j]
             c == call[j]
             F == OpsInFlight(j)
             S == Results(j, TRUE)
  <2>1. q.alive /\ q.type = "Bidirectional"
    BY DEF Serves
  <2>2. IsCall(c) /\ c.delivered \in Nat
    BY DEF IInv, TypeOK, IsCall
  <2>3. CASE Idle(j)
    <3>1. q.written = <<>>
      BY <2>3, IdleHasNothing
    <3>2. Len(<<>>) = 0 /\ SubSeq(Route, 1, 0) = <<>>
      BY RouteAssumption
    <3>3. QED
      BY <2>2, <3>1, <3>2
  <2>4. CASE ~Idle(j)
    <3>1. ResponsesFit(q, c, F, S) /\ CallFits(q, c, F, S, Results(j, FALSE))
      BY <2>1, <2>4, ServingFits
    <3> HIDE DEF q, c, F, S
    <3>2. PICK t : t = IF "WRITE" \in F THEN Tail(q.mResponseQueue) ELSE q.mResponseQueue
      OBVIOUS
    <3>3. IsSequence(q.written) /\ IsSequence(t)
      <4>1. QueueFits(q, F)
        BY <3>1 DEF ResponsesFit
      <4>2. CASE "WRITE" \in F
        BY <3>2, <4>1, <4>2, SequenceTail DEF QueueFits
      <4>3. CASE "WRITE" \notin F
        BY <3>2, <4>1, <4>3 DEF QueueFits
      <4>4. QED
        BY <4>1, <4>2, <4>3 DEF QueueFits
    <3>4. PICK n : n = c.delivered - One("READ" \in S)
      OBVIOUS
    <3>5. n \in Nat /\ n <= c.delivered /\ c.delivered <= Len(Route)
      <4>1. c.sent <= Len(Route) /\ ("READ" \in S => c.delivered > 0)
        BY <3>1 DEF CallFits
      <4>2. c.sent \in Nat /\ c.delivered <= c.sent /\ Len(Route) \in Nat
        BY <2>2, RouteAssumption DEF IsCall
      <4>3. QED
        BY <2>2, <3>4, <4>1, <4>2 DEF One
    <3>6. Joined(q.written, t) = SubSeq(Route, 1, n)
      BY <2>1, <3>1, <3>2, <3>4 DEF ResponsesFit, Outgoing
    <3>7. n <= Len(Route)
      BY <2>2, <3>5, RouteAssumption
    <3>8. Len(q.written) <= n /\ q.written = SubSeq(Route, 1, Len(q.written))
      BY <3>3, <3>5, <3>6, <3>7, PrefixStarts
    <3>9. Len(q.written) \in Nat
      BY <3>3 DEF IsSequence
    <3>10. Len(q.written) <= c.delivered
      BY <2>2, <3>5, <3>8, <3>9
    <3>11. QED
      BY <3>8, <3>10 DEF q, c
  <2>5. QED
    BY <2>3, <2>4
<1>2. QED
  BY <1>1, Invariant, MessagesAlwaysFit, PTL

(* A chat that the server ends while its client is there has echoed every  *)
(* note the client sent.                                                   *)
THEOREM FinishedChatsAreEchoed == Spec => []ChatFinishedWhenAllEchoed
<1>1. IInv /\ MessagesFit => ChatFinishedWhenAllEchoed
  <2> SUFFICES ASSUME IInv, MessagesFit, NEW j \in Jobs, Serves(j, "Bidirectional"),
                      Finished(j), call[j].phase = "Open"
               PROVE  /\ call[j].halfClosed
                      /\ job[j].written = SubSeq(Route, 1, call[j].sent)
    BY DEF ChatFinishedWhenAllEchoed
  <2> DEFINE q == job[j]
             c == call[j]
             F == OpsInFlight(j)
             S == Results(j, TRUE)
             X == Results(j, FALSE)
  <2>1. q.alive /\ q.type = "Bidirectional" /\ q.finishes > 0
    BY DEF Serves, Finished
  <2>2. ~Idle(j)
    BY <2>1, IdleHasNothing
  <2>3. /\ JobInv(q, F) /\ CallFits(q, c, F, S, X) /\ Placed(q, F, S, X)
        /\ ResponsesFit(q, c, F, S) /\ IsCall(c)
    BY <2>1, <2>2, ServingFits
  <2>4. c.phase = "Open"
    OBVIOUS
  <2> HIDE DEF q, c, F, S, X
  <2>5. "READ" \notin F /\ "WRITE" \notin F
    <3>1. q.finishes \in Nat /\ q.finishes <= 1
      BY <2>1, <2>3 DEF JobInv, StagesFit, IsJob
    <3>2. q.finishes = 1
      BY <2>1, <3>1
    <3>3. QED
      BY <2>1, <2>3, <3>2 DEF JobInv, StagesFit
  <2>6. q.mClientStreamingDone /\ q.mResponseQueue = <<>>
    BY <2>1, <2>3, <2>4, <2>5 DEF ResponsesFit
  <2>7. c.halfClosed /\ c.delivered = c.sent
    BY <2>3, <2>4, <2>6 DEF CallFits
  <2>8. "READ" \notin S /\ c.delivered - One("READ" \in S) = c.sent
    <3>1. "READ" \notin S
      BY <2>3, <2>5 DEF Placed
    <3>2. c.sent \in Nat
      BY <2>3 DEF IsCall
    <3>3. QED
      BY <2>7, <3>1, <3>2 DEF One
  <2>9. Joined(q.written, <<>>) = SubSeq(Route, 1, c.sent)
    BY <2>1, <2>3, <2>5, <2>6, <2>8 DEF ResponsesFit, Outgoing
  <2>10. Joined(q.written, <<>>) = q.written
    <3>1. IsSequence(q.written)
      BY <2>3 DEF ResponsesFit, QueueFits
    <3>2. QED
      BY <3>1 DEF Joined, IsSequence
  <2>11. QED
    BY <2>7, <2>9, <2>10 DEF q, c
<1>2. QED
  BY <1>1, Invariant, MessagesAlwaysFit, PTL

(* GetFeature answers the point of its own call, with the name of a        *)
(* feature there if there is one, for any database.                        *)
THEOREM GetFeatureIsRight == Spec => []GetFeatureAnswersItsCall
<1>1. IInv /\ MessagesFit => GetFeatureAnswersItsCall
  <2>1. ASSUME IInv, MessagesFit, NEW j \in Jobs, Serves(j, "Unary"), Finished(j)
        PROVE  job[j].mResponse = FeatureAt(call[j].request)
    <3>1. job[j].alive /\ job[j].type = "Unary" /\ job[j].finishes > 0
      BY <2>1 DEF Serves, Finished
    <3>2. ~Idle(j)
      BY <2>1, <3>1, IdleHasNothing
    <3>3. ResponsesFit(job[j], call[j], OpsInFlight(j), Results(j, TRUE))
      BY <2>1, <3>1, <3>2, ServingFits
    <3>4. QED
      BY <3>1, <3>3 DEF ResponsesFit
  <2>2. ASSUME NEW point, NEW answer, answer = FeatureAt(point)
        PROVE  /\ answer.location = point
               /\ \/ \E i \in DOMAIN FeatureList :
                       /\ FeatureList[i].location = point
                       /\ FeatureList[i].name = answer.name
                  \/ /\ answer.name = ""
                     /\ \A i \in DOMAIN FeatureList : FeatureList[i].location # point
    BY <2>2, PointIsNamed
  <2>3. QED
    BY <2>1, <2>2, Zenon DEF GetFeatureAnswersItsCall
<1>2. QED
  BY <1>1, Invariant, MessagesAlwaysFit, PTL
-----------------------------------------------------------------------------
(* What RecordRoute keeps of the calls *)

\* mRecordStateMap[job] for an entry e, or for no entry.
StateOf(e) == IF e = NULL THEN NewRecordRouteState ELSE e

EntryOK(e) == e = NULL \/ Recorded(e)

\* Entry e of job r, whose call has had n points: it covers them until the
\* answer is sent, and the answer does from then on.
EntryFits(r, n, e) ==
  IF r.finishes = 0
  THEN /\ Covers(StateOf(e), n)
       /\ n > 0 => Recorded(e) /\ e.previous = Route[n]
  ELSE /\ e = NULL
       /\ SummaryCovers(r.mResponse, n)

StateFits(j) ==
  OpsInFlight(j) # {} =>
    /\ job[j].type \in RpcTypes
    /\ job[j].type = "ServerStreaming" /\ call[j].phase # "None" =>
         call[j].request \in Rectangles
    /\ job[j].type = "ClientStreaming" =>
         EntryFits(job[j], RequestsHandled(call[j], Results(j, TRUE)), mRecordStateMap[j])

StatesFit == \A j \in Jobs : StateFits(j) /\ EntryOK(mRecordStateMap[j])

LEMMA EntryIsState ==
  ASSUME NEW e, EntryOK(e)
  PROVE  /\ StateOf(e) = NewRecordRouteState \/ Recorded(StateOf(e))
         /\ StateOf(e) \in RecordRouteStates
         /\ Recorded(e) => e # NULL /\ StateOf(e) = e
BY NoStateIsNull, NewStateIsState DEF EntryOK, StateOf, Recorded

LEMMA PointEnters ==
  ASSUME RouteHasPoints, NEW n \in 1..Len(Route), NEW e, EntryOK(e),
         NEW q, q.finishes = 0, EntryFits(q, n - 1, e),
         NEW s, s.finishes = 0, NEW d, d = RecordPoint(StateOf(e), Route[n])
  PROVE  EntryOK(d) /\ EntryFits(s, n, d)
<1>1. Recorded(d) /\ d.previous = Route[n] /\ Covers(d, n)
  <2>1. Covers(StateOf(e), n - 1)
    BY DEF EntryFits
  <2>2. n > 1 => Recorded(StateOf(e)) /\ StateOf(e).previous = Route[n - 1]
    <3>1. n > 1 => n - 1 > 0
      OBVIOUS
    <3>2. n > 1 => Recorded(e) /\ e.previous = Route[n - 1]
      BY <3>1 DEF EntryFits
    <3>3. QED
      BY <3>2, EntryIsState
  <2>3. StateOf(e) = NewRecordRouteState \/ Recorded(StateOf(e))
    BY EntryIsState
  <2>4. PICK state : state = StateOf(e)
    OBVIOUS
  <2>5. QED
    BY <2>1, <2>2, <2>3, <2>4, PointIsCovered
<1>2. StateOf(d) = d /\ EntryOK(d)
  BY <1>1, EntryIsState DEF EntryOK
<1>3. QED
  BY <1>1, <1>2 DEF EntryFits

LEMMA RouteSummed ==
  ASSUME NEW n, NEW e, EntryOK(e), NEW q, q.finishes = 0, EntryFits(q, n, e),
         NEW s, s.finishes # 0, s.mResponse = RouteSummary(StateOf(e))
  PROVE  EntryFits(s, n, NULL)
<1>1. Covers(StateOf(e), n) /\ (n > 0 => Recorded(StateOf(e)))
  BY EntryIsState DEF EntryFits
<1>2. SummaryCovers(RouteSummary(StateOf(e)), n)
  BY <1>1, SummaryIsCovered
<1>3. QED
  BY <1>2 DEF EntryFits

LEMMA EntryStays ==
  ASSUME NEW n, NEW e, NEW q, EntryFits(q, n, e),
         NEW s, s.finishes = q.finishes, s.mResponse = q.mResponse
  PROVE  EntryFits(s, n, e)
BY DEF EntryFits

LEMMA NothingEntered ==
  ASSUME RouteHasPoints, NEW e, EntryOK(e), NEW s, s.finishes = 0
  PROVE  EntryFits(s, 0, e)
<1>1. Covers(StateOf(e), 0)
  BY EntryIsState, NothingIsCovered
<1>2. QED
  BY <1>1 DEF EntryFits

LEMMA RecordRouteHasPoints == "ClientStreaming" \in RpcTypes => RouteHasPoints
BY RoutePointsAssumption DEF RouteHasPoints

LEMMA NewJobHasNoPoints ==
  ASSUME NEW t \in RpcTypes, NEW e, EntryOK(e), t = "ClientStreaming"
  PROVE  EntryFits(NewRpcJob(t), RequestsHandled(NoCall, {}), e)
<1>1. NewRpcJob(t).finishes = 0
  BY DEF NewRpcJob, GrpcHolds, AsyncOpStarted, RpcJobFields
<1>2. RequestsHandled(NoCall, {}) = 0
  BY DEF RequestsHandled, NoCall, One
<1>3. QED
  BY <1>1, <1>2, RecordRouteHasPoints, NothingEntered

(* An address where nothing happens.                                       *)
LEMMA UnmovedStateFits ==
  ASSUME StatesFit, NEW i \in Jobs, Unmoved(i), call'[i] = call[i],
         mRecordStateMap'[i] = mRecordStateMap[i]
  PROVE  StateFits(i)' /\ EntryOK(mRecordStateMap'[i])
BY DEF StatesFit, StateFits, Unmoved

(* The clients ask only for rectangles.                                    *)
LEMMA ClientAsksForRectangle ==
  ASSUME IInv, NEW j \in Jobs, Client(j), job[j].type = "ServerStreaming"
  PROVE  \/ call'[j].request \in Rectangles
         \/ call[j].phase # "None" /\ call'[j].request = call[j].request
<1>1. DOMAIN call = Jobs /\ IsCall(call[j])
  BY DEF IInv, TypeOK
<1>2. ASSUME NEW request \in Requests(job[j].type), StartCall(j, request)
      PROVE  call'[j].request \in Rectangles
  <2>1. request \in Rectangles
    BY <1>2 DEF Requests
  <2>2. call'[j] = NewCall(request, Streams(job[j].type))
    BY <1>1, <1>2 DEF StartCall
  <2>3. NewCall(request, Streams(job[j].type)).request = request
    BY DEF NewCall, NoCall
  <2>4. QED
    BY <2>1, <2>2, <2>3
<1>3. SendRequest(j) => call[j].phase # "None" /\ call'[j].request = call[j].request
  BY <1>1 DEF SendRequest, CallOpen
<1>4. HalfClose(j) => call[j].phase # "None" /\ call'[j].request = call[j].request
  BY <1>1 DEF HalfClose, CallOpen
<1>5. Cancel(j) => call[j].phase # "None" /\ call'[j].request = call[j].request
  BY <1>1 DEF Cancel, CallOpen
<1>6. QED
  BY <1>2, <1>3, <1>4, <1>5 DEF Client

LEMMA ClientKeepsStates ==
  ASSUME IInv, CallsFit, StatesFit, NEW j \in Jobs, Client(j)
  PROVE  StatesFit'
<1> DEFINE q == job[j]
           c == call[j]
           d == call'[j]
           F == OpsInFlight(j)
           S == Results(j, TRUE)
           X == Results(j, FALSE)
<1>0. ClientStep(j)
  BY DEF Client, ClientStep
<1>1. /\ IInv' /\ \A i \in Jobs : Unmoved(i)
      /\ \A i \in Jobs \ {j} : call'[i] = call[i]
      /\ mRecordStateMap' = mRecordStateMap
  BY <1>0, ClientStepKeepsIInv
<1>2. IsCall(c) /\ IsCall(d)
  BY <1>1 DEF IInv, TypeOK
<1>3. ClientMoves(q, c, d) /\ F # {} /\ JobInv(q, F) /\ CallFits(q, c, F, S, X)
  BY <1>0, ClientStepMoves
<1>4. d.delivered = c.delivered
  <2>1. CASE c.phase = "None" /\ "QUEUED_REQUEST" \in q.held /\ d.phase = "Open" /\ d.sent = 0
    <3>1. c.delivered = 0
      BY <1>3, <2>1 DEF JobInv, CallFits
    <3>2. d.delivered = 0
      BY <1>2, <2>1 DEF IsCall
    <3>3. QED
      BY <3>1, <3>2
  <2>2. QED
    BY <1>3, <2>1 DEF ClientMoves
<1>5. StateFits(j)
  BY DEF StatesFit
<1>6. RequestsHandled(d, S) = RequestsHandled(c, S)
  BY <1>4 DEF RequestsHandled
<1>7. q.type = "ServerStreaming" => d.request \in Rectangles
  BY <1>3, <1>5, ClientAsksForRectangle DEF StateFits
<1>8. StateFits(j)'
  BY <1>1, <1>3, <1>5, <1>6, <1>7 DEF StateFits, Unmoved
<1>9. QED
  BY <1>1, <1>8, UnmovedStateFits DEF StatesFit

LEMMA CompletionKeepsStates ==
  ASSUME IInv, CallsFit, StatesFit, NEW j \in Jobs, NEW op \in TagOp,
         NEW ok \in BOOLEAN, CompletedFor(j, op, ok), mRecordStateMap' = mRecordStateMap
  PROVE  StatesFit'
<1> DEFINE q == job[j]
           c == call[j]
           F == OpsInFlight(j)
           S == Results(j, TRUE)
           e == mRecordStateMap[j]
<1>1. /\ op \in q.held
      /\ job'[j] = Complete(q, c, op, ok)
      /\ call' = [call EXCEPT ![j] = Delivered(c, op, ok)]
      /\ F' = F
      /\ S' = (IF ok THEN S \cup {op} ELSE S)
      /\ \A i \in Jobs \ {j} : Unmoved(i)
  BY DEF CompletedFor
<1>2. F # {} /\ JobInv(q, F) /\ CallFits(q, c, F, S, Results(j, FALSE))
  BY <1>1, CallHasJob
<1>3. IsCall(c) /\ DOMAIN call = Jobs /\ op \notin S
  BY <1>1, OpsInFlightPlaced DEF IInv, TypeOK, Placed
<1>4. /\ call'[j] = Delivered(c, op, ok)
      /\ \A i \in Jobs \ {j} : call'[i] = call[i]
  BY <1>1, <1>3
<1>5. /\ job'[j].type = q.type /\ job'[j].finishes = q.finishes
      /\ job'[j].mResponse = q.mResponse
  BY <1>1, <1>2, Fields DEF Complete, JobInv, IsJob
<1>6. /\ RequestsHandled(call'[j], S') = RequestsHandled(c, S)
      /\ call'[j].phase = c.phase /\ call'[j].request = c.request
  <2>1. PICK d, T : d = call'[j] /\ T = S'
    OBVIOUS
  <2> HIDE DEF c, S
  <2>2. RequestsHandled(d, T) = RequestsHandled(c, S) /\ d.phase = c.phase /\ d.request = c.request
    BY <1>1, <1>3, <1>4, <2>1, CompletionHandlesNoRequest
  <2>3. QED
    BY <2>1, <2>2
<1>7. StateFits(j)
  BY DEF StatesFit
<1>8. StateFits(j)'
  <2>1. job'[j].type \in RpcTypes
    BY <1>2, <1>5, <1>7 DEF StateFits
  <2>2. job'[j].type = "ServerStreaming" /\ call'[j].phase # "None" =>
          call'[j].request \in Rectangles
    BY <1>2, <1>5, <1>6, <1>7 DEF StateFits
  <2>3. job'[j].type = "ClientStreaming" => EntryFits(job'[j], RequestsHandled(call'[j], S'), e)
    <3>1. q.type = "ClientStreaming" => EntryFits(q, RequestsHandled(c, S), e)
      BY <1>2, <1>7 DEF StateFits
    <3>2. PICK s : s = job'[j]
      OBVIOUS
    <3> HIDE DEF q, c, S, e
    <3>3. QED
      BY <1>5, <1>6, <3>1, <3>2, EntryStays
  <2>4. QED
    BY <2>1, <2>2, <2>3 DEF StateFits
<1>9. QED
  BY <1>1, <1>4, <1>8, UnmovedStateFits DEF StatesFit

(* What the handler of job j makes of its entry.                           *)
LEMMA TurnKeepsEntry ==
  ASSUME IInv, MessagesFit, StatesFit, NEW j, NEW op, NEW ok, NEW r,
         Handles(j, op, ok, r), r.alive, job[j].type = "ClientStreaming"
  PROVE  LET d == IF op = "READ" THEN RecordRouteEntry(j, r, ok) ELSE mRecordStateMap[j]
         IN  EntryOK(d) /\ EntryFits(r, RequestsHandled(call[j], Results(j, TRUE) \ {op}), d)
<1> DEFINE q == job[j]
           c == call[j]
           F == OpsInFlight(j)
           S == Results(j, TRUE)
           X == Results(j, FALSE)
           e == mRecordStateMap[j]
<1>1. /\ j \in Jobs /\ op \in TagOp /\ ok \in BOOLEAN
      /\ q.alive /\ JobInv(q, F) /\ op \in Results(j, ok) /\ op \in F
  BY TurnKeepsIInv DEF Handles
<1>2. CallFits(q, c, F, S, X) /\ Placed(q, F, S, X) /\ IsCall(c)
  BY <1>1, OpsInFlightPlaced DEF MessagesFit, CallsFit, FitsAt, IInv, TypeOK
<1>3. op \in (IF ok THEN S ELSE X)
  BY <1>1
<1>4. HandlerResult(j, op, ok, r)
  BY DEF Handles
<1>5. /\ EntryOK(e) /\ EntryFits(q, RequestsHandled(c, S), e)
      /\ "ClientStreaming" \in RpcTypes
  BY <1>1 DEF StatesFit, StateFits
<1>6. RouteHasPoints
  BY <1>5, RecordRouteHasPoints
<1>7. CASE op = "READ"
  <2>1. r = ClientStreamingOnRead(q, ok, RouteSummary(RecordRouteState(j)))
    BY <1>4, <1>7 DEF HandlerResult
  <2>2. RecordRouteState(j) = StateOf(e)
    BY DEF RecordRouteState, StateOf
  <2>3. q.finishes = 0
    BY <1>1, <1>7 DEF JobInv, StagesFit, IsJob
  <2>4. PICK summary : summary = RouteSummary(StateOf(e))
    OBVIOUS
  <2>5. /\ ok => Keeps(q, r, {})
        /\ ~ok => r.mResponse = summary /\ r.finishes = q.finishes + 1
    BY <1>1, <2>1, <2>2, <2>4, StreamRead
  <2>6. CASE ok
    <3>1. r.finishes = 0
      BY <2>3, <2>5, <2>6, Fields DEF Keeps, Books
    <3>2. RecordRouteEntry(j, r, ok) = RecordPoint(StateOf(e), q.mRequest)
      BY <2>2, <2>6 DEF RecordRouteEntry
    <3>3. "READ" \in S /\ c.delivered > 0 /\ q.mRequest = Route[c.delivered]
      BY <1>2, <1>3, <1>7, <2>6 DEF CallFits
    <3>4. c.delivered \in 1..Len(Route)
      <4>1. c.sent <= Len(Route)
        BY <1>2 DEF CallFits
      <4>2. QED
        BY <1>2, <3>3, <4>1, RouteAssumption DEF IsCall
    <3>5. /\ RequestsHandled(c, S) = c.delivered - 1
          /\ RequestsHandled(c, S \ {op}) = c.delivered
      <4>1. c.delivered \in Int
        BY <3>4
      <4> HIDE DEF c, S
      <4>2. QED
        BY <1>7, <3>3, <4>1, ReadIsHandled
    <3>6. PICK n, d : n = c.delivered /\ d = RecordRouteEntry(j, r, ok)
      OBVIOUS
    <3>7. EntryOK(d) /\ EntryFits(r, n, d)
      <4>1. /\ n \in 1..Len(Route) /\ EntryFits(q, n - 1, e)
            /\ d = RecordPoint(StateOf(e), Route[n])
        BY <1>5, <3>2, <3>3, <3>4, <3>5, <3>6
      <4> HIDE DEF q, e
      <4>2. QED
        BY <1>5, <1>6, <2>3, <3>1, <4>1, PointEnters
    <3>8. QED
      BY <1>7, <3>5, <3>6, <3>7
  <2>7. CASE ~ok
    <3>1. r.mResponse = RouteSummary(StateOf(e)) /\ r.finishes # 0
      BY <2>3, <2>4, <2>5, <2>7
    <3>2. RecordRouteEntry(j, r, ok) = NULL
      BY <2>7 DEF RecordRouteEntry
    <3>3. RequestsHandled(c, S \ {op}) = RequestsHandled(c, S)
      <4>1. "READ" \notin S
        BY <1>2, <1>3, <1>7, <2>7 DEF Placed
      <4>2. One("READ" \in S) = One("READ" \in S \ {op})
        BY <4>1 DEF One
      <4>3. QED
        BY <4>2 DEF RequestsHandled
    <3>4. PICK n : n = RequestsHandled(c, S)
      OBVIOUS
    <3>5. EntryFits(r, n, NULL)
      <4>1. EntryFits(q, n, e)
        BY <1>5, <3>4
      <4> HIDE DEF q, e
      <4>2. QED
        BY <1>5, <2>3, <3>1, <4>1, RouteSummed
    <3>6. EntryOK(NULL)
      BY DEF EntryOK
    <3>7. QED
      BY <1>7, <3>2, <3>3, <3>4, <3>5, <3>6
  <2>8. QED
    BY <2>6, <2>7
<1>8. CASE op # "READ"
  <2>1. Keeps(q, r, {"mOnDoneCalled"})
    <3>1. CASE op = "QUEUED_REQUEST"
      <4>1. r = ClientStreamingOnInit(q, TRUE)
        <5>1. ok
          BY <1>2, <1>3, <3>1 DEF CallFits
        <5>2. r = ClientStreamingOnInit(q, ok)
          BY <1>4, <3>1 DEF HandlerResult
        <5>3. QED
          BY <1>1, <5>1, <5>2
      <4>2. Keeps(q, r, {})
        BY <1>1, <4>1, StreamAccepted
      <4>3. QED
        BY <4>2 DEF Keeps
    <3>2. CASE op = "FINISH"
      <4>1. r = AsyncOpFinished(q, "FINISH")
        BY <1>4, <3>2 DEF HandlerResult, OnFinish
      <4>2. Keeps(q, r, {})
        BY <1>1, <4>1, Retired
      <4>3. QED
        BY <4>2 DEF Keeps
    <3>3. CASE op = "DONE"
      <4>1. r = OnDone(q)
        BY <1>4, <3>3 DEF HandlerResult
      <4>2. QED
        BY <1>1, <4>1, DoneKeeps
    <3>4. op # "WRITE"
      BY <1>1 DEF JobInv, StagesFit
    <3>5. QED
      BY <1>1, <1>8, <3>1, <3>2, <3>3, <3>4 DEF TagOp, AsyncOpType
  <2>2. r.finishes = q.finishes /\ r.mResponse = q.mResponse
    BY <2>1, Fields DEF Keeps, Books
  <2>3. RequestsHandled(c, S \ {op}) = RequestsHandled(c, S)
    <3>1. "READ" \in S \ {op} <=> "READ" \in S
      BY <1>8
    <3>2. QED
      BY <3>1 DEF RequestsHandled, One
  <2>4. EntryFits(r, RequestsHandled(c, S), e)
    <3>1. PICK n : n = RequestsHandled(c, S)
      OBVIOUS
    <3>2. EntryFits(q, n, e)
      BY <1>5, <3>1
    <3>3. EntryFits(r, n, e)
      <4> HIDE DEF q, e
      <4>1. QED
        BY <2>2, <3>2, EntryStays
    <3>4. QED
      BY <3>1, <3>3
  <2>5. QED
    BY <1>5, <1>8, <2>3, <2>4
<1>9. QED
  BY <1>7, <1>8

LEMMA TurnKeepsStates ==
  ASSUME IInv, MessagesFit, StatesFit, NEW j, NEW op, NEW ok, NEW r,
         Handles(j, op, ok, r)
  PROVE  StatesFit'
<1> DEFINE e == mRecordStateMap[j]
           d == mRecordStateMap'[j]
<1>1. TurnOf(j, op, ok, r)
  BY DEF Handles
<1>2. /\ Processed(j, op, ok, r)
      /\ j \in Jobs /\ op \in OpsInFlight(j) /\ JobInv(job[j], OpsInFlight(j))
  BY <1>1, TurnKeepsIInv
<1>3. /\ job'[j] = r
      /\ OpsInFlight(j)' = (OpsInFlight(j) \ {op}) \cup r.held
      /\ Results(j, TRUE)' = Results(j, TRUE) \ {op}
      /\ call' = [call EXCEPT ![j] = IF r.alive THEN @ ELSE NoCall]
  BY <1>2 DEF Processed
<1>4. /\ JobInv(r, (OpsInFlight(j) \ {op}) \cup r.held)
      /\ r.type = job[j].type
  BY <1>1 DEF TurnOf, Handled
<1>5. DOMAIN call = Jobs /\ DOMAIN mRecordStateMap = Jobs
  BY DEF IInv, TypeOK
<1>6. \A i \in Jobs \ {j} : call'[i] = call[i]
  BY <1>3, <1>5
<1>7. /\ \A i \in Jobs \ {j} : mRecordStateMap'[i] = mRecordStateMap[i]
      /\ d = IF op = "READ" /\ job[j].type = "ClientStreaming"
             THEN RecordRouteEntry(j, r, ok) ELSE e
  <2>1. MapResult(j, op, ok, r)
    BY DEF Handles
  <2>2. QED
    BY <1>2, <1>5, <2>1 DEF MapResult
<1>8. StateFits(j) /\ EntryOK(e)
  BY <1>2 DEF StatesFit
<1>9. job[j].type \in RpcTypes
  BY <1>2, <1>8 DEF StateFits
<1>10. StateFits(j)' /\ EntryOK(d)
  <2>1. CASE ~r.alive
    <3>1. OpsInFlight(j)' = {}
      BY <1>3, <1>4, <2>1 DEF JobInv
    <3>2. d = e
      BY <1>7, <2>1 DEF RecordRouteEntry
    <3>3. QED
      BY <1>8, <3>1, <3>2 DEF StateFits
  <2>2. CASE r.alive /\ job[j].type = "ClientStreaming"
    <3>1. call'[j] = call[j]
      BY <1>2, <1>3, <1>5, <2>2
    <3>2. d = IF op = "READ" THEN RecordRouteEntry(j, r, ok) ELSE e
      BY <1>7, <2>2
    <3>3. EntryOK(d) /\ EntryFits(r, RequestsHandled(call[j], Results(j, TRUE) \ {op}), d)
      BY <2>2, <3>2, TurnKeepsEntry
    <3>4. job'[j].type = "ClientStreaming"
      BY <1>3, <1>4, <2>2
    <3>5. QED
      BY <1>3, <1>9, <2>2, <3>1, <3>3, <3>4 DEF StateFits
  <2>3. CASE r.alive /\ job[j].type # "ClientStreaming"
    <3>1. call'[j] = call[j]
      BY <1>2, <1>3, <1>5, <2>3
    <3>2. d = e
      BY <1>7, <2>3
    <3>3. job'[j].type = job[j].type
      BY <1>3, <1>4
    <3>4. job[j].type = "ServerStreaming" /\ call[j].phase # "None" =>
            call[j].request \in Rectangles
      BY <1>2, <1>8 DEF StateFits
    <3>5. QED
      BY <1>8, <1>9, <2>3, <3>1, <3>2, <3>3, <3>4 DEF StateFits
  <2>4. QED
    BY <2>1, <2>2, <2>3
<1>11. CASE op = "QUEUED_REQUEST"
  <2>1. PICK k \in Jobs \ {j} : /\ Created(k, r.type)
                                /\ \A i \in Jobs \ {j, k} : Unmoved(i)
    BY <1>2, <1>11 DEF Processed
  <2>2. call'[k] = NoCall
    BY <1>6, <2>1, CallHasJob DEF Created, MessagesFit
  <2>3. mRecordStateMap'[k] = mRecordStateMap[k] /\ EntryOK(mRecordStateMap[k])
    BY <1>7, <2>1 DEF StatesFit
  <2>4. /\ job'[k] = NewRpcJob(r.type) /\ Results(k, TRUE)' = {}
        /\ r.type \in RpcTypes /\ r.type \in RpcType
    BY <1>4, <1>9, <2>1, RpcTypesAssumption DEF Created
  <2>5. job'[k].type = r.type
    BY <2>4, Memory
  <2>6. r.type = "ClientStreaming" =>
          EntryFits(job'[k], RequestsHandled(call'[k], Results(k, TRUE)'), mRecordStateMap'[k])
    BY <2>2, <2>3, <2>4, NewJobHasNoPoints
  <2>7. NoCall.phase = "None"
    BY DEF NoCall
  <2>8. StateFits(k)' /\ EntryOK(mRecordStateMap'[k])
    BY <2>2, <2>3, <2>4, <2>5, <2>6, <2>7 DEF StateFits
  <2>9. \A i \in Jobs \ {j, k} : StateFits(i)' /\ EntryOK(mRecordStateMap'[i])
    BY <1>6, <1>7, <2>1, UnmovedStateFits
  <2>10. QED
    BY <1>10, <2>8, <2>9 DEF StatesFit
<1>12. CASE op # "QUEUED_REQUEST"
  <2>1. \A i \in Jobs \ {j} : Unmoved(i)
    BY <1>2, <1>12 DEF Processed
  <2>2. \A i \in Jobs \ {j} : StateFits(i)' /\ EntryOK(mRecordStateMap'[i])
    BY <1>6, <1>7, <2>1, UnmovedStateFits
  <2>3. QED
    BY <1>10, <2>2 DEF StatesFit
<1>13. QED
  BY <1>11, <1>12

LEMMA InitStates == Init => StatesFit
<1> SUFFICES ASSUME Init, NEW j \in Jobs
             PROVE  StateFits(j) /\ EntryOK(mRecordStateMap[j])
  BY DEF StatesFit
<1>1. PICK first : StartedUp(first)
  BY InitStartsUp
<1>2. call[j] = NoCall /\ Results(j, TRUE) = {} /\ mRecordStateMap[j] = NULL
  BY DEF Init, Results, HasTag
<1>3. EntryOK(mRecordStateMap[j])
  BY <1>2 DEF EntryOK
<1>4. CASE OpsInFlight(j) = {}
  BY <1>3, <1>4 DEF StateFits
<1>5. ASSUME NEW t \in RpcTypes, first[t] = j PROVE StateFits(j)
  <2>1. job[j] = NewRpcJob(t) /\ job[j].type = t
    BY <1>1, <1>5 DEF StartedUp
  <2>2. t = "ClientStreaming" =>
          EntryFits(job[j], RequestsHandled(call[j], Results(j, TRUE)), mRecordStateMap[j])
    BY <1>2, <1>3, <2>1, NewJobHasNoPoints
  <2>3. NoCall.phase = "None"
    BY DEF NoCall
  <2>4. QED
    BY <1>2, <2>1, <2>2, <2>3 DEF StateFits
<1>6. QED
  BY <1>1, <1>3, <1>4, <1>5 DEF StartedUp

LEMMA NextStates == IInv /\ MessagesFit /\ StatesFit /\ [Next]_vars => StatesFit'
<1> SUFFICES ASSUME IInv, MessagesFit, CallsFit, StatesFit, [Next]_vars PROVE StatesFit'
  BY DEF MessagesFit
<1>1. ASSUME NEW j \in Jobs, Client(j) PROVE StatesFit'
  BY <1>1, ClientKeepsStates
<1>2. ASSUME NEW j \in Jobs, NEW op \in TagOp, HandleRpcs(j, op) PROVE StatesFit'
  BY <1>2, HandleRpcsKeepsIInv, CompletionKeepsStates
<1>3. ASSUME \A i \in Jobs : Unmoved(i), call' = call, mRecordStateMap' = mRecordStateMap
      PROVE  StatesFit'
  BY <1>3, UnmovedStateFits DEF StatesFit
<1>4. CASE TakeIncomingTags
  BY <1>3, <1>4, TakeKeepsIInv DEF TakeIncomingTags
<1>5. CASE UNCHANGED vars
  BY <1>3, <1>5, NothingMoves DEF vars
<1>6. CASE ProcessTag
  BY <1>6, TagIsHandled, TurnKeepsStates
<1>7. QED
  BY <1>1, <1>2, <1>4, <1>5, <1>6 DEF Next

(* A RecordRouteState covers the points its call has had so far and is in  *)
(* the map until the summary made of it is sent, whatever a call before at *)
(* the same address has left there.                                        *)
THEOREM StatesAlwaysFit == Spec => []StatesFit
<1>1. Init => StatesFit
  BY InitStates
<1>2. IInv /\ MessagesFit /\ StatesFit /\ [Next]_vars => StatesFit'
  BY NextStates
<1>3. QED
  BY <1>1, <1>2, Invariant, MessagesAlwaysFit, PTL DEF Spec

-----------------------------------------------------------------------------
(* What clients of ListFeatures and RecordRoute get *)

(* ListFeatures streams the features between the corners, for any database *)
(* and any rectangle, however its corners are given.                       *)
THEOREM FeaturesAllListed == Spec => []ListFeaturesComplete
<1>1. IInv /\ MessagesFit /\ StatesFit => ListFeaturesComplete
  <2>1. ASSUME IInv, MessagesFit, StatesFit, NEW j \in Jobs,
               Serves(j, "ServerStreaming"), Finished(j), call[j].phase = "Open"
        PROVE  job[j].written = FeaturesIn(call[j].request) /\ call[j].request \in Rectangles
    <3> DEFINE q == job[j]
               c == call[j]
               F == OpsInFlight(j)
               S == Results(j, TRUE)
    <3>1. q.alive /\ q.type = "ServerStreaming" /\ q.finishes > 0
      BY <2>1 DEF Serves, Finished
    <3>2. ~Idle(j)
      BY <2>1, <3>1, IdleHasNothing
    <3>3. JobInv(q, F) /\ ResponsesFit(q, c, F, S)
      BY <2>1, <3>1, <3>2, ServingFits
    <3>4. c.request \in Rectangles
      <4>1. F # {}
        BY <3>1, <3>3 DEF JobInv, BooksFit
      <4>2. QED
        BY <2>1, <3>1, <4>1 DEF StatesFit, StateFits
    <3>5. c.phase = "Open"
      BY <2>1
    <3> HIDE DEF q, c, F, S
    <3>6. F \cap {"QUEUED_REQUEST", "READ", "WRITE"} = {}
      BY <3>1, <3>3, FinishedHasEnded
    <3>7. q.mResponseQueue = <<>> /\ IsSequence(q.written)
      BY <3>3, <3>5, <3>6 DEF ResponsesFit, QueueFits
    <3>8. Joined(q.written, <<>>) = FeaturesIn(c.request)
      BY <3>1, <3>3, <3>6, <3>7 DEF ResponsesFit, Outgoing
    <3>9. Joined(q.written, <<>>) = q.written
      BY <3>7 DEF Joined, IsSequence
    <3>10. q.written = FeaturesIn(c.request)
      BY <3>8, <3>9
    <3>11. QED
      BY <3>4, <3>10 DEF q, c
  <2>2. ASSUME NEW rectangle \in Rectangles, NEW lo, NEW hi,
               lo = rectangle.lo, hi = rectangle.hi, NEW list, list = FeaturesIn(rectangle)
        PROVE  ListsInOrder(list,
                 {i \in DOMAIN FeatureList :
                    /\ Between(lo.latitude, FeatureList[i].location.latitude, hi.latitude)
                    /\ Between(lo.longitude, FeatureList[i].location.longitude, hi.longitude)})
    <3>1. IsPoint(lo) /\ IsPoint(hi)
      BY <2>2, RectanglesAssumption
    <3>2. ASSUME NEW i \in DOMAIN FeatureList
          PROVE  Inside(FeatureList[i].location, rectangle) <=>
                   /\ Between(lo.latitude, FeatureList[i].location.latitude, hi.latitude)
                   /\ Between(lo.longitude, FeatureList[i].location.longitude, hi.longitude)
      <4>1. PICK p : p = FeatureList[i].location
        OBVIOUS
      <4>2. IsPoint(p)
        BY <4>1, FeatureListAssumption
      <4>3. Inside(p, rectangle) <=>
              /\ Between(lo.latitude, p.latitude, hi.latitude)
              /\ Between(lo.longitude, p.longitude, hi.longitude)
        BY <2>2, <3>1, <4>2, InsideIsBetween
      <4>4. QED
        BY <4>1, <4>3
    <3>3. ListsInOrder(list, {i \in DOMAIN FeatureList :
                                Inside(FeatureList[i].location, rectangle)})
      BY <2>2, FeaturesAreListed
    <3>4. {i \in DOMAIN FeatureList : Inside(FeatureList[i].location, rectangle)}
            = {i \in DOMAIN FeatureList :
                 /\ Between(lo.latitude, FeatureList[i].location.latitude, hi.latitude)
                 /\ Between(lo.longitude, FeatureList[i].location.longitude, hi.longitude)}
      BY <3>2
    <3>5. QED
      BY <3>3, <3>4
  <2>3. QED
    BY <2>1, <2>2 DEF ListFeaturesComplete
<1>2. QED
  BY <1>1, Invariant, MessagesAlwaysFit, StatesAlwaysFit, PTL

(* A RouteSummary counts every point, every named point and the whole      *)
(* length of its route, for any route and any database, and its time is    *)
(* counted from the first point.                                           *)
THEOREM SummariesCover == Spec => []SummaryCoversItsRoute
<1>1. IInv /\ MessagesFit /\ StatesFit => SummaryCoversItsRoute
  <2>1. ASSUME IInv, MessagesFit, StatesFit, NEW j \in Jobs,
               Serves(j, "ClientStreaming"), Finished(j)
        PROVE  SummaryCovers(job[j].mResponse, call[j].delivered)
               /\ call[j].delivered \in Nat
    <3> DEFINE q == job[j]
               c == call[j]
               F == OpsInFlight(j)
               S == Results(j, TRUE)
    <3>1. q.alive /\ q.type = "ClientStreaming" /\ q.finishes > 0
      BY <2>1 DEF Serves, Finished
    <3>2. ~Idle(j)
      BY <2>1, <3>1, IdleHasNothing
    <3>3. JobInv(q, F) /\ Placed(q, F, S, Results(j, FALSE)) /\ IsCall(c)
      BY <2>1, <3>1, <3>2, ServingFits
    <3>4. F # {}
      BY <3>1, <3>3 DEF JobInv, BooksFit
    <3>5. EntryFits(q, RequestsHandled(c, S), mRecordStateMap[j])
      BY <2>1, <3>1, <3>4 DEF StatesFit, StateFits
    <3> HIDE DEF q, c, F, S
    <3>6. "READ" \notin S /\ q.finishes # 0
      <4>1. q.finishes = 1 /\ "READ" \notin F
        BY <3>1, <3>3, FinishedHasEnded
      <4>2. S \subseteq F
        BY <3>3 DEF Placed
      <4>3. QED
        BY <4>1, <4>2
    <3>7. c.delivered \in Nat
      BY <3>3 DEF IsCall
    <3>8. RequestsHandled(c, S) = c.delivered
      BY <3>6, <3>7 DEF RequestsHandled, One
    <3>9. SummaryCovers(q.mResponse, c.delivered)
      BY <3>5, <3>6, <3>8 DEF EntryFits
    <3>10. QED
      BY <3>7, <3>9 DEF q, c
  <2>2. ASSUME NEW summary, NEW n \in Nat, SummaryCovers(summary, n)
        PROVE  /\ \A count \in DOMAIN PointsSummary(n) :
                    summary[count] >= PointsSummary(n)[count]
               /\ n > 0 => summary.elapsed_since = "firstPoint"
    BY <2>2 DEF SummaryCovers, PointsSummary, NamedPoints
  <2>3. QED
    BY <2>1, <2>2 DEF SummaryCoversItsRoute
<1>2. QED
  BY <1>1, Invariant, MessagesAlwaysFit, StatesAlwaysFit, PTL

(* A RecordRoute leaves its state in the map only if its call is dead.     *)
THEOREM OnlyTheDeadLeaveState == Spec => OnlyDeadCallsLeaveState
<1>1. ASSUME IInv, MessagesFit, StatesFit, Next, NEW j \in Jobs,
             Serves(j, "ClientStreaming"), ~job'[j].alive, mRecordStateMap'[j] # NULL
      PROVE  call[j].phase = "Dead"
  <2> DEFINE q == job[j]
             c == call[j]
             F == OpsInFlight(j)
  <2>1. q.alive /\ q.type = "ClientStreaming"
    BY <1>1 DEF Serves
  <2>2. ~Unmoved(j)
    BY <1>1, <2>1 DEF Unmoved
  <2>3. ~TakeIncomingTags
    BY <1>1, <2>2, TakeKeepsIInv
  <2>4. ASSUME NEW i \in Jobs, ClientStep(i) PROVE FALSE
    BY <1>1, <2>2, <2>4, ClientStepKeepsIInv
  <2>5. ASSUME NEW i \in Jobs, NEW op \in TagOp, HandleRpcs(i, op) PROVE FALSE
    <3>1. PICK ok \in BOOLEAN : CompletedFor(i, op, ok)
      BY <1>1, <2>5, HandleRpcsKeepsIInv
    <3>2. i = j
      BY <2>2, <3>1 DEF CompletedFor
    <3>3. job'[j] = Complete(q, c, op, ok) /\ IsJob(q)
      BY <1>1, <3>1, <3>2 DEF CompletedFor, IInv, TypeOK
    <3>4. Complete(q, c, op, ok).alive = q.alive
      BY <3>3, Fields DEF Complete, IsJob
    <3>5. QED
      BY <1>1, <2>1, <3>3, <3>4
  <2>6. PICK i, op, ok, r : Handles(i, op, ok, r)
    BY <1>1, <2>3, <2>4, <2>5, StepCases
  <2>7. TurnOf(i, op, ok, r) /\ MapResult(i, op, ok, r)
    BY <2>6 DEF Handles
  <2>8. /\ Processed(i, op, ok, r) /\ i \in Jobs /\ job[i].alive
        /\ JobInv(job[i], OpsInFlight(i)) /\ op \in OpsInFlight(i)
    BY <1>1, <2>7, TurnKeepsIInv
  <2>9. i = j
    <3>1. ~Created(j, r.type)
      BY <2>1 DEF Created
    <3>2. QED
      BY <2>2, <2>8, <3>1 DEF Processed
  <2>10. /\ job'[j] = r /\ ~r.alive
         /\ q.held \subseteq r.held
         /\ JobInv(r, (F \ {op}) \cup r.held)
    BY <1>1, <2>7, <2>8, <2>9 DEF Processed, TurnOf, Handled
  <2>11. q.held = {}
    BY <2>10 DEF JobInv
  <2>12. mRecordStateMap[j] # NULL
    <3>1. DOMAIN mRecordStateMap = Jobs
      BY <1>1 DEF IInv, TypeOK
    <3>2. mRecordStateMap'[j] = mRecordStateMap[j]
      BY <2>7, <2>9, <2>10, <3>1 DEF MapResult, RecordRouteEntry
    <3>3. QED
      BY <1>1, <3>2
  <2>13. q.finishes = 0
    BY <1>1, <2>1, <2>8, <2>9, <2>12 DEF StatesFit, StateFits, EntryFits
  <2>14. CallFits(q, c, F, Results(j, TRUE), Results(j, FALSE))
    BY <1>1, <2>8, <2>9 DEF MessagesFit, CallsFit, FitsAt
  <2> HIDE DEF q, F
  <2>15. QED
    BY <2>11, <2>13, <2>14 DEF CallFits
<1>2. IInv /\ MessagesFit /\ StatesFit /\ [Next]_vars =>
        [\A j \in Jobs :
           /\ Serves(j, "ClientStreaming") /\ ~job[j].alive'
           /\ mRecordStateMap'[j] # NULL
           => call[j].phase = "Dead"]_vars
  BY <1>1
<1>3. QED
  BY <1>2, Invariant, MessagesAlwaysFit, StatesAlwaysFit, PTL
     DEF Spec, OnlyDeadCallsLeaveState
=============================================================================
