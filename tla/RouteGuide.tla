----------------------------- MODULE RouteGuide -----------------------------
(***************************************************************************)
(* The application behind the four RPCs of route_guide.proto, as           *)
(* route_guide_server_async.cpp implements it: what GetFeature looks up,   *)
(* what ListFeatures selects, what RecordRoute accumulates.  A Point is    *)
(* [latitude, longitude], a Feature [name, location], a Rectangle [lo, hi].*)
(***************************************************************************)
EXTENDS Integers, Sequences

CONSTANT FeatureList   \* mFeatureList, in database order

Point(latitude, longitude) == [latitude |-> latitude, longitude |-> longitude]

IsPoint(p) == p \in [latitude : Int, longitude : Int]

ASSUME FeatureListAssumption ==
  /\ FeatureList \in Seq({FeatureList[i] : i \in DOMAIN FeatureList})
  /\ \A i \in DOMAIN FeatureList : IsPoint(FeatureList[i].location)

\* Half the comparison.
MutGetFeatureNameLatitude(point) ==
  LET at == {i \in DOMAIN FeatureList :
               FeatureList[i].location.latitude = point.latitude}
  IN  IF at = {} THEN ""
      ELSE FeatureList[CHOOSE i \in at : \A k \in at : i <= k].name

\* The first feature at the point names it; "" if there is none.
GetFeatureName(point) ==
  LET at == {i \in DOMAIN FeatureList : FeatureList[i].location = point}
  IN  IF at = {} THEN ""
      ELSE FeatureList[CHOOSE i \in at : \A k \in at : i <= k].name

\* GetFeatureProcessor: the answer to a GetFeature.
FeatureAt(point) == [name |-> GetFeatureName(point), location |-> point]

Lesser(a, b)  == IF a < b THEN a ELSE b
Greater(a, b) == IF a < b THEN b ELSE a

\* lo is taken to be the lower corner.
MutInsideCornersInOrder(location, rectangle) ==
  /\ rectangle.lo.longitude <= location.longitude
  /\ location.longitude <= rectangle.hi.longitude
  /\ rectangle.lo.latitude <= location.latitude
  /\ location.latitude <= rectangle.hi.latitude

\* lo and hi are any two opposite corners; the border belongs to the rectangle.
Inside(location, rectangle) ==
  LET lo == rectangle.lo
      hi == rectangle.hi
  IN  /\ Lesser(lo.longitude, hi.longitude) <= location.longitude
      /\ location.longitude <= Greater(lo.longitude, hi.longitude)
      /\ Lesser(lo.latitude, hi.latitude) <= location.latitude
      /\ location.latitude <= Greater(lo.latitude, hi.latitude)

\* ListFeaturesProcessor's loop: the features of the rectangle, in order.
FeaturesIn(rectangle) ==
  LET sent[n \in 0..Len(FeatureList)] ==
        IF n = 0 THEN <<>>
        ELSE IF Inside(FeatureList[n].location, rectangle)
             THEN Append(sent[n - 1], FeatureList[n])
             ELSE sent[n - 1]
  IN  sent[Len(FeatureList)]

-----------------------------------------------------------------------------
(* RecordRoute.  GetDistance (a great-circle distance in floats) is kept   *)
(* as any distance is: a function of the two points that is added up.      *)

Distance(p, q) ==
  LET Gap(a, b) == Greater(a, b) - Lesser(a, b)
  IN  Gap(p.latitude, q.latitude) + Gap(p.longitude, q.longitude)

RecordRouteStates ==
  [pointCount : Nat, featureCount : Nat, distance : Nat,
   previous : [latitude : Int, longitude : Int],
   startTime : {"epoch", "firstPoint"}]

\* RecordRouteState's constructor; a default Point is all zero and a default
\* time_point is the clock's epoch.
NewRecordRouteState ==
  [pointCount |-> 0, featureCount |-> 0, distance |-> 0,
   previous |-> Point(0, 0), startTime |-> "epoch"]

\* The first leg of the route is not measured.
MutRecordPointFirstLeg(state, point) ==
  [pointCount   |-> state.pointCount + 1,
   featureCount |-> state.featureCount
                      + (IF GetFeatureName(point) = "" THEN 0 ELSE 1),
   distance     |-> state.distance
                      + (IF state.pointCount <= 1 THEN 0
                         ELSE Distance(state.previous, point)),
   previous     |-> point,
   startTime    |-> IF state.pointCount = 0 THEN "firstPoint"
                                            ELSE state.startTime]

\* RecordRouteProcessor for a point.
RecordPoint(state, point) ==
  [pointCount   |-> state.pointCount + 1,
   featureCount |-> state.featureCount
                      + (IF GetFeatureName(point) = "" THEN 0 ELSE 1),
   distance     |-> state.distance
                      + (IF state.pointCount = 0 THEN 0
                         ELSE Distance(state.previous, point)),
   previous     |-> point,
   startTime    |-> IF state.pointCount = 0 THEN "firstPoint"
                                            ELSE state.startTime]

\* RecordRouteProcessor for the end of the points.  elapsed_time counts the
\* seconds since startTime; only what it counts from is kept.
RouteSummary(state) ==
  [point_count |-> state.pointCount, feature_count |-> state.featureCount,
   distance |-> state.distance, elapsed_since |-> state.startTime]
=============================================================================
