------------------------- MODULE MCRouteGuideServer -------------------------
(***************************************************************************)
(* Small instances of RouteGuideServer for TLC: a route of a few points, a *)
(* database whose second feature has no name and whose third lies off the  *)
(* route, and rectangles with their corners in either order, on a border,  *)
(* and around nothing.                                                     *)
(***************************************************************************)
EXTENDS RouteGuideServer, TLC

CONSTANTS j1, j2, j3, j4, j5

MCRoute1 == <<Point(1, 1)>>
MCRoute2 == <<Point(1, 1), Point(1, 3)>>
MCRoute3 == <<Point(1, 1), Point(1, 3), Point(2, 2)>>

MCFeatureList ==
  <<[name |-> "gate",  location |-> Point(1, 1)],
    [name |-> "",      location |-> Point(2, 2)],
    [name |-> "tower", location |-> Point(3, 1)],
    [name |-> "late",  location |-> Point(1, 1)]>>

MCRectangles ==
  {[lo |-> Point(1, 1), hi |-> Point(3, 3)],
   [lo |-> Point(3, 1), hi |-> Point(2, 2)],
   [lo |-> Point(2, 3), hi |-> Point(1, 2)],
   [lo |-> Point(4, 4), hi |-> Point(5, 5)]}

\* Addresses differ only in name.
JobSymmetry == Permutations(Jobs)
=============================================================================
