-------------------------- MODULE MCSyncRouteChat --------------------------
(* Clients with three notes, the first and the last at the same location. *)
EXTENDS SyncRouteChat

CONSTANTS a1, a2

MCLocations == <<"here", "there", "here">>
=============================================================================
