--------------------------- MODULE MCSyncServers ---------------------------
(***************************************************************************)
(* Small instances of SyncServers for TLC: every client program beside     *)
(* another, and any two of route_guide_client_async.cpp at once.           *)
(***************************************************************************)
EXTENDS SyncServers

CONSTANTS c1, c2

MCFeatureList ==
  <<[name |-> "gate",  location |-> Point(1, 1)],
    [name |-> "",      location |-> Point(2, 2)],
    [name |-> "tower", location |-> Point(3, 1)],
    [name |-> "late",  location |-> Point(1, 1)]>>

Ask(program, inputs) == [client |-> program, messages |-> inputs]

MCRoute == <<Point(1, 1), Point(2, 2), Point(1, 1), Point(4, 0)>>

\* Two texts, an empty one among them, and their sequences.
MCTexts == <<<<"ha">>, <<>>, <<"ha", "ho">>, <<"ho">>>>

MCChat ==
  <<[location |-> Point(1, 1), message |-> <<"ha">>],
    [location |-> Point(1, 1), message |-> <<"ho">>],
    [location |-> Point(2, 2), message |-> <<"ha">>]>>

MCRequests ==
  {Ask("GetOneFeature", <<p>>) : p \in {Point(1, 1), Point(5, 5)}} \cup
  {Ask("ListFeatures", <<r>>) : r \in {[lo |-> Point(1, 1), hi |-> Point(3, 3)],
                                       [lo |-> Point(3, 1), hi |-> Point(2, 2)],
                                       [lo |-> Point(4, 4), hi |-> Point(5, 5)]}} \cup
  {Ask("RecordRoute", SubSeq(MCRoute, 1, n)) : n \in {0, 1, 4}} \cup
  {Ask("RouteChat", MCChat)} \cup
  {Ask(p, <<<<"ha">>>>) : p \in {"yell", "yellEchoing", "SayHello", "AsyncSayHello"}} \cup
  {Ask(p, SubSeq(MCTexts, 1, n)) : p \in {"yelling", "streamYelling"}, n \in {0, 4}} \cup
  {Ask(p, <<[a |-> a, b |-> 3]>>) : p \in {"sendRequest", "AsyncSendRequest"},
                                    a \in {2, -3}}

\* Any two of the counted calls, and each of the other requests beside the
\* shortest call.
MCCounted ==
  {Ask("GetOneFeature", <<Point(2, 2)>>),
   Ask("ListFeatures", <<[lo |-> Point(3, 1), hi |-> Point(1, 1)]>>),
   Ask("RecordRoute", SubSeq(MCRoute, 1, 2))}

MCWorkloads ==
  {[c \in Calls |-> IF c = c1 THEN r ELSE s] :
     r \in MCCounted \cup {Ask("RouteChat", SubSeq(MCChat, 1, 1))}, s \in MCCounted} \cup
  {[c \in Calls |-> Ask("RouteChat", SubSeq(MCChat, 1, IF c = c1 THEN 1 ELSE 2))]} \cup
  {[c \in Calls |-> IF c = c1 THEN r ELSE Ask("GetOneFeature", <<Point(1, 1)>>)] :
     r \in MCRequests}
=============================================================================
