---------------------------- MODULE MCEncodings ----------------------------
(***************************************************************************)
(* A database of two features, one with a name of two words and one with   *)
(* none, or of one whose name is not UTF-8, whole or damaged at each of    *)
(* its marks; and messages with fields that are absent, zero, small, large *)
(* and negative, and with fields that their class does not know.           *)
(***************************************************************************)
EXTENDS Encodings

MCNumbers == ("407838351" :> 407838351) @@ ("-746143763" :> -746143763)
               @@ ("0" :> 0)

\* Two ASCII words, one in UTF-8 with a character of two bytes, one in Latin-1.
MCLetters == ("Path" :> <<80, 97>>) @@ ("Cafe" :> <<99, 195, 169>>)
               @@ ("Latin" :> <<233>>)

MCArguments ==
  {<<>>, <<"--db_path", "=", "other.json">>, <<"--db_path">>, <<"other.json">>}

TwoFeatures ==
  <<[latitude |-> "407838351", longitude |-> "-746143763",
     name |-> <<"Path", " ", "Cafe">>],
    [latitude |-> "0", longitude |-> "407838351", name |-> <<>>]>>

OneFeature ==
  <<[latitude |-> "0", longitude |-> "-746143763", name |-> <<"Latin">>]>>

Whole(path, features) ==
  [path |-> path, features |-> features, damage |-> "none", at |-> 1]

MCFiles ==
  {Whole(path, features) : path \in {"route_guide_db.json", "other.json"},
                           features \in {<<>>, OneFeature, TwoFeatures}}
  \cup
  {[Whole("route_guide_db.json", TwoFeatures) EXCEPT !.damage = d, !.at = k] :
     d \in Punctuation \cup {"cut", "dropped"},
     k \in {i \in DOMAIN Written(TwoFeatures) :
              Written(TwoFeatures)[i] \in Punctuation}}

Unknown == <<Field(9, VARINT, <<200, 1>>)>>
UnknownText == <<Field(1, VARINT, <<5>>), Field(12, LENGTH_DELIMITED, <<80>>)>>

P1 == [latitude |-> 407838351, longitude |-> -746143763, unknown |-> <<>>]
P2 == [latitude |-> 0, longitude |-> 127, unknown |-> Unknown]
P3 == [latitude |-> -1, longitude |-> 0, unknown |-> <<>>]

MCSamples ==
  [Point |-> {P1, P2, P3},
   Rectangle |-> {[lo |-> <<P1>>, hi |-> <<P2>>, unknown |-> <<>>],
                  [lo |-> <<NewPoint>>, hi |-> <<>>, unknown |-> Unknown],
                  [lo |-> <<P3>>, hi |-> <<P3>>, unknown |-> UnknownText]},
   Feature |-> {[name |-> <<>>, location |-> <<P2>>, unknown |-> <<>>]},
   RouteNote |-> {[location |-> <<P1>>, message |-> <<80>>, unknown |-> <<>>],
                  [location |-> <<P3>>, message |-> <<>>, unknown |-> UnknownText],
                  [location |-> <<>>, message |-> <<80>>, unknown |-> Unknown],
                  [location |-> <<>>, message |-> <<233>>, unknown |-> <<>>]},
   RouteSummary |-> {[point_count |-> 10, feature_count |-> 0,
                      distance |-> 684221, elapsed_time |-> 9,
                      unknown |-> <<>>],
                     [point_count |-> 0, feature_count |-> 1,
                      distance |-> -2147483647 - 1, elapsed_time |-> 0,
                      unknown |-> Unknown]},
   Connect |-> {[text |-> <<80, 195, 169>>, id |-> 1, unknown |-> <<>>],
                [text |-> <<>>, id |-> -2, unknown |-> <<>>],
                [text |-> <<>>, id |-> 300, unknown |-> Unknown],
                [text |-> <<195>>, id |-> 0, unknown |-> <<>>]}]
=============================================================================
