--------------------------- MODULE DatabaseParser ---------------------------
(***************************************************************************)
(* How the servers and the client read their features at the start: the    *)
(* file named on the command line (GetDbFileContent), its spaces removed,  *)
(* and the parser that takes one entry per pass of ParseDb's loop          *)
(* (helper.cpp).  A text is a sequence of tokens: a punctuation mark, a    *)
(* quote, a keyword, a number or a word of a name.                         *)
(***************************************************************************)
EXTENDS Messages

CONSTANTS
  Files,     \* what may be on the disk: records [path, features, damage, at],
             \* the file written for the features and damaged at a token
  Arguments, \* what argv[1] may be: <<>> without one, or its parts
  Numbers,   \* the int32 that each token that is a number stands for
  Letters    \* the bytes that each word of a name stands for

VARIABLES
  file,          \* the file on the disk
  db_,           \* what is parsed
  current_,      \* where, counted from 1
  failed_,
  feature_list,
  parser         \* "start", "loop", "done", or "thrown" by stol

parserVars == <<file, db_, current_, failed_, feature_list, parser>>

Q == "\""

Key(word) == <<Q, word, Q, ":">>

ParserInit ==
  /\ file \in Files
  /\ db_ = <<>>
  /\ current_ = 1
  /\ failed_ = FALSE
  /\ feature_list = <<>>
  /\ parser = "start"

-----------------------------------------------------------------------------
(* The file on the disk: its features [latitude, longitude, name], a name  *)
(* being a sequence of words and spaces, as route_guide_db.json has them.  *)

Punctuation == {"[", "]", "{", "}", ",", ":", Q}

Entry(feature) ==
  <<"{">> \o Key("location") \o <<"{">>
    \o Key("latitude") \o <<feature.latitude, ",", " ">>
    \o Key("longitude") \o <<feature.longitude, "}", ",", " ">>
    \o Key("name") \o <<Q>> \o feature.name \o <<Q, "}">>

Separated(features) ==
  FlattenSeq([i \in DOMAIN features |->
    IF i = 1 THEN Entry(features[i]) ELSE <<",", " ">> \o Entry(features[i])])

Written(features) == <<"[">> \o Separated(features) \o <<"]">>

\* The text, cut before a token, without it, or with another mark for it.
Damaged(text, damage, at) ==
  CASE damage = "none" -> text
    [] damage = "cut" -> SubSeq(text, 1, at - 1)
    [] damage = "dropped" -> RemoveAt(text, at)
    [] OTHER -> ReplaceAt(text, at, damage)

Content == Damaged(Written(file.features), file.damage, file.at)

-----------------------------------------------------------------------------
(* helper.cpp *)

\* The path in argv[1], the default one, or the empty one.
DbPath(argument) ==
  IF argument = <<>> THEN "route_guide_db.json"
  ELSE IF \E p \in DOMAIN argument :
            /\ argument[p] = "--db_path"
            /\ p < Len(argument) /\ argument[p + 1] \in {"=", " "}
       THEN argument[Len(argument)]
       ELSE ""

\* Nothing if the file cannot be opened.
GetDbFileContent(argument) ==
  IF DbPath(argument) = file.path THEN Content ELSE <<>>

WithoutSpaces(text) == SelectSeq(text, LAMBDA token : token # " ")

\* Whether the text goes on with these tokens.
Match(prefix, at) == IsPrefix(prefix, SubSeq(db_, at, Len(db_)))

\* Where ReadLong stops.
NumberEnd(at) ==
  LET ends == {i \in at..Len(db_) : db_[i] \in {",", "}"}}
  IN  Min(ends \cup {Len(db_) + 1})

\* stol takes the number at the front and throws if there is none.
IsLong(at) == at < NumberEnd(at) /\ db_[at] \in DOMAIN Numbers

\* Behind the next quote, or behind the text.
NameEnd(at) ==
  LET quotes == {i \in at..Len(db_) : db_[i] = Q}
  IN  IF quotes = {} THEN Len(db_) + 1 ELSE Min(quotes) + 1

Failed == [result |-> "failed", current |-> current_, feature |-> <<>>]

\* TryParseOne: an entry from the current token on.  Where a stol throws the
\* result is "thrown".
TryParseOne ==
  LET opening == <<"{">> \o Key("location") \o <<"{">> \o Key("latitude")
      latitude == current_ + Len(opening)
      middle == <<",">> \o Key("longitude")
      longitude == NumberEnd(latitude) + Len(middle)
      closing == <<"}", ",">> \o Key("name") \o <<Q>>
      name == NumberEnd(longitude) + Len(closing)
      end == NameEnd(name)
      Point == [NewPoint EXCEPT !.latitude = Numbers[db_[latitude]],
                                !.longitude = Numbers[db_[longitude]]]
      Name == FlattenSeq([i \in 1..(end - 1 - name) |-> Letters[db_[name + i - 1]]])
  IN  IF failed_ \/ current_ > Len(db_) \/ ~Match(opening, current_)
      THEN Failed
      ELSE IF ~IsLong(latitude) THEN [Failed EXCEPT !.result = "thrown"]
      ELSE IF ~Match(middle, NumberEnd(latitude)) THEN Failed
      ELSE IF ~IsLong(longitude) THEN [Failed EXCEPT !.result = "thrown"]
      ELSE IF \/ ~Match(closing, NumberEnd(longitude))
              \/ end = Len(db_) + 1
              \/ /\ ~Match(<<"}", ",">>, end)
                 /\ ~(end + 1 = Len(db_) /\ db_[end + 1] = "]")
      THEN Failed
      ELSE [result  |-> "read",
            current |-> end + 2,
            feature |-> [NewFeature EXCEPT !.name = Name, !.location = <<Point>>]]

Finished == current_ > Len(db_)

\* main reads the file; ParseDb clears the list and makes a Parser, whose
\* constructor takes the first bracket.
StartParsing ==
  /\ parser = "start"
  /\ \E argument \in Arguments :
       db_' = WithoutSpaces(GetDbFileContent(argument))
  /\ failed_' = ~IsPrefix(<<"[">>, db_')
  /\ current_' = 2
  /\ parser' = "loop"
  /\ UNCHANGED <<file, feature_list>>

\* The entries before the damaged one stay in the list.
MutParseOneKeepsList ==
  /\ parser = "loop"
  /\ ~Finished
  /\ LET one == TryParseOne
     IN  /\ feature_list' = IF one.result = "read"
                            THEN Append(feature_list, one.feature)
                            ELSE feature_list
         /\ current_' = one.current
         /\ failed_' = (one.result = "failed")
         /\ parser' = CASE one.result = "read" -> "loop"
                        [] one.result = "failed" -> "done"
                        [] OTHER -> "thrown"
  /\ UNCHANGED <<file, db_>>

\* A pass of the loop in ParseDb.
ParseOne ==
  /\ parser = "loop"
  /\ ~Finished
  /\ LET one == TryParseOne
     IN  CASE one.result = "read" ->
                /\ feature_list' = Append(feature_list, one.feature)
                /\ current_' = one.current
                /\ UNCHANGED <<failed_, parser>>
           [] one.result = "failed" ->
                /\ feature_list' = <<>>
                /\ failed_' = TRUE
                /\ parser' = "done"
                /\ UNCHANGED current_
           [] one.result = "thrown" ->
                /\ parser' = "thrown"
                /\ UNCHANGED <<feature_list, current_, failed_>>
  /\ UNCHANGED <<file, db_>>

EndParsing ==
  /\ parser = "loop"
  /\ Finished
  /\ parser' = "done"
  /\ UNCHANGED <<file, db_, current_, failed_, feature_list>>

ParserNext == StartParsing \/ ParseOne \/ EndParsing

-----------------------------------------------------------------------------

\* The features the file was written for, without spaces in their names.
FeaturesOfFile ==
  [i \in DOMAIN file.features |->
    LET f == file.features[i]
    IN  [NewFeature EXCEPT
          !.name = FlattenSeq([k \in DOMAIN WithoutSpaces(f.name) |->
                                 Letters[WithoutSpaces(f.name)[k]]]),
          !.location = <<[NewPoint EXCEPT !.latitude = Numbers[f.latitude],
                                          !.longitude = Numbers[f.longitude]]>>]]

\* The list that a server or a client starts with has all the features of its
\* file in their order, or is empty; only a file that was cut may lose the
\* features behind the cut, and no damage gives a feature the file has not.
\* A whole file that is opened is not refused (TryParseOne, ParseDb).
NothingIsMisread ==
  parser = "done" =>
    /\ feature_list # <<>> =>
         IF file.damage = "cut" THEN IsPrefix(feature_list, FeaturesOfFile)
         ELSE feature_list = FeaturesOfFile
    /\ file.damage = "none" /\ db_ # <<>> => feature_list = FeaturesOfFile
=============================================================================
