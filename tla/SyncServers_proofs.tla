------------------------ MODULE SyncServers_proofs ------------------------
(***************************************************************************)
(* The synchronous servers answer every call rightly, and the counters of  *)
(* route_guide_client_async.cpp are final when they are printed, for any   *)
(* calls, any requests, any database and streams of any length.  The       *)
(* invariant follows the messages of a call on both ways: how many of the  *)
(* requests the handler has taken, what it makes of that many, and what of *)
(* its answers the client has not read yet.                                *)
(***************************************************************************)
EXTENDS SyncServers, RouteGuide_proofs, SequenceTheorems

IsSequence(s) == \E S : s \in Seq(S)

-----------------------------------------------------------------------------
(* The loops of the handlers, as functions of the number of rounds         *)

\* The features found in the first f of the list.
Listing(rectangle) == CHOOSE sent : Lister(rectangle, sent)

\* What the asynchronous server would hold after n points.
Recorder(points, state) ==
  state = [n \in 0..Len(points) |-> IF n = 0 THEN NewRecordRouteState
                                    ELSE RecordPoint(state[n - 1], points[n])]

Recording(points) == CHOOSE state : Recorder(points, state)

\* The variables of RecordRoute that go with such a state.
LocalsOf(state) ==
  [point_count |-> state.pointCount, feature_count |-> state.featureCount,
   distance |-> state.distance, previous |-> state.previous]

\* The text that yellingEcho has put together from n texts.
Gatherer(texts, text) ==
  text = [n \in 0..Len(texts) |-> IF n = 0 THEN <<>>
                                  ELSE text[n - 1] \o texts[n] \o <<" ">>]

Gathering(texts) == CHOOSE text : Gatherer(texts, text)

-----------------------------------------------------------------------------
(* The inductive invariant *)

\* A step that appends or concatenates names the result, so that it is not
\* looked into where only the lemmas about it matter.
Joined(s, t) == s \o t

Followed(s, e) == Append(s, e)

Beginning(s, t) == Len(s) <= Len(t) /\ \A k \in 1..Len(s) : s[k] = t[k]

\* How many messages the client of call c has sent.
Sent(c) ==
  IF Rpc(c) \in Unary \cup ServerStreaming
  THEN IF client[c].main = "start" THEN 0 ELSE 1
  ELSE client[c].sent

\* What all the answers of a handler are; an overflow may be any one number.
Answers(c, w) == IF Overflows(c) THEN \E result : w = <<result>> ELSE w = Expected(c)

\* The handler of call c has taken n messages and written w.
Listed(c, n, w) ==
  /\ Rpc(c) = "ListFeatures" /\ handler[c].at = "loop" /\ n = 1
  /\ \E f \in 1..(Len(FeatureList) + 1) :
       /\ handler[c].locals = [rectangle |-> Head(Messages(c)), f |-> f]
       /\ w = Listing(Head(Messages(c)))[f - 1]

Summed(c, n, w) ==
  /\ Rpc(c) = "RecordRoute" /\ handler[c].at = "Read"
  /\ handler[c].locals = LocalsOf(Recording(Messages(c))[n])
  /\ w = <<>>

Repeated(c, n, w) ==
  /\ Rpc(c) = "yellEchoing" /\ handler[c].at = "loop" /\ n = 1
  /\ \E i \in 0..Echoes :
       /\ handler[c].locals = [output |-> Head(Messages(c)), i |-> i]
       /\ w = [k \in 1..i |-> Head(Messages(c))]

Gathered(c, n, w) ==
  /\ Rpc(c) = "yellingEcho" /\ handler[c].at = "Read"
  /\ handler[c].locals = Gathering(Messages(c))[n]
  /\ w = <<>>

Echoed(c, n, w) ==
  /\ Rpc(c) = "yellingEchoing"
  /\ \/ handler[c].at = "Read" /\ w = SubSeq(Messages(c), 1, n)
     \/ /\ handler[c].at = "Write" /\ n >= 1
        /\ handler[c].locals = Messages(c)[n]
        /\ w = SubSeq(Messages(c), 1, n - 1)

Progress(c, n, w) ==
  \/ handler[c].at = "none" /\ n = 0 /\ w = <<>>
  \/ handler[c].at = "returned" /\ (stream[c].broken \/ Answers(c, w))
  \/ Listed(c, n, w) \/ Summed(c, n, w) \/ Repeated(c, n, w)
  \/ Gathered(c, n, w) \/ Echoed(c, n, w)

\* On the way to the handler are the messages it has not taken.
Incoming(c, n) ==
  /\ n <= Len(Messages(c))
  /\ Sent(c) <= Len(Messages(c))
  /\ IF stream[c].broken THEN stream[c].toServer = <<>>
     ELSE /\ Len(stream[c].toServer) = Sent(c) - n
          /\ \A k \in 1..Len(stream[c].toServer) :
               stream[c].toServer[k] = Messages(c)[n + k]
          /\ stream[c].halfClosed => Sent(c) = Len(Messages(c))

\* On the way to the client are the answers it has not read.
Outgoing(c, w) ==
  /\ IF stream[c].broken THEN stream[c].toClient = <<>>
     ELSE Joined(client[c].presented, stream[c].toClient) = w
  /\ Rpc(c) \notin Unary \cup ClientStreaming =>
       Beginning(client[c].presented, Expected(c))

Conversed(c) ==
  \E n \in Nat : \E w :
    IsSequence(w) /\ Progress(c, n, w) /\ Incoming(c, n) /\ Outgoing(c, w)

\* What the client of call c knows when it has come so far.
Waited(c) ==
  /\ client[c].main = "start" =>
       handler[c].at = "none" /\ client[c].sent = 0 /\ client[c].writer # "Write"
  /\ client[c].writer = "Write" => Rpc(c) = "yellingEchoing"
  /\ Rpc(c) \in Unary \cup ClientStreaming /\ client[c].main # "returned" =>
       client[c].presented = <<>>
  /\ client[c].status # NULL => client[c].main \in {"join", "returned"}
  /\ client[c].status = "OK" =>
       ~stream[c].broken /\ handler[c].at = "returned" /\ stream[c].toClient = <<>>

\* What the variables of call c hold.
Types(c) ==
  /\ DOMAIN stream[c] = {"toServer", "toClient", "halfClosed", "broken"}
  /\ IsSequence(stream[c].toServer) /\ IsSequence(stream[c].toClient)
  /\ DOMAIN client[c] = {"main", "writer", "sent", "status", "presented"}
  /\ client[c].sent \in Nat
  /\ IsSequence(client[c].presented)

CallInv(c) == Types(c) /\ Conversed(c) /\ Waited(c)

\* What a chat is answered with depends on the other chats: of its call only
\* what the counters need is kept.
ChatInv(c) ==
  /\ DOMAIN client[c] = {"main", "writer", "sent", "status", "presented"}
  /\ IsSequence(client[c].presented)

InvOf(c) == IF Rpc(c) = "RouteChat" THEN ChatInv(c) ELSE CallInv(c)

Whole ==
  /\ request \in Workloads
  /\ DOMAIN stream = Calls /\ DOMAIN handler = Calls /\ DOMAIN client = Calls

\* The counters count the calls that are done and the features and notes that
\* are shown.
By(program) == {c \in Calls : request[c].client = program}

Answered == {c \in By("GetOneFeature") : client[c].main = "returned"}
Shown(program) == UNION {{c} \X DOMAIN client[c].presented : c \in By(program)}
RoutesRecorded == {c \in By("RecordRoute") : client[c].status = "OK"}

Counting ==
  /\ count \in [Counters -> Nat]
  /\ IsFiniteSet(Shown("ListFeatures")) /\ IsFiniteSet(Shown("RouteChat"))
  /\ count["getFeature"] = Cardinality(Answered)
  /\ count["listFeatures"] = Cardinality(Shown("ListFeatures"))
  /\ count["recordRoute"] = Cardinality(RoutesRecorded)
  /\ count["routeChat"] = Cardinality(Shown("RouteChat"))

\* Which threads have been joined where the main thread is.
Joining ==
  /\ main # "GetOneFeature" => AllReturned("GetOneFeature")
  /\ main \notin {"GetOneFeature", "ListFeatures"} => AllReturned("ListFeatures")
  /\ main \in {"RouteChat", "print", "done"} => AllReturned("RecordRoute")
  /\ main \in {"print", "done"} => AllReturned("RouteChat")
  /\ printed # NULL => main = "done" /\ printed = count

IInv == Whole /\ (\A c \in Calls : InvOf(c)) /\ Counting /\ Joining

-----------------------------------------------------------------------------
(* The loops are total *)

LEMMA ListingIsLister ==
  ASSUME NEW rectangle
  PROVE  /\ Lister(rectangle, Listing(rectangle))
         /\ FeaturesIn(rectangle) = Listing(rectangle)[Len(FeatureList)]
<1>1. \E sent : Lister(rectangle, sent)
  BY ListerExists
<1>2. Lister(rectangle, Listing(rectangle))
  BY <1>1 DEF Listing
<1>3. FeaturesIn(rectangle) = Listing(rectangle)[Len(FeatureList)]
  BY DEF FeaturesIn, Listing, Lister
<1>4. QED
  BY <1>2, <1>3

Points == [latitude : Int, longitude : Int]

LEMMA NextStateIsState ==
  ASSUME NEW state \in RecordRouteStates, NEW p \in Points
  PROVE  RecordPoint(state, p) \in RecordRouteStates
<1>1. PICK d \in Nat : d = Distance(state.previous, p)
  BY DistanceIsNatural DEF RecordRouteStates, Points, IsPoint
<1>2. PICK leg \in Nat : leg = IF state.pointCount = 0 THEN 0 ELSE d
  OBVIOUS
<1>3. PICK named \in {0, 1} : named = IF GetFeatureName(p) = "" THEN 0 ELSE 1
  OBVIOUS
<1>4. PICK since \in {"epoch", "firstPoint"} :
        since = IF state.pointCount = 0 THEN "firstPoint" ELSE state.startTime
  BY DEF RecordRouteStates
<1>5. RecordPoint(state, p) =
        [pointCount |-> state.pointCount + 1, featureCount |-> state.featureCount + named,
         distance |-> state.distance + leg, previous |-> p, startTime |-> since]
  BY <1>1, <1>2, <1>3, <1>4 DEF RecordPoint
<1>6. /\ state.pointCount + 1 \in Nat /\ state.featureCount + named \in Nat
      /\ state.distance + leg \in Nat
  BY DEF RecordRouteStates
<1>7. QED
  BY <1>5, <1>6 DEF RecordRouteStates, Points

LEMMA RecordingRuns ==
  ASSUME NEW points \in Seq(Points)
  PROVE  LET state == Recording(points)
         IN  /\ Recorder(points, state)
             /\ \A n \in 0..Len(points) : state[n] \in RecordRouteStates
             /\ state[0] = NewRecordRouteState
             /\ \A n \in 1..Len(points) : state[n] = RecordPoint(state[n - 1], points[n])
<1> DEFINE N == Len(points)
           Step == [n \in 1..N |-> [s \in RecordRouteStates |-> RecordPoint(s, points[n])]]
<1>1. N \in Nat /\ \A n \in 1..N : points[n] \in Points
  OBVIOUS
<1>2. Step \in [1..N -> [RecordRouteStates -> RecordRouteStates]]
  <2> HIDE DEF N
  <2>1. QED
    BY <1>1, NextStateIsState
<1>3. PICK f : Runs(RecordRouteStates, NewRecordRouteState, Step, N, f)
  <2>1. PICK V, first : V = RecordRouteStates /\ first = NewRecordRouteState
    OBVIOUS
  <2>2. first \in V /\ Step \in [1..N -> [V -> V]]
    BY <1>2, <2>1, NewStateIsState
  <2> HIDE DEF N, Step
  <2>3. \E f : Runs(V, first, Step, N, f)
    BY <1>1, <2>2, LoopExists
  <2>4. QED
    BY <2>1, <2>3
<1> HIDE DEF N
<1>4. ASSUME NEW n \in 1..N PROVE n - 1 \in 0..N /\ n \in 0..N /\ n # 0
  BY <1>1
<1>5. /\ f \in [0..N -> RecordRouteStates]
      /\ f[0] = NewRecordRouteState
      /\ \A n \in 1..N : f[n] = RecordPoint(f[n - 1], points[n])
  BY <1>3, <1>4 DEF Runs
<1> HIDE DEF Step
<1>6. \A n \in 0..N : n = 0 \/ n \in 1..N
  BY <1>1
<1>7. f = [n \in 0..N |-> IF n = 0 THEN NewRecordRouteState
                          ELSE RecordPoint(f[n - 1], points[n])]
  BY <1>4, <1>5, <1>6
<1>8. Recorder(points, f)
  BY <1>7 DEF Recorder, N
<1>9. Recorder(points, Recording(points))
  BY <1>8 DEF Recording
<1>10. PICK state : state = Recording(points)
  OBVIOUS
<1>11. /\ 0 \in 0..N
       /\ \A n \in 0..N : state[n] = IF n = 0 THEN NewRecordRouteState
                                     ELSE RecordPoint(state[n - 1], points[n])
  <2>1. state = [n \in 0..N |-> IF n = 0 THEN NewRecordRouteState
                                 ELSE RecordPoint(state[n - 1], points[n])]
    BY <1>9, <1>10 DEF Recorder, N
  <2>2. 0 \in 0..N
    BY <1>1
  <2>3. QED
    BY <2>1, <2>2
<1>12. state[0] = NewRecordRouteState
  BY <1>11
<1>13. \A n \in 1..N : state[n] = RecordPoint(state[n - 1], points[n])
  BY <1>4, <1>11
<1> DEFINE holds == {n \in 0..N : state[n] \in RecordRouteStates}
<1>14. 0 \in holds
  BY <1>11, <1>12, NewStateIsState
<1>15. \A n \in 1..N : n - 1 \in holds => n \in holds
  BY <1>1, <1>4, <1>13, NextStateIsState
<1> HIDE DEF holds
<1>16. \A n \in 0..N : n \in holds
  BY <1>1, <1>14, <1>15, UpTo
<1>17. \A n \in 0..N : state[n] \in RecordRouteStates
  BY <1>16 DEF holds
<1>18. QED
  BY <1>9, <1>10, <1>12, <1>13, <1>17 DEF N

LEMMA SpaceIsText == <<" ">> \in Seq(Words)
<1>1. PICK space : space = " "
  OBVIOUS
<1>2. space \in Words
  BY <1>1, SyncAssumption
<1>3. <<space>> \in Seq(Words)
  BY <1>2
<1>4. QED
  BY <1>1, <1>3

LEMMA EmptyIsText == <<>> \in Seq(Words)
OBVIOUS

LEMMA TextsAssociate ==
  \A s, t, u \in Seq(Words) : (s \o t) \o u = s \o (t \o u)
BY ConcatAssociative

LEMMA GatheringRuns ==
  ASSUME NEW texts \in Seq(Seq(Words))
  PROVE  LET text == Gathering(texts)
         IN  /\ \A n \in 0..Len(texts) : text[n] \in Seq(Words)
             /\ text[0] = <<>>
             /\ \A n \in 1..Len(texts) : text[n] = text[n - 1] \o texts[n] \o <<" ">>
<1> DEFINE N == Len(texts)
           Step == [n \in 1..N |-> [s \in Seq(Words) |-> s \o texts[n] \o <<" ">>]]
<1>1. N \in Nat /\ \A n \in 1..N : texts[n] \in Seq(Words)
  OBVIOUS
<1>2. Step \in [1..N -> [Seq(Words) -> Seq(Words)]]
  <2> HIDE DEF N
  <2>1. ASSUME NEW n \in 1..N, NEW s \in Seq(Words)
        PROVE  s \o texts[n] \o <<" ">> \in Seq(Words)
    <3>1. PICK space \in Seq(Words) : space = <<" ">>
      BY SpaceIsText
    <3>2. texts[n] \in Seq(Words) /\ s \o texts[n] \o space \in Seq(Words)
      BY <1>1
    <3>3. QED
      BY <3>1, <3>2
  <2>2. QED
    BY <2>1
<1>3. PICK f : Runs(Seq(Words), <<>>, Step, N, f)
  <2>1. PICK V, first : V = Seq(Words) /\ first = <<>>
    OBVIOUS
  <2>2. first \in V /\ Step \in [1..N -> [V -> V]]
    BY <1>2, <2>1, EmptyIsText
  <2> HIDE DEF N, Step
  <2>3. \E f : Runs(V, first, Step, N, f)
    BY <1>1, <2>2, LoopExists
  <2>4. QED
    BY <2>1, <2>3
<1> HIDE DEF N
<1>4. ASSUME NEW n \in 1..N PROVE n - 1 \in 0..N /\ n \in 0..N /\ n # 0
  BY <1>1
<1>5. /\ f \in [0..N -> Seq(Words)]
      /\ f[0] = <<>>
      /\ \A n \in 1..N : f[n] = f[n - 1] \o texts[n] \o <<" ">>
  BY <1>3, <1>4 DEF Runs
<1> HIDE DEF Step
<1>6. \A n \in 0..N : n = 0 \/ n \in 1..N
  BY <1>1
<1>7. f = [n \in 0..N |-> IF n = 0 THEN <<>> ELSE f[n - 1] \o texts[n] \o <<" ">>]
  BY <1>4, <1>5, <1>6
<1>8. Gatherer(texts, f)
  BY <1>7 DEF Gatherer, N
<1>9. Gatherer(texts, Gathering(texts))
  BY <1>8 DEF Gathering
<1>10. PICK text : text = Gathering(texts)
  OBVIOUS
<1>11. /\ 0 \in 0..N
       /\ \A n \in 0..N : text[n] = IF n = 0 THEN <<>>
                                    ELSE text[n - 1] \o texts[n] \o <<" ">>
  <2>1. text = [n \in 0..N |-> IF n = 0 THEN <<>> ELSE text[n - 1] \o texts[n] \o <<" ">>]
    BY <1>9, <1>10 DEF Gatherer, N
  <2>2. 0 \in 0..N
    BY <1>1
  <2>3. QED
    BY <2>1, <2>2
<1>12. text[0] = <<>>
  BY <1>11
<1>13. \A n \in 1..N : text[n] = text[n - 1] \o texts[n] \o <<" ">>
  BY <1>4, <1>11
<1> DEFINE holds == {n \in 0..N : text[n] \in Seq(Words)}
<1>14. 0 \in holds
  BY <1>11, <1>12, EmptyIsText
<1>15. ASSUME NEW n \in 1..N, n - 1 \in holds PROVE n \in holds
  <2>1. PICK space \in Seq(Words) : space = <<" ">>
    BY SpaceIsText
  <2>2. text[n - 1] \in Seq(Words) /\ texts[n] \in Seq(Words)
    BY <1>1, <1>15
  <2>3. text[n - 1] \o texts[n] \o space \in Seq(Words)
    BY <2>2
  <2>4. QED
    BY <1>4, <1>13, <2>1, <2>3
<1> HIDE DEF holds
<1>16. \A n \in 0..N : n \in holds
  BY <1>1, <1>14, <1>15, UpTo
<1>17. \A n \in 0..N : text[n] \in Seq(Words)
  BY <1>16 DEF holds
<1>18. QED
  BY <1>10, <1>12, <1>13, <1>17 DEF N

(* What yellingEcho puts together is all texts, each with a space behind.  *)
LEMMA GatheringIsFlattening ==
  ASSUME NEW texts \in Seq(Seq(Words))
  PROVE  FlattenSeq([i \in DOMAIN texts |-> texts[i] \o <<" ">>])
           = Gathering(texts)[Len(texts)]
<1> DEFINE N == Len(texts)
           spaced == [i \in DOMAIN texts |-> texts[i] \o <<" ">>]
<1>1. PICK G : G = Gathering(texts)
  OBVIOUS
<1>2. /\ N \in Nat /\ DOMAIN texts = 1..N
      /\ \A n \in 1..N : texts[n] \in Seq(Words)
  OBVIOUS
<1>3. /\ \A n \in 0..N : G[n] \in Seq(Words)
      /\ G[0] = <<>>
      /\ \A n \in 1..N : G[n] = G[n - 1] \o texts[n] \o <<" ">>
  BY <1>1, GatheringRuns
<1>4. \A n \in 1..N : spaced[n] \in Seq(Words) /\ spaced[n] = texts[n] \o <<" ">>
  <2>1. PICK space \in Seq(Words) : space = <<" ">>
    BY SpaceIsText
  <2>2. \A n \in 1..N : texts[n] \o space \in Seq(Words)
    BY <1>2
  <2>3. QED
    BY <1>2, <2>1, <2>2
<1>5. spaced \in Seq(Seq(Words)) /\ Len(spaced) = N
  <2>1. spaced \in [1..N -> Seq(Words)]
    BY <1>2, <1>4
  <2> HIDE DEF spaced, N
  <2>2. QED
    BY <1>2, <2>1
<1> HIDE DEF spaced, N
<1>6. ASSUME NEW n \in 1..N PROVE n - 1 \in 0..N /\ n \in 0..N
  BY <1>2
<1>7. ASSUME NEW n \in 1..N PROVE G[n] = G[n - 1] \o spaced[n]
  <2>1. PICK s : s = <<" ">>
    OBVIOUS
  <2>2. s \in Seq(Words)
    BY <2>1, SpaceIsText
  <2>3. G[n] = (G[n - 1] \o texts[n]) \o s /\ spaced[n] = texts[n] \o s
    BY <1>3, <1>4, <2>1
  <2>4. G[n - 1] \in Seq(Words) /\ texts[n] \in Seq(Words)
    BY <1>2, <1>3, <1>6
  <2>5. (G[n - 1] \o texts[n]) \o s = G[n - 1] \o (texts[n] \o s)
    BY <2>2, <2>4, TextsAssociate
  <2>6. QED
    BY <2>3, <2>5
<1>8. ASSUME N > 0 PROVE G[1] = spaced[1]
  <2>1. 1 \in 1..N /\ 1 - 1 = 0
    BY <1>2, <1>8
  <2>2. G[1] = <<>> \o spaced[1] /\ spaced[1] \in Seq(Words)
    BY <1>3, <1>4, <1>7, <2>1
  <2>3. QED
    BY <2>2
<1> DEFINE Flattens(h) ==
             h = [i \in 1..N |-> IF i = 1 THEN spaced[i] ELSE h[i - 1] \o spaced[i]]
<1>9. Flattens([i \in 1..N |-> G[i]])
  <2>1. PICK g : g = [i \in 1..N |-> G[i]]
    OBVIOUS
  <2>2. ASSUME NEW i \in 1..N
        PROVE  g[i] = IF i = 1 THEN spaced[i] ELSE g[i - 1] \o spaced[i]
    <3>1. CASE i = 1
      BY <1>2, <1>8, <2>1, <3>1
    <3>2. CASE i # 1
      <4>1. i - 1 \in 1..N
        BY <1>2, <3>2
      <4>2. QED
        BY <1>7, <2>1, <3>2, <4>1
    <3>3. QED
      BY <3>1, <3>2
  <2>3. QED
    BY <2>1, <2>2
<1>10. PICK h : /\ Flattens(h)
                /\ N # 0 => FlattenSeq(spaced) = h[N]
  BY <1>5, <1>9 DEF FlattenSeq
<1> DEFINE holds == {n \in 0..N : n = 0 \/ h[n] = G[n]}
<1>11. 0 \in holds
  BY <1>2
<1>12. ASSUME NEW n \in 1..N, n - 1 \in holds PROVE n \in holds
  <2>1. h[n] = IF n = 1 THEN spaced[n] ELSE h[n - 1] \o spaced[n]
    BY <1>10
  <2>2. CASE n = 1
    BY <1>2, <1>6, <1>8, <2>1, <2>2
  <2>3. CASE n # 1
    <3>1. h[n - 1] = G[n - 1]
      BY <1>2, <1>12, <2>3
    <3>2. QED
      BY <1>6, <1>7, <2>1, <2>3, <3>1
  <2>4. QED
    BY <2>2, <2>3
<1> HIDE DEF holds
<1>13. \A n \in 0..N : n \in holds
  BY <1>2, <1>11, <1>12, UpTo
<1>14. N # 0 => h[N] = G[N]
  BY <1>2, <1>13 DEF holds
<1>15. N = 0 => FlattenSeq(spaced) = G[N]
  <2> SUFFICES ASSUME N = 0 PROVE FlattenSeq(spaced) = <<>>
    BY <1>3
  <2>1. spaced = <<>>
    BY <1>5
  <2>2. QED
    BY <1>5, <2>1 DEF FlattenSeq
<1>16. FlattenSeq(spaced) = G[N]
  BY <1>10, <1>14, <1>15
<1>17. QED
  BY <1>1, <1>16 DEF spaced, N

-----------------------------------------------------------------------------
(* Sequences *)

LEMMA EmptySequence == IsSequence(<<>>)
<1>1. <<>> \in Seq({})
  OBVIOUS
<1>2. QED
  BY <1>1 DEF IsSequence

LEMMA OneElement ==
  ASSUME NEW e
  PROVE  IsSequence(<<e>>) /\ Len(<<e>>) = 1 /\ Head(<<e>>) = e
<1>1. <<e>> \in Seq({e})
  OBVIOUS
<1>2. IsSequence(<<e>>)
  BY <1>1 DEF IsSequence
<1>3. Len(<<e>>) = 1 /\ Head(<<e>>) = e
  BY <1>1
<1>4. QED
  BY <1>2, <1>3

LEMMA NothingLeft ==
  ASSUME NEW s, IsSequence(s), Len(s) = 0
  PROVE  s = <<>>
<1>1. PICK S : s \in Seq(S)
  BY DEF IsSequence
<1>2. QED
  BY <1>1

LEMMA Sequences ==
  ASSUME NEW s, IsSequence(s), NEW t, IsSequence(t), NEW e
  PROVE  /\ IsSequence(Followed(s, e)) /\ IsSequence(Joined(s, t))
         /\ Len(Followed(s, e)) = Len(s) + 1 /\ Len(s) \in Nat
         /\ Followed(s, e)[Len(s) + 1] = e
         /\ \A k \in 1..Len(s) : Followed(s, e)[k] = s[k]
         /\ Joined(s, Followed(t, e)) = Followed(Joined(s, t), e)
         /\ Joined(s, <<>>) = s /\ Joined(<<>>, s) = s
         /\ Joined(s, t) = <<>> => s = <<>> /\ t = <<>>
<1>1. PICK S : s \in Seq(S)
  BY DEF IsSequence
<1>2. PICK T : t \in Seq(T)
  BY DEF IsSequence
<1>3. PICK U : U = (S \cup T) \cup {e}
  OBVIOUS
<1>4. s \in Seq(U) /\ t \in Seq(U) /\ e \in U
  BY <1>1, <1>2, <1>3
<1>5. Joined(s, t) \in Seq(U) /\ Followed(s, e) \in Seq(U)
  BY <1>4 DEF Joined, Followed
<1>6. Joined(s, <<>>) = s /\ Joined(<<>>, s) = s
  BY <1>4 DEF Joined
<1>7. Joined(s, Followed(t, e)) = Followed(Joined(s, t), e)
  BY <1>4 DEF Joined, Followed
<1>8. /\ Len(Followed(s, e)) = Len(s) + 1 /\ Len(s) \in Nat
      /\ Followed(s, e)[Len(s) + 1] = e
      /\ \A k \in 1..Len(s) : Followed(s, e)[k] = s[k]
  BY <1>4 DEF Followed
<1>9. Joined(s, t) = <<>> => s = <<>> /\ t = <<>>
  <2>1. Len(Joined(s, t)) = Len(s) + Len(t) /\ Len(s) \in Nat /\ Len(t) \in Nat
    BY <1>4 DEF Joined
  <2>2. Len(<<>>) = 0
    OBVIOUS
  <2>3. QED
    BY <1>4, <2>1, <2>2
<1>10. QED
  BY <1>5, <1>6, <1>7, <1>8, <1>9 DEF IsSequence

\* The first message is taken from the stream.
LEMMA TakenFirst ==
  ASSUME NEW s, IsSequence(s), NEW t, IsSequence(t), t # <<>>
  PROVE  /\ IsSequence(Tail(t)) /\ Len(t) \in Nat /\ Len(t) > 0
         /\ Len(Tail(t)) = Len(t) - 1 /\ Head(t) = t[1]
         /\ \A k \in 1..Len(Tail(t)) : Tail(t)[k] = t[k + 1]
         /\ Joined(Followed(s, Head(t)), Tail(t)) = Joined(s, t)
<1>1. PICK S : s \in Seq(S)
  BY DEF IsSequence
<1>2. PICK T : t \in Seq(T)
  BY DEF IsSequence
<1>3. PICK U : U = S \cup T
  OBVIOUS
<1>4. s \in Seq(U) /\ t \in Seq(U)
  BY <1>1, <1>2, <1>3
<1>5. /\ Tail(t) \in Seq(U) /\ Len(t) \in Nat /\ Len(t) > 0
      /\ Len(Tail(t)) = Len(t) - 1 /\ Head(t) = t[1]
      /\ \A k \in 1..Len(Tail(t)) : Tail(t)[k] = t[k + 1]
  BY <1>4
<1>6. Joined(Followed(s, Head(t)), Tail(t)) = Joined(s, t)
  BY <1>4 DEF Joined, Followed
<1>7. QED
  BY <1>5, <1>6 DEF IsSequence

LEMMA Beginnings ==
  ASSUME NEW s, IsSequence(s), NEW t, IsSequence(t)
  PROVE  /\ Beginning(s, s) /\ Beginning(<<>>, t)
         /\ \A e : Beginning(s, t) => Beginning(s, Followed(t, e))
         /\ \A w, x : Joined(s, t) = w /\ Beginning(w, x) /\ Len(x) \in Nat
                        => Beginning(s, x)
         /\ Beginning(s, t) => IsPrefix(s, t)
<1>1. PICK S : s \in Seq(S)
  BY DEF IsSequence
<1>2. PICK T : t \in Seq(T)
  BY DEF IsSequence
<1>3. PICK U : U = S \cup T
  OBVIOUS
<1>4. s \in Seq(U) /\ t \in Seq(U)
  BY <1>1, <1>2, <1>3
<1>5. Beginning(s, s) /\ Beginning(<<>>, t)
  BY <1>4 DEF Beginning
<1>6. ASSUME NEW e, Beginning(s, t) PROVE Beginning(s, Followed(t, e))
  <2>1. \A k \in 1..Len(s) : k \in 1..Len(t)
    BY <1>4, <1>6 DEF Beginning
  <2>2. /\ Len(Followed(t, e)) = Len(t) + 1 /\ Len(s) \in Nat /\ Len(t) \in Nat
        /\ \A k \in 1..Len(t) : Followed(t, e)[k] = t[k]
    BY Sequences
  <2>3. QED
    BY <1>6, <2>1, <2>2 DEF Beginning
<1>7. ASSUME NEW w, NEW x, Joined(s, t) = w, Beginning(w, x), Len(x) \in Nat
      PROVE  Beginning(s, x)
  <2>1. /\ Len(s) \in Nat /\ Len(w) \in Nat /\ Len(s) <= Len(w)
        /\ \A k \in 1..Len(s) : k \in 1..Len(w) /\ w[k] = s[k]
    BY <1>4, <1>7 DEF Joined
  <2>2. QED
    BY <1>7, <2>1 DEF Beginning
<1>8. ASSUME Beginning(s, t) PROVE IsPrefix(s, t)
  <2>1. Len(s) \in Nat /\ Len(t) \in Nat /\ Len(s) <= Len(t)
    BY <1>4, <1>8 DEF Beginning
  <2>2. /\ SubSeq(s, 1, Len(s)) = [k \in 1..Len(s) |-> s[k]]
        /\ SubSeq(t, 1, Len(s)) = [k \in 1..Len(s) |-> t[k]]
    BY <1>4, <2>1
  <2>3. \A k \in 1..Len(s) : s[k] = t[k]
    BY <1>8 DEF Beginning
  <2>4. QED
    BY <2>1, <2>2, <2>3 DEF IsPrefix
<1>9. QED
  BY <1>5, <1>6, <1>7, <1>8

LEMMA ListingRuns ==
  ASSUME NEW rectangle
  PROVE  LET list == Listing(rectangle)
         IN  /\ list[0] = <<>>
             /\ \A n \in 1..Len(FeatureList) :
                  list[n] = IF Inside(FeatureList[n].location, rectangle)
                            THEN Append(list[n - 1], FeatureList[n])
                            ELSE list[n - 1]
             /\ \A n \in 0..Len(FeatureList) :
                  IsSequence(list[n]) /\ Beginning(list[n], FeaturesIn(rectangle))
<1> DEFINE N == Len(FeatureList)
<1>1. PICK list : list = Listing(rectangle)
  OBVIOUS
<1>2. N \in Nat /\ \A n \in 1..N : FeatureList[n] \in Features
  BY FeatureListAssumption DEF Features
<1>3. FeaturesIn(rectangle) = list[N]
  BY <1>1, ListingIsLister
<1> HIDE DEF N
<1>4. /\ 0 \in 0..N
      /\ \A n \in 0..N : list[n] = IF n = 0 THEN <<>>
                                   ELSE IF Inside(FeatureList[n].location, rectangle)
                                        THEN Append(list[n - 1], FeatureList[n])
                                        ELSE list[n - 1]
  <2>1. list = [n \in 0..N |-> IF n = 0 THEN <<>>
                               ELSE IF Inside(FeatureList[n].location, rectangle)
                                    THEN Append(list[n - 1], FeatureList[n])
                                    ELSE list[n - 1]]
    BY <1>1, ListingIsLister DEF Lister, N
  <2>2. 0 \in 0..N
    BY <1>2
  <2>3. QED
    BY <2>1, <2>2
<1>5. \A n \in 1..N : n - 1 \in 0..N /\ n \in 0..N /\ n # 0
  BY <1>2
<1>6. /\ list[0] = <<>>
      /\ \A n \in 1..N : list[n] = IF Inside(FeatureList[n].location, rectangle)
                                   THEN Append(list[n - 1], FeatureList[n])
                                   ELSE list[n - 1]
  BY <1>4, <1>5
<1> DEFINE holds == {n \in 0..N : IsSequence(list[n])}
<1>7. \A n \in 0..N : n \in holds
  <2>1. 0 \in holds
    BY <1>4, <1>6, EmptySequence
  <2>2. ASSUME NEW n \in 1..N, n - 1 \in holds PROVE n \in holds
    <3>1. IsSequence(list[n - 1])
      BY <2>2
    <3>2. IsSequence(Append(list[n - 1], FeatureList[n]))
      BY <3>1, Sequences DEF Followed
    <3>3. QED
      BY <1>5, <1>6, <3>1, <3>2
  <2> HIDE DEF holds
  <2>3. QED
    BY <1>2, <2>1, <2>2, UpTo
<1>8. \A n \in 0..N : IsSequence(list[n])
  BY <1>7
<1>9. ASSUME NEW m \in 0..N PROVE Beginning(list[m], list[N])
  <2> DEFINE goes == {n \in 0..N : m <= n => Beginning(list[m], list[n])}
  <2>1. Beginning(list[m], list[m])
    BY <1>8, Beginnings
  <2>2. 0 \in goes
    BY <1>2, <2>1
  <2>3. ASSUME NEW n \in 1..N, n - 1 \in goes PROVE n \in goes
    <3> SUFFICES ASSUME m <= n, m # n PROVE Beginning(list[m], list[n])
      BY <1>5, <2>1
    <3>1. Beginning(list[m], list[n - 1])
      BY <1>2, <2>3
    <3>2. Beginning(list[m], Append(list[n - 1], FeatureList[n]))
      BY <1>5, <1>8, <3>1, Beginnings DEF Followed
    <3>3. QED
      BY <1>6, <3>1, <3>2
  <2> HIDE DEF goes
  <2>4. \A n \in 0..N : n \in goes
    BY <1>2, <2>2, <2>3, UpTo
  <2>5. N \in goes /\ m <= N
    BY <1>2, <2>4
  <2>6. QED
    BY <2>5 DEF goes
<1>10. QED
  BY <1>1, <1>3, <1>6, <1>8, <1>9 DEF N

-----------------------------------------------------------------------------
(* Requests *)

(* The requests of a call are as many and of such a type as its RPC says.  *)
LEMMA RequestsAreTyped ==
  ASSUME Whole, NEW c \in Calls
  PROVE  /\ request[c].client \in DOMAIN RpcOf
         /\ Messages(c) \in Seq(RequestType(Rpc(c)))
         /\ IsSequence(Messages(c)) /\ Len(Messages(c)) \in Nat
         /\ Rpc(c) \in Unary \cup ServerStreaming => Len(Messages(c)) = 1
<1>1. IsRequest(request[c])
  BY SyncAssumption DEF Whole
<1>2. /\ request[c].client \in DOMAIN RpcOf
      /\ Messages(c) \in Seq(RequestType(Rpc(c)))
      /\ Rpc(c) \in Unary \cup ServerStreaming => Len(Messages(c)) = 1
  BY <1>1 DEF IsRequest, Messages, Rpc
<1>3. PICK T : Messages(c) \in Seq(T)
  BY <1>2
<1>4. IsSequence(Messages(c)) /\ Len(Messages(c)) \in Nat
  BY <1>3 DEF IsSequence
<1>5. QED
  BY <1>2, <1>4

LEMMA EchoesIsNatural == Echoes \in Nat
BY SyncAssumption

(* What a call asks for, and should get, stays.                            *)
LEMMA RequestStays ==
  ASSUME NEW c \in Calls, request'[c] = request[c]
  PROVE  /\ Messages(c)' = Messages(c) /\ Rpc(c)' = Rpc(c)
         /\ Overflows(c)' = Overflows(c) /\ Expected(c)' = Expected(c)
<1>1. Messages(c)' = Messages(c) /\ Rpc(c)' = Rpc(c)
  BY DEF Messages, Rpc
<1>2. Overflows(c)' = Overflows(c)
  BY <1>1 DEF Overflows
<1>3. Expected(c)' = Expected(c)
  BY <1>1 DEF Expected
<1>4. QED
  BY <1>1, <1>2, <1>3

-----------------------------------------------------------------------------
(* What a step of a handler does to the messages on their way *)

Took(c, n, m) ==
  \/ m = n /\ stream'[c].toServer = stream[c].toServer
  \/ /\ m = n + 1 /\ stream[c].toServer # <<>>
     /\ stream'[c].toServer = Tail(stream[c].toServer)

Wrote(c, w, v) ==
  \/ v = w /\ stream'[c].toClient = stream[c].toClient
  \/ \E e : /\ v = Followed(w, e)
            /\ stream'[c].toClient = IF stream[c].broken THEN stream[c].toClient
                                     ELSE Followed(stream[c].toClient, e)

\* A step of the handler of call c leaves alone what is not the handler's.
HandlerStep(c) ==
  /\ request'[c] = request[c] /\ client'[c] = client[c]
  /\ DOMAIN stream'[c] = DOMAIN stream[c]
  /\ stream'[c].halfClosed = stream[c].halfClosed
  /\ stream'[c].broken = stream[c].broken

LEMMA HandlerKeeps ==
  ASSUME NEW c \in Calls, Types(c), Waited(c), HandlerStep(c),
         handler[c].at # "returned", client[c].main # "start",
         NEW n \in Nat, NEW w, IsSequence(w), Incoming(c, n), Outgoing(c, w),
         Len(Messages(c)) \in Nat,
         NEW m \in Nat, NEW v, Took(c, n, m), Wrote(c, w, v), Progress(c, m, v)'
  PROVE  CallInv(c)'
<1>1. /\ Messages(c)' = Messages(c) /\ Rpc(c)' = Rpc(c) /\ Expected(c)' = Expected(c)
      /\ Sent(c)' = Sent(c)
  <2>1. Messages(c)' = Messages(c) /\ Rpc(c)' = Rpc(c) /\ Expected(c)' = Expected(c)
    BY RequestStays DEF HandlerStep
  <2>2. Sent(c)' = Sent(c)
    BY <2>1 DEF HandlerStep, Sent
  <2>3. QED
    BY <2>1, <2>2
<1>2. PICK server, toServer : server = stream[c].toServer /\ toServer = stream'[c].toServer
  OBVIOUS
<1>3. PICK answers, toClient : answers = stream[c].toClient /\ toClient = stream'[c].toClient
  OBVIOUS
<1>4. IsSequence(server) /\ IsSequence(answers) /\ IsSequence(client[c].presented)
  BY <1>2, <1>3 DEF Types
<1>5. /\ IsSequence(toServer) /\ Incoming(c, m)'
  <2>1. CASE m = n /\ toServer = server
    BY <1>1, <1>2, <1>4, <2>1 DEF Incoming, HandlerStep
  <2>2. CASE m = n + 1 /\ server # <<>> /\ toServer = Tail(server)
    <3>1. /\ IsSequence(toServer) /\ Len(server) \in Nat /\ Len(server) > 0
          /\ Len(toServer) = Len(server) - 1
          /\ \A k \in 1..Len(toServer) : toServer[k] = server[k + 1]
      BY <1>4, <2>2, TakenFirst
    <3>2. /\ ~stream[c].broken
          /\ n <= Len(Messages(c)) /\ Sent(c) <= Len(Messages(c))
          /\ Len(server) = Sent(c) - n
          /\ \A k \in 1..Len(server) : server[k] = Messages(c)[n + k]
          /\ stream[c].halfClosed => Sent(c) = Len(Messages(c))
      BY <1>2, <2>2 DEF Incoming
    <3>3. Sent(c) \in Nat
      BY DEF Sent, Types
    <3>4. m <= Len(Messages(c)) /\ Len(toServer) = Sent(c) - m
      BY <2>2, <3>1, <3>2, <3>3
    <3>5. \A k \in 1..Len(toServer) : toServer[k] = Messages(c)[m + k]
      <4> TAKE k \in 1..Len(toServer)
      <4>1. k + 1 \in 1..Len(server) /\ n + (k + 1) = m + k
        BY <2>2, <3>1
      <4>2. QED
        BY <3>1, <3>2, <4>1
    <3>6. QED
      BY <1>1, <1>2, <3>1, <3>2, <3>4, <3>5 DEF Incoming, HandlerStep
  <2>3. QED
    BY <1>2, <2>1, <2>2 DEF Took
<1>6. IsSequence(v) /\ IsSequence(toClient) /\ Outgoing(c, v)'
  <2>1. CASE v = w /\ toClient = answers
    BY <1>1, <1>3, <1>4, <2>1 DEF Outgoing, HandlerStep
  <2>2. ASSUME NEW e, v = Followed(w, e),
               toClient = IF stream[c].broken THEN answers ELSE Followed(answers, e)
        PROVE  IsSequence(v) /\ IsSequence(toClient) /\ Outgoing(c, v)'
    <3>1. IsSequence(v) /\ IsSequence(Followed(answers, e))
      BY <1>4, <2>2, Sequences
    <3>2. Joined(client[c].presented, Followed(answers, e))
            = Followed(Joined(client[c].presented, answers), e)
      BY <1>4, Sequences
    <3>3. CASE stream[c].broken
      BY <1>1, <1>3, <1>4, <2>2, <3>1, <3>3 DEF Outgoing, HandlerStep
    <3>4. CASE ~stream[c].broken
      BY <1>1, <1>3, <1>4, <2>2, <3>1, <3>2, <3>4 DEF Outgoing, HandlerStep
    <3>5. QED
      BY <3>3, <3>4
  <2>3. QED
    BY <1>3, <2>1, <2>2 DEF Wrote
<1>7. Types(c)'
  BY <1>2, <1>3, <1>5, <1>6 DEF Types, HandlerStep
<1>8. Waited(c)'
  BY <1>1 DEF Waited, HandlerStep
<1>9. Conversed(c)'
  BY <1>5, <1>6 DEF Conversed
<1>10. QED
  BY <1>7, <1>8, <1>9 DEF CallInv

-----------------------------------------------------------------------------
(* The handlers.  Each step keeps the invariant of its call.               *)

\* What a handler that has not begun finds.
LEMMA Begun ==
  ASSUME Whole, NEW c \in Calls, Types(c), handler[c].at = "none",
         ~stream[c].broken, client[c].main # "start",
         NEW n \in Nat, NEW w, Progress(c, n, w), Incoming(c, n), Outgoing(c, w)
  PROVE  /\ n = 0 /\ w = <<>> /\ stream[c].toClient = <<>>
         /\ Rpc(c) \in Unary \cup ServerStreaming =>
              /\ stream[c].toServer # <<>>
              /\ Head(stream[c].toServer) = Head(Messages(c))
              /\ Tail(stream[c].toServer) = <<>>
<1>1. n = 0 /\ w = <<>>
  BY DEF Progress, Listed, Summed, Repeated, Gathered, Echoed
<1>2. stream[c].toClient = <<>>
  BY <1>1, Sequences DEF Types, Outgoing
<1>3. ASSUME Rpc(c) \in Unary \cup ServerStreaming
      PROVE  /\ stream[c].toServer # <<>>
             /\ Head(stream[c].toServer) = Head(Messages(c))
             /\ Tail(stream[c].toServer) = <<>>
  <2>1. PICK server : server = stream[c].toServer /\ IsSequence(server)
    BY DEF Types
  <2>2. Len(server) = 1 /\ \A k \in 1..Len(server) : server[k] = Messages(c)[k]
    BY <1>1, <1>3, <2>1 DEF Incoming, Sent
  <2>3. server # <<>> /\ Head(server) = server[1] /\ Tail(server) = <<>>
    <3>1. server # <<>>
      BY <2>2
    <3>2. /\ IsSequence(Tail(server)) /\ Len(Tail(server)) = 0
          /\ Head(server) = server[1]
      BY <2>1, <2>2, <3>1, TakenFirst
    <3>3. QED
      BY <3>1, <3>2, NothingLeft
  <2>4. Head(Messages(c)) = Messages(c)[1]
    BY <1>3, RequestsAreTyped
  <2>5. server[1] = Messages(c)[1]
    BY <2>2
  <2>6. QED
    BY <2>1, <2>3, <2>4, <2>5
<1>4. QED
  BY <1>1, <1>2, <1>3

LEMMA UnaryKeeps ==
  ASSUME Whole, NEW c \in Calls, CallInv(c), NEW rpc \in Unary, Served(c, rpc),
         NEW reply, AnswerWith(c, reply), Answers(c, <<reply>>),
         request' = request, client' = client
  PROVE  CallInv(c)'
<1>1. PICK n \in Nat : \E w :
        IsSequence(w) /\ Progress(c, n, w) /\ Incoming(c, n) /\ Outgoing(c, w)
  BY DEF CallInv, Conversed
<1>2. PICK w : IsSequence(w) /\ Progress(c, n, w) /\ Incoming(c, n) /\ Outgoing(c, w)
  BY <1>1
<1>3. Types(c) /\ Waited(c)
  BY DEF CallInv
<1>4. /\ n = 0 /\ w = <<>> /\ stream[c].toClient = <<>>
      /\ stream[c].toServer # <<>> /\ Tail(stream[c].toServer) = <<>>
  BY <1>2, <1>3, Begun DEF Served
<1>5. /\ DOMAIN stream'[c] = DOMAIN stream[c]
      /\ stream'[c].toServer = <<>> /\ stream'[c].toClient = <<reply>>
      /\ stream'[c].halfClosed = stream[c].halfClosed
      /\ stream'[c].broken = stream[c].broken
      /\ handler'[c] = [at |-> "returned", locals |-> NULL]
  BY <1>3 DEF AnswerWith, Return, Goto, Whole, Types
<1>6. HandlerStep(c)
  BY <1>5 DEF HandlerStep
<1>7. Took(c, n, 1)
  BY <1>4, <1>5 DEF Took
<1>8. Wrote(c, w, <<reply>>)
  <2>1. Followed(<<>>, reply) = <<reply>>
    BY DEF Followed
  <2>2. QED
    BY <1>4, <1>5, <2>1 DEF Wrote, Served
<1>9. Progress(c, 1, <<reply>>)'
  <2>1. Answers(c, <<reply>>)'
    BY RequestStays DEF Answers
  <2>2. QED
    BY <1>5, <2>1 DEF Progress
<1>10. handler[c].at # "returned" /\ client[c].main # "start" /\ Len(Messages(c)) \in Nat
  BY RequestsAreTyped DEF Served
<1>11. QED
  BY <1>2, <1>3, <1>6, <1>7, <1>8, <1>9, <1>10, HandlerKeeps

LEMMA GetFeatureKeeps ==
  ASSUME Whole, NEW c \in Calls, CallInv(c), GetFeature(c),
         request' = request, client' = client
  PROVE  CallInv(c)'
<1>1. PICK reply : reply = FeatureAt(Head(stream[c].toServer))
  OBVIOUS
<1>2. Served(c, "GetFeature") /\ AnswerWith(c, reply) /\ "GetFeature" \in Unary
  BY <1>1 DEF GetFeature, Unary
<1>3. Head(stream[c].toServer) = Head(Messages(c))
  BY <1>2, Begun DEF CallInv, Conversed, Served, Unary
<1>4. Answers(c, <<reply>>)
  BY <1>1, <1>2, <1>3 DEF Answers, Overflows, Expected, Served
<1>5. QED
  BY <1>2, <1>4, UnaryKeeps

LEMMA YellEchoKeeps ==
  ASSUME Whole, NEW c \in Calls, CallInv(c), yellEcho(c),
         request' = request, client' = client
  PROVE  CallInv(c)'
<1>1. PICK reply : reply = Head(stream[c].toServer)
  OBVIOUS
<1>2. Served(c, "yellEcho") /\ AnswerWith(c, reply) /\ "yellEcho" \in Unary
  BY <1>1 DEF yellEcho, Unary
<1>3. Head(stream[c].toServer) = Head(Messages(c))
  BY <1>2, Begun DEF CallInv, Conversed, Served, Unary
<1>4. Answers(c, <<reply>>)
  BY <1>1, <1>2, <1>3 DEF Answers, Overflows, Expected, Served
<1>5. QED
  BY <1>2, <1>4, UnaryKeeps

LEMMA SayHelloKeeps ==
  ASSUME Whole, NEW c \in Calls, CallInv(c), SayHello(c),
         request' = request, client' = client
  PROVE  CallInv(c)'
<1>1. PICK reply : reply = <<"Hello">> \o Head(stream[c].toServer)
  OBVIOUS
<1>2. Served(c, "SayHello") /\ AnswerWith(c, reply) /\ "SayHello" \in Unary
  BY <1>1 DEF SayHello, Unary
<1>3. Head(stream[c].toServer) = Head(Messages(c))
  BY <1>2, Begun DEF CallInv, Conversed, Served, Unary
<1>4. Answers(c, <<reply>>)
  BY <1>1, <1>2, <1>3 DEF Answers, Overflows, Expected, Served
<1>5. QED
  BY <1>2, <1>4, UnaryKeeps

LEMMA SendRequestKeeps ==
  ASSUME Whole, NEW c \in Calls, CallInv(c), sendRequest(c),
         request' = request, client' = client
  PROVE  CallInv(c)'
<1>1. PICK operands : operands = Head(stream[c].toServer)
  OBVIOUS
<1>2. PICK reply \in ProductsOf(operands.a, operands.b) : AnswerWith(c, reply)
  BY <1>1 DEF sendRequest
<1>3. Served(c, "sendRequest") /\ "sendRequest" \in Unary
  BY DEF sendRequest, Unary
<1>4. operands = Head(Messages(c))
  BY <1>1, <1>3, Begun DEF CallInv, Conversed, Served, Unary
<1>5. Answers(c, <<reply>>)
  <2>1. CASE Overflows(c)
    BY <2>1 DEF Answers
  <2>2. CASE ~Overflows(c)
    <3>1. reply = operands.a * operands.b
      BY <1>2, <1>3, <1>4, <2>2 DEF Overflows, ProductsOf, Served
    <3>2. Expected(c) = <<operands.a * operands.b>>
      BY <1>3, <1>4 DEF Expected, Served
    <3>3. QED
      BY <2>2, <3>1, <3>2 DEF Answers
  <2>3. QED
    BY <2>1, <2>2
<1>6. QED
  BY <1>2, <1>3, <1>5, UnaryKeeps

LEMMA ListFeaturesKeeps ==
  ASSUME Whole, NEW c \in Calls, CallInv(c), ListFeatures(c),
         request' = request, client' = client
  PROVE  CallInv(c)'
<1>1. PICK n \in Nat : \E w :
        IsSequence(w) /\ Progress(c, n, w) /\ Incoming(c, n) /\ Outgoing(c, w)
  BY DEF CallInv, Conversed
<1>2. PICK w : IsSequence(w) /\ Progress(c, n, w) /\ Incoming(c, n) /\ Outgoing(c, w)
  BY <1>1
<1>3. Types(c) /\ Waited(c) /\ Rpc(c) = "ListFeatures" /\ Len(Messages(c)) \in Nat
  BY RequestsAreTyped DEF CallInv, ListFeatures, Served, HandlerAt
<1>4. Messages(c)' = Messages(c) /\ Rpc(c)' = Rpc(c)
  BY RequestStays
<1>5. PICK message : message = Head(Messages(c))
  OBVIOUS
<1>6. PICK list : list = Listing(message)
  OBVIOUS
<1>7. /\ list[0] = <<>>
      /\ \A f \in 1..Len(FeatureList) :
           list[f] = IF Inside(FeatureList[f].location, message)
                     THEN Append(list[f - 1], FeatureList[f])
                     ELSE list[f - 1]
      /\ FeaturesIn(message) = list[Len(FeatureList)]
  BY <1>6, ListingRuns, ListingIsLister
<1>8. Len(FeatureList) \in Nat
  BY FeatureListAssumption
<1>9. ASSUME Served(c, "ListFeatures"),
             Goto(c, "loop", [rectangle |-> Head(stream[c].toServer), f |-> 1]),
             stream' = [stream EXCEPT ![c].toServer = <<>>]
      PROVE  CallInv(c)'
  <2>1. /\ n = 0 /\ w = <<>> /\ stream[c].toServer # <<>>
        /\ Head(stream[c].toServer) = message /\ Tail(stream[c].toServer) = <<>>
    BY <1>2, <1>3, <1>5, <1>9, Begun DEF Served, ServerStreaming
  <2>2. /\ DOMAIN stream'[c] = DOMAIN stream[c]
        /\ stream'[c].toServer = <<>> /\ stream'[c].toClient = stream[c].toClient
        /\ stream'[c].halfClosed = stream[c].halfClosed
        /\ stream'[c].broken = stream[c].broken
        /\ handler'[c] = [at |-> "loop", locals |-> [rectangle |-> message, f |-> 1]]
    BY <1>3, <1>9, <2>1 DEF Goto, Whole, Types
  <2>3. Progress(c, 1, w)'
    <3>1. 1 \in 1..(Len(FeatureList) + 1) /\ w = list[1 - 1]
      BY <1>7, <1>8, <2>1
    <3>2. Listed(c, 1, w)'
      BY <1>3, <1>4, <1>5, <1>6, <2>2, <3>1 DEF Listed
    <3>3. QED
      BY <3>2 DEF Progress
  <2>4. HandlerStep(c) /\ Took(c, n, 1) /\ Wrote(c, w, w)
    BY <2>1, <2>2 DEF HandlerStep, Took, Wrote
  <2>5. QED
    BY <1>2, <1>3, <1>9, <2>3, <2>4, HandlerKeeps DEF Served
<1>10. ASSUME HandlerAt(c, "ListFeatures", "loop") PROVE CallInv(c)'
  <2>1. PICK f \in 1..(Len(FeatureList) + 1) :
          /\ n = 1
          /\ handler[c].locals = [rectangle |-> message, f |-> f]
          /\ w = list[f - 1]
    BY <1>2, <1>5, <1>6, <1>10
    DEF HandlerAt, Progress, Listed, Summed, Repeated, Gathered, Echoed
  <2>2. handler[c].at = "loop" /\ client[c].main # "start"
    BY <1>3, <1>10 DEF HandlerAt, Waited
  <2>3. CASE f > Len(FeatureList)
    <3>1. f = Len(FeatureList) + 1
      BY <1>8, <2>3
    <3>2. stream' = stream /\ handler'[c] = [at |-> "returned", locals |-> NULL]
      BY <1>10, <2>1, <2>2, <2>3 DEF ListFeatures, Served, Return, Goto, Whole
    <3>3. Answers(c, w)'
      <4>1. w = FeaturesIn(message)
        BY <1>7, <1>8, <2>1, <3>1
      <4>2. Answers(c, w)
        BY <1>3, <1>5, <4>1 DEF Answers, Overflows, Expected
      <4>3. QED
        BY <4>2, RequestStays DEF Answers
    <3>4. Progress(c, n, w)'
      BY <3>2, <3>3 DEF Progress
    <3>5. HandlerStep(c) /\ Took(c, n, n) /\ Wrote(c, w, w)
      BY <3>2 DEF HandlerStep, Took, Wrote
    <3>6. QED
      BY <1>2, <1>3, <2>2, <3>4, <3>5, HandlerKeeps
  <2>4. CASE ~(f > Len(FeatureList))
    <3>1. f \in 1..Len(FeatureList) /\ f + 1 \in 1..(Len(FeatureList) + 1) /\ (f + 1) - 1 = f
      BY <1>8, <2>4
    <3>2. PICK feature : feature = FeatureList[f]
      OBVIOUS
    <3>3. /\ Goto(c, "loop", [handler[c].locals EXCEPT !.f = @ + 1])
          /\ IF Inside(feature.location, message)
             THEN stream' = [stream EXCEPT ![c] = PutToClient(@, feature)]
             ELSE UNCHANGED stream
      BY <1>10, <2>1, <2>2, <2>4, <3>2 DEF ListFeatures, Served
    <3>4. handler'[c] = [at |-> "loop", locals |-> [rectangle |-> message, f |-> f + 1]]
      BY <2>1, <3>3 DEF Goto, Whole
    <3>5. \A v : v = list[f] => Progress(c, n, v)'
      <4>1. \A v : v = list[f] => Listed(c, n, v)'
        BY <1>3, <1>4, <1>5, <1>6, <2>1, <3>1, <3>4 DEF Listed
      <4>2. QED
        BY <4>1 DEF Progress
    <3>6. CASE Inside(feature.location, message)
      <4>1. list[f] = Followed(w, feature)
        BY <1>7, <2>1, <3>1, <3>2, <3>6 DEF Followed
      <4>2. /\ DOMAIN stream'[c] = DOMAIN stream[c]
            /\ stream'[c].toServer = stream[c].toServer
            /\ stream'[c].toClient = IF stream[c].broken THEN stream[c].toClient
                                     ELSE Followed(stream[c].toClient, feature)
            /\ stream'[c].halfClosed = stream[c].halfClosed
            /\ stream'[c].broken = stream[c].broken
        BY <1>3, <3>3, <3>6 DEF PutToClient, Followed, Whole, Types
      <4>3. HandlerStep(c) /\ Took(c, n, n) /\ Wrote(c, w, list[f])
        BY <4>1, <4>2 DEF HandlerStep, Took, Wrote
      <4>4. QED
        BY <1>2, <1>3, <2>2, <3>5, <4>3, HandlerKeeps
    <3>7. CASE ~Inside(feature.location, message)
      <4>1. list[f] = w
        BY <1>7, <2>1, <3>1, <3>2, <3>7
      <4>2. stream' = stream
        BY <3>3, <3>7
      <4>3. HandlerStep(c) /\ Took(c, n, n) /\ Wrote(c, w, w)
        BY <4>2 DEF HandlerStep, Took, Wrote
      <4>4. QED
        BY <1>2, <1>3, <2>2, <3>5, <4>1, <4>3, HandlerKeeps
    <3>8. QED
      BY <3>6, <3>7
  <2>5. QED
    BY <2>3, <2>4
<1>11. QED
  BY <1>9, <1>10 DEF ListFeatures

(* The next request is the first that the handler has not taken.           *)
LEMMA NextRequest ==
  ASSUME Whole, NEW c \in Calls, Types(c), NEW n \in Nat, Incoming(c, n),
         stream[c].toServer # <<>>
  PROVE  /\ ~stream[c].broken
         /\ n + 1 \in 1..Len(Messages(c))
         /\ Head(stream[c].toServer) = Messages(c)[n + 1]
<1>1. PICK server : server = stream[c].toServer /\ IsSequence(server) /\ server # <<>>
  BY DEF Types
<1>2. Len(server) \in Nat /\ Len(server) > 0 /\ Head(server) = server[1]
  BY <1>1, TakenFirst
<1>3. /\ ~stream[c].broken /\ Len(server) = Sent(c) - n
      /\ Sent(c) <= Len(Messages(c)) /\ server[1] = Messages(c)[n + 1]
  BY <1>1, <1>2 DEF Incoming
<1>4. Sent(c) \in Nat /\ Len(Messages(c)) \in Nat
  BY RequestsAreTyped DEF Sent, Types
<1>5. QED
  BY <1>1, <1>2, <1>3, <1>4

(* When the requests end the handler has taken them all.                   *)
LEMMA AllTaken ==
  ASSUME Whole, NEW c \in Calls, Types(c), NEW n \in Nat, Incoming(c, n),
         RequestsEnd(stream[c]), ~stream[c].broken
  PROVE  n = Len(Messages(c))
<1>1. Len(stream[c].toServer) = 0 /\ stream[c].halfClosed
  BY DEF RequestsEnd
<1>2. 0 = Sent(c) - n /\ Sent(c) = Len(Messages(c))
  BY <1>1 DEF Incoming
<1>3. Len(Messages(c)) \in Nat
  BY RequestsAreTyped
<1>4. QED
  BY <1>2, <1>3

(* What RecordRoute sums up is what RouteGuide says.                       *)
LEMMA SummaryIsRight ==
  ASSUME NEW points
  PROVE  RouteSummaryOf(points) = SummaryOf(LocalsOf(Recording(points)[Len(points)]))
<1>1. PICK state : state = Recording(points)[Len(points)]
  OBVIOUS
<1>2. RouteSummaryOf(points) = [RouteSummary(state) EXCEPT !.elapsed_since = "start_time"]
  BY <1>1 DEF RouteSummaryOf, Recording, Recorder
<1>3. QED
  BY <1>1, <1>2 DEF RouteSummary, SummaryOf, LocalsOf

(* A round of RecordRoute's loop is a point for RouteGuide.                *)
LEMMA VisitRecords ==
  ASSUME NEW state, NEW p
  PROVE  Visit(LocalsOf(state), p) = LocalsOf(RecordPoint(state, p))
<1>1. PICK a, b, d, e : /\ a = state.pointCount /\ b = state.featureCount
                        /\ d = state.distance /\ e = state.previous
  OBVIOUS
<1>2. PICK named : named = IF GetFeatureName(p) = "" THEN 0 ELSE 1
  OBVIOUS
<1>3. PICK leg : leg = IF a = 0 THEN 0 ELSE Distance(e, p)
  OBVIOUS
<1>4. LocalsOf(state) = [point_count |-> a, feature_count |-> b,
                         distance |-> d, previous |-> e]
  BY <1>1 DEF LocalsOf
<1>5. Visit(LocalsOf(state), p) = [point_count |-> a + 1, feature_count |-> b + named,
                                   distance |-> d + leg, previous |-> p]
  <2>1. PICK l : l = [point_count |-> a, feature_count |-> b, distance |-> d, previous |-> e]
    OBVIOUS
  <2>2. Visit(l, p) = [l EXCEPT !.point_count = a + 1, !.feature_count = b + named,
                                !.distance = d + leg, !.previous = p]
    BY <1>2, <1>3, <2>1 DEF Visit
  <2>3. QED
    BY <1>4, <2>1, <2>2
<1>6. LocalsOf(RecordPoint(state, p)) = [point_count |-> a + 1, feature_count |-> b + named,
                                         distance |-> d + leg, previous |-> p]
  BY <1>1, <1>2, <1>3 DEF LocalsOf, RecordPoint
<1>7. QED
  BY <1>5, <1>6

LEMMA RecordRouteKeeps ==
  ASSUME Whole, NEW c \in Calls, CallInv(c), RecordRoute(c),
         request' = request, client' = client
  PROVE  CallInv(c)'
<1>1. PICK n \in Nat : \E w :
        IsSequence(w) /\ Progress(c, n, w) /\ Incoming(c, n) /\ Outgoing(c, w)
  BY DEF CallInv, Conversed
<1>2. PICK w : IsSequence(w) /\ Progress(c, n, w) /\ Incoming(c, n) /\ Outgoing(c, w)
  BY <1>1
<1>3. Types(c) /\ Waited(c) /\ Rpc(c) = "RecordRoute" /\ Len(Messages(c)) \in Nat
  BY RequestsAreTyped DEF CallInv, RecordRoute, Served, HandlerAt
<1>4. Messages(c)' = Messages(c) /\ Rpc(c)' = Rpc(c)
  BY RequestStays
<1>5. PICK points \in Seq(Points) : points = Messages(c)
  BY <1>3, RequestsAreTyped DEF RequestType, Points
<1>6. PICK state : state = Recording(points)
  OBVIOUS
<1>7. /\ \A k \in 0..Len(points) : state[k] \in RecordRouteStates
      /\ state[0] = NewRecordRouteState
      /\ \A k \in 1..Len(points) : state[k] = RecordPoint(state[k - 1], points[k])
  BY <1>6, RecordingRuns
<1>8. ASSUME NEW k, handler'[c] = [at |-> "Read", locals |-> LocalsOf(state[k])]
      PROVE  Progress(c, k, <<>>)'
  <2>1. Summed(c, k, <<>>)'
    BY <1>3, <1>4, <1>5, <1>6, <1>8 DEF Summed
  <2>2. QED
    BY <2>1 DEF Progress
<1>9. ASSUME HandlerAt(c, "RecordRoute", "Read")
      PROVE  /\ handler[c].locals = LocalsOf(state[n]) /\ w = <<>>
             /\ client[c].main # "start" /\ handler[c].at # "returned"
  BY <1>2, <1>3, <1>5, <1>6, <1>9
  DEF HandlerAt, Waited, Progress, Listed, Summed, Repeated, Gathered, Echoed
<1>10. ASSUME Served(c, "RecordRoute"),
              Goto(c, "Read", [point_count |-> 0, feature_count |-> 0, distance |-> 0,
                               previous |-> Point(0, 0)]),
              UNCHANGED stream
       PROVE  CallInv(c)'
  <2>1. n = 0 /\ w = <<>>
    BY <1>2, <1>3, <1>10, Begun DEF Served
  <2>2. handler'[c] = [at |-> "Read", locals |-> LocalsOf(state[0])]
    BY <1>7, <1>10 DEF Goto, Whole, LocalsOf, NewRecordRouteState
  <2>3. Progress(c, n, w)'
    BY <1>8, <2>1, <2>2
  <2>4. HandlerStep(c) /\ Took(c, n, n) /\ Wrote(c, w, w)
    BY <1>10 DEF HandlerStep, Took, Wrote
  <2>5. QED
    BY <1>2, <1>3, <1>10, <2>3, <2>4, HandlerKeeps DEF Served
<1>11. ASSUME HandlerAt(c, "RecordRoute", "Read"), stream[c].toServer # <<>>,
              Goto(c, "Read", Visit(handler[c].locals, Head(stream[c].toServer))),
              stream' = [stream EXCEPT ![c].toServer = Tail(@)]
       PROVE  CallInv(c)'
  <2>1. n + 1 \in 1..Len(points) /\ Head(stream[c].toServer) = points[n + 1]
    BY <1>2, <1>3, <1>5, <1>11, NextRequest
  <2>2. state[n + 1] = RecordPoint(state[n], points[n + 1])
    BY <1>7, <2>1
  <2>3. Visit(LocalsOf(state[n]), points[n + 1]) = LocalsOf(state[n + 1])
    BY <2>2, VisitRecords
  <2>4. handler'[c] = [at |-> "Read", locals |-> LocalsOf(state[n + 1])]
    BY <1>9, <1>11, <2>1, <2>3 DEF Goto, Whole
  <2>5. Progress(c, n + 1, w)'
    BY <1>8, <1>9, <1>11, <2>4
  <2>6. /\ DOMAIN stream'[c] = DOMAIN stream[c]
        /\ stream'[c].toServer = Tail(stream[c].toServer)
        /\ stream'[c].toClient = stream[c].toClient
        /\ stream'[c].halfClosed = stream[c].halfClosed
        /\ stream'[c].broken = stream[c].broken
    BY <1>3, <1>11 DEF Whole, Types
  <2>7. HandlerStep(c) /\ Took(c, n, n + 1) /\ Wrote(c, w, w)
    BY <1>11, <2>6 DEF HandlerStep, Took, Wrote
  <2>8. QED
    BY <1>2, <1>3, <1>9, <1>11, <2>5, <2>7, HandlerKeeps
<1>12. ASSUME HandlerAt(c, "RecordRoute", "Read"), RequestsEnd(stream[c]), Return(c),
              stream' = [stream EXCEPT ![c] =
                           PutToClient(@, SummaryOf(handler[c].locals))]
       PROVE  CallInv(c)'
  <2>1. PICK summary : summary = SummaryOf(LocalsOf(state[n]))
    OBVIOUS
  <2>2. handler'[c] = [at |-> "returned", locals |-> NULL]
    BY <1>12 DEF Return, Goto, Whole
  <2>3. ASSUME ~stream[c].broken PROVE Answers(c, <<summary>>)'
    <3>1. n = Len(points)
      BY <1>2, <1>3, <1>5, <1>12, <2>3, AllTaken
    <3>2. RouteSummaryOf(points) = summary
      BY <1>6, <2>1, <3>1, SummaryIsRight
    <3>3. Answers(c, <<summary>>)
      BY <1>3, <1>5, <3>2 DEF Answers, Overflows, Expected
    <3>4. QED
      BY <3>3, RequestStays DEF Answers
  <2>4. /\ DOMAIN stream'[c] = DOMAIN stream[c]
        /\ stream'[c].toServer = stream[c].toServer
        /\ stream'[c].toClient = IF stream[c].broken THEN stream[c].toClient
                                 ELSE Followed(stream[c].toClient, summary)
        /\ stream'[c].halfClosed = stream[c].halfClosed
        /\ stream'[c].broken = stream[c].broken
    BY <1>3, <1>9, <1>12, <2>1 DEF PutToClient, Followed, Whole, Types
  <2>5. Progress(c, n, <<summary>>)'
    BY <2>2, <2>3, <2>4 DEF Progress
  <2>6. Wrote(c, w, <<summary>>)
    <3>1. Followed(<<>>, summary) = <<summary>>
      BY DEF Followed
    <3>2. QED
      BY <1>9, <1>12, <2>4, <3>1 DEF Wrote
  <2>7. HandlerStep(c) /\ Took(c, n, n)
    BY <2>4 DEF HandlerStep, Took
  <2>8. QED
    BY <1>2, <1>3, <1>9, <1>12, <2>5, <2>6, <2>7, HandlerKeeps
<1>13. QED
  BY <1>10, <1>11, <1>12 DEF RecordRoute

LEMMA YellEchoingKeeps ==
  ASSUME Whole, NEW c \in Calls, CallInv(c), yellEchoing(c),
         request' = request, client' = client
  PROVE  CallInv(c)'
<1>1. PICK n \in Nat : \E w :
        IsSequence(w) /\ Progress(c, n, w) /\ Incoming(c, n) /\ Outgoing(c, w)
  BY DEF CallInv, Conversed
<1>2. PICK w : IsSequence(w) /\ Progress(c, n, w) /\ Incoming(c, n) /\ Outgoing(c, w)
  BY <1>1
<1>3. Types(c) /\ Waited(c) /\ Rpc(c) = "yellEchoing" /\ Len(Messages(c)) \in Nat
  BY RequestsAreTyped DEF CallInv, yellEchoing, Served, HandlerAt
<1>4. Messages(c)' = Messages(c) /\ Rpc(c)' = Rpc(c) /\ Echoes \in Nat
  BY RequestStays, SyncAssumption
<1>5. PICK message : message = Head(Messages(c))
  OBVIOUS
<1>6. ASSUME NEW i \in 0..Echoes, NEW v, v = [k \in 1..i |-> message],
             handler'[c] = [at |-> "loop", locals |-> [output |-> message, i |-> i]]
      PROVE  Progress(c, 1, v)'
  <2>1. Repeated(c, 1, v)'
    BY <1>3, <1>4, <1>5, <1>6 DEF Repeated
  <2>2. QED
    BY <2>1 DEF Progress
<1>7. ASSUME Served(c, "yellEchoing"),
             Goto(c, "loop", [output |-> Head(stream[c].toServer), i |-> 0]),
             stream' = [stream EXCEPT ![c].toServer = <<>>]
      PROVE  CallInv(c)'
  <2>1. /\ n = 0 /\ w = <<>> /\ stream[c].toServer # <<>>
        /\ Head(stream[c].toServer) = message /\ Tail(stream[c].toServer) = <<>>
    BY <1>2, <1>3, <1>5, <1>7, Begun DEF Served, ServerStreaming
  <2>2. /\ DOMAIN stream'[c] = DOMAIN stream[c]
        /\ stream'[c].toServer = <<>> /\ stream'[c].toClient = stream[c].toClient
        /\ stream'[c].halfClosed = stream[c].halfClosed
        /\ stream'[c].broken = stream[c].broken
        /\ handler'[c] = [at |-> "loop", locals |-> [output |-> message, i |-> 0]]
    BY <1>3, <1>7, <2>1 DEF Goto, Whole, Types
  <2>3. Progress(c, 1, w)'
    <3>1. 0 \in 0..Echoes /\ w = [k \in 1..0 |-> message]
      BY <1>4, <2>1
    <3>2. QED
      BY <1>6, <2>2, <3>1
  <2>4. HandlerStep(c) /\ Took(c, n, 1) /\ Wrote(c, w, w)
    BY <2>1, <2>2 DEF HandlerStep, Took, Wrote
  <2>5. QED
    BY <1>2, <1>3, <1>7, <2>3, <2>4, HandlerKeeps DEF Served
<1>8. ASSUME HandlerAt(c, "yellEchoing", "loop") PROVE CallInv(c)'
  <2>1. PICK i \in 0..Echoes :
          /\ n = 1
          /\ handler[c].locals = [output |-> message, i |-> i]
          /\ w = [k \in 1..i |-> message]
    BY <1>2, <1>5, <1>8
    DEF HandlerAt, Progress, Listed, Summed, Repeated, Gathered, Echoed
  <2>2. handler[c].at = "loop" /\ client[c].main # "start"
    BY <1>3, <1>8 DEF HandlerAt, Waited
  <2>3. ASSUME i < Echoes, stream' = [stream EXCEPT ![c] = PutToClient(@, message)],
               Goto(c, "loop", [handler[c].locals EXCEPT !.i = @ + 1])
        PROVE  CallInv(c)'
    <3>1. i + 1 \in 0..Echoes
      BY <1>4, <2>3
    <3>2. handler'[c] = [at |-> "loop", locals |-> [output |-> message, i |-> i + 1]]
      BY <2>1, <2>3 DEF Goto, Whole
    <3>3. PICK v : v = [k \in 1..(i + 1) |-> message]
      OBVIOUS
    <3>4. Progress(c, n, v)'
      BY <1>6, <2>1, <3>1, <3>2, <3>3
    <3>5. v = Followed(w, message)
      <4>1. w \in Seq({message}) /\ Len(w) = i /\ v \in Seq({message}) /\ Len(v) = i + 1
        BY <2>1, <3>3
      <4>2. /\ Append(w, message) \in Seq({message}) /\ Len(Append(w, message)) = i + 1
            /\ \A k \in 1..(i + 1) : Append(w, message)[k] = v[k]
        BY <2>1, <3>3, <4>1
      <4>3. QED
        BY <4>1, <4>2 DEF Followed
    <3>6. /\ DOMAIN stream'[c] = DOMAIN stream[c]
          /\ stream'[c].toServer = stream[c].toServer
          /\ stream'[c].toClient = IF stream[c].broken THEN stream[c].toClient
                                   ELSE Followed(stream[c].toClient, message)
          /\ stream'[c].halfClosed = stream[c].halfClosed
          /\ stream'[c].broken = stream[c].broken
      BY <1>3, <2>3 DEF PutToClient, Followed, Whole, Types
    <3>7. HandlerStep(c) /\ Took(c, n, n) /\ Wrote(c, w, v)
      BY <3>5, <3>6 DEF HandlerStep, Took, Wrote
    <3>8. QED
      BY <1>2, <1>3, <2>2, <3>4, <3>7, HandlerKeeps
  <2>4. ASSUME i = Echoes, Return(c), UNCHANGED stream PROVE CallInv(c)'
    <3>1. handler'[c] = [at |-> "returned", locals |-> NULL]
      BY <2>4 DEF Return, Goto, Whole
    <3>2. Answers(c, w)
      BY <1>3, <1>5, <2>1, <2>4 DEF Answers, Overflows, Expected
    <3>3. Answers(c, w)'
      BY <3>2, RequestStays DEF Answers
    <3>4. Progress(c, n, w)'
      BY <3>1, <3>3 DEF Progress
    <3>5. HandlerStep(c) /\ Took(c, n, n) /\ Wrote(c, w, w)
      BY <2>4 DEF HandlerStep, Took, Wrote
    <3>6. QED
      BY <1>2, <1>3, <2>2, <3>4, <3>5, HandlerKeeps
  <2>5. QED
    BY <1>8, <2>1, <2>2, <2>3, <2>4 DEF yellEchoing, Served
<1>9. QED
  BY <1>7, <1>8 DEF yellEchoing

LEMMA YellingEchoKeeps ==
  ASSUME Whole, NEW c \in Calls, CallInv(c), yellingEcho(c),
         request' = request, client' = client
  PROVE  CallInv(c)'
<1>1. PICK n \in Nat : \E w :
        IsSequence(w) /\ Progress(c, n, w) /\ Incoming(c, n) /\ Outgoing(c, w)
  BY DEF CallInv, Conversed
<1>2. PICK w : IsSequence(w) /\ Progress(c, n, w) /\ Incoming(c, n) /\ Outgoing(c, w)
  BY <1>1
<1>3. Types(c) /\ Waited(c) /\ Rpc(c) = "yellingEcho" /\ Len(Messages(c)) \in Nat
  BY RequestsAreTyped DEF CallInv, yellingEcho, Served, HandlerAt
<1>4. Messages(c)' = Messages(c) /\ Rpc(c)' = Rpc(c)
  BY RequestStays
<1>5. PICK texts \in Seq(Seq(Words)) : texts = Messages(c)
  BY <1>3, RequestsAreTyped DEF RequestType
<1>6. PICK text : text = Gathering(texts)
  OBVIOUS
<1>7. /\ text[0] = <<>>
      /\ \A k \in 1..Len(texts) : text[k] = text[k - 1] \o texts[k] \o <<" ">>
      /\ FlattenSeq([i \in DOMAIN texts |-> texts[i] \o <<" ">>]) = text[Len(texts)]
  BY <1>6, GatheringRuns, GatheringIsFlattening
<1>8. ASSUME NEW k, handler'[c] = [at |-> "Read", locals |-> text[k]]
      PROVE  Progress(c, k, <<>>)'
  <2>1. Gathered(c, k, <<>>)'
    BY <1>3, <1>4, <1>5, <1>6, <1>8 DEF Gathered
  <2>2. QED
    BY <2>1 DEF Progress
<1>9. ASSUME HandlerAt(c, "yellingEcho", "Read")
      PROVE  /\ handler[c].locals = text[n] /\ w = <<>>
             /\ client[c].main # "start" /\ handler[c].at # "returned"
  BY <1>2, <1>3, <1>5, <1>6, <1>9
  DEF HandlerAt, Waited, Progress, Listed, Summed, Repeated, Gathered, Echoed
<1>10. ASSUME Served(c, "yellingEcho"), Goto(c, "Read", <<>>), UNCHANGED stream
       PROVE  CallInv(c)'
  <2>1. n = 0 /\ w = <<>>
    BY <1>2, <1>3, <1>10, Begun DEF Served
  <2>2. handler'[c] = [at |-> "Read", locals |-> text[0]]
    BY <1>7, <1>10 DEF Goto, Whole
  <2>3. Progress(c, n, w)'
    BY <1>8, <2>1, <2>2
  <2>4. HandlerStep(c) /\ Took(c, n, n) /\ Wrote(c, w, w)
    BY <1>10 DEF HandlerStep, Took, Wrote
  <2>5. QED
    BY <1>2, <1>3, <1>10, <2>3, <2>4, HandlerKeeps DEF Served
<1>11. ASSUME HandlerAt(c, "yellingEcho", "Read"), stream[c].toServer # <<>>,
              Goto(c, "Read",
                   handler[c].locals \o Head(stream[c].toServer) \o <<" ">>),
              stream' = [stream EXCEPT ![c].toServer = Tail(@)]
       PROVE  CallInv(c)'
  <2>1. n + 1 \in 1..Len(texts) /\ Head(stream[c].toServer) = texts[n + 1]
    BY <1>2, <1>3, <1>5, <1>11, NextRequest
  <2>2. text[n + 1] = text[n] \o texts[n + 1] \o <<" ">>
    <3>1. (n + 1) - 1 = n
      OBVIOUS
    <3>2. QED
      BY <1>7, <2>1, <3>1
  <2>3. handler'[c] = [at |-> "Read", locals |-> text[n + 1]]
    BY <1>9, <1>11, <2>1, <2>2 DEF Goto, Whole
  <2>4. Progress(c, n + 1, w)'
    BY <1>8, <1>9, <1>11, <2>3
  <2>5. /\ DOMAIN stream'[c] = DOMAIN stream[c]
        /\ stream'[c].toServer = Tail(stream[c].toServer)
        /\ stream'[c].toClient = stream[c].toClient
        /\ stream'[c].halfClosed = stream[c].halfClosed
        /\ stream'[c].broken = stream[c].broken
    BY <1>3, <1>11 DEF Whole, Types
  <2>6. HandlerStep(c) /\ Took(c, n, n + 1) /\ Wrote(c, w, w)
    BY <1>11, <2>5 DEF HandlerStep, Took, Wrote
  <2>7. n + 1 \in Nat
    OBVIOUS
  <2>8. QED
    BY <1>2, <1>3, <1>9, <1>11, <2>4, <2>6, <2>7, HandlerKeeps
<1>12. ASSUME HandlerAt(c, "yellingEcho", "Read"), RequestsEnd(stream[c]), Return(c),
              stream' = [stream EXCEPT ![c] = PutToClient(@, handler[c].locals)]
       PROVE  CallInv(c)'
  <2>1. PICK reply : reply = text[n]
    OBVIOUS
  <2>2. handler'[c] = [at |-> "returned", locals |-> NULL]
    BY <1>12 DEF Return, Goto, Whole
  <2>3. ASSUME ~stream[c].broken PROVE Answers(c, <<reply>>)'
    <3>1. n = Len(texts)
      BY <1>2, <1>3, <1>5, <1>12, <2>3, AllTaken
    <3>2. Expected(c) = <<FlattenSeq([i \in DOMAIN texts |-> texts[i] \o <<" ">>])>>
      BY <1>3, <1>5 DEF Expected
    <3>3. Answers(c, <<reply>>)
      BY <1>3, <1>7, <2>1, <3>1, <3>2 DEF Answers, Overflows
    <3>4. QED
      BY <3>3, RequestStays DEF Answers
  <2>4. /\ DOMAIN stream'[c] = DOMAIN stream[c]
        /\ stream'[c].toServer = stream[c].toServer
        /\ stream'[c].toClient = IF stream[c].broken THEN stream[c].toClient
                                 ELSE Followed(stream[c].toClient, reply)
        /\ stream'[c].halfClosed = stream[c].halfClosed
        /\ stream'[c].broken = stream[c].broken
    BY <1>3, <1>9, <1>12, <2>1 DEF PutToClient, Followed, Whole, Types
  <2>5. Progress(c, n, <<reply>>)'
    BY <2>2, <2>3, <2>4 DEF Progress
  <2>6. Wrote(c, w, <<reply>>)
    <3>1. Followed(<<>>, reply) = <<reply>>
      BY DEF Followed
    <3>2. QED
      BY <1>9, <1>12, <2>4, <3>1 DEF Wrote
  <2>7. HandlerStep(c) /\ Took(c, n, n)
    BY <2>4 DEF HandlerStep, Took
  <2>8. QED
    BY <1>2, <1>3, <1>9, <1>12, <2>5, <2>6, <2>7, HandlerKeeps
<1>13. QED
  BY <1>10, <1>11, <1>12 DEF yellingEcho

LEMMA YellingEchoingKeeps ==
  ASSUME Whole, NEW c \in Calls, CallInv(c), yellingEchoing(c),
         request' = request, client' = client
  PROVE  CallInv(c)'
<1>1. PICK n \in Nat : \E w :
        IsSequence(w) /\ Progress(c, n, w) /\ Incoming(c, n) /\ Outgoing(c, w)
  BY DEF CallInv, Conversed
<1>2. PICK w : IsSequence(w) /\ Progress(c, n, w) /\ Incoming(c, n) /\ Outgoing(c, w)
  BY <1>1
<1>3. Types(c) /\ Waited(c) /\ Rpc(c) = "yellingEchoing" /\ Len(Messages(c)) \in Nat
  BY RequestsAreTyped DEF CallInv, yellingEchoing, Served, HandlerAt
<1>4. Messages(c)' = Messages(c) /\ Rpc(c)' = Rpc(c)
  BY RequestStays
<1>5. PICK texts \in Seq(Seq(Words)) : texts = Messages(c)
  BY <1>3, RequestsAreTyped DEF RequestType
<1>6. ASSUME handler[c].at \in {"Read", "Write"}
      PROVE  Echoed(c, n, w) /\ client[c].main # "start"
  BY <1>2, <1>3, <1>6 DEF Waited, Progress, Listed, Summed, Repeated, Gathered
<1>7. ASSUME NEW k, NEW v, Echoed(c, k, v)' PROVE Progress(c, k, v)'
  BY <1>7 DEF Progress
<1>8. ASSUME Served(c, "yellingEchoing"), Goto(c, "Read", NULL), UNCHANGED stream
      PROVE  CallInv(c)'
  <2>1. n = 0 /\ w = <<>>
    BY <1>2, <1>3, <1>8, Begun DEF Served
  <2>2. handler'[c].at = "Read" /\ w = SubSeq(texts, 1, n)
    BY <1>8, <2>1 DEF Goto, Whole
  <2>3. Progress(c, n, w)'
    BY <1>3, <1>4, <1>5, <1>7, <2>2 DEF Echoed
  <2>4. HandlerStep(c) /\ Took(c, n, n) /\ Wrote(c, w, w)
    BY <1>8 DEF HandlerStep, Took, Wrote
  <2>5. QED
    BY <1>2, <1>3, <1>8, <2>3, <2>4, HandlerKeeps DEF Served
<1>9. ASSUME HandlerAt(c, "yellingEchoing", "Read"), stream[c].toServer # <<>>,
             Goto(c, "Write", Head(stream[c].toServer)),
             stream' = [stream EXCEPT ![c].toServer = Tail(@)]
      PROVE  CallInv(c)'
  <2>1. n + 1 \in 1..Len(texts) /\ Head(stream[c].toServer) = texts[n + 1]
    BY <1>2, <1>3, <1>5, <1>9, NextRequest
  <2>2. w = SubSeq(texts, 1, n) /\ client[c].main # "start"
    BY <1>5, <1>6, <1>9 DEF Echoed, HandlerAt
  <2>3. handler'[c] = [at |-> "Write", locals |-> texts[n + 1]]
    BY <1>9, <2>1 DEF Goto, Whole
  <2>4. PICK m \in Nat : m = n + 1 /\ m >= 1 /\ m - 1 = n
    OBVIOUS
  <2>5. Progress(c, m, w)'
    <3>1. /\ handler'[c].at = "Write" /\ handler'[c].locals = texts[m]
          /\ w = SubSeq(texts, 1, m - 1)
      BY <2>2, <2>3, <2>4
    <3>2. Echoed(c, m, w)'
      BY <1>3, <1>4, <1>5, <2>4, <3>1 DEF Echoed
    <3>3. QED
      BY <1>7, <3>2
  <2>6. /\ DOMAIN stream'[c] = DOMAIN stream[c]
        /\ stream'[c].toServer = Tail(stream[c].toServer)
        /\ stream'[c].toClient = stream[c].toClient
        /\ stream'[c].halfClosed = stream[c].halfClosed
        /\ stream'[c].broken = stream[c].broken
    BY <1>3, <1>9 DEF Whole, Types
  <2>7. HandlerStep(c) /\ Took(c, n, m) /\ Wrote(c, w, w)
    BY <1>9, <2>4, <2>6 DEF HandlerStep, Took, Wrote
  <2>8. QED
    BY <1>2, <1>3, <1>9, <2>2, <2>5, <2>7, HandlerKeeps DEF HandlerAt
<1>10. ASSUME HandlerAt(c, "yellingEchoing", "Read"), RequestsEnd(stream[c]),
              Return(c), UNCHANGED stream
       PROVE  CallInv(c)'
  <2>1. w = SubSeq(texts, 1, n) /\ client[c].main # "start"
    BY <1>5, <1>6, <1>10 DEF Echoed, HandlerAt
  <2>2. handler'[c] = [at |-> "returned", locals |-> NULL]
    BY <1>10 DEF Return, Goto, Whole
  <2>3. ASSUME ~stream[c].broken PROVE Answers(c, w)'
    <3>1. n = Len(texts)
      BY <1>2, <1>3, <1>5, <1>10, <2>3, AllTaken
    <3>2. w = texts
      BY <2>1, <3>1
    <3>3. Answers(c, w)
      BY <1>3, <1>5, <3>2 DEF Answers, Overflows, Expected
    <3>4. QED
      BY <3>3, RequestStays DEF Answers
  <2>4. Progress(c, n, w)'
    BY <1>10, <2>2, <2>3 DEF Progress
  <2>5. HandlerStep(c) /\ Took(c, n, n) /\ Wrote(c, w, w)
    BY <1>10 DEF HandlerStep, Took, Wrote
  <2>6. QED
    BY <1>2, <1>3, <1>10, <2>1, <2>4, <2>5, HandlerKeeps DEF HandlerAt
<1>11. ASSUME HandlerAt(c, "yellingEchoing", "Write"), Goto(c, "Read", NULL),
              stream' = [stream EXCEPT ![c] = PutToClient(@, handler[c].locals)]
       PROVE  CallInv(c)'
  <2>1. /\ n >= 1 /\ handler[c].locals = texts[n] /\ w = SubSeq(texts, 1, n - 1)
        /\ client[c].main # "start"
    BY <1>5, <1>6, <1>11 DEF Echoed, HandlerAt
  <2>2. n \in 1..Len(texts)
    BY <1>2, <1>5, <2>1 DEF Incoming
  <2>3. PICK v : v = SubSeq(texts, 1, n)
    OBVIOUS
  <2>4. v = Followed(w, texts[n])
    BY <2>1, <2>2, <2>3 DEF Followed
  <2>5. Progress(c, n, v)'
    BY <1>3, <1>4, <1>5, <1>7, <1>11, <2>3 DEF Echoed, Goto, Whole
  <2>6. /\ DOMAIN stream'[c] = DOMAIN stream[c]
        /\ stream'[c].toServer = stream[c].toServer
        /\ stream'[c].toClient = IF stream[c].broken THEN stream[c].toClient
                                 ELSE Followed(stream[c].toClient, texts[n])
        /\ stream'[c].halfClosed = stream[c].halfClosed
        /\ stream'[c].broken = stream[c].broken
    BY <1>3, <1>11, <2>1 DEF PutToClient, Followed, Whole, Types
  <2>7. HandlerStep(c) /\ Took(c, n, n) /\ Wrote(c, w, v)
    BY <2>4, <2>6 DEF HandlerStep, Took, Wrote
  <2>8. QED
    BY <1>2, <1>3, <1>11, <2>1, <2>5, <2>7, HandlerKeeps DEF HandlerAt
<1>12. QED
  BY <1>8, <1>9, <1>10, <1>11 DEF yellingEchoing

LEMMA HandlersKeep ==
  ASSUME Whole, NEW c \in Calls, CallInv(c), Handler(c), Rpc(c) # "RouteChat"
  PROVE  CallInv(c)'
<1>1. request' = request /\ client' = client
  BY DEF Handler
<1>2. ~RouteChat(c)
  BY DEF RouteChat, Served, HandlerAt
<1>3. QED
  BY <1>1, <1>2, GetFeatureKeeps, ListFeaturesKeeps, RecordRouteKeeps, YellEchoKeeps,
     YellEchoingKeeps, YellingEchoKeeps, YellingEchoingKeeps, SayHelloKeeps,
     SendRequestKeeps
  DEF Handler

-----------------------------------------------------------------------------
(* The clients *)

\* A step of a client of call c leaves the handler alone.
ClientStep(c) ==
  /\ request'[c] = request[c] /\ handler'[c] = handler[c]
  /\ stream'[c].broken = stream[c].broken

LEMMA ProgressStays ==
  ASSUME NEW c \in Calls, request'[c] = request[c], handler'[c] = handler[c],
         stream[c].broken => stream'[c].broken,
         NEW n, NEW w, Progress(c, n, w)
  PROVE  Progress(c, n, w)'
<1>1. Messages(c)' = Messages(c) /\ Rpc(c)' = Rpc(c)
  BY RequestStays
<1>2. Answers(c, w)' <=> Answers(c, w)
  BY RequestStays DEF Answers
<1>3. QED
  BY <1>1, <1>2 DEF Progress, Listed, Summed, Repeated, Gathered, Echoed

LEMMA ClientKeeps ==
  ASSUME NEW c \in Calls, ClientStep(c), Types(c)', Waited(c)',
         NEW n \in Nat, NEW w, IsSequence(w), Progress(c, n, w),
         Incoming(c, n)', Outgoing(c, w)'
  PROVE  CallInv(c)'
<1>1. Progress(c, n, w)'
  BY ProgressStays DEF ClientStep
<1>2. Conversed(c)'
  BY <1>1 DEF Conversed
<1>3. QED
  BY <1>2 DEF CallInv

(* A handler with one answer has one, whatever it is.                      *)
LEMMA OneAnswer ==
  ASSUME NEW c \in Calls, Rpc(c) \in Unary \cup ClientStreaming, NEW w, Answers(c, w)
  PROVE  \E x : w = <<x>>
<1>1. CASE Overflows(c)
  BY <1>1 DEF Answers
<1>2. CASE ~Overflows(c)
  <2>1. w = Expected(c)
    BY <1>2 DEF Answers
  <2>2. \/ Rpc(c) = "GetFeature" \/ Rpc(c) = "yellEcho" \/ Rpc(c) = "SayHello"
        \/ Rpc(c) = "sendRequest" \/ Rpc(c) = "RecordRoute" \/ Rpc(c) = "yellingEcho"
    BY DEF Unary, ClientStreaming
  <2>3. QED
    BY <2>1, <2>2 DEF Expected
<1>3. QED
  BY <1>1, <1>2

(* What is expected of a stream of answers is a sequence.                  *)
LEMMA ExpectedIsSequence ==
  ASSUME Whole, NEW c \in Calls, Rpc(c) \notin Unary \cup ClientStreaming,
         Rpc(c) # "RouteChat"
  PROVE  IsSequence(Expected(c))
<1>1. \/ Rpc(c) = "ListFeatures" \/ Rpc(c) = "yellEchoing" \/ Rpc(c) = "yellingEchoing"
  BY RequestsAreTyped DEF Rpc, RpcOf, Unary, ClientStreaming
<1>2. PICK message : message = Head(Messages(c))
  OBVIOUS
<1>3. CASE Rpc(c) = "ListFeatures"
  <2>1. Expected(c) = FeaturesIn(message)
    BY <1>2, <1>3 DEF Expected
  <2>2. Len(FeatureList) \in 0..Len(FeatureList)
    BY FeatureListAssumption
  <2>3. QED
    BY <2>1, <2>2, ListingRuns, ListingIsLister
<1>4. CASE Rpc(c) = "yellEchoing"
  <2>1. Expected(c) = [i \in 1..Echoes |-> message]
    BY <1>2, <1>4 DEF Expected
  <2>2. Expected(c) \in Seq({message})
    BY <2>1, EchoesIsNatural
  <2>3. QED
    BY <2>2 DEF IsSequence
<1>5. CASE Rpc(c) = "yellingEchoing"
  BY <1>5, RequestsAreTyped DEF Expected
<1>6. QED
  BY <1>1, <1>3, <1>4, <1>5

(* What a handler has written is the beginning of what is expected.        *)
LEMMA WrittenIsBeginning ==
  ASSUME Whole, NEW c \in Calls, ~stream[c].broken,
         Rpc(c) \notin Unary \cup ClientStreaming, Rpc(c) # "RouteChat",
         NEW n \in Nat, NEW w, Progress(c, n, w), Incoming(c, n)
  PROVE  Beginning(w, Expected(c)) /\ IsSequence(Expected(c))
<1>1. \/ Rpc(c) = "ListFeatures" \/ Rpc(c) = "yellEchoing" \/ Rpc(c) = "yellingEchoing"
  BY RequestsAreTyped DEF Rpc, RpcOf, Unary, ClientStreaming
<1>2. ~Overflows(c)
  BY <1>1 DEF Overflows
<1>3. PICK message : message = Head(Messages(c))
  OBVIOUS
<1>4. PICK texts : texts = Messages(c) /\ IsSequence(texts) /\ Len(texts) \in Nat
  BY RequestsAreTyped
<1>5. IsSequence(Expected(c))
  BY ExpectedIsSequence
<1>6. CASE w = <<>>
  BY <1>5, <1>6, Beginnings
<1>7. CASE Answers(c, w)
  BY <1>2, <1>5, <1>7, Beginnings DEF Answers
<1>8. CASE Listed(c, n, w)
  <2>1. PICK f \in 1..(Len(FeatureList) + 1) : w = Listing(message)[f - 1]
    BY <1>3, <1>8 DEF Listed
  <2>2. f - 1 \in 0..Len(FeatureList)
    BY FeatureListAssumption
  <2>3. Expected(c) = FeaturesIn(message)
    BY <1>3, <1>8 DEF Expected, Listed
  <2>4. Beginning(Listing(message)[f - 1], FeaturesIn(message))
    BY <2>2, ListingRuns
  <2>5. QED
    BY <1>5, <2>1, <2>3, <2>4
<1>9. CASE Repeated(c, n, w)
  <2>1. PICK i \in 0..Echoes : w = [k \in 1..i |-> message]
    BY <1>3, <1>9 DEF Repeated
  <2>2. Expected(c) = [k \in 1..Echoes |-> message]
    BY <1>3, <1>9 DEF Expected, Repeated
  <2>3. Len(w) = i /\ Len(Expected(c)) = Echoes
    BY <2>1, <2>2, EchoesIsNatural
  <2>4. i <= Echoes /\ \A k \in 1..i : k \in 1..Echoes
    BY EchoesIsNatural
  <2>5. QED
    BY <1>5, <2>1, <2>2, <2>3, <2>4 DEF Beginning
<1>10. CASE Echoed(c, n, w)
  <2>1. PICK k : k \in 0..Len(texts) /\ w = SubSeq(texts, 1, k)
    <3>1. \/ w = SubSeq(texts, 1, n)
          \/ n >= 1 /\ w = SubSeq(texts, 1, n - 1)
      BY <1>4, <1>10 DEF Echoed
    <3>2. n <= Len(texts)
      BY <1>4 DEF Incoming
    <3>3. n \in 0..Len(texts) /\ (n >= 1 => n - 1 \in 0..Len(texts))
      BY <1>4, <3>2
    <3>4. QED
      BY <3>1, <3>3
  <2>2. Expected(c) = texts
    BY <1>4, <1>10 DEF Expected, Echoed
  <2>3. PICK T : texts \in Seq(T)
    BY <1>4 DEF IsSequence
  <2>4. Len(w) = k /\ \A i \in 1..k : w[i] = texts[i]
    BY <2>1, <2>3
  <2>5. QED
    BY <1>4, <2>1, <2>2, <2>4 DEF Beginning
<1>11. QED
  BY <1>6, <1>7, <1>8, <1>9, <1>10 DEF Progress, Summed, Gathered

(* The call of the stub's method: what goes with one request is sent.      *)
LEMMA StartKeeps ==
  ASSUME Whole, NEW c \in Calls, CallInv(c), Start(c), Rpc(c) # "RouteChat",
         request' = request, handler' = handler
  PROVE  CallInv(c)'
<1>1. PICK n \in Nat : \E w :
        IsSequence(w) /\ Progress(c, n, w) /\ Incoming(c, n) /\ Outgoing(c, w)
  BY DEF CallInv, Conversed
<1>2. PICK w : IsSequence(w) /\ Progress(c, n, w) /\ Incoming(c, n) /\ Outgoing(c, w)
  BY <1>1
<1>3. Types(c) /\ Waited(c)
  BY DEF CallInv
<1>4. Messages(c)' = Messages(c) /\ Rpc(c)' = Rpc(c) /\ Expected(c)' = Expected(c)
  BY RequestStays
<1>5. /\ IsSequence(Messages(c)) /\ Len(Messages(c)) \in Nat
      /\ Rpc(c) \in Unary \cup ServerStreaming => Len(Messages(c)) = 1
  BY RequestsAreTyped
<1>6. /\ client[c].main = "start" /\ handler[c].at = "none" /\ client[c].sent = 0
      /\ client[c].writer # "Write" /\ client[c].status = NULL
      /\ Rpc(c) \in Unary \cup ClientStreaming => client[c].presented = <<>>
  BY <1>3 DEF Start, Waited
<1>7. n = 0 /\ w = <<>>
  BY <1>2, <1>6 DEF Progress, Listed, Summed, Repeated, Gathered, Echoed
<1>8. CASE Rpc(c) \in Unary \cup ServerStreaming
  <2>1. PICK message : message = Head(Messages(c))
    OBVIOUS
  <2>2. /\ stream' = [stream EXCEPT ![c] =
                        [PutToServer(stream[c], message) EXCEPT !.halfClosed = TRUE]]
        /\ client' = [client EXCEPT ![c].main = IF Rpc(c) \in Unary THEN "Finish" ELSE "Read"]
    BY <1>8, <2>1 DEF Start
  <2>3. /\ DOMAIN client'[c] = DOMAIN client[c]
        /\ client'[c].main \in {"Finish", "Read"}
        /\ client'[c].writer = client[c].writer /\ client'[c].sent = client[c].sent
        /\ client'[c].status = client[c].status
        /\ client'[c].presented = client[c].presented
    BY <1>3, <2>2 DEF Whole, Types
  <2>4. /\ DOMAIN stream'[c] = DOMAIN stream[c]
        /\ stream'[c].toServer = IF stream[c].broken THEN stream[c].toServer
                                 ELSE Followed(stream[c].toServer, message)
        /\ stream'[c].toClient = stream[c].toClient
        /\ stream'[c].broken = stream[c].broken
    BY <1>3, <2>2 DEF PutToServer, Followed, Whole, Types
  <2>5. Sent(c) = 0 /\ Sent(c)' = 1
    BY <1>4, <1>6, <1>8, <2>3 DEF Sent
  <2>6. PICK server, toServer : server = stream[c].toServer /\ toServer = stream'[c].toServer
    OBVIOUS
  <2>7. /\ IsSequence(server)
        /\ IsSequence(Followed(server, message)) /\ Len(Followed(server, message)) = Len(server) + 1
        /\ Followed(server, message)[Len(server) + 1] = message
    BY <1>3, <2>6, Sequences DEF Types
  <2>8. IsSequence(toServer) /\ Incoming(c, n)'
    <3>1. CASE stream[c].broken
      <4>1. toServer = server /\ server = <<>>
        BY <1>2, <2>4, <2>6, <3>1 DEF Incoming
      <4>2. n <= Len(Messages(c)) /\ 1 <= Len(Messages(c))
        BY <1>5, <1>7, <1>8
      <4>3. Incoming(c, n)'
        BY <1>4, <2>4, <2>5, <2>6, <3>1, <4>1, <4>2 DEF Incoming
      <4>4. QED
        BY <2>7, <4>1, <4>3
    <3>2. CASE ~stream[c].broken
      <4>1. Len(server) = 0
        BY <1>2, <1>7, <2>5, <2>6, <3>2 DEF Incoming
      <4>2. /\ IsSequence(toServer) /\ Len(toServer) = 1
            /\ \A k \in 1..1 : toServer[k] = Messages(c)[n + k]
        <5>1. message = Messages(c)[1]
          BY <1>5, <1>8, <2>1
        <5>2. toServer = Followed(server, message)
          BY <2>4, <2>6, <3>2
        <5>3. QED
          BY <1>7, <2>7, <4>1, <5>1, <5>2
      <4>3. QED
        BY <1>4, <1>5, <1>7, <1>8, <2>4, <2>5, <2>6, <3>2, <4>2 DEF Incoming
    <3>3. QED
      BY <3>1, <3>2
  <2>9. Outgoing(c, w)'
    BY <1>2, <1>4, <2>3, <2>4 DEF Outgoing
  <2>10. Types(c)'
    BY <1>3, <2>3, <2>4, <2>6, <2>8 DEF Types
  <2>11. Waited(c)'
    BY <1>3, <1>4, <1>6, <2>3, SyncAssumption DEF Waited
  <2>12. ClientStep(c)
    BY <2>4 DEF ClientStep
  <2>13. QED
    BY <1>2, <2>8, <2>9, <2>10, <2>11, <2>12, ClientKeeps
<1>9. CASE Rpc(c) \notin Unary \cup ServerStreaming
  <2>1. /\ client' = [client EXCEPT
               ![c].main   = IF Rpc(c) \in ClientStreaming THEN "Write" ELSE "Read",
               ![c].writer = IF Rpc(c) \in ClientStreaming THEN "none" ELSE "Write"]
        /\ stream' = stream
    BY <1>9 DEF Start
  <2>2. /\ DOMAIN client'[c] = DOMAIN client[c]
        /\ client'[c].main \in {"Write", "Read"}
        /\ client'[c].writer = IF Rpc(c) \in ClientStreaming THEN "none" ELSE "Write"
        /\ client'[c].sent = client[c].sent
        /\ client'[c].status = client[c].status
        /\ client'[c].presented = client[c].presented
    BY <1>3, <2>1 DEF Whole, Types
  <2>3. Rpc(c) \notin ClientStreaming => Rpc(c) = "yellingEchoing"
    BY <1>9, RequestsAreTyped DEF Rpc, RpcOf, Unary, ServerStreaming, ClientStreaming
  <2>4. Sent(c)' = Sent(c)
    BY <1>4, <1>9, <2>2 DEF Sent
  <2>5. Incoming(c, n)' /\ Outgoing(c, w)'
    BY <1>2, <1>4, <2>1, <2>2, <2>4 DEF Incoming, Outgoing
  <2>6. Types(c)'
    BY <1>3, <2>1, <2>2 DEF Types
  <2>7. Waited(c)'
    BY <1>3, <1>4, <1>6, <2>1, <2>2, <2>3, SyncAssumption DEF Waited
  <2>8. ClientStep(c)
    BY <2>1 DEF ClientStep
  <2>9. QED
    BY <1>2, <2>5, <2>6, <2>7, <2>8, ClientKeeps
<1>10. QED
  BY <1>8, <1>9

(* The status and the only reply of a call.                                *)
LEMMA FinishKeeps ==
  ASSUME Whole, NEW c \in Calls, CallInv(c), NEW failure, IsSequence(failure),
         Finish(c, failure), client[c].main = "Finish",
         Rpc(c) \in Unary \cup ClientStreaming,
         request' = request, handler' = handler
  PROVE  CallInv(c)'
<1>1. PICK n \in Nat : \E w :
        IsSequence(w) /\ Progress(c, n, w) /\ Incoming(c, n) /\ Outgoing(c, w)
  BY DEF CallInv, Conversed
<1>2. PICK w : IsSequence(w) /\ Progress(c, n, w) /\ Incoming(c, n) /\ Outgoing(c, w)
  BY <1>1
<1>3. Types(c) /\ Waited(c)
  BY DEF CallInv
<1>4. Messages(c)' = Messages(c) /\ Rpc(c)' = Rpc(c) /\ Expected(c)' = Expected(c)
  BY RequestStays
<1>5. ASSUME NEW status, NEW presented, Returned(c, status, presented)
      PROVE  /\ DOMAIN client'[c] = DOMAIN client[c]
             /\ client'[c].main = "returned" /\ client'[c].status = status
             /\ client'[c].presented = presented
             /\ client'[c].writer = client[c].writer
             /\ client'[c].sent = client[c].sent
             /\ Sent(c)' = Sent(c)
  <2>1. /\ DOMAIN client'[c] = DOMAIN client[c]
        /\ client'[c].main = "returned" /\ client'[c].status = status
        /\ client'[c].presented = presented
        /\ client'[c].writer = client[c].writer
        /\ client'[c].sent = client[c].sent
    BY <1>3, <1>5 DEF Returned, Whole, Types
  <2>2. Sent(c)' = Sent(c)
    BY <1>4, <2>1 DEF Sent
  <2>3. QED
    BY <2>1, <2>2
<1>6. ASSUME stream[c].broken, Returned(c, "failed", failure), UNCHANGED stream
      PROVE  CallInv(c)'
  <2>1. Incoming(c, n)' /\ Outgoing(c, w)'
    BY <1>2, <1>4, <1>5, <1>6 DEF Incoming, Outgoing
  <2>2. Types(c)'
    BY <1>3, <1>5, <1>6 DEF Types
  <2>3. Waited(c)'
    BY <1>3, <1>4, <1>5, <1>6 DEF Waited
  <2>4. ClientStep(c)
    BY <1>6 DEF ClientStep
  <2>5. QED
    BY <1>2, <2>1, <2>2, <2>3, <2>4, ClientKeeps
<1>7. ASSUME handler[c].at = "returned", stream[c].toClient # <<>>,
             Returned(c, "OK", <<Head(stream[c].toClient)>>),
             stream' = [stream EXCEPT ![c].toClient = <<>>]
      PROVE  CallInv(c)'
  <2>1. ~stream[c].broken /\ client[c].presented = <<>>
    BY <1>2, <1>3, <1>7 DEF Outgoing, Waited
  <2>2. w = stream[c].toClient
    BY <1>2, <1>3, <2>1, Sequences DEF Outgoing, Types
  <2>3. Answers(c, w)
    BY <1>2, <1>7, <2>1 DEF Progress, Listed, Summed, Repeated, Gathered, Echoed
  <2>4. PICK x : w = <<x>>
    BY <2>3, OneAnswer
  <2>5. /\ client'[c].presented = w /\ IsSequence(w) /\ Joined(w, <<>>) = w
    <3>1. <<Head(stream[c].toClient)>> = w
      BY <2>2, <2>4, OneElement
    <3>2. QED
      BY <1>2, <1>5, <1>7, <3>1, Sequences, EmptySequence
  <2>6. /\ DOMAIN stream'[c] = DOMAIN stream[c]
        /\ stream'[c].toServer = stream[c].toServer /\ stream'[c].toClient = <<>>
        /\ stream'[c].halfClosed = stream[c].halfClosed
        /\ stream'[c].broken = stream[c].broken
    BY <1>3, <1>7 DEF Whole, Types
  <2>7. Incoming(c, n)'
    BY <1>2, <1>4, <1>5, <1>7, <2>6 DEF Incoming
  <2>8. Outgoing(c, w)'
    BY <1>4, <2>1, <2>5, <2>6 DEF Outgoing
  <2>9. Types(c)'
    BY <1>3, <1>5, <1>7, <2>5, <2>6, EmptySequence DEF Types
  <2>10. Waited(c)'
    BY <1>3, <1>4, <1>5, <1>7, <2>1, <2>6 DEF Waited
  <2>11. ClientStep(c)
    BY <2>6 DEF ClientStep
  <2>12. QED
    BY <1>2, <2>7, <2>8, <2>9, <2>10, <2>11, ClientKeeps
<1>8. QED
  BY <1>6, <1>7 DEF Finish

(* A client of a streaming call reads an answer.                           *)
LEMMA ReadAnswerKeeps ==
  ASSUME Whole, NEW c \in Calls, CallInv(c), ReadAnswer(c), client[c].main = "Read",
         Rpc(c) \notin Unary \cup ClientStreaming, Rpc(c) # "RouteChat",
         request' = request, handler' = handler
  PROVE  CallInv(c)'
<1>1. PICK n \in Nat : \E w :
        IsSequence(w) /\ Progress(c, n, w) /\ Incoming(c, n) /\ Outgoing(c, w)
  BY DEF CallInv, Conversed
<1>2. PICK w : IsSequence(w) /\ Progress(c, n, w) /\ Incoming(c, n) /\ Outgoing(c, w)
  BY <1>1
<1>3. Types(c) /\ Waited(c)
  BY DEF CallInv
<1>4. Messages(c)' = Messages(c) /\ Rpc(c)' = Rpc(c) /\ Expected(c)' = Expected(c)
  BY RequestStays
<1>5. PICK answers, shown : answers = stream[c].toClient /\ shown = client[c].presented
  OBVIOUS
<1>6. IsSequence(answers) /\ IsSequence(shown) /\ answers # <<>>
  BY <1>3, <1>5 DEF Types, ReadAnswer
<1>7. PICK more : more = Followed(shown, Head(answers))
  OBVIOUS
<1>8. /\ DOMAIN client'[c] = DOMAIN client[c]
      /\ client'[c].main = client[c].main /\ client'[c].writer = client[c].writer
      /\ client'[c].sent = client[c].sent /\ client'[c].status = client[c].status
      /\ client'[c].presented = more
  BY <1>3, <1>5, <1>7 DEF ReadAnswer, Followed, Whole, Types
<1>9. /\ DOMAIN stream'[c] = DOMAIN stream[c]
      /\ stream'[c].toServer = stream[c].toServer
      /\ stream'[c].toClient = Tail(answers)
      /\ stream'[c].halfClosed = stream[c].halfClosed
      /\ stream'[c].broken = stream[c].broken
  BY <1>3, <1>5 DEF ReadAnswer, Whole, Types
<1>10. /\ IsSequence(more) /\ IsSequence(Tail(answers))
       /\ Joined(more, Tail(answers)) = Joined(shown, answers)
  BY <1>6, <1>7, Sequences, TakenFirst
<1>11. ~stream[c].broken /\ Joined(shown, answers) = w
  BY <1>2, <1>5, <1>6 DEF Outgoing
<1>12. Beginning(more, Expected(c))
  <2>1. Beginning(w, Expected(c)) /\ IsSequence(Expected(c))
    BY <1>2, <1>11, WrittenIsBeginning
  <2>2. Len(Expected(c)) \in Nat
    BY <2>1, Sequences
  <2>3. QED
    BY <1>10, <1>11, <2>1, <2>2, Beginnings
<1>13. Sent(c)' = Sent(c)
  BY <1>4, <1>8 DEF Sent
<1>14. Incoming(c, n)'
  BY <1>2, <1>4, <1>9, <1>13 DEF Incoming
<1>15. Outgoing(c, w)'
  BY <1>4, <1>8, <1>9, <1>10, <1>11, <1>12 DEF Outgoing
<1>16. Types(c)'
  BY <1>3, <1>8, <1>9, <1>10 DEF Types
<1>17. Waited(c)'
  BY <1>3, <1>4, <1>8, <1>9, SyncAssumption DEF Waited
<1>18. ClientStep(c)
  BY <1>9 DEF ClientStep
<1>19. QED
  BY <1>2, <1>14, <1>15, <1>16, <1>17, <1>18, ClientKeeps

(* It comes to their end.                                                  *)
LEMMA EndKeeps ==
  ASSUME Whole, NEW c \in Calls, CallInv(c), AnswersEnd(c), client[c].main = "Read",
         Rpc(c) \notin Unary \cup ClientStreaming,
         DOMAIN client'[c] = DOMAIN client[c],
         client'[c].main \in {"join", "returned"},
         client'[c].writer = client[c].writer, client'[c].sent = client[c].sent,
         client'[c].status = StatusOf(c), client'[c].presented = client[c].presented,
         request' = request, handler' = handler, stream' = stream
  PROVE  CallInv(c)'
<1>1. PICK n \in Nat : \E w :
        IsSequence(w) /\ Progress(c, n, w) /\ Incoming(c, n) /\ Outgoing(c, w)
  BY DEF CallInv, Conversed
<1>2. PICK w : IsSequence(w) /\ Progress(c, n, w) /\ Incoming(c, n) /\ Outgoing(c, w)
  BY <1>1
<1>3. Types(c) /\ Waited(c)
  BY DEF CallInv
<1>4. Messages(c)' = Messages(c) /\ Rpc(c)' = Rpc(c) /\ Expected(c)' = Expected(c)
  BY RequestStays
<1>5. Sent(c)' = Sent(c)
  BY <1>4 DEF Sent
<1>6. Incoming(c, n)' /\ Outgoing(c, w)'
  BY <1>2, <1>4, <1>5 DEF Incoming, Outgoing
<1>7. Types(c)'
  BY <1>3 DEF Types
<1>8. Waited(c)'
  BY <1>3, <1>4 DEF Waited, StatusOf, AnswersEnd
<1>9. ClientStep(c)
  BY DEF ClientStep
<1>10. QED
  BY <1>2, <1>6, <1>7, <1>8, <1>9, ClientKeeps

(* A client of a stream of requests sends one.                             *)
LEMMA WriteKeeps ==
  ASSUME Whole, NEW c \in Calls, CallInv(c), Write(c), client[c].main # "start",
         Rpc(c) \notin Unary \cup ServerStreaming,
         request' = request, handler' = handler
  PROVE  CallInv(c)'
<1>1. PICK n \in Nat : \E w :
        IsSequence(w) /\ Progress(c, n, w) /\ Incoming(c, n) /\ Outgoing(c, w)
  BY DEF CallInv, Conversed
<1>2. PICK w : IsSequence(w) /\ Progress(c, n, w) /\ Incoming(c, n) /\ Outgoing(c, w)
  BY <1>1
<1>3. Types(c) /\ Waited(c)
  BY DEF CallInv
<1>4. Messages(c)' = Messages(c) /\ Rpc(c)' = Rpc(c) /\ Expected(c)' = Expected(c)
  BY RequestStays
<1>5. PICK sent \in Nat : sent = client[c].sent
  BY <1>3 DEF Types
<1>6. PICK message : message = Messages(c)[sent + 1]
  OBVIOUS
<1>7. /\ DOMAIN client'[c] = DOMAIN client[c]
      /\ client'[c].main = client[c].main /\ client'[c].writer = client[c].writer
      /\ client'[c].sent = sent + 1 /\ client'[c].status = client[c].status
      /\ client'[c].presented = client[c].presented
  BY <1>3, <1>5 DEF Write, Whole, Types
<1>8. /\ DOMAIN stream'[c] = DOMAIN stream[c]
      /\ stream'[c].toServer = IF stream[c].broken THEN stream[c].toServer
                               ELSE Followed(stream[c].toServer, message)
      /\ stream'[c].toClient = stream[c].toClient
      /\ stream'[c].halfClosed = stream[c].halfClosed
      /\ stream'[c].broken = stream[c].broken
  BY <1>3, <1>5, <1>6 DEF Write, PutToServer, Followed, Whole, Types
<1>9. Sent(c) = sent /\ Sent(c)' = sent + 1
  BY <1>4, <1>5, <1>7 DEF Sent
<1>10. Len(Messages(c)) \in Nat /\ sent < Len(Messages(c))
  BY <1>5, RequestsAreTyped DEF Write
<1>11. PICK server, toServer : server = stream[c].toServer /\ toServer = stream'[c].toServer
  OBVIOUS
<1>12. /\ IsSequence(server) /\ Len(server) \in Nat
       /\ IsSequence(Followed(server, message)) /\ Len(Followed(server, message)) = Len(server) + 1
       /\ Followed(server, message)[Len(server) + 1] = message
       /\ \A k \in 1..Len(server) : Followed(server, message)[k] = server[k]
  <2>1. IsSequence(server)
    BY <1>3, <1>11 DEF Types
  <2>2. QED
    BY <2>1, Sequences
<1>13. IsSequence(toServer) /\ Incoming(c, n)'
  <2>1. CASE stream[c].broken
    <3>1. toServer = server /\ server = <<>> /\ n <= Len(Messages(c))
      BY <1>2, <1>8, <1>11, <2>1 DEF Incoming
    <3>2. sent + 1 <= Len(Messages(c))
      BY <1>10
    <3>3. Incoming(c, n)'
      BY <1>4, <1>8, <1>9, <1>11, <2>1, <3>1, <3>2 DEF Incoming
    <3>4. QED
      BY <1>12, <3>1, <3>3
  <2>2. CASE ~stream[c].broken
    <3>1. /\ n <= Len(Messages(c)) /\ Len(server) = sent - n
          /\ \A k \in 1..Len(server) : server[k] = Messages(c)[n + k]
          /\ stream[c].halfClosed => sent = Len(Messages(c))
      BY <1>2, <1>9, <1>11, <2>2 DEF Incoming
    <3>2. toServer = Followed(server, message)
      BY <1>8, <1>11, <2>2
    <3>3. /\ Len(toServer) = (sent + 1) - n /\ sent + 1 <= Len(Messages(c))
          /\ ~stream[c].halfClosed
      BY <1>10, <1>12, <3>1, <3>2
    <3>4. \A k \in 1..Len(toServer) : toServer[k] = Messages(c)[n + k]
      <4> TAKE k \in 1..Len(toServer)
      <4>1. CASE k \in 1..Len(server)
        BY <1>12, <3>1, <3>2, <4>1
      <4>2. CASE k = Len(server) + 1
        <5>1. n + k = sent + 1
          BY <1>12, <3>1, <4>2
        <5>2. QED
          BY <1>6, <1>12, <3>2, <4>2, <5>1
      <4>3. QED
        BY <1>12, <3>2, <4>1, <4>2
    <3>5. Incoming(c, n)'
      BY <1>4, <1>8, <1>9, <1>11, <2>2, <3>1, <3>3, <3>4 DEF Incoming
    <3>6. QED
      BY <1>12, <3>2, <3>5
  <2>3. QED
    BY <2>1, <2>2
<1>14. Outgoing(c, w)'
  BY <1>2, <1>4, <1>7, <1>8 DEF Outgoing
<1>15. Types(c)'
  BY <1>3, <1>7, <1>8, <1>11, <1>13 DEF Types
<1>16. Waited(c)'
  BY <1>3, <1>4, <1>7, <1>8 DEF Waited
<1>17. ClientStep(c)
  BY <1>8 DEF ClientStep
<1>18. QED
  BY <1>2, <1>13, <1>14, <1>15, <1>16, <1>17, ClientKeeps

(* It ends its requests.                                                   *)
LEMMA WritesDoneKeeps ==
  ASSUME Whole, NEW c \in Calls, CallInv(c), client[c].main # "start",
         Rpc(c) \notin Unary \cup ServerStreaming,
         stream[c].broken \/ client[c].sent = Len(Messages(c)),
         \/ WritesDone(c, "main", "Finish") /\ client[c].main = "Write"
         \/ WritesDone(c, "writer", "done"),
         request' = request, handler' = handler
  PROVE  CallInv(c)'
<1>1. PICK n \in Nat : \E w :
        IsSequence(w) /\ Progress(c, n, w) /\ Incoming(c, n) /\ Outgoing(c, w)
  BY DEF CallInv, Conversed
<1>2. PICK w : IsSequence(w) /\ Progress(c, n, w) /\ Incoming(c, n) /\ Outgoing(c, w)
  BY <1>1
<1>3. Types(c) /\ Waited(c)
  BY DEF CallInv
<1>4. Messages(c)' = Messages(c) /\ Rpc(c)' = Rpc(c) /\ Expected(c)' = Expected(c)
  BY RequestStays
<1>5. /\ DOMAIN client'[c] = DOMAIN client[c]
      /\ client'[c].sent = client[c].sent /\ client'[c].status = client[c].status
      /\ client'[c].presented = client[c].presented
      /\ \/ /\ client[c].main = "Write" /\ client'[c].main = "Finish"
            /\ client'[c].writer = client[c].writer
         \/ client'[c].main = client[c].main /\ client'[c].writer = "done"
  <2>1. CASE WritesDone(c, "main", "Finish") /\ client[c].main = "Write"
    BY <1>3, <2>1 DEF WritesDone, Whole, Types
  <2>2. CASE WritesDone(c, "writer", "done")
    BY <1>3, <2>2 DEF WritesDone, Whole, Types
  <2>3. QED
    BY <2>1, <2>2
<1>6. /\ DOMAIN stream'[c] = DOMAIN stream[c]
      /\ stream'[c].toServer = stream[c].toServer
      /\ stream'[c].toClient = stream[c].toClient
      /\ stream'[c].broken = stream[c].broken
  BY <1>3 DEF WritesDone, Whole, Types
<1>7. Sent(c) = client[c].sent /\ Sent(c)' = client[c].sent
  BY <1>4, <1>5 DEF Sent
<1>8. Incoming(c, n)'
  BY <1>2, <1>4, <1>6, <1>7 DEF Incoming
<1>9. Outgoing(c, w)'
  BY <1>2, <1>4, <1>5, <1>6 DEF Outgoing
<1>10. Types(c)'
  BY <1>3, <1>5, <1>6 DEF Types
<1>11. Waited(c)'
  <2>1. client[c].main = "Write" => client[c].status = NULL
    BY <1>3 DEF Waited
  <2>2. QED
    BY <1>3, <1>4, <1>5, <1>6, <2>1, SyncAssumption DEF Waited
<1>12. ClientStep(c)
  BY <1>6 DEF ClientStep
<1>13. QED
  BY <1>2, <1>8, <1>9, <1>10, <1>11, <1>12, ClientKeeps

(* What the client programs call.                                          *)
LEMMA RpcsOfPrograms ==
  ASSUME NEW c \in Calls
  PROVE  /\ request[c].client \in {"GetOneFeature", "RecordRoute", "yell", "yelling",
                                   "SayHello", "AsyncSayHello", "sendRequest",
                                   "AsyncSendRequest"}
              => Rpc(c) \in Unary \cup ClientStreaming
         /\ request[c].client \in {"ListFeatures", "yellEchoing", "streamYelling"}
              => Rpc(c) \notin Unary \cup ClientStreaming
         /\ request[c].client \in {"RecordRoute", "yelling"}
              => Rpc(c) \notin Unary \cup ServerStreaming
BY DEF Rpc, RpcOf, Unary, ServerStreaming, ClientStreaming

LEMMA ClientsKeep ==
  ASSUME Whole, NEW c \in Calls, CallInv(c), Rpc(c) # "RouteChat",
         Client(c) \/ Writer(c)
  PROVE  CallInv(c)'
<1>1. request' = request /\ handler' = handler
  BY DEF Client, Writer
<1>2. Types(c) /\ Waited(c)
  BY DEF CallInv
<1>3. PICK failures : failures = {<<>>, <<<<>>>>, <<<<"RPC failed">>>>, <<1>>, <<-1>>}
  OBVIOUS
<1>4. \A failure \in failures : IsSequence(failure)
  BY <1>3, EmptySequence, OneElement
<1>5. ASSUME NEW program \in {"GetOneFeature", "RecordRoute", "yell", "yelling",
                              "SayHello", "AsyncSayHello", "sendRequest",
                              "AsyncSendRequest"},
             At(c, program, "Finish"), NEW failure \in failures, Finish(c, failure)
      PROVE  CallInv(c)'
  <2>1. Rpc(c) \in Unary \cup ClientStreaming /\ client[c].main = "Finish"
    BY <1>5, RpcsOfPrograms DEF At
  <2>2. QED
    BY <1>1, <1>4, <1>5, <2>1, FinishKeeps
<1>6. ASSUME NEW program \in {"ListFeatures", "yellEchoing", "streamYelling"},
             At(c, program, "Read"),
             \/ ReadAnswer(c)
             \/ /\ AnswersEnd(c)
                /\ Returned(c, StatusOf(c), client[c].presented)
                /\ UNCHANGED stream
             \/ /\ AnswersEnd(c)
                /\ client' = [client EXCEPT ![c].main = "join", ![c].status = StatusOf(c)]
                /\ UNCHANGED stream
      PROVE  CallInv(c)'
  <2>1. Rpc(c) \notin Unary \cup ClientStreaming /\ client[c].main = "Read"
    BY <1>6, RpcsOfPrograms DEF At
  <2>2. CASE ReadAnswer(c)
    BY <1>1, <2>1, <2>2, ReadAnswerKeeps
  <2>3. CASE /\ AnswersEnd(c)
             /\ Returned(c, StatusOf(c), client[c].presented)
             /\ UNCHANGED stream
    <3>1. /\ DOMAIN client'[c] = DOMAIN client[c]
          /\ client'[c].main \in {"join", "returned"}
          /\ client'[c].writer = client[c].writer /\ client'[c].sent = client[c].sent
          /\ client'[c].status = StatusOf(c)
          /\ client'[c].presented = client[c].presented
      BY <1>2, <2>3 DEF Returned, Whole, Types
    <3>2. QED
      BY <1>1, <2>1, <2>3, <3>1, EndKeeps
  <2>4. CASE /\ AnswersEnd(c)
             /\ client' = [client EXCEPT ![c].main = "join", ![c].status = StatusOf(c)]
             /\ UNCHANGED stream
    <3>1. /\ DOMAIN client'[c] = DOMAIN client[c]
          /\ client'[c].main \in {"join", "returned"}
          /\ client'[c].writer = client[c].writer /\ client'[c].sent = client[c].sent
          /\ client'[c].status = StatusOf(c)
          /\ client'[c].presented = client[c].presented
      BY <1>2, <2>4 DEF Whole, Types
    <3>2. QED
      BY <1>1, <2>1, <2>4, <3>1, EndKeeps
  <2>5. QED
    BY <1>6, <2>2, <2>3, <2>4
<1>7. ASSUME NEW program \in {"RecordRoute", "yelling"}, At(c, program, "Write"),
             \/ Write(c)
             \/ /\ stream[c].broken \/ client[c].sent = Len(Messages(c))
                /\ WritesDone(c, "main", "Finish")
      PROVE  CallInv(c)'
  <2>1. Rpc(c) \notin Unary \cup ServerStreaming /\ client[c].main = "Write"
    BY <1>7, RpcsOfPrograms DEF At
  <2>2. CASE Write(c)
    BY <1>1, <2>1, <2>2, WriteKeeps
  <2>3. CASE /\ stream[c].broken \/ client[c].sent = Len(Messages(c))
             /\ WritesDone(c, "main", "Finish")
    BY <1>1, <2>1, <2>3, WritesDoneKeeps
  <2>4. QED
    BY <1>7, <2>2, <2>3
<1>8. CASE Start(c)
  BY <1>1, <1>8, StartKeeps
<1>9. CASE GetOneFeature(c) \/ yell(c) \/ finishYelling(c) \/ ClientSayHello(c)
             \/ AsyncSayHello(c) \/ ClientSendRequest(c) \/ AsyncSendRequest(c)
  BY <1>3, <1>5, <1>9
  DEF GetOneFeature, yell, finishYelling, ClientSayHello, AsyncSayHello,
      ClientSendRequest, AsyncSendRequest
<1>10. CASE ClientListFeatures(c) \/ ClientYellEchoing(c) \/ recvEchoing(c)
  BY <1>6, <1>10 DEF ClientListFeatures, ClientYellEchoing, recvEchoing
<1>11. CASE ClientRecordRoute(c) \/ yelling(c)
  BY <1>3, <1>5, <1>7, <1>11 DEF ClientRecordRoute, yelling
<1>12. CASE checkStatus(c)
  <2>1. PICK n \in Nat : \E w :
          IsSequence(w) /\ Progress(c, n, w) /\ Incoming(c, n) /\ Outgoing(c, w)
    BY DEF CallInv, Conversed
  <2>2. PICK w : IsSequence(w) /\ Progress(c, n, w) /\ Incoming(c, n) /\ Outgoing(c, w)
    BY <2>1
  <2>3. Messages(c)' = Messages(c) /\ Rpc(c)' = Rpc(c) /\ Expected(c)' = Expected(c)
    BY <1>1, RequestStays
  <2>4. /\ DOMAIN client'[c] = DOMAIN client[c]
        /\ client[c].main = "join" /\ client'[c].main = "returned"
        /\ client'[c].writer = client[c].writer /\ client'[c].sent = client[c].sent
        /\ client'[c].status = client[c].status
        /\ client'[c].presented = client[c].presented
        /\ stream' = stream
    BY <1>2, <1>12 DEF checkStatus, At, Whole, Types
  <2>5. Sent(c)' = Sent(c)
    BY <2>3, <2>4 DEF Sent
  <2>6. Incoming(c, n)' /\ Outgoing(c, w)'
    BY <2>2, <2>3, <2>4, <2>5 DEF Incoming, Outgoing
  <2>7. Types(c)' /\ Waited(c)' /\ ClientStep(c)
    BY <1>1, <1>2, <2>3, <2>4 DEF Types, Waited, ClientStep
  <2>8. QED
    BY <2>2, <2>6, <2>7, ClientKeeps
<1>13. CASE streamYelling(c)
  <2>1. Rpc(c) = "yellingEchoing" /\ client[c].main # "start"
    BY <1>2, <1>13 DEF streamYelling, WriteAll, Waited
  <2>2. Rpc(c) \notin Unary \cup ServerStreaming
    BY <2>1 DEF Unary, ServerStreaming
  <2>3. CASE Write(c)
    BY <1>1, <2>1, <2>2, <2>3, WriteKeeps
  <2>4. CASE client[c].sent = Len(Messages(c)) /\ WritesDone(c, "writer", "done")
    BY <1>1, <2>1, <2>2, <2>4, WritesDoneKeeps
  <2>5. QED
    BY <1>13, <2>3, <2>4 DEF streamYelling, WriteAll
<1>14. ~ClientRouteChat(c) /\ ~ClientRouteChatWriter(c)
  BY DEF ClientRouteChat, ClientRouteChatWriter, At, Rpc, RpcOf
<1>15. QED
  BY <1>8, <1>9, <1>10, <1>11, <1>12, <1>13, <1>14 DEF Client, Writer

(* A connection that breaks takes the messages on their way with it.       *)
LEMMA DisconnectKeeps ==
  ASSUME Whole, NEW c \in Calls, CallInv(c), Disconnect(c)
  PROVE  CallInv(c)'
<1>1. PICK n \in Nat : \E w :
        IsSequence(w) /\ Progress(c, n, w) /\ Incoming(c, n) /\ Outgoing(c, w)
  BY DEF CallInv, Conversed
<1>2. PICK w : IsSequence(w) /\ Progress(c, n, w) /\ Incoming(c, n) /\ Outgoing(c, w)
  BY <1>1
<1>3. Types(c) /\ Waited(c)
  BY DEF CallInv
<1>4. /\ request' = request /\ handler' = handler /\ client' = client
      /\ client[c].status # "OK"
  BY SyncAssumption DEF Disconnect
<1>5. Messages(c)' = Messages(c) /\ Rpc(c)' = Rpc(c) /\ Expected(c)' = Expected(c)
  BY <1>4, RequestStays
<1>6. /\ DOMAIN stream'[c] = DOMAIN stream[c]
      /\ stream'[c].toServer = <<>> /\ stream'[c].toClient = <<>>
      /\ stream'[c].broken
  BY <1>3 DEF Disconnect, Whole, Types
<1>7. Sent(c)' = Sent(c)
  BY <1>4, <1>5 DEF Sent
<1>8. Progress(c, n, w)'
  BY <1>2, <1>4, <1>6, ProgressStays
<1>9. Incoming(c, n)' /\ Outgoing(c, w)'
  BY <1>2, <1>4, <1>5, <1>6, <1>7 DEF Incoming, Outgoing
<1>10. Types(c)' /\ Waited(c)'
  BY <1>3, <1>4, <1>5, <1>6, EmptySequence DEF Types, Waited
<1>11. QED
  BY <1>2, <1>8, <1>9, <1>10 DEF CallInv, Conversed

-----------------------------------------------------------------------------
(* The calls that a step is not about *)

Touches(c) ==
  /\ request' = request
  /\ DOMAIN stream' = Calls /\ DOMAIN handler' = Calls /\ DOMAIN client' = Calls
  /\ \A d \in Calls : d # c => /\ stream'[d] = stream[d]
                               /\ handler'[d] = handler[d]
                               /\ client'[d] = client[d]

LEMMA StepTouches ==
  ASSUME Whole, NEW c \in Calls,
         Handler(c) \/ Client(c) \/ Writer(c) \/ Disconnect(c)
  PROVE  Touches(c)
<1> USE DEF Whole
<1>1. CASE Handler(c)
  <2>1. request' = request /\ client' = client
    BY <1>1 DEF Handler
  <2>2. \A at, locals : Goto(c, at, locals) =>
          /\ DOMAIN handler' = Calls
          /\ \A d \in Calls : d # c => handler'[d] = handler[d]
    BY DEF Goto
  <2>3. \A at, locals : \E h : Goto(c, at, locals) => handler' = h
    OBVIOUS
  <2> DEFINE InStream == /\ DOMAIN stream' = Calls
                         /\ \A d \in Calls : d # c => stream'[d] = stream[d]
             InHandler == /\ DOMAIN handler' = Calls
                          /\ \A d \in Calls : d # c => handler'[d] = handler[d]
  <2>4. stream' = stream => InStream
    OBVIOUS
  <2>5. \A reply : AnswerWith(c, reply) => InStream /\ InHandler
    BY <2>2 DEF AnswerWith, Return
  <2>6. Return(c) => InHandler
    BY <2>2 DEF Return
  <2>7. /\ \A s : stream' = [stream EXCEPT ![c] = s] => InStream
        /\ \A s : stream' = [stream EXCEPT ![c].toServer = s] => InStream
    OBVIOUS
  <2> HIDE DEF InStream, InHandler
  <2>8. CASE GetFeature(c) \/ yellEcho(c) \/ SayHello(c) \/ sendRequest(c)
    <3>1. InStream /\ InHandler
      BY <2>5, <2>8 DEF GetFeature, yellEcho, SayHello, sendRequest
    <3>2. QED
      BY <2>1, <3>1 DEF Touches, InStream, InHandler
  <2>9. CASE ListFeatures(c)
    <3>1. InStream /\ InHandler
      BY <2>2, <2>4, <2>6, <2>7, <2>9 DEF ListFeatures, InHandler
    <3>2. QED
      BY <2>1, <3>1 DEF Touches, InStream, InHandler
  <2>10. CASE RecordRoute(c)
    <3>1. InStream /\ InHandler
      BY <2>2, <2>4, <2>6, <2>7, <2>10 DEF RecordRoute, InHandler
    <3>2. QED
      BY <2>1, <3>1 DEF Touches, InStream, InHandler
  <2>11. CASE yellEchoing(c)
    <3>1. InStream /\ InHandler
      BY <2>2, <2>4, <2>6, <2>7, <2>11 DEF yellEchoing, InHandler
    <3>2. QED
      BY <2>1, <3>1 DEF Touches, InStream, InHandler
  <2>12. CASE yellingEcho(c)
    <3>1. InStream /\ InHandler
      BY <2>2, <2>4, <2>6, <2>7, <2>12 DEF yellingEcho, InHandler
    <3>2. QED
      BY <2>1, <3>1 DEF Touches, InStream, InHandler
  <2>13. CASE yellingEchoing(c)
    <3>1. InStream /\ InHandler
      BY <2>2, <2>4, <2>6, <2>7, <2>13 DEF yellingEchoing, InHandler
    <3>2. QED
      BY <2>1, <3>1 DEF Touches, InStream, InHandler
  <2>14. CASE RouteChat(c)
    <3>1. InStream /\ InHandler
      BY <2>2, <2>4, <2>6, <2>7, <2>14 DEF RouteChat, InHandler
    <3>2. QED
      BY <2>1, <3>1 DEF Touches, InStream, InHandler
  <2>15. QED
    BY <1>1, <2>8, <2>9, <2>10, <2>11, <2>12, <2>13, <2>14 DEF Handler
<1>2. CASE Client(c) \/ Writer(c)
  <2>1. request' = request /\ handler' = handler
    BY <1>2 DEF Client, Writer
  <2> DEFINE InStream == /\ DOMAIN stream' = Calls
                         /\ \A d \in Calls : d # c => stream'[d] = stream[d]
             InClient == /\ DOMAIN client' = Calls
                         /\ \A d \in Calls : d # c => client'[d] = client[d]
  <2>2. stream' = stream => InStream
    OBVIOUS
  <2>3. \A status, presented : Returned(c, status, presented) => InClient
    BY DEF Returned
  <2>4. \A failure : Finish(c, failure) => InStream /\ InClient
    BY <2>2, <2>3 DEF Finish
  <2>5. ReadAnswer(c) \/ Write(c) => InStream /\ InClient
    BY DEF ReadAnswer, Write
  <2>6. \A thread, statement : WritesDone(c, thread, statement) => InStream /\ InClient
    BY DEF WritesDone
  <2>7. Start(c) => InStream /\ InClient
    BY DEF Start
  <2>8. checkStatus(c) => InStream /\ InClient
    BY DEF checkStatus
  <2>9. recvEchoing(c) => InStream /\ InClient
    BY <2>5 DEF recvEchoing
  <2>10. ClientRouteChat(c) => InStream /\ InClient
    BY <2>5 DEF ClientRouteChat
  <2>11. ClientRouteChatWriter(c) \/ streamYelling(c) => InStream /\ InClient
    BY <2>5, <2>6 DEF ClientRouteChatWriter, streamYelling, WriteAll
  <2> HIDE DEF InStream, InClient
  <2>12. InStream /\ InClient
    BY <1>2, <2>2, <2>3, <2>4, <2>5, <2>6, <2>7, <2>8, <2>9, <2>10, <2>11
    DEF Client, Writer, GetOneFeature, ClientListFeatures, ClientRecordRoute, yell,
        ClientYellEchoing, yelling, finishYelling, ClientSayHello,
        AsyncSayHello, ClientSendRequest, AsyncSendRequest
  <2>13. QED
    BY <2>1, <2>12 DEF Touches, InStream, InClient
<1>3. CASE Disconnect(c)
  BY <1>3 DEF Disconnect, Touches
<1>4. QED
  BY <1>1, <1>2, <1>3

LEMMA UntouchedCallKeeps ==
  ASSUME NEW d \in Calls, CallInv(d), request'[d] = request[d],
         stream'[d] = stream[d], handler'[d] = handler[d], client'[d] = client[d]
  PROVE  CallInv(d)'
<1>1. PICK n \in Nat : \E w :
        IsSequence(w) /\ Progress(d, n, w) /\ Incoming(d, n) /\ Outgoing(d, w)
  BY DEF CallInv, Conversed
<1>2. PICK w : IsSequence(w) /\ Progress(d, n, w) /\ Incoming(d, n) /\ Outgoing(d, w)
  BY <1>1
<1>3. Types(d) /\ Waited(d)
  BY DEF CallInv
<1>4. Messages(d)' = Messages(d) /\ Rpc(d)' = Rpc(d) /\ Expected(d)' = Expected(d)
  BY RequestStays
<1>5. Sent(d)' = Sent(d)
  BY <1>4 DEF Sent
<1>6. Incoming(d, n)' /\ Outgoing(d, w)'
  BY <1>2, <1>4, <1>5 DEF Incoming, Outgoing
<1>7. Types(d)' /\ Waited(d)'
  BY <1>3, <1>4 DEF Types, Waited
<1>8. ClientStep(d)
  BY DEF ClientStep
<1>9. QED
  BY <1>2, <1>6, <1>7, <1>8, ClientKeeps

LEMMA UntouchedKeeps ==
  ASSUME NEW d \in Calls, InvOf(d), request'[d] = request[d],
         stream'[d] = stream[d], handler'[d] = handler[d], client'[d] = client[d]
  PROVE  InvOf(d)'
<1>1. Rpc(d)' = Rpc(d)
  BY RequestStays
<1>2. CASE Rpc(d) = "RouteChat"
  BY <1>1, <1>2 DEF InvOf, ChatInv
<1>3. CASE Rpc(d) # "RouteChat"
  BY <1>1, <1>3, UntouchedCallKeeps DEF InvOf
<1>4. QED
  BY <1>2, <1>3

(* The client of a chat.                                                   *)
LEMMA ChatKeeps ==
  ASSUME Whole, NEW c \in Calls, ChatInv(c), Rpc(c) = "RouteChat",
         Handler(c) \/ Client(c) \/ Writer(c) \/ Disconnect(c)
  PROVE  ChatInv(c)'
<1>1. CASE Handler(c) \/ Disconnect(c)
  BY <1>1 DEF Handler, Disconnect, ChatInv
<1>2. ASSUME Start(c) \/ Write(c) \/ WritesDone(c, "writer", "done")
      PROVE  ChatInv(c)'
  <2>1. /\ DOMAIN client'[c] = DOMAIN client[c]
        /\ client'[c].presented = client[c].presented
    BY <1>2 DEF Start, Write, WritesDone, ChatInv, Whole
  <2>2. QED
    BY <2>1 DEF ChatInv
<1>3. CASE Writer(c)
  BY <1>2, <1>3 DEF Writer, ClientRouteChatWriter, streamYelling, WriteAll
<1>4. CASE Client(c)
  <2>1. Start(c) \/ ClientRouteChat(c)
    <3>1. request[c].client \notin {"GetOneFeature", "ListFeatures", "RecordRoute", "yell",
             "yellEchoing", "yelling", "streamYelling", "SayHello", "AsyncSayHello",
             "sendRequest", "AsyncSendRequest"}
      BY DEF Rpc, RpcOf
    <3>2. QED
      BY <1>4, <3>1
      DEF Client, GetOneFeature, ClientListFeatures, ClientRecordRoute, yell,
          ClientYellEchoing, yelling, finishYelling, recvEchoing, checkStatus,
          ClientSayHello, AsyncSayHello, ClientSendRequest, AsyncSendRequest, At
  <2>2. CASE ReadAnswer(c)
    <3>1. /\ DOMAIN client'[c] = DOMAIN client[c]
          /\ client'[c].presented =
               Followed(client[c].presented, Head(stream[c].toClient))
      BY <2>2 DEF ReadAnswer, Followed, ChatInv, Whole
    <3>2. IsSequence(client'[c].presented)
      BY <3>1, Sequences DEF ChatInv
    <3>3. QED
      BY <3>1, <3>2 DEF ChatInv
  <2>3. CASE client' = [client EXCEPT ![c].main = "join", ![c].status = StatusOf(c)]
    <3>1. /\ DOMAIN client'[c] = DOMAIN client[c]
          /\ client'[c].presented = client[c].presented
      BY <2>3 DEF ChatInv, Whole
    <3>2. QED
      BY <3>1 DEF ChatInv
  <2>4. CASE client' = [client EXCEPT ![c].main = "returned"]
    <3>1. /\ DOMAIN client'[c] = DOMAIN client[c]
          /\ client'[c].presented = client[c].presented
      BY <2>4 DEF ChatInv, Whole
    <3>2. QED
      BY <3>1 DEF ChatInv
  <2>5. QED
    BY <1>2, <2>1, <2>2, <2>3, <2>4 DEF ClientRouteChat
<1>5. QED
  BY <1>1, <1>3, <1>4

(* Every step of a call keeps the invariant of all calls.                  *)
LEMMA CallsKeep ==
  ASSUME Whole, \A d \in Calls : InvOf(d), NEW c \in Calls,
         Handler(c) \/ Client(c) \/ Writer(c) \/ Disconnect(c)
  PROVE  Whole' /\ \A d \in Calls : InvOf(d)'
<1>1. Touches(c)
  BY StepTouches
<1>2. Whole'
  BY <1>1 DEF Whole, Touches
<1>3. InvOf(c)'
  <2>1. Rpc(c)' = Rpc(c)
    BY <1>1, RequestStays DEF Touches
  <2>2. CASE Rpc(c) = "RouteChat"
    BY <2>1, <2>2, ChatKeeps DEF InvOf
  <2>3. CASE Rpc(c) # "RouteChat"
    <3>1. CallInv(c)
      BY <2>3 DEF InvOf
    <3>2. CallInv(c)'
      BY <2>3, <3>1, HandlersKeep, ClientsKeep, DisconnectKeeps
    <3>3. QED
      BY <2>1, <2>3, <3>2 DEF InvOf
  <2>4. QED
    BY <2>2, <2>3
<1>4. ASSUME NEW d \in Calls, d # c PROVE InvOf(d)'
  BY <1>1, <1>4, UntouchedKeeps DEF Touches
<1>5. QED
  BY <1>2, <1>3, <1>4

-----------------------------------------------------------------------------
(* What a step counts *)

NothingCounted(c) ==
  /\ count' = count
  /\ request[c].client = "GetOneFeature" =>
       (client'[c].main = "returned" <=> client[c].main = "returned")
  /\ request[c].client \in {"ListFeatures", "RouteChat"} =>
       client'[c].presented = client[c].presented
  /\ request[c].client = "RecordRoute" =>
       (client'[c].status = "OK" <=> client[c].status = "OK")

AnswerCounted(c) ==
  /\ request[c].client = "GetOneFeature"
  /\ client[c].main # "returned" /\ client'[c].main = "returned"
  /\ count' = [count EXCEPT !["getFeature"] = @ + 1]

ShownCounted(c, program, counter) ==
  /\ request[c].client = program
  /\ client[c].main # "returned"
  /\ \E e : client'[c].presented = Followed(client[c].presented, e)
  /\ count' = [count EXCEPT ![counter] = @ + 1]

FeatureCounted(c) == ShownCounted(c, "ListFeatures", "listFeatures")
NoteCounted(c) == ShownCounted(c, "RouteChat", "routeChat")

RouteCounted(c) ==
  /\ request[c].client = "RecordRoute"
  /\ client[c].main # "returned"
  /\ client[c].status # "OK" /\ client'[c].status = "OK"
  /\ count' = [count EXCEPT !["recordRoute"] = @ + 1]

LEMMA CallCounts ==
  ASSUME Whole, NEW c \in Calls, CallInv(c), count \in [Counters -> Nat],
         Rpc(c) # "RouteChat",
         Handler(c) \/ Client(c) \/ Writer(c) \/ Disconnect(c)
  PROVE  NothingCounted(c) \/ AnswerCounted(c) \/ FeatureCounted(c) \/ RouteCounted(c)
<1>1. Types(c) /\ Waited(c)
  BY DEF CallInv
<1>2. ASSUME NEW status, NEW presented, Returned(c, status, presented)
      PROVE  /\ client'[c].main = "returned" /\ client'[c].status = status
             /\ client'[c].presented = presented
  BY <1>1, <1>2 DEF Returned, Whole, Types
<1>3. CASE Handler(c) \/ Disconnect(c)
  BY <1>3 DEF Handler, Disconnect, mainVars, NothingCounted
<1>4. CASE Writer(c)
  <2>1. Rpc(c) = "yellingEchoing" /\ count' = count
    BY <1>1, <1>4 DEF Writer, ClientRouteChatWriter, streamYelling, WriteAll, Waited
  <2>2. request[c].client \notin {"GetOneFeature", "ListFeatures", "RecordRoute",
                                  "RouteChat"}
    BY <2>1 DEF Rpc, RpcOf
  <2>3. QED
    BY <2>1, <2>2 DEF NothingCounted
<1>5. CASE Client(c)
  <2>1. CASE Start(c)
    <3>1. /\ count' = count
          /\ client[c].main = "start" /\ client'[c].main # "returned"
          /\ client'[c].presented = client[c].presented
          /\ client'[c].status = client[c].status
      BY <1>1, <2>1 DEF Start, Whole, Types
    <3>2. QED
      BY <3>1 DEF NothingCounted
  <2>2. CASE GetOneFeature(c)
    <3>1. client'[c].main = "returned"
      BY <1>2, <2>2 DEF GetOneFeature, Finish
    <3>2. QED
      BY <2>2, <3>1 DEF GetOneFeature, At, AnswerCounted
  <2>3. CASE ClientListFeatures(c)
    <3>1. request[c].client = "ListFeatures" /\ client[c].main = "Read"
      BY <2>3 DEF ClientListFeatures, At
    <3>2. CASE ReadAnswer(c) /\ count' = [count EXCEPT !["listFeatures"] = @ + 1]
      <4>1. client'[c].presented =
              Followed(client[c].presented, Head(stream[c].toClient))
        BY <1>1, <3>2 DEF ReadAnswer, Followed, Whole, Types
      <4>2. QED
        BY <3>1, <3>2, <4>1 DEF FeatureCounted, ShownCounted
    <3>3. CASE /\ Returned(c, StatusOf(c), client[c].presented)
               /\ count' = count
      <4>1. client'[c].presented = client[c].presented
        BY <1>2, <3>3
      <4>2. QED
        BY <3>1, <3>3, <4>1 DEF NothingCounted
    <3>4. QED
      BY <2>3, <3>2, <3>3 DEF ClientListFeatures
  <2>4. CASE ClientRecordRoute(c)
    <3>1. request[c].client = "RecordRoute" /\ client[c].main \in {"Write", "Finish"}
      BY <2>4 DEF ClientRecordRoute, At
    <3>2. client[c].status = NULL /\ NULL # "OK" /\ "failed" # "OK"
      BY <1>1, <3>1, SyncAssumption DEF Waited
    <3>3. CASE /\ Write(c) \/ WritesDone(c, "main", "Finish")
               /\ count' = count
      <4>1. client'[c].status = client[c].status
        BY <1>1, <3>3 DEF Write, WritesDone, Whole, Types
      <4>2. QED
        BY <3>1, <3>3, <4>1 DEF NothingCounted
    <3>4. CASE /\ Finish(c, <<>>)
               /\ count' = [count EXCEPT !["recordRoute"] =
                              IF stream[c].broken THEN @ ELSE @ + 1]
      <4>1. CASE stream[c].broken /\ Returned(c, "failed", <<>>)
        <5>1. count' = count
          BY <3>4, <4>1 DEF Counters
        <5>2. client'[c].status = "failed"
          BY <1>2, <4>1
        <5>3. QED
          BY <3>1, <3>2, <5>1, <5>2 DEF NothingCounted
      <4>2. CASE /\ stream[c].toClient # <<>>
                 /\ Returned(c, "OK", <<Head(stream[c].toClient)>>)
        <5>1. PICK n, w : Outgoing(c, w) /\ n = 0
          BY DEF CallInv, Conversed
        <5>2. ~stream[c].broken
          BY <4>2, <5>1 DEF Outgoing
        <5>3. count' = [count EXCEPT !["recordRoute"] = @ + 1]
          BY <3>4, <5>2
        <5>4. client'[c].status = "OK"
          BY <1>2, <4>2
        <5>5. QED
          BY <3>1, <3>2, <5>3, <5>4 DEF RouteCounted
      <4>3. QED
        BY <3>4, <4>1, <4>2 DEF Finish
    <3>5. QED
      BY <2>4, <3>3, <3>4 DEF ClientRecordRoute
  <2>5. request[c].client # "RouteChat"
    BY DEF Rpc, RpcOf
  <2>6. CASE yell(c) \/ ClientYellEchoing(c) \/ yelling(c) \/ finishYelling(c)
               \/ recvEchoing(c) \/ checkStatus(c) \/ ClientSayHello(c)
               \/ AsyncSayHello(c) \/ ClientSendRequest(c) \/ AsyncSendRequest(c)
    BY <2>5, <2>6
    DEF NothingCounted, yell, ClientYellEchoing, yelling, finishYelling, recvEchoing, checkStatus,
        ClientSayHello, AsyncSayHello, ClientSendRequest, AsyncSendRequest, At
  <2>7. ~ClientRouteChat(c)
    BY <2>5 DEF ClientRouteChat, At
  <2>8. QED
    BY <1>5, <2>1, <2>2, <2>3, <2>4, <2>6, <2>7 DEF Client
<1>6. QED
  BY <1>3, <1>4, <1>5

LEMMA ChatCounts ==
  ASSUME Whole, NEW c \in Calls, ChatInv(c), Rpc(c) = "RouteChat",
         Handler(c) \/ Client(c) \/ Writer(c) \/ Disconnect(c)
  PROVE  NothingCounted(c) \/ NoteCounted(c)
<1>1. request[c].client = "RouteChat"
  BY RequestsAreTyped DEF Rpc, RpcOf
<1>2. ASSUME client'[c].presented = client[c].presented, count' = count
      PROVE  NothingCounted(c)
  BY <1>1, <1>2 DEF NothingCounted
<1>3. CASE Handler(c) \/ Disconnect(c)
  BY <1>2, <1>3 DEF Handler, Disconnect, mainVars
<1>4. CASE Writer(c)
  BY <1>2, <1>4
  DEF Writer, ClientRouteChatWriter, streamYelling, WriteAll, Write, WritesDone,
      ChatInv, Whole
<1>5. CASE Client(c)
  <2>1. Start(c) \/ ClientRouteChat(c)
    BY <1>1, <1>5
    DEF Client, GetOneFeature, ClientListFeatures, ClientRecordRoute, yell,
        ClientYellEchoing, yelling, finishYelling, recvEchoing, checkStatus,
        ClientSayHello, AsyncSayHello, ClientSendRequest, AsyncSendRequest, At
  <2>2. CASE Start(c)
    BY <1>2, <2>2 DEF Start, ChatInv, Whole
  <2>3. CASE /\ client[c].main = "Read" /\ ReadAnswer(c)
             /\ count' = [count EXCEPT !["routeChat"] = @ + 1]
    <3>1. client'[c].presented =
            Followed(client[c].presented, Head(stream[c].toClient))
      BY <2>3 DEF ReadAnswer, Followed, ChatInv, Whole
    <3>2. QED
      BY <1>1, <2>3, <3>1 DEF NoteCounted, ShownCounted
  <2>4. CASE /\ client' = [client EXCEPT ![c].main = "join", ![c].status = StatusOf(c)]
             /\ count' = count
    BY <1>2, <2>4 DEF ChatInv, Whole
  <2>5. CASE client' = [client EXCEPT ![c].main = "returned"] /\ count' = count
    BY <1>2, <2>5 DEF ChatInv, Whole
  <2>6. QED
    BY <2>1, <2>2, <2>3, <2>4, <2>5 DEF ClientRouteChat, At
<1>6. QED
  BY <1>3, <1>4, <1>5

LEMMA StepCounts ==
  ASSUME Whole, NEW c \in Calls, InvOf(c), count \in [Counters -> Nat],
         Handler(c) \/ Client(c) \/ Writer(c) \/ Disconnect(c)
  PROVE  \/ NothingCounted(c) \/ AnswerCounted(c) \/ FeatureCounted(c)
         \/ RouteCounted(c) \/ NoteCounted(c)
BY CallCounts, ChatCounts DEF InvOf

(* A client function that has returned does not run again.                 *)
LEMMA ReturnedStays ==
  ASSUME Whole, NEW c \in Calls, InvOf(c), client[c].main = "returned",
         Handler(c) \/ Client(c) \/ Writer(c) \/ Disconnect(c)
  PROVE  client'[c].main = "returned"
<1>1. DOMAIN client[c] = {"main", "writer", "sent", "status", "presented"}
  BY DEF InvOf, ChatInv, CallInv, Types
<1>2. CASE Handler(c) \/ Disconnect(c)
  BY <1>2 DEF Handler, Disconnect
<1>3. CASE Writer(c)
  BY <1>1, <1>3
  DEF Writer, ClientRouteChatWriter, streamYelling, WriteAll, Write, WritesDone, Whole
<1>4. ~Client(c)
  BY DEF Client, Start, GetOneFeature, ClientListFeatures, ClientRecordRoute,
         ClientRouteChat, yell,
         ClientYellEchoing, yelling, finishYelling, recvEchoing, checkStatus,
         ClientSayHello, AsyncSayHello, ClientSendRequest, AsyncSendRequest, At
<1>5. QED
  BY <1>2, <1>3, <1>4

-----------------------------------------------------------------------------
(* The counters *)

LEMMA CountedSetsAreFinite == IsFiniteSet(Answered) /\ IsFiniteSet(RoutesRecorded)
<1>1. IsFiniteSet(Calls)
  BY SyncAssumption
<1>2. Answered \subseteq Calls /\ RoutesRecorded \subseteq Calls
  BY DEF Answered, RoutesRecorded, By
<1>3. QED
  BY <1>1, <1>2, FS_Subset

LEMMA ShownPairs ==
  ASSUME NEW program
  PROVE  /\ \A d, k : <<d, k>> \in Shown(program) <=>
                        d \in By(program) /\ k \in DOMAIN client[d].presented
         /\ \A p \in Shown(program) : p = <<p[1], p[2]>>
BY DEF Shown

(* One answer more that is shown is one more pair.                         *)
LEMMA OneMoreShown ==
  ASSUME NEW program, NEW c \in Calls, request[c].client = program, request' = request,
         \A d \in Calls : d # c => client'[d] = client[d],
         IsSequence(client[c].presented),
         \E e : client'[c].presented = Followed(client[c].presented, e),
         IsFiniteSet(Shown(program))
  PROVE  /\ IsFiniteSet(Shown(program)')
         /\ Cardinality(Shown(program)') = Cardinality(Shown(program)) + 1
<1>1. By(program)' = By(program) /\ By(program) \subseteq Calls /\ c \in By(program)
  BY DEF By
<1>2. PICK shown : shown = client[c].presented
  OBVIOUS
<1>3. PICK e : client'[c].presented = Followed(shown, e)
  BY <1>2
<1>4. PICK S : shown \in Seq(S)
  BY <1>2 DEF IsSequence
<1>5. PICK T : T = S \cup {e}
  OBVIOUS
<1>6. shown \in Seq(T) /\ e \in T
  BY <1>4, <1>5
<1>7. /\ Len(shown) \in Nat /\ DOMAIN shown = 1..Len(shown)
      /\ DOMAIN Followed(shown, e) = 1..(Len(shown) + 1)
  BY <1>6 DEF Followed
<1>8. PICK last : last = Len(shown) + 1
  OBVIOUS
<1>9. last \notin DOMAIN shown
      /\ DOMAIN client'[c].presented = DOMAIN shown \cup {last}
  BY <1>3, <1>7, <1>8
<1>10. <<c, last>> \notin Shown(program)
  BY <1>2, <1>9, ShownPairs
<1>11. Shown(program)' = Shown(program) \cup {<<c, last>>}
  <2>1. Shown(program)' = UNION {{d} \X DOMAIN client'[d].presented : d \in By(program)}
    BY <1>1 DEF Shown
  <2>2. \A d, k : <<d, k>> \in Shown(program)' <=>
                    d \in By(program) /\ k \in DOMAIN client'[d].presented
    BY <2>1
  <2>3. \A p \in Shown(program)' : p = <<p[1], p[2]>>
    BY <2>1
  <2>4. ASSUME NEW d, NEW k
        PROVE  <<d, k>> \in Shown(program)' <=>
                 <<d, k>> \in Shown(program) \/ (d = c /\ k = last)
    <3>1. CASE d = c
      <4>1. <<c, k>> \in Shown(program)' <=> k \in DOMAIN client'[c].presented
        BY <1>1, <2>2
      <4>2. <<c, k>> \in Shown(program) <=> k \in DOMAIN shown
        BY <1>1, <1>2, ShownPairs
      <4>3. QED
        BY <1>9, <3>1, <4>1, <4>2
    <3>2. CASE d \in Calls /\ d # c
      <4>1. client'[d] = client[d]
        BY <3>2
      <4>2. QED
        BY <2>2, <3>2, <4>1, ShownPairs
    <3>3. CASE d \notin Calls
      <4>1. d \notin By(program) /\ d # c
        BY <1>1, <3>3
      <4>2. QED
        BY <2>2, <4>1, ShownPairs
    <3>4. QED
      BY <3>1, <3>2, <3>3
  <2>5. ASSUME NEW p PROVE p \in Shown(program)' <=> p \in Shown(program) \cup {<<c, last>>}
    <3>1. CASE p = <<p[1], p[2]>>
      <4>1. PICK d, k : p = <<d, k>>
        BY <3>1
      <4>2. <<d, k>> \in Shown(program)' <=>
              <<d, k>> \in Shown(program) \/ (d = c /\ k = last)
        BY <2>4
      <4>3. QED
        BY <4>1, <4>2
    <3>2. CASE p # <<p[1], p[2]>>
      <4>1. p \notin Shown(program)' /\ p \notin Shown(program)
        BY <2>3, <3>2, ShownPairs
      <4>2. p # <<c, last>>
        BY <3>2
      <4>3. QED
        BY <4>1, <4>2
    <3>3. QED
      BY <3>1, <3>2
  <2>6. QED
    BY <2>5
<1>12. QED
  BY <1>10, <1>11, FS_AddElement

(* Every answer is counted once.                                           *)
LEMMA CountingKeeps ==
  ASSUME Whole, \A d \in Calls : InvOf(d), Counting, NEW c \in Calls,
         Handler(c) \/ Client(c) \/ Writer(c) \/ Disconnect(c)
  PROVE  Counting'
<1>1. /\ request' = request
      /\ \A d \in Calls : d # c => client'[d] = client[d]
  BY StepTouches DEF Touches
<1>2. \A program : By(program)' = By(program) /\ By(program) \subseteq Calls
  BY <1>1 DEF By
<1>3. c \in By(request[c].client) /\ IsSequence(client[c].presented)
  BY DEF By, InvOf, ChatInv, CallInv, Types
<1>4. PICK features, notes : features = Shown("ListFeatures") /\ notes = Shown("RouteChat")
  OBVIOUS
<1>5. /\ count["getFeature"] = Cardinality(Answered)
      /\ count["listFeatures"] = Cardinality(features)
      /\ count["recordRoute"] = Cardinality(RoutesRecorded)
      /\ count["routeChat"] = Cardinality(notes)
      /\ count \in [Counters -> Nat] /\ IsFiniteSet(features) /\ IsFiniteSet(notes)
  BY <1>4 DEF Counting
<1>6. (request[c].client = "GetOneFeature"
         => (client'[c].main = "returned" <=> client[c].main = "returned"))
        => Answered' = Answered
  BY <1>1, <1>2 DEF Answered, By
<1>7. ASSUME NEW program,
             request[c].client = program => client'[c].presented = client[c].presented
      PROVE  Shown(program)' = Shown(program)
  <2>1. \A d \in By(program) : client'[d].presented = client[d].presented
    BY <1>1, <1>7 DEF By
  <2>2. Shown(program)' = UNION {{d} \X DOMAIN client'[d].presented : d \in By(program)}
    BY <1>2 DEF Shown
  <2>3. QED
    BY <2>1, <2>2 DEF Shown
<1>8. (request[c].client = "RecordRoute"
         => (client'[c].status = "OK" <=> client[c].status = "OK"))
        => RoutesRecorded' = RoutesRecorded
  BY <1>1, <1>2 DEF RoutesRecorded, By
<1>9. CASE NothingCounted(c)
  <2>1. Answered' = Answered /\ RoutesRecorded' = RoutesRecorded
    BY <1>6, <1>8, <1>9 DEF NothingCounted
  <2>2. Shown("ListFeatures")' = features /\ Shown("RouteChat")' = notes
    BY <1>4, <1>7, <1>9 DEF NothingCounted
  <2>3. QED
    BY <1>5, <1>9, <2>1, <2>2 DEF Counting, NothingCounted
<1>10. CASE AnswerCounted(c)
  <2>1. RoutesRecorded' = RoutesRecorded
    BY <1>8, <1>10 DEF AnswerCounted
  <2>2. Shown("ListFeatures")' = features /\ Shown("RouteChat")' = notes
    BY <1>4, <1>7, <1>10 DEF AnswerCounted
  <2>3. Answered' = Answered \cup {c} /\ c \notin Answered
    BY <1>1, <1>2, <1>3, <1>10 DEF AnswerCounted, Answered
  <2>4. Cardinality(Answered') = Cardinality(Answered) + 1
    BY <2>3, CountedSetsAreFinite, FS_AddElement
  <2>5. /\ count'["getFeature"] = count["getFeature"] + 1
        /\ \A k \in Counters \ {"getFeature"} : count'[k] = count[k]
        /\ count' \in [Counters -> Nat]
    BY <1>5, <1>10 DEF AnswerCounted, Counters
  <2>6. QED
    BY <1>5, <2>1, <2>2, <2>4, <2>5 DEF Counting, Counters
<1>11. CASE FeatureCounted(c)
  <2>1. Answered' = Answered /\ RoutesRecorded' = RoutesRecorded
    BY <1>6, <1>8, <1>11 DEF FeatureCounted, ShownCounted
  <2>2. Shown("RouteChat")' = notes
    BY <1>4, <1>7, <1>11 DEF FeatureCounted, ShownCounted
  <2>3. /\ IsFiniteSet(Shown("ListFeatures")')
        /\ Cardinality(Shown("ListFeatures")') = Cardinality(features) + 1
    BY <1>1, <1>3, <1>4, <1>5, <1>11, OneMoreShown DEF FeatureCounted, ShownCounted
  <2>4. /\ count'["listFeatures"] = count["listFeatures"] + 1
        /\ \A k \in Counters \ {"listFeatures"} : count'[k] = count[k]
        /\ count' \in [Counters -> Nat]
    BY <1>5, <1>11 DEF FeatureCounted, ShownCounted, Counters
  <2>5. QED
    BY <1>5, <2>1, <2>2, <2>3, <2>4 DEF Counting, Counters
<1>12. CASE NoteCounted(c)
  <2>1. Answered' = Answered /\ RoutesRecorded' = RoutesRecorded
    BY <1>6, <1>8, <1>12 DEF NoteCounted, ShownCounted
  <2>2. Shown("ListFeatures")' = features
    BY <1>4, <1>7, <1>12 DEF NoteCounted, ShownCounted
  <2>3. /\ IsFiniteSet(Shown("RouteChat")')
        /\ Cardinality(Shown("RouteChat")') = Cardinality(notes) + 1
    BY <1>1, <1>3, <1>4, <1>5, <1>12, OneMoreShown DEF NoteCounted, ShownCounted
  <2>4. /\ count'["routeChat"] = count["routeChat"] + 1
        /\ \A k \in Counters \ {"routeChat"} : count'[k] = count[k]
        /\ count' \in [Counters -> Nat]
    BY <1>5, <1>12 DEF NoteCounted, ShownCounted, Counters
  <2>5. QED
    BY <1>5, <2>1, <2>2, <2>3, <2>4 DEF Counting, Counters
<1>13. CASE RouteCounted(c)
  <2>1. Answered' = Answered
    BY <1>6, <1>13 DEF RouteCounted
  <2>2. Shown("ListFeatures")' = features /\ Shown("RouteChat")' = notes
    BY <1>4, <1>7, <1>13 DEF RouteCounted
  <2>3. RoutesRecorded' = RoutesRecorded \cup {c} /\ c \notin RoutesRecorded
    BY <1>1, <1>2, <1>3, <1>13 DEF RouteCounted, RoutesRecorded
  <2>4. Cardinality(RoutesRecorded') = Cardinality(RoutesRecorded) + 1
    BY <2>3, CountedSetsAreFinite, FS_AddElement
  <2>5. /\ count'["recordRoute"] = count["recordRoute"] + 1
        /\ \A k \in Counters \ {"recordRoute"} : count'[k] = count[k]
        /\ count' \in [Counters -> Nat]
    BY <1>5, <1>13 DEF RouteCounted, Counters
  <2>6. QED
    BY <1>5, <2>1, <2>2, <2>4, <2>5 DEF Counting, Counters
<1>14. QED
  BY <1>5, <1>9, <1>10, <1>11, <1>12, <1>13, StepCounts

(* What has been joined stays so, and what is printed is not counted on.   *)
LEMMA JoiningKeeps ==
  ASSUME Whole, \A d \in Calls : InvOf(d), Counting, Joining, NEW c \in Calls,
         Handler(c) \/ Client(c) \/ Writer(c) \/ Disconnect(c)
  PROVE  Joining'
<1>1. /\ request' = request
      /\ \A d \in Calls : d # c => client'[d] = client[d]
  BY StepTouches DEF Touches
<1>2. main' = main /\ printed' = printed
  BY DEF Handler, Client, Writer, Disconnect, mainVars
<1>3. \A program : AllReturned(program) => AllReturned(program)'
  BY <1>1, ReturnedStays DEF AllReturned
<1>4. ASSUME printed # NULL PROVE count' = count
  <2>1. /\ AllReturned("GetOneFeature") /\ AllReturned("ListFeatures")
        /\ AllReturned("RecordRoute") /\ AllReturned("RouteChat")
    BY <1>4 DEF Joining
  <2>2. /\ ~AnswerCounted(c) /\ ~FeatureCounted(c)
        /\ ~RouteCounted(c) /\ ~NoteCounted(c)
    BY <2>1
    DEF AllReturned, AnswerCounted, FeatureCounted, RouteCounted, NoteCounted, ShownCounted
  <2>3. NothingCounted(c)
    BY <2>2, StepCounts DEF Counting
  <2>4. QED
    BY <2>3 DEF NothingCounted
<1>5. QED
  BY <1>2, <1>3, <1>4 DEF Joining

-----------------------------------------------------------------------------
(* The invariant *)

LEMMA InitIInv ==
  ASSUME Init
  PROVE  IInv
<1>1. Whole
  BY DEF Init, Whole
<1>2. ASSUME NEW c \in Calls, Rpc(c) # "RouteChat" PROVE CallInv(c)
  <2>1. /\ stream[c] = [toServer |-> <<>>, toClient |-> <<>>,
                        halfClosed |-> FALSE, broken |-> FALSE]
        /\ handler[c] = [at |-> "none", locals |-> NULL]
        /\ client[c] = [main |-> "start", writer |-> "none", sent |-> 0,
                        status |-> NULL, presented |-> <<>>]
    BY DEF Init
  <2>2. Types(c)
    BY <2>1, EmptySequence DEF Types
  <2>3. Waited(c)
    <3>1. /\ handler[c].at = "none"
          /\ client[c].writer = "none" /\ client[c].sent = 0
          /\ client[c].presented = <<>>
      BY <2>1
    <3>2. client[c].status = NULL
      BY <2>1
    <3>3. NULL # "OK"
      BY SyncAssumption
    <3>4. QED
      BY <3>1, <3>2, <3>3 DEF Waited
  <2>4. Sent(c) = 0
    BY <2>1 DEF Sent
  <2>5. Len(<<>>) = 0 /\ Joined(<<>>, <<>>) = <<>>
    BY EmptySequence, Sequences
  <2>6. Progress(c, 0, <<>>)
    BY <2>1 DEF Progress
  <2>7. Incoming(c, 0)
    <3>1. Len(Messages(c)) \in Nat
      BY <1>1, RequestsAreTyped
    <3>2. /\ stream[c].toServer = <<>> /\ ~stream[c].broken /\ ~stream[c].halfClosed
      BY <2>1
    <3>3. Len(stream[c].toServer) = 0 /\ Sent(c) - 0 = 0
          /\ \A k \in 1..0 : FALSE
      BY <2>4, <2>5, <3>2
    <3>4. QED
      BY <2>4, <3>1, <3>2, <3>3 DEF Incoming
  <2>8. Outgoing(c, <<>>)
    <3>1. Rpc(c) \notin Unary \cup ClientStreaming => Beginning(<<>>, Expected(c))
      BY <1>1, <1>2, EmptySequence, ExpectedIsSequence, Beginnings
    <3>2. QED
      BY <2>1, <2>5, <3>1 DEF Outgoing
  <2>9. Conversed(c)
    BY <2>6, <2>7, <2>8, EmptySequence DEF Conversed
  <2>10. QED
    BY <2>2, <2>3, <2>9 DEF CallInv
<1>3. Counting
  <2>1. NULL # "OK"
    BY SyncAssumption
  <2>2. \A c \in Calls : /\ client[c].main # "returned" /\ client[c].status # "OK"
                         /\ client[c].presented = <<>>
    BY <2>1 DEF Init
  <2>3. Answered = {} /\ RoutesRecorded = {}
    BY <2>2 DEF Answered, RoutesRecorded, By
  <2>4. \A program : Shown(program) = {}
    <3>1. DOMAIN <<>> = {}
      OBVIOUS
    <3>2. \A program : \A d \in By(program) : DOMAIN client[d].presented = {}
      BY <2>2, <3>1 DEF By
    <3>3. QED
      BY <3>2 DEF Shown
  <2>5. count = [k \in Counters |-> 0]
    BY DEF Init
  <2>6. /\ count \in [Counters -> Nat] /\ count["getFeature"] = 0
        /\ count["listFeatures"] = 0 /\ count["recordRoute"] = 0
        /\ count["routeChat"] = 0
    BY <2>5 DEF Counters
  <2>7. QED
    BY <2>3, <2>4, <2>6, FS_EmptySet DEF Counting
<1>4. Joining
  BY DEF Init, Joining
<1>5. ASSUME NEW c \in Calls, Rpc(c) = "RouteChat" PROVE ChatInv(c)
  <2>1. client[c] = [main |-> "start", writer |-> "none", sent |-> 0,
                     status |-> NULL, presented |-> <<>>]
    BY DEF Init
  <2>2. QED
    BY <2>1, EmptySequence DEF ChatInv
<1>6. \A c \in Calls : InvOf(c)
  BY <1>2, <1>5 DEF InvOf
<1>7. QED
  BY <1>1, <1>3, <1>4, <1>6 DEF IInv

(* Where the calls do not move, the invariant of the calls and of the      *)
(* counters stays.                                                         *)
LEMMA RestKeeps ==
  ASSUME IInv, UNCHANGED <<request, stream, handler, client, count>>
  PROVE  Whole' /\ (\A c \in Calls : InvOf(c)') /\ Counting'
<1>1. Whole'
  BY DEF IInv, Whole
<1>2. \A c \in Calls : InvOf(c)'
  BY UntouchedKeeps DEF IInv
<1>3. Counting'
  <2>1. \A program : By(program)' = By(program)
    BY DEF By
  <2>2. /\ Answered' = Answered /\ RoutesRecorded' = RoutesRecorded
        /\ \A program : Shown(program)' = Shown(program)
    BY <2>1 DEF Answered, Shown, RoutesRecorded
  <2>3. QED
    BY <2>2 DEF IInv, Counting
<1>4. QED
  BY <1>1, <1>2, <1>3

LEMMA NextIInv ==
  ASSUME IInv, [Next]_vars
  PROVE  IInv'
<1>1. ASSUME NEW c \in Calls, Handler(c) \/ Client(c) \/ Writer(c) \/ Disconnect(c)
      PROVE  IInv'
  BY <1>1, CallsKeep, CountingKeeps, JoiningKeeps DEF IInv
<1>2. CASE Main
  <2>1. UNCHANGED <<request, stream, handler, client, count>>
    BY <1>2 DEF Main
  <2>2. Whole' /\ (\A c \in Calls : InvOf(c)') /\ Counting'
    BY <2>1, RestKeeps
  <2>3. \A program : AllReturned(program)' <=> AllReturned(program)
    BY <2>1 DEF AllReturned
  <2>4. MainJoin /\ UNCHANGED printed => Joining'
    BY <2>1, <2>3 DEF MainJoin, IInv, Joining
  <2>5. MainPrint => Joining'
    BY <2>1, <2>3 DEF MainPrint, IInv, Joining
  <2>6. Joining'
    BY <1>2, <2>4, <2>5 DEF Main
  <2>7. QED
    BY <2>2, <2>6 DEF IInv
<1>3. CASE UNCHANGED vars
  <2>1. UNCHANGED <<request, stream, handler, client, count>>
        /\ main' = main /\ printed' = printed
    BY <1>3 DEF vars
  <2>2. Whole' /\ (\A c \in Calls : InvOf(c)') /\ Counting'
    BY <2>1, RestKeeps
  <2>3. \A program : AllReturned(program)' <=> AllReturned(program)
    BY <2>1 DEF AllReturned
  <2>4. Joining'
    BY <2>1, <2>3 DEF IInv, Joining
  <2>5. QED
    BY <2>2, <2>4 DEF IInv
<1>4. QED
  BY <1>1, <1>2, <1>3 DEF Next

-----------------------------------------------------------------------------
(* The inductive invariant: where each handler is in its loop and what of  *)
(* its messages is on the way, what the counters count, and which threads  *)
(* have been joined.                                                       *)
THEOREM SyncServersInvariant == Spec => []IInv
<1>1. Init => IInv
  BY InitIInv
<1>2. IInv /\ [Next]_vars => IInv'
  BY NextIInv
<1>3. QED
  BY <1>1, <1>2, PTL DEF Spec

LEMMA IInvAnswersAreRight ==
  ASSUME IInv
  PROVE  AnswersAreRight
<1> SUFFICES ASSUME NEW c \in Calls, Rpc(c) # "RouteChat"
             PROVE  /\ client[c].status = "OK" /\ ~Overflows(c) =>
                         client[c].presented = Expected(c)
                    /\ Rpc(c) \notin Unary \cup ClientStreaming =>
                         IsPrefix(client[c].presented, Expected(c))
  BY DEF AnswersAreRight
<1>1. Whole /\ CallInv(c)
  BY DEF IInv, InvOf
<1>2. PICK n \in Nat : \E w :
        IsSequence(w) /\ Progress(c, n, w) /\ Incoming(c, n) /\ Outgoing(c, w)
  BY <1>1 DEF CallInv, Conversed
<1>3. PICK w : IsSequence(w) /\ Progress(c, n, w) /\ Incoming(c, n) /\ Outgoing(c, w)
  BY <1>2
<1>4. Types(c) /\ Waited(c)
  BY <1>1 DEF CallInv
<1>5. ASSUME client[c].status = "OK", ~Overflows(c)
      PROVE  client[c].presented = Expected(c)
  <2>1. ~stream[c].broken /\ handler[c].at = "returned" /\ stream[c].toClient = <<>>
    BY <1>4, <1>5 DEF Waited
  <2>2. Answers(c, w)
    BY <1>3, <2>1 DEF Progress, Listed, Summed, Repeated, Gathered, Echoed
  <2>3. w = Expected(c)
    BY <1>5, <2>2 DEF Answers
  <2>4. Joined(client[c].presented, <<>>) = w
    BY <1>3, <2>1 DEF Outgoing
  <2>5. Joined(client[c].presented, <<>>) = client[c].presented
    BY <1>4, EmptySequence, Sequences DEF Types
  <2>6. QED
    BY <2>3, <2>4, <2>5
<1>6. ASSUME Rpc(c) \notin Unary \cup ClientStreaming
      PROVE  IsPrefix(client[c].presented, Expected(c))
  <2>1. Beginning(client[c].presented, Expected(c))
    BY <1>3, <1>6 DEF Outgoing
  <2>2. IsSequence(client[c].presented) /\ IsSequence(Expected(c))
    BY <1>1, <1>4, <1>6, ExpectedIsSequence DEF Types
  <2>3. QED
    BY <2>1, <2>2, Beginnings
<1>7. QED
  BY <1>5, <1>6

(* Whoever gets status OK has been given all that was asked for, in order, *)
(* and what comes in a stream is at any time the beginning of that: of all *)
(* handlers of route_guide_server.cpp but RouteChat and of those of        *)
(* grpcchatServer.cpp, greeter_server.cpp and math_server.cpp, whatever    *)
(* the requests and the database, and whenever a connection breaks.        *)
THEOREM AnswersAreRightAlways == Spec => []AnswersAreRight
<1>1. IInv => AnswersAreRight
  BY IInvAnswersAreRight
<1>2. QED
  BY <1>1, SyncServersInvariant, PTL

LEMMA IInvPrintedCountsAreFinal ==
  ASSUME IInv
  PROVE  PrintedCountsAreFinal
<1> SUFFICES ASSUME printed # NULL
             PROVE  /\ printed["getFeature"] = Cardinality(By("GetOneFeature"))
                    /\ printed["listFeatures"] = Cardinality(Shown("ListFeatures"))
                    /\ printed["recordRoute"] = Cardinality(RoutesRecorded)
                    /\ printed["routeChat"] = Cardinality(Shown("RouteChat"))
  BY DEF PrintedCountsAreFinal, By, Shown, RoutesRecorded
<1>1. printed = count /\ AllReturned("GetOneFeature")
  BY DEF IInv, Joining
<1>2. Answered = By("GetOneFeature")
  BY <1>1 DEF AllReturned, Answered, By
<1>3. QED
  BY <1>1, <1>2 DEF IInv, Counting

(* route_guide_client_async.cpp prints its four counters when all the      *)
(* threads that count have been joined: what it prints is the number of    *)
(* calls of GetFeature, of features that were listed, of routes that were  *)
(* recorded and of notes that came in answer to chats, each counted once,  *)
(* in whatever order the threads run.                                      *)
THEOREM PrintedCountsAreFinalAlways == Spec => []PrintedCountsAreFinal
<1>1. IInv => PrintedCountsAreFinal
  BY IInvPrintedCountsAreFinal
<1>2. QED
  BY <1>1, SyncServersInvariant, PTL
=============================================================================
