------------------------- MODULE TagHandoff_proofs -------------------------
(***************************************************************************)
(* For any set of completions: the mutex keeps the two threads apart, tags *)
(* are handed over completely and in order, and so the two threads         *)
(* implement a first-in first-out queue.                                   *)
(***************************************************************************)
EXTENDS TagHandoff, SequenceTheorems, TLAPS

(* The mutex is held by the thread that is inside. *)
MutexHeld ==
  /\ MainInside <=> gIncomingTagsMutex = "main"
  /\ ProcessorInside <=> gIncomingTagsMutex = "processor"

(* What the threads' local variables hold at each statement. *)
Locals ==
  /\ mainAt \in {"Next", "unlock"} => tagInfo = <<>>
  /\ processorAt \in {"lock", "move"} => tags = <<>>
  /\ processorAt = "clear" => tags = gIncomingTags

IInv == TypeOK /\ MutexHeld /\ Locals /\ HandedOverInOrder

-----------------------------------------------------------------------------
(* Sequences *)

(* Taking the first element of the left part of a concatenation. *)
LEMMA HeadTailConcat ==
  ASSUME NEW S, NEW s \in Seq(S), s # <<>>, NEW t \in Seq(S)
  PROVE  /\ s \o t # <<>>
         /\ Head(s \o t) = Head(s)
         /\ Tail(s \o t) = Tail(s) \o t
<1>1. /\ s \o t \in Seq(S)
      /\ Len(s \o t) = Len(s) + Len(t)
      /\ \A i \in 1 .. Len(s) + Len(t) :
           (s \o t)[i] = IF i <= Len(s) THEN s[i] ELSE t[i - Len(s)]
  BY ConcatProperties
<1>2. Len(s) \in Nat \ {0} /\ Len(t) \in Nat
  BY EmptySeq, LenProperties
<1>3. s \o t # <<>>
  BY <1>1, <1>2, EmptySeq
<1>4. Head(s \o t) = Head(s)
  BY <1>1, <1>2 DEF Head
<1>5. /\ Tail(s) \in Seq(S)
      /\ Len(Tail(s)) = Len(s) - 1
      /\ \A i \in 1 .. Len(Tail(s)) : Tail(s)[i] = s[i + 1]
  BY HeadTailProperties
<1>6. /\ Tail(s \o t) \in Seq(S)
      /\ Len(Tail(s \o t)) = Len(s \o t) - 1
      /\ \A i \in 1 .. Len(Tail(s \o t)) : Tail(s \o t)[i] = (s \o t)[i + 1]
  BY <1>1, <1>3, HeadTailProperties
<1>7. /\ Tail(s) \o t \in Seq(S)
      /\ Len(Tail(s) \o t) = Len(Tail(s)) + Len(t)
      /\ \A i \in 1 .. Len(Tail(s)) + Len(t) :
           (Tail(s) \o t)[i] = IF i <= Len(Tail(s)) THEN Tail(s)[i]
                               ELSE t[i - Len(Tail(s))]
  BY <1>5, ConcatProperties
<1>8. Tail(s \o t) = Tail(s) \o t
  <2>1. Len(Tail(s \o t)) = Len(Tail(s) \o t)
    BY <1>1, <1>2, <1>5, <1>6, <1>7
  <2>2. ASSUME NEW i \in 1 .. Len(Tail(s \o t))
        PROVE  Tail(s \o t)[i] = (Tail(s) \o t)[i]
    <3>1. Tail(s \o t)[i] = (s \o t)[i + 1]
      BY <1>6
    <3>2. /\ i + 1 \in 1 .. Len(s) + Len(t)
          /\ i \in 1 .. Len(Tail(s)) + Len(t)
      BY <1>1, <1>2, <1>5, <1>6
    <3>3. CASE i + 1 <= Len(s)
      BY <1>1, <1>2, <1>5, <1>7, <3>1, <3>2, <3>3
    <3>4. CASE ~(i + 1 <= Len(s))
      <4>1. (s \o t)[i + 1] = t[(i + 1) - Len(s)]
        BY <1>1, <3>2, <3>4
      <4>2. (Tail(s) \o t)[i] = t[i - (Len(s) - 1)]
        BY <1>2, <1>5, <1>7, <3>2, <3>4
      <4>3. (i + 1) - Len(s) = i - (Len(s) - 1)
        BY <1>2
      <4>4. QED
        BY <3>1, <4>1, <4>2, <4>3
    <3>5. QED
      BY <3>3, <3>4
  <2>3. QED
    BY <1>6, <1>7, <2>1, <2>2, SeqEqual
<1>9. QED
  BY <1>3, <1>4, <1>8

(* Moving the first element of u to the end of h leaves h \o u as it is. *)
LEMMA MoveFront ==
  ASSUME NEW S, NEW h \in Seq(S), NEW u \in Seq(S), u # <<>>
  PROVE  Append(h, Head(u)) \o Tail(u) = h \o u
<1>1. Head(u) \in S /\ Tail(u) \in Seq(S)
  BY HeadTailProperties
<1>2. u = <<Head(u)>> \o Tail(u)
  <2>1. Len(u) \in Nat \ {0}
    BY EmptySeq
  <2>2. SubSeq(u, 1, Len(u)) = <<u[1]>> \o SubSeq(u, 2, Len(u))
    BY <2>1, SubSeqRecursiveFirst
  <2>3. SubSeq(u, 1, Len(u)) = u /\ Tail(u) = SubSeq(u, 2, Len(u))
    BY SubSeqFull, TailIsSubSeq
  <2>4. Head(u) = u[1]
    BY DEF Head
  <2>5. QED
    BY <2>2, <2>3, <2>4
<1>3. <<Head(u)>> \in Seq(S)
  BY <1>1
<1>4. Append(h, Head(u)) \o Tail(u) = (h \o <<Head(u)>>) \o Tail(u)
  BY <1>1, AppendIsConcat
<1>5. (h \o <<Head(u)>>) \o Tail(u) = h \o (<<Head(u)>> \o Tail(u))
  BY <1>1, <1>3, ConcatAssociative
<1>6. QED
  BY <1>2, <1>4, <1>5

(* Concatenation of lists of tags may be grouped either way. *)
LEMMA Regroup ==
  \A s, t, u \in Seq(Tags) : (s \o t) \o u = s \o (t \o u)
BY ConcatAssociative

-----------------------------------------------------------------------------
(* The inductive invariant *)

LEMMA InitIInv == Init => IInv
<1>1. <<>> \in Seq(Tags)
  BY EmptySeq
<1>2. <<>> \o <<>> = <<>>
  BY <1>1, ConcatEmptySeq
<1>3. QED
  BY <1>1, <1>2
     DEF Init, IInv, TypeOK, MutexHeld, Locals, HandedOverInOrder, Pending,
         MainInside, ProcessorInside, MainStatements, ProcessorStatements

(* Typing and the use of the mutex, step by step. *)
LEMMA StepTypeAndMutex ==
  IInv /\ [Next]_vars => TypeOK' /\ MutexHeld' /\ Locals'
<1> SUFFICES ASSUME IInv, [Next]_vars
             PROVE  TypeOK' /\ MutexHeld' /\ Locals'
  OBVIOUS
<1> USE DEF IInv, TypeOK, MutexHeld, Locals, MainInside, ProcessorInside,
            MainStatements, ProcessorStatements
<1>e. <<>> \in Seq(Tags)
  BY EmptySeq
<1>1. CASE MainNext
  <2> PICK tag \in Tags : /\ tagInfo' = <<tag>>
                          /\ completed' = Append(completed, tag)
    BY <1>1 DEF MainNext
  <2>1. tagInfo' \in Seq(Tags) /\ completed' \in Seq(Tags)
    BY AppendProperties
  <2>2. QED
    BY <1>1, <2>1 DEF MainNext
<1>2. CASE MainLock
  BY <1>2 DEF MainLock, Lock
<1>3. CASE MainPushBack
  <2>1. gIncomingTags' \in Seq(Tags)
    BY <1>3, ConcatProperties DEF MainPushBack
  <2>2. QED
    BY <1>3, <1>e, <2>1 DEF MainPushBack
<1>4. CASE MainUnlock
  BY <1>4 DEF MainUnlock, Unlock
<1>5. CASE ProcessorLock
  BY <1>5 DEF ProcessorLock, Lock
<1>6. CASE ProcessorMove
  BY <1>6 DEF ProcessorMove
<1>7. CASE ProcessorClear
  BY <1>7, <1>e DEF ProcessorClear
<1>8. CASE ProcessorUnlock
  BY <1>8 DEF ProcessorUnlock, Unlock
<1>9. CASE ProcessorHandle
  <2>1. Head(tags) \in Tags /\ Tail(tags) \in Seq(Tags)
    BY <1>9, HeadTailProperties DEF ProcessorHandle
  <2>2. Append(handled, Head(tags)) \in Seq(Tags)
    BY <2>1, AppendProperties
  <2>3. QED
    BY <1>9, <2>1, <2>2 DEF ProcessorHandle
<1>10. CASE ProcessorAgain
  BY <1>10 DEF ProcessorAgain
<1>11. CASE UNCHANGED vars
  BY <1>11 DEF vars
<1>12. QED
  BY <1>1, <1>2, <1>3, <1>4, <1>5, <1>6, <1>7, <1>8, <1>9, <1>10, <1>11
     DEF Next, Main, Processor

(* What each step does to the queue: Next puts the tag it returns at the   *)
(* end, the call of a tag's processor takes the front, and no other step   *)
(* changes it.                                                             *)
LEMMA PendingAfterNext ==
  ASSUME IInv, MainNext
  PROVE  \E tag \in Tags : /\ ~Returned(tag)
                           /\ completed' = Append(completed, tag)
                           /\ Pending' = Append(Pending, tag)
                           /\ Pending \in Seq(Tags)
                           /\ handled' = handled
<1> PICK tag \in Tags : /\ ~Returned(tag)
                        /\ tagInfo' = <<tag>>
                        /\ completed' = Append(completed, tag)
  BY DEF MainNext
<1> DEFINE between == IF processorAt = "clear" THEN <<>> ELSE gIncomingTags
<1>1. between \in Seq(Tags) /\ tags \in Seq(Tags) /\ <<tag>> \in Seq(Tags)
  BY EmptySeq DEF IInv, TypeOK
<1>2. tags \o between \in Seq(Tags)
  BY <1>1, ConcatProperties
<1>3. Pending = tags \o between
  <2>1. tagInfo = <<>>
    BY DEF IInv, Locals, MainNext
  <2>2. (tags \o between) \o <<>> = tags \o between
    BY <1>2, ConcatEmptySeq
  <2>3. QED
    BY <2>1, <2>2 DEF Pending
<1>4. Pending' = (tags \o between) \o <<tag>>
  BY DEF MainNext, Pending
<1>5. Append(tags \o between, tag) = (tags \o between) \o <<tag>>
  BY <1>2, AppendIsConcat
<1>6. QED
  BY <1>2, <1>3, <1>4, <1>5 DEF MainNext

LEMMA PendingAfterHandle ==
  ASSUME IInv, ProcessorHandle
  PROVE  /\ Pending # <<>>
         /\ handled' = Append(handled, Head(Pending))
         /\ Pending' = Tail(Pending)
         /\ handled' \o Pending' = handled \o Pending
         /\ completed' = completed
<1> DEFINE rest == gIncomingTags \o tagInfo
<1>1. /\ tags \in Seq(Tags) /\ gIncomingTags \in Seq(Tags)
      /\ tagInfo \in Seq(Tags) /\ handled \in Seq(Tags) /\ tags # <<>>
  BY DEF IInv, TypeOK, ProcessorHandle
<1>2. rest \in Seq(Tags)
  BY <1>1, ConcatProperties
<1>3. Tail(tags) \in Seq(Tags)
  BY <1>1, HeadTailProperties
<1>4. Pending = tags \o rest
  <2>1. Pending = (tags \o gIncomingTags) \o tagInfo
    BY DEF Pending, ProcessorHandle
  <2>2. (tags \o gIncomingTags) \o tagInfo = tags \o (gIncomingTags \o tagInfo)
    BY <1>1, Regroup
  <2>3. QED
    BY <2>1, <2>2
<1>5. Pending' = Tail(tags) \o rest
  <2>1. Pending' = (Tail(tags) \o gIncomingTags) \o tagInfo
    BY DEF Pending, ProcessorHandle
  <2>2. (Tail(tags) \o gIncomingTags) \o tagInfo
          = Tail(tags) \o (gIncomingTags \o tagInfo)
    BY <1>1, <1>3, Regroup
  <2>3. QED
    BY <2>1, <2>2
<1> HIDE DEF rest
<1>6. /\ tags \o rest # <<>>
      /\ Head(tags \o rest) = Head(tags)
      /\ Tail(tags \o rest) = Tail(tags) \o rest
  BY <1>1, <1>2, HeadTailConcat
<1>7. Append(handled, Head(tags)) \o (Tail(tags) \o rest)
        = handled \o (tags \o rest)
  <2> DEFINE u == tags \o rest
  <2>1. u \in Seq(Tags) /\ u # <<>>
    BY <1>1, <1>2, <1>6, ConcatProperties
  <2> HIDE DEF u
  <2>2. Append(handled, Head(u)) \o Tail(u) = handled \o u
    BY <1>1, <2>1, MoveFront
  <2>3. Head(u) = Head(tags) /\ Tail(u) = Tail(tags) \o rest
    BY <1>6 DEF u
  <2>4. QED
    BY <2>2, <2>3 DEF u
<1>8. handled' = Append(handled, Head(tags)) /\ completed' = completed
  BY DEF ProcessorHandle
<1>9. QED
  BY <1>4, <1>5, <1>6, <1>7, <1>8

LEMMA PendingOtherwise ==
  ASSUME IInv, [Next]_vars, ~MainNext, ~ProcessorHandle
  PROVE  Pending' = Pending /\ handled' = handled /\ completed' = completed
<1> USE DEF Pending
<1>t. /\ tags \in Seq(Tags) /\ gIncomingTags \in Seq(Tags)
      /\ tagInfo \in Seq(Tags) /\ <<>> \in Seq(Tags)
  BY EmptySeq DEF IInv, TypeOK
<1>1. CASE MainLock
  BY <1>1 DEF MainLock
<1>2. CASE MainPushBack
  <2>1. processorAt # "clear"
    BY <1>2 DEF MainPushBack, IInv, MutexHeld, MainInside, ProcessorInside
  <2>2. (tags \o gIncomingTags) \o tagInfo = tags \o (gIncomingTags \o tagInfo)
    BY <1>t, Regroup
  <2>3. gIncomingTags \o tagInfo \in Seq(Tags)
    BY <1>t, ConcatProperties
  <2>4. tags \o (gIncomingTags \o tagInfo) \in Seq(Tags)
    BY <1>t, <2>3, ConcatProperties
  <2>5. (tags \o (gIncomingTags \o tagInfo)) \o <<>>
          = tags \o (gIncomingTags \o tagInfo)
    BY <2>4, ConcatEmptySeq
  <2>6. QED
    BY <1>2, <2>1, <2>2, <2>5 DEF MainPushBack
<1>3. CASE MainUnlock
  BY <1>3 DEF MainUnlock
<1>4. CASE ProcessorLock
  BY <1>4 DEF ProcessorLock
<1>5. CASE ProcessorMove
  <2>1. tags = <<>>
    BY <1>5 DEF ProcessorMove, IInv, Locals
  <2>2. <<>> \o gIncomingTags = gIncomingTags /\ gIncomingTags \o <<>> = gIncomingTags
    BY <1>t, ConcatEmptySeq
  <2>3. QED
    BY <1>5, <2>1, <2>2 DEF ProcessorMove
<1>6. CASE ProcessorClear
  BY <1>6 DEF ProcessorClear
<1>7. CASE ProcessorUnlock
  BY <1>7 DEF ProcessorUnlock
<1>8. CASE ProcessorAgain
  BY <1>8 DEF ProcessorAgain
<1>9. CASE UNCHANGED vars
  BY <1>9 DEF vars
<1>10. QED
  BY <1>1, <1>2, <1>3, <1>4, <1>5, <1>6, <1>7, <1>8, <1>9
     DEF Next, Main, Processor

LEMMA StepInOrder == IInv /\ [Next]_vars => HandedOverInOrder'
<1> SUFFICES ASSUME IInv, [Next]_vars PROVE HandedOverInOrder'
  OBVIOUS
<1>1. CASE MainNext
  <2> PICK tag \in Tags : /\ completed' = Append(completed, tag)
                          /\ Pending' = Append(Pending, tag)
                          /\ Pending \in Seq(Tags)
                          /\ handled' = handled
    BY <1>1, PendingAfterNext
  <2>1. handled \in Seq(Tags) /\ <<tag>> \in Seq(Tags)
    BY DEF IInv, TypeOK
  <2>2. handled \o Pending \in Seq(Tags)
    BY <2>1, ConcatProperties
  <2>3. Append(handled \o Pending, tag) = (handled \o Pending) \o <<tag>>
    BY <2>2, AppendIsConcat
  <2>4. handled \o Append(Pending, tag) = handled \o (Pending \o <<tag>>)
    BY AppendIsConcat
  <2>5. (handled \o Pending) \o <<tag>> = handled \o (Pending \o <<tag>>)
    BY <2>1, Regroup
  <2>6. completed = handled \o Pending
    BY DEF IInv, HandedOverInOrder
  <2>7. QED
    BY <2>3, <2>4, <2>5, <2>6 DEF HandedOverInOrder
<1>2. CASE ProcessorHandle
  <2>1. handled' \o Pending' = handled \o Pending /\ completed' = completed
    BY <1>2, PendingAfterHandle
  <2>2. QED
    BY <2>1 DEF IInv, HandedOverInOrder
<1>3. CASE ~MainNext /\ ~ProcessorHandle
  <2>1. Pending' = Pending /\ handled' = handled /\ completed' = completed
    BY <1>3, PendingOtherwise
  <2>2. QED
    BY <2>1 DEF IInv, HandedOverInOrder
<1>4. QED
  BY <1>1, <1>2, <1>3

(* The mutex fits the statements of the two threads, and the lists are     *)
(* linked as these statements say.                                         *)
THEOREM Invariant == Spec => []IInv
<1>1. Init => IInv
  BY InitIInv
<1>2. IInv /\ [Next]_vars => IInv'
  BY StepTypeAndMutex, StepInOrder DEF IInv
<1>3. QED
  BY <1>1, <1>2, PTL DEF Spec

-----------------------------------------------------------------------------
(* What follows from it *)

(* Every variable keeps its type, whatever the set of completions. *)
THEOREM TypeCorrect == Spec => []TypeOK
<1>1. IInv => TypeOK
  BY DEF IInv
<1>2. QED
  BY <1>1, Invariant, PTL

(* gIncomingTags is never accessed by both threads at once: HandleRpcs and *)
(* processRpcs are never both between their lock() and unlock().           *)
THEOREM ThreadsExcludeEachOther == Spec => []MutualExclusion
<1>1. IInv => MutualExclusion
  BY DEF IInv, MutexHeld, MutualExclusion
<1>2. QED
  BY <1>1, Invariant, PTL

(* No tag is lost, duplicated or overtaken between Next and its processor. *)
THEOREM NothingLostOrReordered == Spec => []HandedOverInOrder
<1>1. IInv => HandedOverInOrder
  BY DEF IInv
<1>2. QED
  BY <1>1, Invariant, PTL

(* The two threads with their mutex, list swap and local lists implement a *)
(* first-in first-out queue.                                               *)
THEOREM Implementation == Spec => ImplementsQueue
<1>1. Init => Queue!Init
  <2>1. <<>> \o <<>> = <<>>
    BY EmptySeq, ConcatEmptySeq
  <2>2. QED
    BY <2>1 DEF Init, Queue!Init, Pending
<1>2. IInv /\ [Next]_vars => [Queue!Next]_<<completed, Pending, handled>>
  <2> SUFFICES ASSUME IInv, [Next]_vars
               PROVE  [Queue!Next]_<<completed, Pending, handled>>
    OBVIOUS
  <2>1. CASE MainNext
    <3>1. \E tag \in Tags : Queue!Put(tag)
      BY <2>1, PendingAfterNext DEF Queue!Put, Returned
    <3>2. QED
      BY <3>1 DEF Queue!Next
  <2>2. CASE ProcessorHandle
    <3>1. Queue!Get
      BY <2>2, PendingAfterHandle DEF Queue!Get
    <3>2. QED
      BY <3>1 DEF Queue!Next
  <2>3. CASE ~MainNext /\ ~ProcessorHandle
    BY <2>3, PendingOtherwise
  <2>4. QED
    BY <2>1, <2>2, <2>3
<1>3. QED
  BY <1>1, <1>2, Invariant, PTL DEF Spec, ImplementsQueue, Queue!Spec
=============================================================================
