----------------------------- MODULE TagHandoff -----------------------------
(***************************************************************************)
(* How the main thread hands tags to the processor thread: gIncomingTags   *)
(* under gIncomingTagsMutex, statement by statement (route_guide_server_   *)
(* async.cpp, HandleRpcs and processRpcs; the same in chatDemoServer.cpp   *)
(* and dummyServer.cpp).  A tag is one completion, so Next returns each    *)
(* tag once.                                                               *)
(***************************************************************************)
EXTENDS Naturals, Sequences

CONSTANT Tags      \* the completions of the server's life

VARIABLES
  completed,            \* what Next has returned, in order
  tagInfo,              \* the main thread's local variable, <<>> or one tag
  gIncomingTags,
  gIncomingTagsMutex,   \* the thread that holds it, or "free"
  tags,                 \* the processor thread's local list
  handled,              \* the tags whose processor has been called, in order
  mainAt,               \* the statement each thread is about to execute
  processorAt

vars == <<completed, tagInfo, gIncomingTags, gIncomingTagsMutex, tags, handled,
          mainAt, processorAt>>

Init ==
  /\ completed = <<>>
  /\ tagInfo = <<>>
  /\ gIncomingTags = <<>>
  /\ gIncomingTagsMutex = "free"
  /\ tags = <<>>
  /\ handled = <<>>
  /\ mainAt = "Next"
  /\ processorAt = "lock"

Returned(tag) == \E i \in DOMAIN completed : completed[i] = tag

-----------------------------------------------------------------------------
(* The mutex *)

\* Whoever asks for the mutex enters.
MutLockBarges(thread) == gIncomingTagsMutex' = thread

Lock(thread) ==
  /\ gIncomingTagsMutex = "free"
  /\ gIncomingTagsMutex' = thread

Unlock == gIncomingTagsMutex' = "free"

-----------------------------------------------------------------------------
(* HandleRpcs' loop, on the main thread *)

MainNext ==
  /\ mainAt = "Next"
  /\ \E tag \in Tags :
       /\ ~Returned(tag)
       /\ tagInfo' = <<tag>>
       /\ completed' = Append(completed, tag)
  /\ mainAt' = "lock"
  /\ UNCHANGED <<gIncomingTags, gIncomingTagsMutex, tags, handled, processorAt>>

MainLock ==
  /\ mainAt = "lock"
  /\ Lock("main")
  /\ mainAt' = "push_back"
  /\ UNCHANGED <<completed, tagInfo, gIncomingTags, tags, handled, processorAt>>

MainPushBack ==
  /\ mainAt = "push_back"
  /\ gIncomingTags' = gIncomingTags \o tagInfo
  /\ tagInfo' = <<>>
  /\ mainAt' = "unlock"
  /\ UNCHANGED <<completed, gIncomingTagsMutex, tags, handled, processorAt>>

MainUnlock ==
  /\ mainAt = "unlock"
  /\ Unlock
  /\ mainAt' = "Next"
  /\ UNCHANGED <<completed, tagInfo, gIncomingTags, tags, handled, processorAt>>

-----------------------------------------------------------------------------
(* processRpcs' loop, on the processor thread *)

ProcessorLock ==
  /\ processorAt = "lock"
  /\ Lock("processor")
  /\ processorAt' = "move"
  /\ UNCHANGED <<completed, tagInfo, gIncomingTags, tags, handled, mainAt>>

\* TagList tags = std::move(gIncomingTags): first the nodes are taken over,
\* then the source list is made empty.
ProcessorMove ==
  /\ processorAt = "move"
  /\ tags' = gIncomingTags
  /\ processorAt' = "clear"
  /\ UNCHANGED <<completed, tagInfo, gIncomingTags, gIncomingTagsMutex, handled,
                 mainAt>>

ProcessorClear ==
  /\ processorAt = "clear"
  /\ gIncomingTags' = <<>>
  /\ processorAt' = "unlock"
  /\ UNCHANGED <<completed, tagInfo, gIncomingTagsMutex, tags, handled, mainAt>>

ProcessorUnlock ==
  /\ processorAt = "unlock"
  /\ Unlock
  /\ processorAt' = "while"
  /\ UNCHANGED <<completed, tagInfo, gIncomingTags, tags, handled, mainAt>>

\* The batch is handled from its back.
MutProcessorHandleBack ==
  /\ processorAt = "while"
  /\ tags # <<>>
  /\ handled' = Append(handled, tags[Len(tags)])
  /\ tags' = SubSeq(tags, 1, Len(tags) - 1)
  /\ UNCHANGED <<completed, tagInfo, gIncomingTags, gIncomingTagsMutex, mainAt,
                 processorAt>>

\* tags.front(), tags.pop_front() and the call of the tag's processor.
ProcessorHandle ==
  /\ processorAt = "while"
  /\ tags # <<>>
  /\ handled' = Append(handled, Head(tags))
  /\ tags' = Tail(tags)
  /\ UNCHANGED <<completed, tagInfo, gIncomingTags, gIncomingTagsMutex, mainAt,
                 processorAt>>

\* One batch only: the thread never goes back for the next one.
MutProcessorAgainSpins ==
  /\ processorAt = "while"
  /\ tags = <<>>
  /\ UNCHANGED vars

ProcessorAgain ==
  /\ processorAt = "while"
  /\ tags = <<>>
  /\ processorAt' = "lock"
  /\ UNCHANGED <<completed, tagInfo, gIncomingTags, gIncomingTagsMutex, tags,
                 handled, mainAt>>

-----------------------------------------------------------------------------
Main == MainNext \/ MainLock \/ MainPushBack \/ MainUnlock

Processor ==
  \/ ProcessorLock \/ ProcessorMove \/ ProcessorClear \/ ProcessorUnlock
  \/ ProcessorHandle \/ ProcessorAgain

Next == Main \/ Processor

Spec == Init /\ [][Next]_vars

\* Both threads run on; a thread asking for the mutex again and again does
\* get it (the sleeps between two rounds of processRpcs are there for that).
\* Nothing says that another completion arrives.
Fairness ==
  /\ SF_vars(MainLock) /\ WF_vars(MainPushBack) /\ WF_vars(MainUnlock)
  /\ SF_vars(ProcessorLock) /\ WF_vars(ProcessorMove) /\ WF_vars(ProcessorClear)
  /\ WF_vars(ProcessorUnlock) /\ WF_vars(ProcessorHandle)
  /\ WF_vars(ProcessorAgain)

FairSpec == Spec /\ Fairness

-----------------------------------------------------------------------------
(* Properties *)

MainStatements      == {"Next", "lock", "push_back", "unlock"}
ProcessorStatements == {"lock", "move", "clear", "unlock", "while"}

\* Every variable holds values of its type.
TypeOK ==
  /\ completed \in Seq(Tags)
  /\ tagInfo \in Seq(Tags)
  /\ gIncomingTags \in Seq(Tags)
  /\ gIncomingTagsMutex \in {"free", "main", "processor"}
  /\ tags \in Seq(Tags)
  /\ handled \in Seq(Tags)
  /\ mainAt \in MainStatements
  /\ processorAt \in ProcessorStatements

MainInside      == mainAt \in {"push_back", "unlock"}
ProcessorInside == processorAt \in {"move", "clear", "unlock"}

\* The two threads are never both between lock and unlock: gIncomingTags is
\* not accessed by both at once.
MutualExclusion == ~(MainInside /\ ProcessorInside)

\* The tags between the two threads.  While "clear" is still to be executed
\* gIncomingTags repeats what tags has taken over.
Pending ==
  tags \o (IF processorAt = "clear" THEN <<>> ELSE gIncomingTags) \o tagInfo

\* No tag is lost, duplicated or overtaken on the way: what has been handled
\* and what is under way is what Next returned, in that order.
HandedOverInOrder == completed = handled \o Pending

\* The queue the two threads implement.
Queue == INSTANCE TagQueue WITH queue <- Pending

ImplementsQueue == Queue!Spec

\* Every tag Next returned is handled one day.
EveryTagHandled ==
  \A tag \in Tags :
    Returned(tag) ~> \E i \in DOMAIN handled : handled[i] = tag
=============================================================================
