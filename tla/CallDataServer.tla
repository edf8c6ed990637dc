--------------------------- MODULE CallDataServer ---------------------------
(***************************************************************************)
(* The servers built from one CallData object per call: greeter_async_     *)
(* server, math_server_async, the greeter_streaming_server_* programs,     *)
(* math_streaming_server_async and chatDemoSimpleServer.  One thread takes *)
(* events from the completion queue; an event carries nothing but ok and   *)
(* the address of a CallData, whose status_ says what to do next.  Which   *)
(* of the programs runs is chosen in Init.                                 *)
(***************************************************************************)
EXTENDS Integers, FiniteSets

CONSTANTS
  Addresses,   \* where a CallData can live on the heap
  Servers      \* the programs considered

\* What they do with a call.  Those named with_alarm and push_to_back differ
\* from streaming in how they wait between two replies; the chat server reads
\* and writes.
UnaryServers      == {"greeter_async", "math_async"}
StreamingServers  == {"greeter_streaming_async", "queue_to_front"}
AlarmServers      == {"greeter_streaming_alarm"}
PushToBackServers == {"queue_to_back", "math_streaming"}
ChatServers       == {"chatDemoSimple"}

\* Those that call Stop for an event that is not ok; the others abort.
StoppingServers == PushToBackServers \cup ChatServers \cup {"queue_to_front"}

AllServers == UnaryServers \cup StreamingServers \cup AlarmServers
                \cup PushToBackServers \cup ChatServers

ASSUME ServersAssumption == Servers \subseteq AllServers

VARIABLES
  server,    \* the program that runs
  data,      \* the CallData at each address
  call,      \* its call: "None", "Open" or "Dead"
  aborted    \* a GPR_ASSERT has failed: the process is gone

vars == <<server, data, call, aborted>>

CallStatus == {"PROCESS", "PUSH_TO_BACK", "FINISH"}
Operation  == {"REQUEST", "READ", "WRITE", "ALARM", "FINISH"}

-----------------------------------------------------------------------------
(* A CallData.  "held" is what gRPC has been asked to do under this tag and *)
(* has not reported; "replies" counts the writes.                           *)

\* The constructor calls Proceed in the CREATE state: a request is queued.
NewCallData == [alive |-> TRUE, status_ |-> "PROCESS", times_ |-> 0,
                held |-> {"REQUEST"}, replies |-> 0]

FreeMemory == [NewCallData EXCEPT !.alive = FALSE, !.held = {}]

Ask(r, op)  == [r EXCEPT !.held = @ \cup {op}]
Write(r)    == [Ask(r, "WRITE") EXCEPT !.replies = @ + 1]
SetAlarm(r) == Ask(r, "ALARM")
Finish(r)   == Ask([r EXCEPT !.status_ = "FINISH"], "FINISH")
OnceMore(r) == [r EXCEPT !.times_ = @ + 1]

\* One reply too few.
MutGreetTwice(r) == IF r.times_ >= 2 THEN Finish(OnceMore(r)) ELSE Write(OnceMore(r))

\* Each pass writes a reply, the fourth finishes.
Greet(r) == IF r.times_ >= 3 THEN Finish(OnceMore(r)) ELSE Write(OnceMore(r))

HasData(r) == r.times_ % 2 = 0

\* Every other pass has data to write; the others come back by an alarm.
GreetWithAlarm(r) ==
  LET n == OnceMore(r)
  IN  CASE r.times_ >= 6                -> Finish(n)
        [] r.times_ < 6 /\ HasData(n)   -> Write(n)
        [] r.times_ < 6 /\ ~HasData(n)  -> SetAlarm(n)

\* The alarm is set without waiting for the write.
MutGreetAndAlarmAtOnce(r) ==
  IF r.times_ >= 3 THEN Finish(OnceMore(r)) ELSE SetAlarm(Write(OnceMore(r)))

\* The write's event is answered with an alarm, whose event is the next pass.
GreetAndPushToBack(r) ==
  IF r.times_ >= 3 THEN Finish(OnceMore(r))
  ELSE [Write(OnceMore(r)) EXCEPT !.status_ = "PUSH_TO_BACK"]

\* A read and a write at once, under the same tag.
Chat(r) ==
  IF r.times_ >= 1 THEN Finish([r EXCEPT !.times_ = 0])
  ELSE [Write(Ask(OnceMore(r), "READ")) EXCEPT !.status_ = "PUSH_TO_BACK"]

\* Proceed in the PROCESS state, the creation of the next CallData aside.
Processed(r) ==
  CASE server \in UnaryServers      -> Finish(r)
    [] server \in StreamingServers  -> Greet(r)
    [] server \in AlarmServers      -> GreetWithAlarm(r)
    [] server \in PushToBackServers -> GreetAndPushToBack(r)
    [] server \in ChatServers       -> Chat(r)

\* In every pass.
MutCreatesSuccessorAlways(r) == TRUE

\* The first pass of a call creates the CallData of the next call.  The chat
\* server does so in every pass.
CreatesSuccessor(r) == r.times_ = 0 \/ server \in ChatServers

\* No alarm.
MutPushToBackNoAlarm(r) == [r EXCEPT !.status_ = "PROCESS"]

\* Proceed in the PUSH_TO_BACK state.
PushToBack(r) == SetAlarm([r EXCEPT !.status_ = "PROCESS"])

Stop(r) == [r EXCEPT !.status_ = "FINISH"]

-----------------------------------------------------------------------------
Init ==
  /\ server \in Servers
  /\ \E first \in Addresses :
       data = [c \in Addresses |-> IF c = first THEN NewCallData ELSE FreeMemory]
  /\ call = [c \in Addresses |-> "None"]
  /\ aborted = FALSE

Free == {c \in Addresses : ~data[c].alive}

\* A call arrived whose CallData has yet to create its successor.
ToBeSucceeded ==
  {c \in Addresses : "REQUEST" \in data[c].held /\ call[c] # "None"}

(* Clients *)

\* A client calls and reads to the end of the replies.  The bound of the
\* model: the heap has room for the successor.
StartCall(c) ==
  /\ ~aborted
  /\ "REQUEST" \in data[c].held
  /\ call[c] = "None"
  /\ Cardinality(Free) > Cardinality(ToBeSucceeded)
  /\ call' = [call EXCEPT ![c] = "Open"]
  /\ UNCHANGED <<server, data, aborted>>

\* The client cancels, exits or loses its connection.
Cancel(c) ==
  /\ call[c] = "Open"
  /\ call' = [call EXCEPT ![c] = "Dead"]
  /\ UNCHANGED <<server, data, aborted>>

-----------------------------------------------------------------------------
(* The loop of HandleRpcs: Next returns an event, and Proceed or Stop       *)
(* handles it.                                                              *)

\* What gRPC may report.  A write or finish that succeeded before its call
\* died is still reported as ok.  A read succeeds, or meets the end of the
\* requests or of the call.
MayComplete(c, op, ok) ==
  CASE op = "REQUEST"            -> call[c] # "None" /\ ok
    [] op = "ALARM"              -> ok
    [] op = "READ"               -> TRUE
    [] op \in {"WRITE", "FINISH"} -> call[c] = "Dead" \/ ok

Event(c, op, ok) ==
  /\ ~aborted
  /\ data[c].alive
  /\ op \in data[c].held
  /\ MayComplete(c, op, ok)

\* The CallData once the event is taken from the queue.
Reported(c, op) == [data[c] EXCEPT !.held = @ \ {op}]

ProceedProcess(c, op) ==
  /\ Event(c, op, TRUE)
  /\ data[c].status_ = "PROCESS"
  /\ LET r == Reported(c, op)
     IN  IF CreatesSuccessor(r)
         THEN \E k \in Free :
                data' = [data EXCEPT ![c] = Processed(r), ![k] = NewCallData]
         ELSE data' = [data EXCEPT ![c] = Processed(r)]
  /\ UNCHANGED <<server, call, aborted>>

ProceedPushToBack(c, op) ==
  /\ Event(c, op, TRUE)
  /\ data[c].status_ = "PUSH_TO_BACK"
  /\ data' = [data EXCEPT ![c] = PushToBack(Reported(c, op))]
  /\ UNCHANGED <<server, call, aborted>>

\* delete this; what gRPC still holds under the tag it goes on holding.  The
\* model does not follow the program beyond an event for deleted memory.
ProceedFinish(c, op) ==
  /\ Event(c, op, TRUE)
  /\ data[c].status_ = "FINISH"
  /\ data' = [data EXCEPT ![c] = [FreeMemory EXCEPT !.held = Reported(c, op).held]]
  /\ call' = [call EXCEPT ![c] = "None"]
  /\ UNCHANGED <<server, aborted>>

StopCall(c, op) ==
  /\ server \in StoppingServers
  /\ Event(c, op, FALSE)
  /\ data' = [data EXCEPT ![c] = Stop(Reported(c, op))]
  /\ UNCHANGED <<server, call, aborted>>

\* GPR_ASSERT(ok)
AssertOk(c, op) ==
  /\ server \notin StoppingServers
  /\ Event(c, op, FALSE)
  /\ aborted' = TRUE
  /\ UNCHANGED <<server, data, call>>

HandleRpcs(c) ==
  \E op \in Operation :
    \/ ProceedProcess(c, op)
    \/ ProceedPushToBack(c, op)
    \/ ProceedFinish(c, op)
    \/ StopCall(c, op)
    \/ AssertOk(c, op)

Next == \E c \in Addresses : StartCall(c) \/ Cancel(c) \/ HandleRpcs(c)

Spec == Init /\ [][Next]_vars

\* gRPC reports every operation, and the loop takes every event.
FairSpec == Spec /\ \A c \in Addresses : WF_vars(HandleRpcs(c))

-----------------------------------------------------------------------------
\* Every variable holds values of its type; no call takes an eighth pass.
TypeOK ==
  /\ server \in Servers
  /\ data \in [Addresses -> [alive : BOOLEAN, status_ : CallStatus,
                             times_ : 0..7, held : SUBSET Operation,
                             replies : Nat]]
  /\ call \in [Addresses -> {"None", "Open", "Dead"}]
  /\ aborted \in BOOLEAN

\* "uniquely identifies a request": what gRPC will report under a tag was
\* asked for by the CallData that is there, none was deleted before.
TagIdentifiesRequest ==
  \A c \in Addresses : data[c].held # {} => data[c].alive

\* One operation at a time is under way for a CallData: with one tag for all
\* of them it could not tell two events apart.
OneOperationPerTag ==
  \A c \in Addresses : \A a, b \in data[c].held : a = b

\* While the server runs one CallData is there for the next call, and no more.
OneAwaitsTheNextCall ==
  \E c \in Addresses : \A d \in Addresses :
    "REQUEST" \in data[d].held <=> d = c

\* A streaming server finishes a call, with status OK, after three replies.
FinishedAfterAllReplies ==
  \A c \in Addresses : "FINISH" \in data[c].held =>
    data[c].replies = (IF server \in UnaryServers THEN 0 ELSE 3)

\* A CallData that no event will ever reach again served a call that died.
OnlyDeadCallsAreLeftBehind ==
  \A c \in Addresses : data[c].alive /\ data[c].held = {} => call[c] = "Dead"

\* Every call ends, by the server or the client, unless the server aborts.
EveryCallEnds ==
  \A c \in Addresses : call[c] = "Open" ~> (call[c] # "Open" \/ aborted)

\* "The instance will deallocate itself as part of its FINISH state."
FinishedIsDeallocated ==
  \A c \in Addresses :
    (data[c].alive /\ data[c].status_ = "FINISH") ~> (~data[c].alive \/ aborted)
=============================================================================
