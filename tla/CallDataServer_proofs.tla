----------------------- MODULE CallDataServer_proofs -----------------------
(***************************************************************************)
(* For any heap, and any of the CallData servers but the chat server, which*)
(* breaks the first of these: a tag names a living CallData with one       *)
(* operation under way, one CallData awaits the next call, calls are       *)
(* finished after all their replies, and what is left behind served a call *)
(* that died.                                                              *)
(***************************************************************************)
EXTENDS CallDataServer, TLAPS

NoChatServer == Servers \cap ChatServers = {}

CallData == [alive : BOOLEAN, status_ : CallStatus, times_ : 0..7,
             held : SUBSET Operation, replies : Nat]

(* Between two replies: times_ tells how many were written. *)
Underway(r, s) ==
  /\ s \notin UnaryServers
  /\ r.times_ >= 1
  /\ s \in AlarmServers => /\ r.times_ <= 6
                           /\ 2 * r.replies = r.times_ - (r.times_ % 2)
  /\ s \notin AlarmServers => r.times_ <= 3 /\ r.replies = r.times_

Fresh(r) == r.times_ = 0 /\ r.replies = 0

AllReplies(s) == IF s \in UnaryServers THEN 0 ELSE 3

(* What status_ and times_ tell about the operation under way, for a       *)
(* CallData of server s whose call is k.                                   *)
Fits(r, s, k) ==
  /\ \A a, b \in r.held : a = b
  /\ r.held # {} => r.alive
  /\ r.alive /\ r.held = {} => k = "Dead"
  /\ "READ" \notin r.held
  /\ "REQUEST" \in r.held => r.status_ = "PROCESS" /\ Fresh(r)
  /\ "FINISH" \in r.held => r.status_ = "FINISH" /\ r.replies = AllReplies(s)
  /\ r.status_ = "FINISH" /\ r.held # {} => "FINISH" \in r.held
  /\ r.held \cap {"WRITE", "ALARM"} # {} => Underway(r, s)

IInv ==
  /\ TypeOK
  /\ \A c \in Addresses : Fits(data[c], server, call[c])
  /\ OneAwaitsTheNextCall

-----------------------------------------------------------------------------
(* The handlers, as functions on one CallData *)

(* A CallData that awaits a write or an alarm, or its finish, fits. *)
LEMMA WaitingFits ==
  ASSUME NEW q, NEW s, NEW k, NEW op \in {"WRITE", "ALARM"},
         q.alive, q.held = {op}, q.status_ # "FINISH", Underway(q, s)
  PROVE  Fits(q, s, k) /\ "REQUEST" \notin q.held
BY DEF Fits

LEMMA FinishFits ==
  ASSUME NEW r \in CallData, NEW s, NEW k, r.alive, r.held = {},
         r.replies = AllReplies(s)
  PROVE  /\ Finish(r) \in CallData
         /\ Fits(Finish(r), s, k)
         /\ "REQUEST" \notin Finish(r).held
BY DEF CallData, Operation, CallStatus, Finish, Ask, Fits

(* What the steps of a pass do to each field. *)
LEMMA OnceMoreFields ==
  ASSUME NEW r \in CallData, r.times_ <= 6
  PROVE  /\ OnceMore(r) \in CallData
         /\ OnceMore(r).times_ = r.times_ + 1
         /\ OnceMore(r).alive = r.alive /\ OnceMore(r).held = r.held
         /\ OnceMore(r).status_ = r.status_ /\ OnceMore(r).replies = r.replies
BY DEF CallData, OnceMore

LEMMA WriteFields ==
  ASSUME NEW r \in CallData, r.held = {}
  PROVE  /\ Write(r) \in CallData
         /\ Write(r).held = {"WRITE"} /\ Write(r).replies = r.replies + 1
         /\ Write(r).alive = r.alive /\ Write(r).times_ = r.times_
         /\ Write(r).status_ = r.status_
<1> DEFINE a == Ask(r, "WRITE")
<1>1. /\ a \in CallData /\ a.held = {"WRITE"} /\ a.replies = r.replies
      /\ a.alive = r.alive /\ a.times_ = r.times_ /\ a.status_ = r.status_
  BY DEF CallData, Operation, Ask
<1>2. Write(r) = [a EXCEPT !.replies = a.replies + 1]
  BY DEF Write
<1> HIDE DEF a
<1>3. QED
  BY <1>1, <1>2 DEF CallData

LEMMA SetAlarmFields ==
  ASSUME NEW r \in CallData, r.held = {}
  PROVE  /\ SetAlarm(r) \in CallData
         /\ SetAlarm(r).held = {"ALARM"} /\ SetAlarm(r).replies = r.replies
         /\ SetAlarm(r).alive = r.alive /\ SetAlarm(r).times_ = r.times_
         /\ SetAlarm(r).status_ = r.status_
BY DEF CallData, Operation, SetAlarm, Ask

LEMMA GreetFits ==
  ASSUME NEW r \in CallData, NEW s, NEW k, r.alive, r.held = {},
         s \in StreamingServers, r.status_ = "PROCESS",
         Fresh(r) \/ Underway(r, s)
  PROVE  /\ Greet(r) \in CallData
         /\ Fits(Greet(r), s, k)
         /\ "REQUEST" \notin Greet(r).held
<1>1. s \notin AlarmServers /\ s \notin UnaryServers
  BY DEF StreamingServers, AlarmServers, UnaryServers
<1>2. r.times_ \in 0..3 /\ r.replies = r.times_
  BY <1>1 DEF CallData, Fresh, Underway
<1> DEFINE n == OnceMore(r)
<1>3. /\ n \in CallData /\ n.times_ = r.times_ + 1 /\ n.alive
      /\ n.held = {} /\ n.status_ = "PROCESS" /\ n.replies = r.replies
  BY <1>2, OnceMoreFields
<1>4. CASE r.times_ >= 3
  <2>1. Greet(r) = Finish(n)
    BY <1>4 DEF Greet
  <2>2. n.replies = AllReplies(s)
    BY <1>1, <1>2, <1>3, <1>4 DEF AllReplies
  <2>3. QED
    BY <1>3, <2>1, <2>2, FinishFits
<1>5. CASE ~(r.times_ >= 3)
  <2>1. Greet(r) = Write(n)
    BY <1>5 DEF Greet
  <2>2. Underway(Write(n), s)
    BY <1>1, <1>2, <1>3, <1>5, WriteFields DEF Underway
  <2>3. QED
    BY <1>3, <2>1, <2>2, WriteFields, WaitingFits
<1>6. QED
  BY <1>4, <1>5

LEMMA GreetWithAlarmFits ==
  ASSUME NEW r \in CallData, NEW s, NEW k, r.alive, r.held = {},
         s \in AlarmServers, r.status_ = "PROCESS",
         Fresh(r) \/ Underway(r, s)
  PROVE  /\ GreetWithAlarm(r) \in CallData
         /\ Fits(GreetWithAlarm(r), s, k)
         /\ "REQUEST" \notin GreetWithAlarm(r).held
<1>1. s \notin UnaryServers
  BY DEF AlarmServers, UnaryServers
<1>2. /\ r.times_ \in 0..6 /\ r.replies \in Nat
      /\ 2 * r.replies = r.times_ - (r.times_ % 2)
  BY <1>1 DEF CallData, Fresh, Underway
<1> DEFINE n == OnceMore(r)
<1>3. /\ n \in CallData /\ n.times_ = r.times_ + 1 /\ n.alive
      /\ n.held = {} /\ n.status_ = "PROCESS" /\ n.replies = r.replies
  BY <1>2, OnceMoreFields
<1>4. CASE r.times_ >= 6
  <2>1. GreetWithAlarm(r) = Finish(n)
    BY <1>2, <1>4 DEF GreetWithAlarm
  <2>2. n.replies = AllReplies(s)
    BY <1>1, <1>2, <1>3, <1>4 DEF AllReplies
  <2>3. QED
    BY <1>3, <2>1, <2>2, FinishFits
<1>5. CASE r.times_ < 6 /\ HasData(n)
  <2>1. GreetWithAlarm(r) = Write(n)
    BY <1>2, <1>5 DEF GreetWithAlarm
  <2>2. (r.times_ + 1) % 2 = 0
    BY <1>3, <1>5 DEF HasData
  <2>3. 2 * (r.replies + 1) = (r.times_ + 1) - ((r.times_ + 1) % 2)
    BY <1>2, <2>2
  <2>4. Underway(Write(n), s)
    <3>1. /\ Write(n).times_ = r.times_ + 1
          /\ Write(n).replies = r.replies + 1
      BY <1>3, WriteFields
    <3>2. r.times_ + 1 >= 1 /\ r.times_ + 1 <= 6
      BY <1>2, <1>5
    <3>3. QED
      BY <1>1, <2>3, <3>1, <3>2 DEF Underway
  <2>5. QED
    BY <1>3, <2>1, <2>4, WriteFields, WaitingFits
<1>6. CASE r.times_ < 6 /\ ~HasData(n)
  <2>1. GreetWithAlarm(r) = SetAlarm(n)
    BY <1>2, <1>6 DEF GreetWithAlarm
  <2>2. (r.times_ + 1) % 2 # 0
    BY <1>3, <1>6 DEF HasData
  <2>3. 2 * r.replies = (r.times_ + 1) - ((r.times_ + 1) % 2)
    BY <1>2, <2>2
  <2>4. Underway(SetAlarm(n), s)
    BY <1>1, <1>2, <1>3, <1>6, <2>3, SetAlarmFields DEF Underway
  <2>5. QED
    BY <1>3, <2>1, <2>4, SetAlarmFields, WaitingFits
<1>7. QED
  BY <1>2, <1>4, <1>5, <1>6

LEMMA GreetAndPushToBackFits ==
  ASSUME NEW r \in CallData, NEW s, NEW k, r.alive, r.held = {},
         s \in PushToBackServers, r.status_ = "PROCESS",
         Fresh(r) \/ Underway(r, s)
  PROVE  /\ GreetAndPushToBack(r) \in CallData
         /\ Fits(GreetAndPushToBack(r), s, k)
         /\ "REQUEST" \notin GreetAndPushToBack(r).held
<1>1. s \notin AlarmServers /\ s \notin UnaryServers
  BY DEF PushToBackServers, AlarmServers, UnaryServers
<1>2. r.times_ \in 0..3 /\ r.replies = r.times_
  BY <1>1 DEF CallData, Fresh, Underway
<1> DEFINE n == OnceMore(r)
           w == [Write(n) EXCEPT !.status_ = "PUSH_TO_BACK"]
<1>3. /\ n \in CallData /\ n.times_ = r.times_ + 1 /\ n.alive
      /\ n.held = {} /\ n.status_ = "PROCESS" /\ n.replies = r.replies
  BY <1>2, OnceMoreFields
<1>4. CASE r.times_ >= 3
  <2>1. GreetAndPushToBack(r) = Finish(n)
    BY <1>4 DEF GreetAndPushToBack
  <2>2. n.replies = AllReplies(s)
    BY <1>1, <1>2, <1>3, <1>4 DEF AllReplies
  <2>3. QED
    BY <1>3, <2>1, <2>2, FinishFits
<1>5. CASE ~(r.times_ >= 3)
  <2>1. GreetAndPushToBack(r) = w
    BY <1>5 DEF GreetAndPushToBack
  <2>2. /\ Write(n) \in CallData /\ Write(n).held = {"WRITE"} /\ Write(n).alive
        /\ Write(n).times_ = r.times_ + 1 /\ Write(n).replies = r.replies + 1
    BY <1>3, WriteFields
  <2>3. /\ w \in CallData /\ w.held = {"WRITE"} /\ w.alive
        /\ w.times_ = r.times_ + 1 /\ w.replies = r.replies + 1
        /\ w.status_ # "FINISH"
    BY <2>2 DEF CallData, CallStatus
  <2>4. Underway(w, s)
    BY <1>1, <1>2, <1>5, <2>3 DEF Underway
  <2>5. QED
    BY <2>1, <2>3, <2>4, WaitingFits
<1>6. QED
  BY <1>4, <1>5

LEMMA UnaryFits ==
  ASSUME NEW r \in CallData, NEW s, NEW k, r.alive, r.held = {},
         s \in UnaryServers, r.status_ = "PROCESS",
         Fresh(r) \/ Underway(r, s)
  PROVE  /\ Finish(r) \in CallData
         /\ Fits(Finish(r), s, k)
         /\ "REQUEST" \notin Finish(r).held
<1>1. r.replies = AllReplies(s)
  BY DEF Fresh, Underway, AllReplies
<1>2. QED
  BY <1>1, FinishFits

(* Proceed in the PROCESS state, whichever program runs. *)
LEMMA ProcessedFits ==
  ASSUME NEW r \in CallData, NEW k, r.alive, r.held = {},
         server \in AllServers, server \notin ChatServers,
         r.status_ = "PROCESS", Fresh(r) \/ Underway(r, server)
  PROVE  /\ Processed(r) \in CallData
         /\ Fits(Processed(r), server, k)
         /\ "REQUEST" \notin Processed(r).held
<1> USE DEF UnaryServers, StreamingServers, AlarmServers, PushToBackServers,
            ChatServers
<1>1. CASE server \in UnaryServers
  <2>1. Processed(r) = Finish(r)
    BY <1>1 DEF Processed
  <2>2. QED
    BY <1>1, <2>1, UnaryFits
<1>2. CASE server \in StreamingServers
  <2>1. Processed(r) = Greet(r)
    BY <1>2 DEF Processed
  <2>2. QED
    BY <1>2, <2>1, GreetFits
<1>3. CASE server \in AlarmServers
  <2>1. Processed(r) = GreetWithAlarm(r)
    BY <1>3 DEF Processed
  <2>2. QED
    BY <1>3, <2>1, GreetWithAlarmFits
<1>4. CASE server \in PushToBackServers
  <2>1. Processed(r) = GreetAndPushToBack(r)
    BY <1>4 DEF Processed
  <2>2. QED
    BY <1>4, <2>1, GreetAndPushToBackFits
<1>5. QED
  BY <1>1, <1>2, <1>3, <1>4 DEF AllServers

(* A new CallData, and an address without one. *)
LEMMA NewFits ==
  ASSUME NEW s, NEW k
  PROVE  /\ NewCallData \in CallData /\ Fits(NewCallData, s, k)
         /\ "REQUEST" \in NewCallData.held
         /\ FreeMemory \in CallData /\ Fits(FreeMemory, s, k)
         /\ FreeMemory.held = {}
<1>1. /\ NewCallData \in CallData
      /\ NewCallData.held = {"REQUEST"} /\ NewCallData.alive
      /\ NewCallData.status_ = "PROCESS" /\ Fresh(NewCallData)
  BY DEF NewCallData, CallData, CallStatus, Operation, Fresh
<1>2. Fits(NewCallData, s, k)
  BY <1>1 DEF Fits
<1>3. /\ FreeMemory \in CallData
      /\ FreeMemory.held = {} /\ ~FreeMemory.alive
      /\ FreeMemory.status_ = "PROCESS"
  BY <1>1 DEF FreeMemory, CallData
<1>4. Fits(FreeMemory, s, k)
  BY <1>3 DEF Fits
<1>5. QED
  BY <1>1, <1>2, <1>3, <1>4

(* The event of a CallData's operation leaves it with none under way. *)
LEMMA ReportedFields ==
  ASSUME NEW c \in Addresses, NEW op, NEW ok, IInv, Event(c, op, ok)
  PROVE  /\ data[c] \in CallData /\ data[c].alive
         /\ data[c].held = {op} /\ op \in Operation /\ op # "READ"
         /\ Reported(c, op) \in CallData
         /\ Reported(c, op).held = {} /\ Reported(c, op).alive
         /\ Reported(c, op).status_ = data[c].status_
         /\ Reported(c, op).times_ = data[c].times_
         /\ Reported(c, op).replies = data[c].replies
<1>1. data[c] \in CallData /\ Fits(data[c], server, call[c])
  BY DEF IInv, TypeOK, CallData
<1>2. data[c].held = {op} /\ op # "READ" /\ data[c].alive
  BY <1>1 DEF Event, Fits
<1>3. op \in Operation
  BY <1>1, <1>2 DEF CallData
<1>4. QED
  BY <1>1, <1>2, <1>3 DEF CallData, Reported

-----------------------------------------------------------------------------
(* The inductive invariant *)

LEMMA InitIInv == Init => IInv
<1> SUFFICES ASSUME Init PROVE IInv
  OBVIOUS
<1>1. PICK first \in Addresses :
        data = [c \in Addresses |-> IF c = first THEN NewCallData ELSE FreeMemory]
  BY DEF Init
<1>2. TypeOK
  BY <1>1, NewFits DEF Init, TypeOK, CallData
<1>3. \A c \in Addresses : Fits(data[c], server, call[c])
  BY <1>1, NewFits
<1>4. OneAwaitsTheNextCall
  BY <1>1, NewFits DEF OneAwaitsTheNextCall
<1>5. QED
  BY <1>2, <1>3, <1>4 DEF IInv

(* Clients move no CallData. *)
LEMMA ClientStep ==
  ASSUME IInv, NEW c \in Addresses, StartCall(c) \/ Cancel(c)
  PROVE  IInv'
<1>1. TypeOK'
  BY DEF IInv, TypeOK, StartCall, Cancel
<1>2. ASSUME NEW d \in Addresses
      PROVE  Fits(data[d], server, call[d])'
  <2>1. Fits(data[d], server, call[d])
    BY DEF IInv
  <2>2. data' = data /\ server' = server
    BY DEF StartCall, Cancel
  <2>3. call'[d] = call[d] \/ call'[d] = "Dead" \/ data[d].held # {}
    BY DEF StartCall, Cancel, IInv, TypeOK
  <2>4. QED
    BY <2>1, <2>2, <2>3 DEF Fits
<1>3. OneAwaitsTheNextCall'
  BY DEF IInv, OneAwaitsTheNextCall, StartCall, Cancel
<1>4. QED
  BY <1>1, <1>2, <1>3 DEF IInv

(* An event that moves one CallData and leaves it without a request, when  *)
(* it had none or another is created, keeps the invariant.                 *)
LEMMA OneCallDataMoves ==
  ASSUME IInv, NEW c \in Addresses, NEW r \in CallData,
         data' = [data EXCEPT ![c] = r], UNCHANGED <<server, aborted>>,
         call' \in [Addresses -> {"None", "Open", "Dead"}],
         \A d \in Addresses \ {c} : call'[d] = call[d],
         Fits(r, server, call'[c]),
         "REQUEST" \notin r.held, "REQUEST" \notin data[c].held
  PROVE  IInv'
<1>1. TypeOK'
  BY DEF IInv, TypeOK, CallData
<1>2. ASSUME NEW d \in Addresses
      PROVE  Fits(data[d], server, call[d])'
  <2>1. CASE d = c
    <3>1. data'[d] = r
      BY <2>1 DEF IInv, TypeOK
    <3>2. QED
      BY <2>1, <3>1
  <2>2. CASE d # c
    <3>1. data'[d] = data[d] /\ call'[d] = call[d] /\ server' = server
      BY <2>2 DEF IInv, TypeOK
    <3>2. QED
      BY <3>1 DEF IInv
  <2>3. QED
    BY <2>1, <2>2
<1>3. OneAwaitsTheNextCall'
  BY DEF IInv, TypeOK, OneAwaitsTheNextCall
<1>4. QED
  BY <1>1, <1>2, <1>3 DEF IInv

(* Proceed in the PROCESS state: only the first pass, which answers the    *)
(* request, creates a successor.                                           *)
LEMMA ProcessStep ==
  ASSUME NoChatServer, IInv, NEW c \in Addresses, NEW op,
         ProceedProcess(c, op)
  PROVE  IInv'
<1> DEFINE r == Reported(c, op)
<1>1. Event(c, op, TRUE) /\ data[c].status_ = "PROCESS"
  BY DEF ProceedProcess
<1>2. /\ data[c] \in CallData /\ data[c].alive
      /\ data[c].held = {op} /\ op \in Operation /\ op # "READ"
      /\ r \in CallData /\ r.held = {} /\ r.alive
      /\ r.status_ = "PROCESS" /\ r.times_ = data[c].times_
      /\ r.replies = data[c].replies
  BY <1>1, ReportedFields
<1>3. server \in AllServers /\ server \notin ChatServers
  BY ServersAssumption DEF NoChatServer, IInv, TypeOK
<1>4. Fits(data[c], server, call[c])
  BY DEF IInv
<1>5. op # "FINISH"
  BY <1>1, <1>2, <1>4 DEF Fits
<1>6. /\ op = "REQUEST" => Fresh(data[c])
      /\ op # "REQUEST" => Underway(data[c], server)
  BY <1>2, <1>4, <1>5 DEF Fits, Operation
<1>7. Fresh(r) \/ Underway(r, server)
  BY <1>2, <1>6 DEF Fresh, Underway
<1>8. /\ Processed(r) \in CallData
      /\ Fits(Processed(r), server, call[c])
      /\ "REQUEST" \notin Processed(r).held
  BY <1>2, <1>3, <1>7, ProcessedFits
<1>9. CreatesSuccessor(r) <=> op = "REQUEST"
  BY <1>2, <1>3, <1>6 DEF CreatesSuccessor, Fresh, Underway, CallData
<1>10. UNCHANGED <<server, call, aborted>>
  BY DEF ProceedProcess
<1> HIDE DEF r
<1>11. CASE op # "REQUEST"
  <2>1. data' = [data EXCEPT ![c] = Processed(r)]
    BY <1>9, <1>11 DEF ProceedProcess, r
  <2>2. QED
    BY <1>2, <1>8, <1>10, <1>11, <2>1, OneCallDataMoves DEF IInv, TypeOK
<1>12. CASE op = "REQUEST"
  <2>1. PICK k \in Free :
          data' = [data EXCEPT ![c] = Processed(r), ![k] = NewCallData]
    BY <1>9, <1>12 DEF ProceedProcess, r
  <2>2. k \in Addresses /\ k # c
    BY <1>2 DEF Free
  <2>3. data \in [Addresses -> CallData]
    BY DEF IInv, TypeOK, CallData
  <2>4. /\ data' \in [Addresses -> CallData]
        /\ data'[c] = Processed(r) /\ data'[k] = NewCallData
        /\ \A d \in Addresses \ {c, k} : data'[d] = data[d]
    BY <1>8, <2>1, <2>2, <2>3, NewFits
  <2>5. TypeOK'
    BY <1>10, <2>4 DEF IInv, TypeOK, CallData
  <2>6. \A d \in Addresses : Fits(data'[d], server, call[d])
    BY <1>8, <2>4, NewFits DEF IInv
  <2>7. OneAwaitsTheNextCall'
    <3>1. \A d \in Addresses : "REQUEST" \in data[d].held <=> d = c
      BY <1>2, <1>12 DEF IInv, OneAwaitsTheNextCall
    <3>2. \A d \in Addresses : "REQUEST" \in data'[d].held <=> d = k
      BY <1>8, <2>2, <2>4, <3>1, NewFits
    <3>3. QED
      BY <2>2, <3>2 DEF OneAwaitsTheNextCall
  <2>8. QED
    BY <1>10, <2>5, <2>6, <2>7 DEF IInv
<1>13. QED
  BY <1>11, <1>12

LEMMA PushToBackStep ==
  ASSUME IInv, NEW c \in Addresses, NEW op, ProceedPushToBack(c, op)
  PROVE  IInv'
<1> DEFINE r == Reported(c, op)
           p == [r EXCEPT !.status_ = "PROCESS"]
<1>1. Event(c, op, TRUE) /\ data[c].status_ = "PUSH_TO_BACK"
  BY DEF ProceedPushToBack
<1>2. /\ data[c].held = {op} /\ op \in Operation /\ op # "READ"
      /\ r \in CallData /\ r.held = {} /\ r.alive
      /\ r.times_ = data[c].times_ /\ r.replies = data[c].replies
  BY <1>1, ReportedFields
<1>3. "REQUEST" \notin data[c].held /\ Underway(data[c], server)
  BY <1>1, <1>2 DEF IInv, Fits, Operation
<1> HIDE DEF r
<1>4. /\ p \in CallData /\ p.held = {} /\ p.alive /\ p.status_ = "PROCESS"
      /\ p.times_ = data[c].times_ /\ p.replies = data[c].replies
  BY <1>2 DEF CallData, CallStatus
<1> HIDE DEF p
<1>5. /\ SetAlarm(p) \in CallData /\ SetAlarm(p).held = {"ALARM"}
      /\ SetAlarm(p).alive /\ SetAlarm(p).status_ = "PROCESS"
      /\ SetAlarm(p).times_ = data[c].times_
      /\ SetAlarm(p).replies = data[c].replies
  BY <1>4, SetAlarmFields
<1>6. Underway(SetAlarm(p), server)
  BY <1>3, <1>5 DEF Underway
<1>7. Fits(SetAlarm(p), server, call[c]) /\ "REQUEST" \notin SetAlarm(p).held
  BY <1>5, <1>6, WaitingFits
<1>8. /\ data' = [data EXCEPT ![c] = SetAlarm(p)]
      /\ UNCHANGED <<server, call, aborted>>
  BY DEF ProceedPushToBack, PushToBack, p, r
<1>9. QED
  BY <1>3, <1>5, <1>7, <1>8, OneCallDataMoves DEF IInv, TypeOK

(* Nothing is under way when a CallData is deleted. *)
LEMMA FinishStep ==
  ASSUME IInv, NEW c \in Addresses, NEW op, ProceedFinish(c, op)
  PROVE  IInv'
<1>1. Event(c, op, TRUE) /\ data[c].status_ = "FINISH"
  BY DEF ProceedFinish
<1>2. data[c].held = {op} /\ Reported(c, op).held = {}
  BY <1>1, ReportedFields
<1>3. "REQUEST" \notin data[c].held
  BY <1>1, <1>2 DEF IInv, Fits
<1>4. [FreeMemory EXCEPT !.held = Reported(c, op).held] = FreeMemory
  BY <1>2 DEF FreeMemory, NewCallData
<1>5. /\ data' = [data EXCEPT ![c] = FreeMemory]
      /\ call' = [call EXCEPT ![c] = "None"]
      /\ UNCHANGED <<server, aborted>>
  BY <1>4 DEF ProceedFinish
<1>6. /\ call' \in [Addresses -> {"None", "Open", "Dead"}]
      /\ \A d \in Addresses \ {c} : call'[d] = call[d]
  BY <1>5 DEF IInv, TypeOK
<1>7. QED
  BY <1>3, <1>5, <1>6, NewFits, OneCallDataMoves

(* Only the operations of a call that died fail. *)
LEMMA StopStep ==
  ASSUME IInv, NEW c \in Addresses, NEW op, StopCall(c, op)
  PROVE  IInv'
<1> DEFINE r == Reported(c, op)
<1>1. Event(c, op, FALSE)
  BY DEF StopCall
<1>2. /\ data[c].held = {op} /\ op \in Operation /\ op # "READ"
      /\ r \in CallData /\ r.held = {}
  BY <1>1, ReportedFields
<1>3. call[c] = "Dead" /\ op # "REQUEST"
  BY <1>1, <1>2 DEF Event, MayComplete, Operation
<1> HIDE DEF r
<1>4. Stop(r) \in CallData /\ Stop(r).held = {}
  BY <1>2 DEF Stop, CallData, CallStatus
<1>5. Fits(Stop(r), server, call[c])
  BY <1>3, <1>4 DEF Fits
<1>6. data' = [data EXCEPT ![c] = Stop(r)] /\ UNCHANGED <<server, call, aborted>>
  BY DEF StopCall, r
<1>7. QED
  BY <1>2, <1>3, <1>4, <1>5, <1>6, OneCallDataMoves DEF IInv, TypeOK

LEMMA AbortStep ==
  ASSUME IInv, NEW c \in Addresses, NEW op, AssertOk(c, op)
  PROVE  IInv'
BY DEF AssertOk, IInv, TypeOK, OneAwaitsTheNextCall

LEMMA StepIInv ==
  ASSUME NoChatServer PROVE IInv /\ [Next]_vars => IInv'
<1> SUFFICES ASSUME IInv, [Next]_vars PROVE IInv'
  OBVIOUS
<1>1. ASSUME NEW c \in Addresses, StartCall(c) \/ Cancel(c) PROVE IInv'
  BY <1>1, ClientStep
<1>2. ASSUME NEW c \in Addresses, HandleRpcs(c) PROVE IInv'
  <2>1. PICK op \in Operation :
          \/ ProceedProcess(c, op) \/ ProceedPushToBack(c, op)
          \/ ProceedFinish(c, op) \/ StopCall(c, op) \/ AssertOk(c, op)
    BY <1>2 DEF HandleRpcs
  <2>2. QED
    BY <2>1, ProcessStep, PushToBackStep, FinishStep, StopStep, AbortStep
<1>3. CASE UNCHANGED vars
  BY <1>3 DEF vars, IInv, TypeOK, OneAwaitsTheNextCall
<1>4. QED
  BY <1>1, <1>2, <1>3 DEF Next

LEMMA Invariant ==
  ASSUME NoChatServer PROVE Spec => []IInv
<1>1. Init => IInv
  BY InitIInv
<1>2. IInv /\ [Next]_vars => IInv'
  BY StepIInv
<1>3. QED
  BY <1>1, <1>2, PTL DEF Spec

-----------------------------------------------------------------------------
(* The theorems *)

\* Every variable holds values of its type; no call takes an eighth pass
\* through the PROCESS state of Proceed.
THEOREM TypeCorrect ==
  ASSUME NoChatServer PROVE Spec => []TypeOK
<1>1. IInv => TypeOK
  BY DEF IInv
<1>2. QED
  BY <1>1, Invariant, PTL

\* gRPC holds no tag of a deleted CallData: none is deleted by the FINISH
\* state of Proceed while another operation of its own is under way.
THEOREM TagsIdentifyRequests ==
  ASSUME NoChatServer PROVE Spec => []TagIdentifiesRequest
<1>1. IInv => TagIdentifiesRequest
  BY DEF IInv, TagIdentifiesRequest, Fits
<1>2. QED
  BY <1>1, Invariant, PTL

\* The event Next returns for a CallData is that of the one operation that
\* it started last, so that status_ is enough to tell what it means.
THEOREM OneOperationAtATime ==
  ASSUME NoChatServer PROVE Spec => []OneOperationPerTag
<1>1. IInv => OneOperationPerTag
  BY DEF IInv, OneOperationPerTag, Fits
<1>2. QED
  BY <1>1, Invariant, PTL

\* times_ = 0 tells the first pass of a call: exactly one CallData awaits the
\* next call at any time.
THEOREM OneIsListening ==
  ASSUME NoChatServer PROVE Spec => []OneAwaitsTheNextCall
<1>1. IInv => OneAwaitsTheNextCall
  BY DEF IInv
<1>2. QED
  BY <1>1, Invariant, PTL

\* A streaming server calls Finish after three replies, whether it waits for
\* alarms or not.
THEOREM FinishAfterReplies ==
  ASSUME NoChatServer PROVE Spec => []FinishedAfterAllReplies
<1>1. IInv => FinishedAfterAllReplies
  BY DEF IInv, FinishedAfterAllReplies, Fits, AllReplies
<1>2. QED
  BY <1>1, Invariant, PTL

\* Only Stop leaves a CallData with nothing under way, and only if its call
\* died.
THEOREM LeftBehindAreDead ==
  ASSUME NoChatServer PROVE Spec => []OnlyDeadCallsAreLeftBehind
<1>1. IInv => OnlyDeadCallsAreLeftBehind
  BY DEF IInv, OnlyDeadCallsAreLeftBehind, Fits
<1>2. QED
  BY <1>1, Invariant, PTL
=============================================================================
