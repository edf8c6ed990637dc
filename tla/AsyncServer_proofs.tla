------------------------- MODULE AsyncServer_proofs -------------------------
(***************************************************************************)
(* What the asynchronous servers have in common is right for any number of *)
(* jobs and any kinds of RPC: the books of a job always fit its operations *)
(* in flight.  First the lemmas about what every handler of every kind of  *)
(* job does to the books of its job, for any job and any results:          *)
(* JobInv(r, F) says that the books of job r fit the set F of operations   *)
(* in flight (the done event among them), and each lemma takes an operator *)
(* from one such pair to the next.  Then the lemmas about the threads that *)
(* call the handlers: IInv is the invariant of a whole server.  That the   *)
(* steps of one server keep it is proved in the modules that extend this   *)
(* one.                                                                    *)
(***************************************************************************)
EXTENDS AsyncServer, UnaryRpcJob, ServerStreamingRpcJob,
        ClientStreamingRpcJob, BidirectionalStreamingRpcJob,
        FiniteSetTheorems, TLAPS

-----------------------------------------------------------------------------
(* The books of a job *)

\* The counter and the two flags say which operations are in flight.
BooksFit(r, F) ==
  /\ r.mAsyncOpCounter = One("QUEUED_REQUEST" \in F) + One("READ" \in F)
                           + One("WRITE" \in F) + One("FINISH" \in F)
  /\ r.mAsyncReadInProgress <=> "READ" \in F
  /\ r.mAsyncWriteInProgress <=> "WRITE" \in F
  /\ r.mOnDoneCalled <=> "DONE" \notin F
  /\ F # {}

\* Which operations exclude which, and what they exclude later.
StagesFit(r, F) ==
  /\ "QUEUED_REQUEST" \in F =>
       F \cap {"READ", "WRITE", "FINISH"} = {} /\ r.finishes = 0
  /\ r.finishes <= 1
  /\ "FINISH" \in F => r.finishes = 1
  /\ r.finishes = 1 => F \cap {"QUEUED_REQUEST", "READ", "WRITE"} = {}
  /\ r.mServerStreamingDone => F \cap {"QUEUED_REQUEST", "READ"} = {}
  /\ "WRITE" \in F => r.type \in {"ServerStreaming", "Bidirectional"}

JobInv(r, F) ==
  /\ IsJob(r)
  /\ F \subseteq TagOp
  /\ r.held \subseteq F
  /\ r.alive => BooksFit(r, F) /\ StagesFit(r, F)
  /\ ~r.alive => F = {} /\ ~r.asserted

\* What a handler may start: a request is queued only by a constructor.
Startable == {"READ", "WRITE", "FINISH"}

\* r2 is r after it has started some operations (and handed them to gRPC).
Starts(r, F, r2) ==
  /\ r2.alive
  /\ r2.type = r.type
  /\ r.held \subseteq r2.held
  /\ r2.held \ r.held \subseteq Startable
  /\ (r2.held \ r.held) \cap F = {}
  /\ JobInv(r2, F \cup r2.held)

\* r2 is what the handler of op's tag makes of r: op is no longer in flight,
\* what the handler started is, and nothing is started twice, nor anything
\* by the handler of the last reference to the job.
Handled(r, F, op, r2) ==
  /\ r2.type = r.type
  /\ r.held \subseteq r2.held
  /\ r2.held \ r.held \subseteq Startable
  /\ F = {op} => r2.held = r.held
  /\ (r2.held \ r.held) \cap (F \ {op}) = {}
  /\ JobInv(r2, (F \ {op}) \cup r2.held)

\* s is r with operation op started and handed to gRPC.
HandsOver(r, op, s) ==
  /\ IsJob(s)
  /\ s.type = r.type
  /\ s.alive <=> r.alive
  /\ s.mAsyncOpCounter = r.mAsyncOpCounter + 1
  /\ s.mAsyncReadInProgress <=> r.mAsyncReadInProgress \/ op = "READ"
  /\ s.mAsyncWriteInProgress <=> r.mAsyncWriteInProgress \/ op = "WRITE"
  /\ s.mOnDoneCalled <=> r.mOnDoneCalled
  /\ s.mServerStreamingDone <=> r.mServerStreamingDone
  /\ s.mClientStreamingDone <=> r.mClientStreamingDone
  /\ s.finishes = (IF op = "FINISH" THEN r.finishes + 1 ELSE r.finishes)
  /\ s.held = r.held \cup {op}

\* s differs from r in messages only (and perhaps in mClientStreamingDone,
\* which no book depends on).
SameBooks(r, s) ==
  /\ IsJob(s)
  /\ s.type = r.type
  /\ s.alive <=> r.alive
  /\ s.mAsyncOpCounter = r.mAsyncOpCounter
  /\ s.mAsyncReadInProgress <=> r.mAsyncReadInProgress
  /\ s.mAsyncWriteInProgress <=> r.mAsyncWriteInProgress
  /\ s.mOnDoneCalled <=> r.mOnDoneCalled
  /\ s.mServerStreamingDone <=> r.mServerStreamingDone
  /\ s.finishes = r.finishes
  /\ s.held = r.held

-----------------------------------------------------------------------------
(* Operations started and finished *)

LEMMA Fields ==
  JobFields = {"type", "alive", "mAsyncOpCounter", "mAsyncReadInProgress",
               "mAsyncWriteInProgress", "mOnDoneCalled", "mClientStreamingDone",
               "mServerStreamingDone", "mRequest", "mResponse",
               "mResponseQueue", "held", "written", "finishes", "asserted"}
BY DEF JobFields, FreeMemory, RpcJobFields

LEMMA Memory ==
  ASSUME NEW type \in RpcType
  PROVE  /\ IsJob(FreeMemory) /\ ~FreeMemory.alive /\ FreeMemory.held = {}
         /\ IsJob(NewRpcJob(type))
         /\ JobInv(NewRpcJob(type), {"QUEUED_REQUEST", "DONE"})
         /\ NewRpcJob(type).held = {"QUEUED_REQUEST", "DONE"}
         /\ NewRpcJob(type).alive
         /\ NewRpcJob(type).type = type
<1>1. /\ FreeMemory.alive = FALSE /\ FreeMemory.held = {}
      /\ FreeMemory.type = "Unary" /\ FreeMemory.mAsyncOpCounter = 0
      /\ FreeMemory.finishes = 0
      /\ FreeMemory.mAsyncReadInProgress = FALSE
      /\ FreeMemory.mAsyncWriteInProgress = FALSE
      /\ FreeMemory.mOnDoneCalled = FALSE
      /\ FreeMemory.mClientStreamingDone = FALSE
      /\ FreeMemory.mServerStreamingDone = FALSE
      /\ FreeMemory.asserted = FALSE
  BY DEF FreeMemory, RpcJobFields
<1>b. /\ FreeMemory.alive \in BOOLEAN
      /\ FreeMemory.mAsyncReadInProgress \in BOOLEAN
      /\ FreeMemory.mAsyncWriteInProgress \in BOOLEAN
      /\ FreeMemory.mOnDoneCalled \in BOOLEAN
      /\ FreeMemory.mClientStreamingDone \in BOOLEAN
      /\ FreeMemory.mServerStreamingDone \in BOOLEAN
      /\ FreeMemory.asserted \in BOOLEAN
  BY DEF FreeMemory, RpcJobFields
<1>2. IsJob(FreeMemory)
  BY <1>1, <1>b DEF IsJob, RpcType, JobFields
<1> DEFINE n == NewRpcJob(type)
<1>3. /\ DOMAIN n = JobFields /\ n.alive = TRUE
      /\ n.held = {"QUEUED_REQUEST", "DONE"}
      /\ n.type = type /\ n.mAsyncOpCounter = 1 /\ n.finishes = 0
      /\ n.mAsyncReadInProgress = FALSE
      /\ n.mAsyncWriteInProgress = FALSE
      /\ n.mOnDoneCalled = FALSE
      /\ n.mClientStreamingDone = FALSE
      /\ n.mServerStreamingDone = FALSE
      /\ n.asserted = FALSE
  <2> DEFINE f == RpcJobFields(type)
             d == GrpcHolds(f, "DONE")
             c == AsyncOpStarted(d, "QUEUED_REQUEST")
  <2>1. /\ DOMAIN d = JobFields /\ d.alive = TRUE /\ d.held = {"DONE"}
        /\ d.type = type /\ d.mAsyncOpCounter = 0 /\ d.finishes = 0
        /\ d.mAsyncReadInProgress = FALSE
        /\ d.mAsyncWriteInProgress = FALSE
        /\ d.mOnDoneCalled = FALSE
        /\ d.mClientStreamingDone = FALSE
        /\ d.mServerStreamingDone = FALSE
        /\ d.asserted = FALSE
    BY Fields DEF RpcJobFields, GrpcHolds
  <2> HIDE DEF d
  <2>2. /\ DOMAIN c = JobFields /\ c.alive = d.alive /\ c.held = d.held
        /\ c.type = d.type /\ c.mAsyncOpCounter = d.mAsyncOpCounter + 1
        /\ c.finishes = d.finishes
        /\ c.mAsyncReadInProgress = (d.mAsyncReadInProgress \/ FALSE)
        /\ c.mAsyncWriteInProgress = (d.mAsyncWriteInProgress \/ FALSE)
        /\ c.mOnDoneCalled = d.mOnDoneCalled
        /\ c.mClientStreamingDone = d.mClientStreamingDone
        /\ c.mServerStreamingDone = d.mServerStreamingDone
        /\ c.asserted = d.asserted
    BY <2>1, Fields DEF AsyncOpStarted
  <2> HIDE DEF c
  <2>3. /\ DOMAIN n = JobFields /\ n.alive = c.alive
        /\ n.held = c.held \cup {"QUEUED_REQUEST"}
        /\ n.type = c.type /\ n.mAsyncOpCounter = c.mAsyncOpCounter
        /\ n.finishes = c.finishes
        /\ n.mAsyncReadInProgress = c.mAsyncReadInProgress
        /\ n.mAsyncWriteInProgress = c.mAsyncWriteInProgress
        /\ n.mOnDoneCalled = c.mOnDoneCalled
        /\ n.mClientStreamingDone = c.mClientStreamingDone
        /\ n.mServerStreamingDone = c.mServerStreamingDone
        /\ n.asserted = c.asserted
    BY <2>2, Fields DEF GrpcHolds, NewRpcJob, c, d
  <2>4. c.mAsyncReadInProgress = FALSE /\ c.mAsyncWriteInProgress = FALSE
    BY <2>1, <2>2, Zenon
  <2>5. n.mAsyncOpCounter = 1 /\ n.held = {"QUEUED_REQUEST", "DONE"}
    BY <2>1, <2>2, <2>3
  <2>6. QED
    BY <2>1, <2>2, <2>3, <2>4, <2>5, Zenon
<1> HIDE DEF n
<1>c. /\ n.alive \in BOOLEAN
      /\ n.mAsyncReadInProgress \in BOOLEAN
      /\ n.mAsyncWriteInProgress \in BOOLEAN
      /\ n.mOnDoneCalled \in BOOLEAN
      /\ n.mClientStreamingDone \in BOOLEAN
      /\ n.mServerStreamingDone \in BOOLEAN
      /\ n.asserted \in BOOLEAN
  BY <1>3, Zenon
<1>4. IsJob(n)
  BY <1>3, <1>c DEF IsJob, TagOp, AsyncOpType
<1>5. JobInv(n, {"QUEUED_REQUEST", "DONE"})
  BY <1>3, <1>4 DEF JobInv, BooksFit, StagesFit, One, TagOp, AsyncOpType
<1>6. QED
  BY <1>1, <1>2, <1>3, <1>4, <1>5 DEF n

LEMMA DoneJob ==
  ASSUME NEW r, IsJob(r)
  PROVE  /\ IsJob(Done(r))
         /\ ~Done(r).alive
         /\ Done(r).held = r.held
         /\ Done(r).type = r.type
         /\ Done(r).asserted = FALSE
BY Fields DEF IsJob, Done, FreeMemory, RpcJobFields

(* An operation's tag is handled: the job goes on, or this was the last    *)
(* operation of an RPC that was already done and the job is deleted.       *)
LEMMA OpFinished ==
  ASSUME NEW r, NEW F, JobInv(r, F), r.alive,
         NEW op \in AsyncOpType, op \in F, op \notin r.held
  PROVE  LET r2 == AsyncOpFinished(r, op)
         IN  /\ JobInv(r2, F \ {op})
             /\ r2.held = r.held
             /\ r2.type = r.type
             /\ r2.alive => /\ r2.finishes = r.finishes
                            /\ r2.mServerStreamingDone = r.mServerStreamingDone
                            /\ r2.mClientStreamingDone = r.mClientStreamingDone
<1> DEFINE s == OpRetired(r, op)
<1>0. /\ DOMAIN s = JobFields
      /\ s.mAsyncOpCounter = r.mAsyncOpCounter - 1
      /\ s.mAsyncReadInProgress = (r.mAsyncReadInProgress /\ op # "READ")
      /\ s.mAsyncWriteInProgress = (r.mAsyncWriteInProgress /\ op # "WRITE")
      /\ s.mOnDoneCalled = r.mOnDoneCalled
      /\ s.mServerStreamingDone = r.mServerStreamingDone
      /\ s.mClientStreamingDone = r.mClientStreamingDone
      /\ s.finishes = r.finishes
      /\ s.held = r.held
      /\ s.alive = r.alive
      /\ s.type = r.type
      /\ s.asserted = r.asserted
  BY Fields DEF OpRetired, IsJob, JobInv
<1>b. /\ s.alive \in BOOLEAN
      /\ s.mAsyncReadInProgress \in BOOLEAN
      /\ s.mAsyncWriteInProgress \in BOOLEAN
      /\ s.mOnDoneCalled \in BOOLEAN
      /\ s.mClientStreamingDone \in BOOLEAN
      /\ s.mServerStreamingDone \in BOOLEAN
      /\ s.asserted \in BOOLEAN
  BY Fields DEF OpRetired, IsJob, JobInv
<1> HIDE DEF s
<1>n. r.mAsyncOpCounter - 1 \in Nat
  BY DEF JobInv, BooksFit, One, AsyncOpType
<1>i. IsJob(s)
  BY <1>0, <1>b, <1>n DEF IsJob, JobInv
<1>1. /\ IsJob(s)
      /\ s.mAsyncOpCounter = r.mAsyncOpCounter - 1
      /\ s.mAsyncReadInProgress <=> (r.mAsyncReadInProgress /\ op # "READ")
      /\ s.mAsyncWriteInProgress <=> (r.mAsyncWriteInProgress /\ op # "WRITE")
      /\ s.mOnDoneCalled = r.mOnDoneCalled
      /\ s.mServerStreamingDone = r.mServerStreamingDone
      /\ s.mClientStreamingDone = r.mClientStreamingDone
      /\ s.finishes = r.finishes
      /\ s.held = r.held
      /\ s.type = r.type
      /\ s.alive
  BY <1>0, <1>i, Zenon
<1>2. /\ s.mAsyncOpCounter =
           One("QUEUED_REQUEST" \in F \ {op}) + One("READ" \in F \ {op})
             + One("WRITE" \in F \ {op}) + One("FINISH" \in F \ {op})
      /\ s.mAsyncReadInProgress <=> "READ" \in F \ {op}
      /\ s.mAsyncWriteInProgress <=> "WRITE" \in F \ {op}
      /\ s.mOnDoneCalled <=> "DONE" \notin F \ {op}
  BY <1>1 DEF JobInv, BooksFit, One, AsyncOpType
<1>3. F \ {op} \subseteq TagOp /\ s.held \subseteq F \ {op}
  BY <1>1 DEF JobInv
<1>4. StagesFit(s, F \ {op})
  BY <1>1 DEF JobInv, StagesFit
<1>5. CASE s.mAsyncOpCounter = 0 /\ s.mOnDoneCalled
  <2>1. F \ {op} = {}
    BY <1>2, <1>3, <1>5 DEF One, TagOp, AsyncOpType
  <2>2. AsyncOpFinished(r, op) = Done(s)
    BY <1>5 DEF AsyncOpFinished, s
  <2>3. /\ IsJob(Done(s)) /\ ~Done(s).alive /\ Done(s).held = s.held
        /\ Done(s).type = s.type /\ ~Done(s).asserted
    BY <1>1, DoneJob
  <2>4. QED
    BY <1>1, <1>3, <2>1, <2>2, <2>3 DEF JobInv
<1>6. CASE ~(s.mAsyncOpCounter = 0 /\ s.mOnDoneCalled)
  <2>1. AsyncOpFinished(r, op) = s
    BY <1>6 DEF AsyncOpFinished, s
  <2>2. F \ {op} # {}
    BY <1>2, <1>6 DEF One
  <2>3. BooksFit(s, F \ {op})
    BY <1>2, <2>2 DEF BooksFit
  <2>4. QED
    BY <1>1, <1>3, <1>4, <2>1, <2>3 DEF JobInv
<1>7. QED
  BY <1>5, <1>6

(* The done event is handled: the job waits for operations still in flight *)
(* or, if there are none, is deleted.                                      *)
LEMMA DoneHandled ==
  ASSUME NEW r, NEW F, JobInv(r, F), r.alive, "DONE" \in F, "DONE" \notin r.held
  PROVE  Handled(r, F, "DONE", OnDone(r))
<1> DEFINE s == [r EXCEPT !.mOnDoneCalled = TRUE]
<1>1. /\ IsJob(s)
      /\ s.mAsyncOpCounter = r.mAsyncOpCounter
      /\ s.mAsyncReadInProgress = r.mAsyncReadInProgress
      /\ s.mAsyncWriteInProgress = r.mAsyncWriteInProgress
      /\ s.mOnDoneCalled
      /\ s.mServerStreamingDone = r.mServerStreamingDone
      /\ s.finishes = r.finishes
      /\ s.held = r.held
      /\ s.type = r.type
      /\ s.alive
  BY Fields DEF IsJob, JobInv
<1>0. OnDone(r) = IF s.mAsyncOpCounter = 0 THEN Done(s) ELSE s
  BY DEF OnDone
<1> HIDE DEF s
<1>2. /\ s.mAsyncOpCounter =
           One("QUEUED_REQUEST" \in F \ {"DONE"}) + One("READ" \in F \ {"DONE"})
             + One("WRITE" \in F \ {"DONE"}) + One("FINISH" \in F \ {"DONE"})
      /\ s.mAsyncReadInProgress <=> "READ" \in F \ {"DONE"}
      /\ s.mAsyncWriteInProgress <=> "WRITE" \in F \ {"DONE"}
      /\ s.mOnDoneCalled <=> "DONE" \notin F \ {"DONE"}
  BY <1>1 DEF JobInv, BooksFit, One
<1>3. F \ {"DONE"} \subseteq TagOp /\ s.held \subseteq F \ {"DONE"}
  BY <1>1 DEF JobInv
<1>4. StagesFit(s, F \ {"DONE"})
  BY <1>1 DEF JobInv, StagesFit
<1>5. CASE s.mAsyncOpCounter = 0
  <2>1. F \ {"DONE"} = {}
    BY <1>2, <1>3, <1>5 DEF One, TagOp, AsyncOpType
  <2>2. /\ IsJob(Done(s)) /\ ~Done(s).alive /\ Done(s).held = s.held
        /\ Done(s).type = s.type /\ ~Done(s).asserted
    BY <1>1, DoneJob
  <2>3. QED
    BY <1>0, <1>1, <1>3, <1>5, <2>1, <2>2 DEF JobInv, Handled
<1>6. CASE s.mAsyncOpCounter # 0
  <2>1. F \ {"DONE"} # {}
    BY <1>2, <1>6 DEF One
  <2>2. BooksFit(s, F \ {"DONE"})
    BY <1>2, <2>1 DEF BooksFit
  <2>3. (F \ {"DONE"}) \cup s.held = F \ {"DONE"}
    BY <1>3
  <2>4. QED
    BY <1>0, <1>1, <1>3, <1>4, <1>6, <2>2, <2>3 DEF JobInv, Handled
<1>7. QED
  BY <1>5, <1>6
(* An operation may be started when nothing in flight excludes it. *)
LEMMA OpStarted ==
  ASSUME NEW r, NEW F, NEW op \in {"READ", "WRITE", "FINISH"}, NEW s,
         JobInv(r, F), r.alive, HandsOver(r, op, s),
         op \notin F, "QUEUED_REQUEST" \notin F, r.finishes = 0,
         op = "READ" => ~r.mServerStreamingDone,
         op = "WRITE" => r.type \in {"ServerStreaming", "Bidirectional"},
         op = "FINISH" => "READ" \notin F /\ "WRITE" \notin F
  PROVE  Starts(r, F, s)
<1> DEFINE G == F \cup s.held
<1>1. G = F \cup {op} /\ r.held \subseteq F
  BY DEF JobInv, HandsOver
<1>2. IsJob(s) /\ G \subseteq TagOp /\ s.held \subseteq G /\ s.alive
  BY <1>1 DEF JobInv, HandsOver, TagOp, AsyncOpType
<1>3. BooksFit(s, G)
  <2>1. s.mAsyncOpCounter = One("QUEUED_REQUEST" \in G) + One("READ" \in G)
                              + One("WRITE" \in G) + One("FINISH" \in G)
    <3>1. r.mAsyncOpCounter = One("QUEUED_REQUEST" \in F) + One("READ" \in F)
                                + One("WRITE" \in F) + One("FINISH" \in F)
      BY DEF JobInv, BooksFit
    <3>2. s.mAsyncOpCounter = r.mAsyncOpCounter + 1
      BY DEF HandsOver
    <3>3. QED
      BY <1>1, <3>1, <3>2 DEF One
  <2>2. /\ s.mAsyncReadInProgress <=> "READ" \in G
        /\ s.mAsyncWriteInProgress <=> "WRITE" \in G
        /\ s.mOnDoneCalled <=> "DONE" \notin G
        /\ G # {}
    BY <1>1 DEF JobInv, BooksFit, HandsOver
  <2>3. QED
    BY <2>1, <2>2 DEF BooksFit
<1>4. StagesFit(s, G)
  BY <1>1 DEF JobInv, StagesFit, HandsOver
<1>5. /\ r.held \subseteq s.held /\ (s.held \ r.held) \cap F = {}
      /\ s.held \ r.held \subseteq Startable /\ s.type = r.type
  BY DEF HandsOver, Startable
<1>6. QED
  BY <1>2, <1>3, <1>4, <1>5 DEF Starts, JobInv

LEMMA SameBooksInv ==
  ASSUME NEW r, NEW F, NEW s, JobInv(r, F), r.alive, SameBooks(r, s)
  PROVE  JobInv(s, F)
<1>1. r.alive => BooksFit(s, F) /\ StagesFit(s, F)
  BY DEF JobInv, SameBooks, BooksFit, StagesFit
<1>2. QED
  BY <1>1 DEF JobInv, SameBooks

(* The calls that start an operation. *)
LEMMA ReadStarted ==
  ASSUME NEW r, IsJob(r)
  PROVE  HandsOver(r, "READ", StartRead(r))
<1> DEFINE s == StartRead(r)
<1>1. /\ DOMAIN s = JobFields /\ s.type = r.type /\ s.finishes = r.finishes
      /\ s.mAsyncOpCounter = r.mAsyncOpCounter + 1
      /\ s.held = r.held \cup {"READ"}
      /\ s.mAsyncReadInProgress
      /\ s.mAsyncWriteInProgress <=> r.mAsyncWriteInProgress
      /\ s.alive = r.alive
      /\ s.mOnDoneCalled = r.mOnDoneCalled
      /\ s.mServerStreamingDone = r.mServerStreamingDone
      /\ s.mClientStreamingDone = r.mClientStreamingDone
      /\ s.asserted = r.asserted
  BY Fields DEF StartRead, Read, GrpcHolds, AsyncOpStarted, IsJob
<1>2. s.mAsyncReadInProgress \in BOOLEAN /\ s.mAsyncWriteInProgress \in BOOLEAN
  BY Fields DEF StartRead, Read, GrpcHolds, AsyncOpStarted, IsJob
<1> HIDE DEF s
<1>3. IsJob(s)
  BY <1>1, <1>2 DEF IsJob, TagOp, AsyncOpType
<1>4. QED
  BY <1>1, <1>3 DEF HandsOver, s

LEMMA WriteStarted ==
  ASSUME NEW r, IsJob(r)
  PROVE  HandsOver(r, "WRITE", doSendResponse(r))
<1> DEFINE s == doSendResponse(r)
<1>1. /\ DOMAIN s = JobFields /\ s.type = r.type /\ s.finishes = r.finishes
      /\ s.mAsyncOpCounter = r.mAsyncOpCounter + 1
      /\ s.held = r.held \cup {"WRITE"}
      /\ s.mAsyncWriteInProgress
      /\ s.mAsyncReadInProgress <=> r.mAsyncReadInProgress
      /\ s.alive = r.alive
      /\ s.mOnDoneCalled = r.mOnDoneCalled
      /\ s.mServerStreamingDone = r.mServerStreamingDone
      /\ s.mClientStreamingDone = r.mClientStreamingDone
      /\ s.asserted = r.asserted
  BY Fields DEF doSendResponse, Write, GrpcHolds, AsyncOpStarted, IsJob
<1>2. s.mAsyncReadInProgress \in BOOLEAN /\ s.mAsyncWriteInProgress \in BOOLEAN
  BY Fields DEF doSendResponse, Write, GrpcHolds, AsyncOpStarted, IsJob
<1> HIDE DEF s
<1>3. IsJob(s)
  BY <1>1, <1>2 DEF IsJob, TagOp, AsyncOpType
<1>4. QED
  BY <1>1, <1>3 DEF HandsOver, s

LEMMA FinishStarted ==
  ASSUME NEW r, IsJob(r)
  PROVE  HandsOver(r, "FINISH", doFinish(r))
<1> DEFINE s == doFinish(r)
<1>1. /\ DOMAIN s = JobFields /\ s.type = r.type /\ s.finishes = r.finishes + 1
      /\ s.mAsyncOpCounter = r.mAsyncOpCounter + 1
      /\ s.held = r.held \cup {"FINISH"}
      /\ s.mAsyncWriteInProgress <=> r.mAsyncWriteInProgress
      /\ s.mAsyncReadInProgress <=> r.mAsyncReadInProgress
      /\ s.alive = r.alive
      /\ s.mOnDoneCalled = r.mOnDoneCalled
      /\ s.mServerStreamingDone = r.mServerStreamingDone
      /\ s.mClientStreamingDone = r.mClientStreamingDone
      /\ s.asserted = r.asserted
  BY Fields DEF doFinish, Finish, GrpcHolds, AsyncOpStarted, IsJob
<1>2. s.mAsyncReadInProgress \in BOOLEAN /\ s.mAsyncWriteInProgress \in BOOLEAN
  BY Fields DEF doFinish, Finish, GrpcHolds, AsyncOpStarted, IsJob
<1> HIDE DEF s
<1>3. IsJob(s)
  BY <1>1, <1>2 DEF IsJob, TagOp, AsyncOpType
<1>4. QED
  BY <1>1, <1>3 DEF HandsOver, s
-----------------------------------------------------------------------------
(* A handler retires its operation and then may start others. *)

LEMMA RetiredThenStarts ==
  ASSUME NEW r, NEW F, NEW op, NEW r1, NEW r2,
         JobInv(r1, F \ {op}), r1.alive, r1.type = r.type,
         r1.held = r.held, Starts(r1, F \ {op}, r2)
  PROVE  Handled(r, F, op, r2)
<1>1. F # {op}
  BY DEF JobInv, BooksFit
<1>2. QED
  BY <1>1 DEF Starts, Handled

LEMMA RetiredOnly ==
  ASSUME NEW r, NEW F, NEW op, NEW r2,
         r2.type = r.type, r2.held = r.held, JobInv(r2, F \ {op})
  PROVE  Handled(r, F, op, r2)
<1>1. (F \ {op}) \cup r2.held = F \ {op}
  BY DEF JobInv
<1>2. QED
  BY <1>1 DEF Handled

LEMMA SameBooksStarts ==
  ASSUME NEW r, NEW F, NEW s, JobInv(r, F), r.alive, SameBooks(r, s)
  PROVE  Starts(r, F, s)
<1>1. JobInv(s, F)
  BY SameBooksInv
<1>2. s.held = r.held /\ F \cup s.held = F
  BY DEF JobInv, SameBooks
<1>3. QED
  BY <1>1, <1>2 DEF Starts, SameBooks

(* Changing messages, or what is known of the client, disturbs no book.    *)
LEMMA MessagesChange ==
  ASSUME NEW r, IsJob(r), NEW x
  PROVE  /\ SameBooks(r, [r EXCEPT !.mResponse = x])
         /\ SameBooks(r, [r EXCEPT !.mResponseQueue = x])
         /\ SameBooks(r, [r EXCEPT !.mRequest = x])
         /\ SameBooks(r, [r EXCEPT !.mClientStreamingDone = TRUE])
         /\ SameBooks(r, [r EXCEPT !.asserted = TRUE])
<1>1. SameBooks(r, [r EXCEPT !.mResponse = x])
  BY Fields DEF SameBooks, IsJob
<1>2. SameBooks(r, [r EXCEPT !.mResponseQueue = x])
  BY Fields DEF SameBooks, IsJob
<1>3. SameBooks(r, [r EXCEPT !.mRequest = x])
  BY Fields DEF SameBooks, IsJob
<1>4. SameBooks(r, [r EXCEPT !.mClientStreamingDone = TRUE])
  BY Fields DEF SameBooks, IsJob
<1>5. SameBooks(r, [r EXCEPT !.asserted = TRUE])
  BY Fields DEF SameBooks, IsJob
<1>6. QED
  BY <1>1, <1>2, <1>3, <1>4, <1>5
-----------------------------------------------------------------------------
(* The response queue *)

(* A message is queued; the write is started unless one is under way.      *)
LEMMA MessageSent ==
  ASSUME NEW r, NEW F, NEW response, JobInv(r, F), r.alive,
         "QUEUED_REQUEST" \notin F, r.finishes = 0,
         r.type \in {"ServerStreaming", "Bidirectional"}
  PROVE  LET r2 == SendMessage(r, response)
         IN  /\ Starts(r, F, r2)
             /\ r2.type = r.type
             /\ r2.finishes = 0
             /\ r2.held \subseteq r.held \cup {"WRITE"}
             /\ r2.mServerStreamingDone <=> r.mServerStreamingDone
<1> DEFINE q == Queued(r, response)
<1>1. SameBooks(r, q)
  BY MessagesChange DEF Queued, JobInv
<1>2. JobInv(q, F) /\ Starts(r, F, q) /\ IsJob(q)
  BY <1>1, SameBooksInv, SameBooksStarts DEF SameBooks
<1>0. /\ q.type = r.type /\ q.finishes = 0 /\ q.held = r.held /\ q.alive
      /\ q.mServerStreamingDone <=> r.mServerStreamingDone
  BY <1>1 DEF SameBooks
<1> HIDE DEF q
<1>3. CASE AsyncWriteInProgress(r)
  <2>1. SendMessage(r, response) = q
    BY <1>3 DEF SendMessage, q
  <2>2. QED
    BY <1>0, <1>2, <2>1
<1>4. CASE ~AsyncWriteInProgress(r)
  <2>1. SendMessage(r, response) = doSendResponse(q)
    BY <1>4 DEF SendMessage, q
  <2>2. "WRITE" \notin F
    BY <1>4 DEF AsyncWriteInProgress, JobInv, BooksFit
  <2>3. HandsOver(q, "WRITE", doSendResponse(q))
    BY <1>2, WriteStarted
  <2>4. Starts(q, F, doSendResponse(q))
    BY <1>0, <1>2, <2>2, <2>3, OpStarted
  <2>5. Starts(r, F, doSendResponse(q))
    BY <1>0, <2>4 DEF Starts
  <2>6. QED
    BY <1>0, <2>1, <2>3, <2>5 DEF HandsOver
<1>5. QED
  BY <1>3, <1>4

(* No more responses: the RPC is finished unless a write is under way.     *)
LEMMA EndSent ==
  ASSUME NEW r, NEW F, JobInv(r, F), r.alive,
         "QUEUED_REQUEST" \notin F, "READ" \notin F, r.finishes = 0
  PROVE  Starts(r, F, SendEnd(r))
<1> DEFINE e == [r EXCEPT !.mServerStreamingDone = TRUE]
<1>1. /\ IsJob(e) /\ e.type = r.type /\ e.alive = r.alive
      /\ e.mAsyncOpCounter = r.mAsyncOpCounter
      /\ e.mAsyncReadInProgress = r.mAsyncReadInProgress
      /\ e.mAsyncWriteInProgress = r.mAsyncWriteInProgress
      /\ e.mOnDoneCalled = r.mOnDoneCalled
      /\ e.finishes = r.finishes
      /\ e.held = r.held
  BY Fields DEF JobInv, IsJob
<1>0. SendEnd(r) = IF AsyncWriteInProgress(r) THEN e ELSE doFinish(e)
  BY DEF SendEnd
<1> HIDE DEF e
<1>2. BooksFit(e, F) /\ StagesFit(e, F)
  BY <1>1 DEF JobInv, BooksFit, StagesFit
<1>3. JobInv(e, F) /\ e.alive
  BY <1>1, <1>2 DEF JobInv
<1>4. CASE AsyncWriteInProgress(r)
  <2>1. F \cup e.held = F
    BY <1>1 DEF JobInv
  <2>2. QED
    BY <1>0, <1>1, <1>3, <1>4, <2>1 DEF Starts
<1>5. CASE ~AsyncWriteInProgress(r)
  <2>1. "WRITE" \notin F
    BY <1>5 DEF AsyncWriteInProgress, JobInv, BooksFit
  <2>2. "FINISH" \notin F
    BY DEF JobInv, StagesFit
  <2>3. Starts(e, F, doFinish(e))
    BY <1>1, <1>3, <2>1, <2>2, FinishStarted, OpStarted
  <2>4. QED
    BY <1>0, <1>1, <1>5, <2>3 DEF Starts
<1>6. QED
  BY <1>4, <1>5

(* A write's tag, in either streaming class that writes.                   *)
LEMMA WriteHandled ==
  ASSUME NEW r, NEW F, NEW ok, JobInv(r, F), r.alive,
         "WRITE" \in F, "WRITE" \notin r.held
  PROVE  Handled(r, F, "WRITE", ResponseWritten(r, ok))
<1> DEFINE t == AsyncOpFinished(r, "WRITE")
           p == [t EXCEPT !.mResponseQueue = Tail(@)]
           G == F \ {"WRITE"}
<1>1. /\ JobInv(t, G) /\ t.held = r.held /\ t.type = r.type
      /\ t.alive => /\ t.finishes = r.finishes
                    /\ t.mServerStreamingDone = r.mServerStreamingDone
  BY OpFinished DEF AsyncOpType
<1>2. /\ r.finishes = 0 /\ "QUEUED_REQUEST" \notin F
      /\ r.type \in {"ServerStreaming", "Bidirectional"}
      /\ r.mServerStreamingDone => "READ" \notin F
  BY DEF JobInv, StagesFit, IsJob
<1>0. ResponseWritten(r, ok) =
        CASE ~t.alive -> t
          [] t.alive /\ ok /\ p.mResponseQueue # <<>> -> doSendResponse(p)
          [] t.alive /\ ok /\ p.mResponseQueue = <<>> /\ p.mServerStreamingDone
               -> doFinish(p)
          [] OTHER -> p
  BY DEF ResponseWritten
<1>3. SameBooks(t, p)
  BY <1>1, MessagesChange DEF JobInv
<1> HIDE DEF t, p
<1>4. /\ p.held = r.held /\ p.type = r.type
      /\ t.alive => JobInv(p, G)
  BY <1>1, <1>3, SameBooksInv DEF SameBooks
<1>5. ASSUME t.alive
      PROVE  /\ p.alive /\ IsJob(p) /\ p.finishes = 0 /\ p.type = r.type
             /\ p.mServerStreamingDone => "READ" \notin G
             /\ "QUEUED_REQUEST" \notin G /\ "WRITE" \notin G
             /\ "FINISH" \notin G
  <2>1. /\ p.alive /\ IsJob(p) /\ p.finishes = 0 /\ p.type = r.type
        /\ p.mServerStreamingDone => "READ" \notin G
    BY <1>1, <1>2, <1>3, <1>5 DEF SameBooks
  <2>2. "FINISH" \notin G
    BY <1>2 DEF JobInv, StagesFit
  <2>3. QED
    BY <1>2, <2>1, <2>2
<1> DEFINE r2 == ResponseWritten(r, ok)
<1>6. CASE ~t.alive
  <2>1. r2 = t
    BY <1>0, <1>6
  <2>2. QED
    BY <1>1, <2>1, RetiredOnly
<1>7. CASE t.alive /\ r2 = doSendResponse(p)
  <2>1. HandsOver(p, "WRITE", doSendResponse(p))
    BY <1>5, <1>7, WriteStarted
  <2>2. Starts(p, G, doSendResponse(p))
    BY <1>2, <1>4, <1>5, <1>7, <2>1, OpStarted
  <2>3. QED
    BY <1>4, <1>5, <1>7, <2>2, RetiredThenStarts
<1>8. CASE t.alive /\ p.mServerStreamingDone /\ r2 = doFinish(p)
  <2>1. HandsOver(p, "FINISH", doFinish(p))
    BY <1>5, <1>8, FinishStarted
  <2>2. Starts(p, G, doFinish(p))
    BY <1>2, <1>4, <1>5, <1>8, <2>1, OpStarted
  <2>3. QED
    BY <1>4, <1>5, <1>8, <2>2, RetiredThenStarts
<1>9. CASE t.alive /\ r2 = p
  BY <1>4, <1>9, RetiredOnly
<1>10. \/ ~t.alive
       \/ t.alive /\ r2 = doSendResponse(p)
       \/ t.alive /\ p.mServerStreamingDone /\ r2 = doFinish(p)
       \/ t.alive /\ r2 = p
  BY <1>0
<1>11. QED
  BY <1>6, <1>7, <1>8, <1>9, <1>10
-----------------------------------------------------------------------------
(* The handlers.  First what they all begin with. *)

LEMMA FinishHandled ==
  ASSUME NEW r, NEW F, JobInv(r, F), r.alive,
         "FINISH" \in F, "FINISH" \notin r.held
  PROVE  Handled(r, F, "FINISH", OnFinish(r))
<1>1. /\ JobInv(OnFinish(r), F \ {"FINISH"})
      /\ OnFinish(r).held = r.held /\ OnFinish(r).type = r.type
  BY OpFinished DEF OnFinish, AsyncOpType
<1>2. QED
  BY <1>1, RetiredOnly

(* Once its request is accepted, a job has nothing in flight but perhaps   *)
(* the done event.                                                         *)
LEMMA RequestTaken ==
  ASSUME NEW r, NEW F, JobInv(r, F), r.alive,
         "QUEUED_REQUEST" \in F, "QUEUED_REQUEST" \notin r.held
  PROVE  LET a == RequestAccepted(r)
             G == F \ {"QUEUED_REQUEST"}
         IN  /\ JobInv(a, G) /\ IsJob(a)
             /\ a.held = r.held
             /\ a.type = r.type
             /\ a.alive => /\ a.finishes = 0
                           /\ ~a.mServerStreamingDone
                           /\ G \cap AsyncOpType = {}
<1> DEFINE a == RequestAccepted(r)
           G == F \ {"QUEUED_REQUEST"}
<1>1. /\ JobInv(a, G)
      /\ a.held = r.held
      /\ a.type = r.type
      /\ a.alive => /\ a.finishes = r.finishes
                    /\ a.mServerStreamingDone = r.mServerStreamingDone
  BY OpFinished DEF RequestAccepted, AsyncOpType
<1>2. r.finishes = 0 /\ ~r.mServerStreamingDone /\ G \cap AsyncOpType = {}
  BY DEF JobInv, StagesFit, AsyncOpType
<1> HIDE DEF a
<1>3. IsJob(a)
  BY <1>1 DEF JobInv
<1>4. a.alive => ~a.mServerStreamingDone
  BY <1>1, <1>2, Zenon
<1>5. QED
  BY <1>1, <1>2, <1>3, <1>4 DEF a

(* Once its read is retired, a job may start whatever is not under way.    *)
LEMMA ReadTaken ==
  ASSUME NEW r, NEW F, JobInv(r, F), r.alive,
         "READ" \in F, "READ" \notin r.held
  PROVE  LET a == AsyncOpFinished(r, "READ")
             G == F \ {"READ"}
         IN  /\ JobInv(a, G) /\ IsJob(a)
             /\ a.held = r.held
             /\ a.type = r.type
             /\ a.alive => /\ a.finishes = 0
                           /\ ~a.mServerStreamingDone
                           /\ "QUEUED_REQUEST" \notin G
                           /\ "READ" \notin G
                           /\ "FINISH" \notin G
<1> DEFINE a == AsyncOpFinished(r, "READ")
           G == F \ {"READ"}
<1>1. /\ JobInv(a, G)
      /\ a.held = r.held
      /\ a.type = r.type
      /\ a.alive => /\ a.finishes = r.finishes
                    /\ a.mServerStreamingDone = r.mServerStreamingDone
  BY OpFinished DEF AsyncOpType
<1>2. /\ r.finishes = 0 /\ ~r.mServerStreamingDone
      /\ "QUEUED_REQUEST" \notin G /\ "READ" \notin G /\ "FINISH" \notin G
  BY DEF JobInv, StagesFit, IsJob
<1> HIDE DEF a
<1>3. IsJob(a)
  BY <1>1 DEF JobInv
<1>4. a.alive => ~a.mServerStreamingDone
  BY <1>1, <1>2, Zenon
<1>5. QED
  BY <1>1, <1>2, <1>3, <1>4 DEF a

(* Finish after some messages have changed. *)
LEMMA FinishedAfter ==
  ASSUME NEW a, NEW G, NEW s, JobInv(a, G), a.alive, SameBooks(a, s),
         a.finishes = 0, "QUEUED_REQUEST" \notin G, "READ" \notin G,
         "WRITE" \notin G
  PROVE  Starts(a, G, doFinish(s))
<1>1. /\ JobInv(s, G) /\ IsJob(s) /\ s.alive /\ s.finishes = 0
      /\ s.held = a.held /\ s.type = a.type
  BY SameBooksInv DEF SameBooks
<1>2. "FINISH" \notin G
  BY DEF JobInv, StagesFit
<1>3. HandsOver(s, "FINISH", doFinish(s))
  BY <1>1, FinishStarted
<1>4. Starts(s, G, doFinish(s))
  BY <1>1, <1>2, <1>3, OpStarted
<1>5. QED
  BY <1>1, <1>4 DEF Starts

(* The next read. *)
LEMMA ReadAgain ==
  ASSUME NEW a, NEW G, JobInv(a, G), a.alive, a.finishes = 0,
         ~a.mServerStreamingDone, "QUEUED_REQUEST" \notin G, "READ" \notin G
  PROVE  Starts(a, G, StartRead(a))
<1>1. HandsOver(a, "READ", StartRead(a))
  BY ReadStarted DEF JobInv
<1>2. QED
  BY <1>1, OpStarted

LEMMA UnaryRequestHandled ==
  ASSUME NEW r, NEW F, NEW ok, NEW response, JobInv(r, F), r.alive,
         "QUEUED_REQUEST" \in F, "QUEUED_REQUEST" \notin r.held
  PROVE  Handled(r, F, "QUEUED_REQUEST", UnaryOnRead(r, ok, response))
<1> DEFINE a == RequestAccepted(r)
           G == F \ {"QUEUED_REQUEST"}
           s == [a EXCEPT !.mResponse = response]
           f == [a EXCEPT !.asserted = TRUE]
           r2 == UnaryOnRead(r, ok, response)
<1>0. \/ r2 = a
      \/ a.alive /\ r2 = doFinish(s)
      \/ a.alive /\ r2 = f
  <2>1. CASE ~a.alive
    BY <2>1 DEF UnaryOnRead
  <2>2. CASE a.alive /\ ok
    BY <2>2 DEF UnaryOnRead, UnarySendResponse, doFinish
  <2>3. CASE a.alive /\ ~ok
    BY <2>3 DEF UnaryOnRead
  <2>4. QED
    BY <2>1, <2>2, <2>3
<1>1. /\ JobInv(a, G) /\ IsJob(a) /\ a.held = r.held /\ a.type = r.type
      /\ a.alive => a.finishes = 0 /\ G \cap AsyncOpType = {}
  BY RequestTaken
<1>2. SameBooks(a, s) /\ SameBooks(a, f)
  BY <1>1, MessagesChange
<1> HIDE DEF a, s, f, r2
<1>3. CASE r2 = a
  BY <1>1, <1>3, RetiredOnly DEF r2
<1>4. CASE a.alive /\ r2 = doFinish(s)
  <2>1. Starts(a, G, r2)
    BY <1>1, <1>2, <1>4, FinishedAfter DEF AsyncOpType
  <2>2. QED
    BY <1>1, <1>4, <2>1, RetiredThenStarts DEF r2
<1>5. CASE a.alive /\ r2 = f
  <2>1. Starts(a, G, r2)
    BY <1>1, <1>2, <1>5, SameBooksStarts
  <2>2. QED
    BY <1>1, <1>5, <2>1, RetiredThenStarts DEF r2
<1>6. QED
  BY <1>0, <1>3, <1>4, <1>5

(* OnInit of the two classes that read a stream. *)
LEMMA StreamRequestHandled ==
  ASSUME NEW r, NEW F, NEW ok, JobInv(r, F), r.alive,
         "QUEUED_REQUEST" \in F, "QUEUED_REQUEST" \notin r.held
  PROVE  /\ Handled(r, F, "QUEUED_REQUEST", ClientStreamingOnInit(r, ok))
         /\ Handled(r, F, "QUEUED_REQUEST", BidirectionalOnInit(r, ok))
<1> DEFINE a == RequestAccepted(r)
           G == F \ {"QUEUED_REQUEST"}
           r2 == ClientStreamingOnInit(r, ok)
<1>b. BidirectionalOnInit(r, ok) = r2
  BY DEF ClientStreamingOnInit, BidirectionalOnInit
<1>c. r2 = a \/ (a.alive /\ r2 = StartRead(a))
  <2>1. CASE a.alive /\ ok
    BY <2>1 DEF ClientStreamingOnInit
  <2>2. CASE ~(a.alive /\ ok)
    BY <2>2 DEF ClientStreamingOnInit
  <2>3. QED
    BY <2>1, <2>2
<1>0. /\ BidirectionalOnInit(r, ok) = r2
      /\ r2 = a \/ (a.alive /\ r2 = StartRead(a))
  BY <1>b, <1>c
<1>1. /\ JobInv(a, G) /\ a.held = r.held /\ a.type = r.type
      /\ a.alive => /\ a.finishes = 0 /\ ~a.mServerStreamingDone
                    /\ G \cap AsyncOpType = {}
  BY RequestTaken
<1> HIDE DEF a, r2
<1>2. CASE r2 = a
  BY <1>0, <1>1, <1>2, RetiredOnly DEF r2
<1>3. CASE a.alive /\ r2 = StartRead(a)
  <2>1. Starts(a, G, r2)
    BY <1>1, <1>3, ReadAgain DEF AsyncOpType
  <2>2. QED
    BY <1>0, <1>1, <1>3, <2>1, RetiredThenStarts DEF r2
<1>4. QED
  BY <1>0, <1>2, <1>3

LEMMA ClientStreamingReadHandled ==
  ASSUME NEW r, NEW F, NEW ok, NEW response, JobInv(r, F), r.alive,
         r.type = "ClientStreaming",
         "READ" \in F, "READ" \notin r.held
  PROVE  Handled(r, F, "READ", ClientStreamingOnRead(r, ok, response))
<1> DEFINE a == AsyncOpFinished(r, "READ")
           G == F \ {"READ"}
           d == [a EXCEPT !.mClientStreamingDone = TRUE]
           s == [d EXCEPT !.mResponse = response]
           f == [d EXCEPT !.asserted = TRUE]
           r2 == ClientStreamingOnRead(r, ok, response)
<1>0. \/ r2 = a
      \/ a.alive /\ r2 = StartRead(a)
      \/ a.alive /\ r2 = doFinish(s)
      \/ a.alive /\ r2 = f
  <2>1. CASE ~a.alive
    BY <2>1 DEF ClientStreamingOnRead
  <2>2. CASE a.alive /\ ok
    BY <2>2 DEF ClientStreamingOnRead
  <2>3. CASE a.alive /\ ~ok
    <3>1. r2 = ClientStreamingSendResponse(d, response)
      BY <2>3 DEF ClientStreamingOnRead
    <3>2. r2 = doFinish(s) \/ r2 = f
      BY <3>1 DEF ClientStreamingSendResponse, doFinish
    <3>3. QED
      BY <2>3, <3>2
  <2>4. QED
    BY <2>1, <2>2, <2>3
<1>1. /\ JobInv(a, G) /\ IsJob(a) /\ a.held = r.held /\ a.type = r.type
      /\ a.alive => /\ a.finishes = 0 /\ ~a.mServerStreamingDone
                    /\ "QUEUED_REQUEST" \notin G /\ "READ" \notin G
  BY ReadTaken
<1>2. SameBooks(a, d)
  BY <1>1, MessagesChange
<1>d. IsJob(d)
  BY <1>2 DEF SameBooks
<1>3. SameBooks(d, s) /\ SameBooks(d, f)
  BY <1>d, MessagesChange
<1> HIDE DEF a, d, s, f, r2
<1>4. SameBooks(a, s) /\ SameBooks(a, f)
  BY <1>2, <1>3 DEF SameBooks
<1>5. a.alive => "WRITE" \notin G
  BY <1>1 DEF JobInv, StagesFit
<1>6. CASE r2 = a
  BY <1>1, <1>6, RetiredOnly DEF r2
<1>7. CASE a.alive /\ r2 = StartRead(a)
  <2>1. Starts(a, G, r2)
    BY <1>1, <1>7, ReadAgain
  <2>2. QED
    BY <1>1, <1>7, <2>1, RetiredThenStarts DEF r2
<1>8. CASE a.alive /\ r2 = doFinish(s)
  <2>1. Starts(a, G, r2)
    BY <1>1, <1>4, <1>5, <1>8, FinishedAfter
  <2>2. QED
    BY <1>1, <1>8, <2>1, RetiredThenStarts DEF r2
<1>9. CASE a.alive /\ r2 = f
  <2>1. Starts(a, G, r2)
    BY <1>1, <1>4, <1>9, SameBooksStarts
  <2>2. QED
    BY <1>1, <1>9, <2>1, RetiredThenStarts DEF r2
<1>10. QED
  BY <1>0, <1>6, <1>7, <1>8, <1>9

(* Starting twice in a row is starting. *)
LEMMA StartsTwice ==
  ASSUME NEW a, NEW G, NEW b, NEW c,
         Starts(a, G, b), Starts(b, G \cup b.held, c)
  PROVE  Starts(a, G, c)
<1>1. b.held \subseteq c.held /\ a.held \subseteq b.held
  BY DEF Starts
<1>2. (G \cup b.held) \cup c.held = G \cup c.held
  BY <1>1
<1>3. (c.held \ a.held) \cap G = {}
  BY <1>1 DEF Starts
<1>4. QED
  BY <1>1, <1>2, <1>3 DEF Starts

(* The processor's loop leaves a write in flight, or nothing if there is   *)
(* nothing to send.                                                        *)
LEMMA AllSent ==
  ASSUME NEW a, NEW G, NEW responses, JobInv(a, G), a.alive,
         "QUEUED_REQUEST" \notin G, a.finishes = 0,
         a.type = "ServerStreaming"
  PROVE  LET s == SendAll(a, responses)
         IN  /\ Starts(a, G, s)
             /\ s.finishes = 0
             /\ s.held \subseteq a.held \cup {"WRITE"}
<1> DEFINE m == SendMessage(a, Head(responses))
           q == [m EXCEPT !.mResponseQueue = @ \o Tail(responses)]
           p == [m EXCEPT !.mResponseQueue = m.mResponseQueue \o Tail(responses)]
           s == SendAll(a, responses)
<1>0. s = IF responses = <<>> THEN a ELSE q
  BY DEF SendAll
<1>1. /\ Starts(a, G, m) /\ m.finishes = 0
      /\ m.held \subseteq a.held \cup {"WRITE"}
  BY MessageSent
<1>p. q = p
  OBVIOUS
<1> HIDE DEF m
<1>2. IsJob(m)
  BY <1>1 DEF Starts, JobInv
<1>3. SameBooks(m, p)
  BY <1>2, MessagesChange
<1> HIDE DEF p, q, s
<1>4. JobInv(p, G \cup m.held)
  BY <1>1, <1>3, SameBooksInv DEF Starts
<1>5. CASE responses = <<>>
  <2>1. a.held \subseteq G
    BY DEF JobInv
  <2>2. G \cup a.held = G
    BY <2>1
  <2>3. QED
    BY <1>0, <1>5, <2>2 DEF Starts, s
<1>6. CASE responses # <<>>
  <2>1. Starts(a, G, p)
    BY <1>1, <1>3, <1>4 DEF SameBooks, Starts
  <2>2. p.finishes = 0 /\ p.held = m.held
    BY <1>1, <1>3 DEF SameBooks
  <2>3. QED
    BY <1>0, <1>1, <1>p, <1>6, <2>1, <2>2 DEF s
<1>7. QED
  BY <1>5, <1>6

LEMMA ServerStreamingRequestHandled ==
  ASSUME NEW r, NEW F, NEW ok, NEW responses, JobInv(r, F), r.alive,
         r.type = "ServerStreaming",
         "QUEUED_REQUEST" \in F, "QUEUED_REQUEST" \notin r.held
  PROVE  Handled(r, F, "QUEUED_REQUEST",
                 ServerStreamingOnRead(r, ok, responses))
<1> DEFINE a == RequestAccepted(r)
           G == F \ {"QUEUED_REQUEST"}
           s == SendAll(a, responses)
           r2 == ServerStreamingOnRead(r, ok, responses)
<1>0. r2 = a \/ (a.alive /\ r2 = SendEnd(s))
  <2>1. CASE a.alive /\ ok
    BY <2>1 DEF ServerStreamingOnRead
  <2>2. CASE ~(a.alive /\ ok)
    BY <2>2 DEF ServerStreamingOnRead
  <2>3. QED
    BY <2>1, <2>2
<1>1. /\ JobInv(a, G) /\ a.held = r.held /\ a.type = r.type
      /\ a.alive => a.finishes = 0 /\ G \cap AsyncOpType = {}
  BY RequestTaken
<1> HIDE DEF a, r2
<1>2. CASE r2 = a
  BY <1>1, <1>2, RetiredOnly DEF r2
<1>3. CASE a.alive /\ r2 = SendEnd(s)
  <2>1. "QUEUED_REQUEST" \notin G /\ "READ" \notin G /\ a.held \subseteq G
    BY <1>1, <1>3 DEF AsyncOpType, JobInv
  <2>2. /\ Starts(a, G, s) /\ s.finishes = 0
        /\ s.held \subseteq a.held \cup {"WRITE"}
    BY <1>1, <1>3, <2>1, AllSent
  <2> HIDE DEF s
  <2>3. "QUEUED_REQUEST" \notin G \cup s.held /\ "READ" \notin G \cup s.held
    BY <2>1, <2>2
  <2>4. Starts(s, G \cup s.held, r2)
    BY <1>3, <2>2, <2>3, EndSent DEF Starts
  <2>5. Starts(a, G, r2)
    BY <2>2, <2>4, StartsTwice
  <2>6. QED
    BY <1>1, <1>3, <2>5, RetiredThenStarts DEF r2
<1>4. QED
  BY <1>0, <1>2, <1>3

LEMMA BidirectionalReadHandled ==
  ASSUME NEW r, NEW F, NEW ok, JobInv(r, F), r.alive,
         r.type = "Bidirectional",
         "READ" \in F, "READ" \notin r.held
  PROVE  Handled(r, F, "READ", BidirectionalOnRead(r, ok))
<1> DEFINE a == AsyncOpFinished(r, "READ")
           G == F \ {"READ"}
           m == EchoNote(a)
           d == [a EXCEPT !.mClientStreamingDone = TRUE]
           f == [d EXCEPT !.asserted = TRUE]
           r2 == BidirectionalOnRead(r, ok)
<1>0. \/ r2 = a
      \/ a.alive /\ r2 = StartRead(m)
      \/ a.alive /\ r2 = SendEnd(d)
      \/ a.alive /\ r2 = f
  <2>1. CASE ~a.alive
    BY <2>1 DEF BidirectionalOnRead
  <2>2. CASE a.alive /\ ok
    BY <2>2 DEF BidirectionalOnRead
  <2>3. CASE a.alive /\ ~ok
    <3>1. r2 = BidirectionalSendEnd(d)
      BY <2>3 DEF BidirectionalOnRead, EndOfNotes
    <3>2. r2 = SendEnd(d) \/ r2 = f
      BY <3>1 DEF BidirectionalSendEnd
    <3>3. QED
      BY <2>3, <3>2
  <2>4. QED
    BY <2>1, <2>2, <2>3
<1>1. /\ JobInv(a, G) /\ IsJob(a) /\ a.held = r.held /\ a.type = r.type
      /\ a.alive => /\ a.finishes = 0 /\ ~a.mServerStreamingDone
                    /\ "QUEUED_REQUEST" \notin G /\ "READ" \notin G
  BY ReadTaken
<1>2. SameBooks(a, d)
  BY <1>1, MessagesChange
<1>d. IsJob(d)
  BY <1>2 DEF SameBooks
<1>3. SameBooks(d, f)
  BY <1>d, MessagesChange
<1> HIDE DEF a, d, f, r2
<1>4. SameBooks(a, f)
  BY <1>2, <1>3 DEF SameBooks
<1>5. CASE r2 = a
  BY <1>1, <1>5, RetiredOnly DEF r2
<1>6. CASE a.alive /\ r2 = StartRead(m)
  <2>1. /\ Starts(a, G, m) /\ m.finishes = 0
        /\ m.held \subseteq a.held \cup {"WRITE"}
        /\ ~m.mServerStreamingDone
    BY <1>1, <1>6, MessageSent DEF EchoNote
  <2> HIDE DEF m
  <2>2. a.held \subseteq G
    BY <1>1 DEF JobInv
  <2>3. /\ "QUEUED_REQUEST" \notin G \cup m.held
        /\ "READ" \notin G \cup m.held
    BY <1>1, <1>6, <2>1, <2>2
  <2>j. JobInv(m, G \cup m.held) /\ m.alive
    BY <2>1 DEF Starts
  <2>4. Starts(m, G \cup m.held, r2)
    BY <1>6, <2>1, <2>3, <2>j, ReadAgain
  <2>5. Starts(a, G, r2)
    BY <2>1, <2>4, StartsTwice
  <2>6. QED
    BY <1>1, <1>6, <2>5, RetiredThenStarts DEF r2
<1>7. CASE a.alive /\ r2 = SendEnd(d)
  <2>1. /\ JobInv(d, G) /\ d.alive /\ d.finishes = 0 /\ d.held = a.held
        /\ d.type = a.type
    BY <1>1, <1>2, <1>7, SameBooksInv DEF SameBooks
  <2>2. Starts(d, G, r2)
    BY <1>1, <1>7, <2>1, EndSent
  <2>3. d.held = r.held /\ d.type = r.type
    BY <1>1, <2>1
  <2>4. QED
    BY <2>1, <2>2, <2>3, RetiredThenStarts DEF r2
<1>8. CASE a.alive /\ r2 = f
  <2>1. Starts(a, G, r2)
    BY <1>1, <1>4, <1>8, SameBooksStarts
  <2>2. QED
    BY <1>1, <1>8, <2>1, RetiredThenStarts DEF r2
<1>9. QED
  BY <1>0, <1>5, <1>6, <1>7, <1>8

-----------------------------------------------------------------------------
(* What the handlers do to the messages.  The books were dealt with above. *)

\* The fields that the books consist of.
Books == {"mAsyncOpCounter", "mAsyncReadInProgress", "mAsyncWriteInProgress",
          "held"}

\* s is r but for its books and the fields in "changed".
Keeps(r, s, changed) == \A x \in JobFields \ (Books \cup changed) : s[x] = r[x]

\* Append and \o under names of their own, to reason about sequences without
\* looking into them.
Followed(s, e) == Append(s, e)
Joined(s, t)   == s \o t

LEMMA Retired ==
  ASSUME NEW r, NEW F, NEW op, JobInv(r, F), AsyncOpFinished(r, op).alive
  PROVE  /\ Keeps(r, AsyncOpFinished(r, op), {})
         /\ AsyncOpFinished(r, op).held = r.held
         /\ IsJob(r) /\ DOMAIN AsyncOpFinished(r, op) = JobFields
<1> DEFINE s == OpRetired(r, op)
<1>1. /\ DOMAIN s = JobFields /\ s.held = r.held
      /\ \A x \in JobFields \ Books : s[x] = r[x]
  BY Fields DEF OpRetired, IsJob, JobInv, Books
<1>2. AsyncOpFinished(r, op) = Done(s) \/ AsyncOpFinished(r, op) = s
  BY DEF AsyncOpFinished
<1>3. ~Done(s).alive
  BY Fields DEF Done, FreeMemory, RpcJobFields
<1>4. AsyncOpFinished(r, op) = s
  BY <1>2, <1>3
<1> HIDE DEF s
<1>5. QED
  BY <1>1, <1>4 DEF Keeps, JobInv

LEMMA Started ==
  ASSUME NEW r, DOMAIN r = JobFields
  PROVE  /\ Keeps(r, StartRead(r), {})
         /\ StartRead(r).held = r.held \cup {"READ"}
         /\ Keeps(r, doFinish(r), {"finishes"})
         /\ doFinish(r).finishes = r.finishes + 1
         /\ doFinish(r).held = r.held \cup {"FINISH"}
         /\ Keeps(r, doSendResponse(r), {"written"})
         /\ doSendResponse(r).written = Followed(r.written, Head(r.mResponseQueue))
         /\ doSendResponse(r).held = r.held \cup {"WRITE"}
         /\ DOMAIN StartRead(r) = JobFields /\ DOMAIN doFinish(r) = JobFields
         /\ DOMAIN doSendResponse(r) = JobFields
<1>1. /\ Keeps(r, StartRead(r), {})
      /\ StartRead(r).held = r.held \cup {"READ"}
      /\ DOMAIN StartRead(r) = JobFields
  BY Fields DEF Keeps, Books, StartRead, Read, GrpcHolds, AsyncOpStarted
<1>2. /\ Keeps(r, doFinish(r), {"finishes"})
      /\ doFinish(r).finishes = r.finishes + 1
      /\ doFinish(r).held = r.held \cup {"FINISH"}
      /\ DOMAIN doFinish(r) = JobFields
  BY Fields DEF Keeps, Books, doFinish, Finish, GrpcHolds, AsyncOpStarted
<1>3. /\ Keeps(r, doSendResponse(r), {"written"})
      /\ doSendResponse(r).written = Followed(r.written, Head(r.mResponseQueue))
      /\ doSendResponse(r).held = r.held \cup {"WRITE"}
      /\ DOMAIN doSendResponse(r) = JobFields
  BY Fields DEF Keeps, Books, doSendResponse, Write, GrpcHolds, AsyncOpStarted, Followed
<1>4. QED
  BY <1>1, <1>2, <1>3

LEMMA JoinsQueue ==
  ASSUME NEW r, DOMAIN r = JobFields, NEW response
  PROVE  /\ Keeps(r, Queued(r, response), {"mResponseQueue"})
         /\ Queued(r, response).mResponseQueue = Followed(r.mResponseQueue, response)
         /\ Queued(r, response).held = r.held
         /\ DOMAIN Queued(r, response) = JobFields
BY Fields DEF Keeps, Books, Queued, Followed

(* The handler of a request tag of the unary class answers. *)
LEMMA UnaryAnswers ==
  ASSUME NEW r, NEW F, NEW response, JobInv(r, F),
         NEW r2, r2 = UnaryOnRead(r, TRUE, response), r2.alive
  PROVE  /\ Keeps(r, r2, {"mResponse", "finishes"})
         /\ r2.mResponse = response
         /\ r2.finishes = r.finishes + 1
<1> DEFINE a == AsyncOpFinished(r, "QUEUED_REQUEST")
           s == [a EXCEPT !.mResponse = response]
<1>1. a.alive /\ r2 = doFinish(s)
  BY DEF UnaryOnRead, UnarySendResponse, doFinish, RequestAccepted
<1>2. Keeps(r, a, {}) /\ DOMAIN a = JobFields
  BY <1>1, Retired
<1> HIDE DEF a
<1>3. Keeps(a, s, {"mResponse"}) /\ s.mResponse = response /\ DOMAIN s = JobFields
  BY <1>2, Fields DEF Keeps
<1> HIDE DEF s
<1>4. Keeps(s, r2, {"finishes"}) /\ r2.finishes = s.finishes + 1
  BY <1>1, <1>3, Started
<1>5. QED
  BY <1>2, <1>3, <1>4, Fields DEF Keeps, Books

(* OnInit of the classes that read a stream changes no message. *)
LEMMA StreamAccepted ==
  ASSUME NEW r, NEW F, JobInv(r, F),
         NEW r2, r2 = ClientStreamingOnInit(r, TRUE)
                   \/ r2 = BidirectionalOnInit(r, TRUE), r2.alive
  PROVE  Keeps(r, r2, {}) /\ r2.held \subseteq r.held \cup {"READ"}
<1> DEFINE a == AsyncOpFinished(r, "QUEUED_REQUEST")
<1>1. a.alive /\ r2 = StartRead(a)
  BY DEF ClientStreamingOnInit, BidirectionalOnInit, RequestAccepted
<1>2. Keeps(r, a, {}) /\ DOMAIN a = JobFields /\ a.held = r.held
  BY <1>1, Retired
<1> HIDE DEF a
<1>3. Keeps(a, r2, {}) /\ r2.held = a.held \cup {"READ"}
  BY <1>1, <1>2, Started
<1>4. QED
  BY <1>2, <1>3 DEF Keeps

(* OnDone of a job that waits for operations in flight.                    *)
LEMMA DoneKeeps ==
  ASSUME NEW r, NEW F, JobInv(r, F), NEW s, s = OnDone(r), s.alive
  PROVE  Keeps(r, s, {"mOnDoneCalled"}) /\ s.held = r.held
<1> DEFINE t == [r EXCEPT !.mOnDoneCalled = TRUE]
<1>1. IsJob(t) /\ Keeps(r, t, {"mOnDoneCalled"}) /\ t.held = r.held
  BY Fields DEF IsJob, JobInv, Keeps
<1>2. s = IF t.mAsyncOpCounter = 0 THEN Done(t) ELSE t
  BY DEF OnDone
<1> HIDE DEF t
<1>3. ~Done(t).alive
  BY <1>1, DoneJob
<1>4. QED
  BY <1>1, <1>2, <1>3

(* The client streaming class asks for the next request, or answers.       *)
LEMMA StreamRead ==
  ASSUME NEW r, NEW F, NEW ok \in BOOLEAN, NEW response, JobInv(r, F),
         NEW r2, r2 = ClientStreamingOnRead(r, ok, response), r2.alive
  PROVE  /\ ok => Keeps(r, r2, {})
         /\ ~ok => /\ Keeps(r, r2, {"mResponse", "finishes",
                                    "mClientStreamingDone"})
                   /\ r2.mResponse = response
                   /\ r2.finishes = r.finishes + 1
                   /\ r2.mClientStreamingDone
<1> DEFINE a == AsyncOpFinished(r, "READ")
           d == [a EXCEPT !.mClientStreamingDone = TRUE]
           s == [d EXCEPT !.mResponse = response]
<1>1. a.alive
  BY DEF ClientStreamingOnRead
<1>2. Keeps(r, a, {}) /\ DOMAIN a = JobFields
  BY <1>1, Retired
<1>3. CASE ok
  <2>1. r2 = StartRead(a)
    BY <1>1, <1>3 DEF ClientStreamingOnRead
  <2> HIDE DEF a
  <2>2. Keeps(a, r2, {})
    BY <1>2, <2>1, Started
  <2>3. QED
    BY <1>2, <1>3, <2>2 DEF Keeps
<1>4. CASE ~ok
  <2>1. r2 = ClientStreamingSendResponse(d, response)
    BY <1>1, <1>4 DEF ClientStreamingOnRead
  <2> HIDE DEF a
  <2>2. /\ Keeps(a, d, {"mClientStreamingDone"}) /\ DOMAIN d = JobFields
        /\ d.mClientStreamingDone
    BY <1>2, Fields DEF Keeps
  <2> HIDE DEF d
  <2>3. r2 = doFinish(s)
    BY <2>1, <2>2 DEF ClientStreamingSendResponse, doFinish
  <2>4. Keeps(d, s, {"mResponse"}) /\ s.mResponse = response /\ DOMAIN s = JobFields
    BY <2>2, Fields DEF Keeps
  <2> HIDE DEF s
  <2>5. Keeps(s, r2, {"finishes"}) /\ r2.finishes = s.finishes + 1
    BY <2>3, <2>4, Started
  <2>6. QED
    BY <1>2, <1>4, <2>2, <2>4, <2>5, Fields DEF Keeps, Books
<1>5. QED
  BY <1>3, <1>4

(* A message joins the queue, and is written if no write is in flight.     *)
LEMMA MessageQueued ==
  ASSUME NEW r, NEW F, NEW response, JobInv(r, F), r.alive,
         NEW s, s = SendMessage(r, response)
  PROVE  /\ Keeps(r, s, {"mResponseQueue", "written"})
         /\ DOMAIN s = JobFields
         /\ s.mResponseQueue = Followed(r.mResponseQueue, response)
         /\ "WRITE" \in F => s.written = r.written /\ s.held = r.held
         /\ "WRITE" \notin F =>
              /\ s.written = Followed(r.written, Head(s.mResponseQueue))
              /\ s.held = r.held \cup {"WRITE"}
<1> DEFINE q == Queued(r, response)
<1>1. /\ Keeps(r, q, {"mResponseQueue"}) /\ DOMAIN q = JobFields
      /\ q.mResponseQueue = Followed(r.mResponseQueue, response)
      /\ q.held = r.held
  BY JoinsQueue DEF JobInv, IsJob
<1>2. "WRITE" \in F => s = q
  BY DEF SendMessage, AsyncWriteInProgress, JobInv, BooksFit
<1>3. "WRITE" \notin F => s = doSendResponse(q)
  BY DEF SendMessage, AsyncWriteInProgress, JobInv, BooksFit
<1> HIDE DEF q
<1>4. CASE "WRITE" \in F
  BY <1>1, <1>2, <1>4, Fields DEF Keeps, Books
<1>5. CASE "WRITE" \notin F
  <2>1. /\ Keeps(q, s, {"written"}) /\ DOMAIN s = JobFields
        /\ s.written = Followed(q.written, Head(q.mResponseQueue))
        /\ s.held = q.held \cup {"WRITE"}
    BY <1>1, <1>3, <1>5, Started
  <2>2. QED
    BY <1>1, <1>5, <2>1, Fields DEF Keeps, Books
<1>6. QED
  BY <1>4, <1>5

(* The end of the responses is noted, and the RPC finished if no write is  *)
(* in flight.                                                              *)
LEMMA EndQueued ==
  ASSUME NEW r, NEW F, JobInv(r, F), r.alive,
         NEW s, s = SendEnd(r)
  PROVE  /\ Keeps(r, s, {"mServerStreamingDone", "finishes"})
         /\ s.mServerStreamingDone
         /\ "WRITE" \in F => s.finishes = r.finishes /\ s.held = r.held
         /\ "WRITE" \notin F => /\ s.finishes = r.finishes + 1
                                /\ s.held = r.held \cup {"FINISH"}
<1> DEFINE e == [r EXCEPT !.mServerStreamingDone = TRUE]
<1>1. /\ Keeps(r, e, {"mServerStreamingDone"}) /\ DOMAIN e = JobFields
      /\ e.mServerStreamingDone /\ e.held = r.held
  BY Fields DEF JobInv, IsJob, Keeps
<1>2. "WRITE" \in F => s = e
  BY DEF SendEnd, AsyncWriteInProgress, JobInv, BooksFit
<1>3. "WRITE" \notin F => s = doFinish(e)
  BY DEF SendEnd, AsyncWriteInProgress, JobInv, BooksFit
<1> HIDE DEF e
<1>4. CASE "WRITE" \in F
  BY <1>1, <1>2, <1>4, Fields DEF Keeps, Books
<1>5. CASE "WRITE" \notin F
  <2>1. /\ Keeps(e, s, {"finishes"}) /\ s.finishes = e.finishes + 1
        /\ s.held = e.held \cup {"FINISH"}
    BY <1>1, <1>3, <1>5, Started
  <2>2. QED
    BY <1>1, <1>5, <2>1, Fields DEF Keeps, Books
<1>6. QED
  BY <1>4, <1>5

-----------------------------------------------------------------------------
(* The responses on their way out *)

IsSequence(s) == \E T : s \in Seq(T)

\* Everything the application has sent and no write has lost, in order: the
\* front of the queue is in "written" too while its write is in flight.
Outgoing(r, F) ==
  Joined(r.written,
         IF "WRITE" \in F THEN Tail(r.mResponseQueue) ELSE r.mResponseQueue)

QueueFits(r, F) ==
  /\ IsSequence(r.written)
  /\ IsSequence(r.mResponseQueue)
  /\ "WRITE" \in F => /\ r.mResponseQueue # <<>>
                     /\ r.written # <<>>
                     /\ Head(r.mResponseQueue) = r.written[Len(r.written)]

LEMMA EmptySequence == IsSequence(<<>>)
<1>1. <<>> \in Seq({})
  OBVIOUS
<1>2. QED
  BY <1>1 DEF IsSequence

LEMMA SequenceTail ==
  ASSUME NEW s, IsSequence(s), s # <<>>
  PROVE  IsSequence(Tail(s))
<1>1. PICK T : s \in Seq(T)
  BY DEF IsSequence
<1>2. Tail(s) \in Seq(T)
  BY <1>1
<1>3. QED
  BY <1>2 DEF IsSequence

LEMMA SequenceConcat ==
  ASSUME NEW s, IsSequence(s), NEW t, IsSequence(t)
  PROVE  /\ IsSequence(Joined(s, t))
         /\ SubSeq(Joined(s, t), 1, Len(s)) = s
         /\ Len(Joined(s, t)) = Len(s) + Len(t)
         /\ Len(s) \in Nat /\ Len(t) \in Nat
         /\ s # <<>> => /\ Joined(s, t) # <<>>
                        /\ Tail(Joined(s, t)) = Joined(Tail(s), t)
                        /\ Head(Joined(s, t)) = Head(s)
         /\ t # <<>> => Joined(Followed(s, Head(t)), Tail(t)) = Joined(s, t)
         /\ t = <<>> => Joined(s, t) = s
<1>1. PICK S : s \in Seq(S)
  BY DEF IsSequence
<1>2. PICK T : t \in Seq(T)
  BY DEF IsSequence
<1> DEFINE U == S \cup T
<1>3. s \in Seq(U) /\ t \in Seq(U)
  BY <1>1, <1>2
<1> HIDE DEF U
<1>4. Joined(s, t) \in Seq(U)
  BY <1>3 DEF Joined
<1>5. /\ Len(Joined(s, t)) = Len(s) + Len(t)
      /\ Len(s) \in Nat /\ Len(t) \in Nat
  BY <1>3 DEF Joined
<1>6. SubSeq(Joined(s, t), 1, Len(s)) = s
  BY <1>3 DEF Joined
<1>7. s # <<>> => /\ Joined(s, t) # <<>>
                  /\ Tail(Joined(s, t)) = Joined(Tail(s), t)
                  /\ Head(Joined(s, t)) = Head(s)
  BY <1>3 DEF Joined
<1>8. t # <<>> => Joined(Followed(s, Head(t)), Tail(t)) = Joined(s, t)
  BY <1>3 DEF Joined, Followed
<1>9. t = <<>> => Joined(s, t) = s
  BY <1>3 DEF Joined
<1>10. QED
  BY <1>4, <1>5, <1>6, <1>7, <1>8, <1>9 DEF IsSequence

LEMMA SequenceAppend ==
  ASSUME NEW s, IsSequence(s), NEW t, IsSequence(t), NEW e
  PROVE  /\ IsSequence(Followed(s, e)) /\ Followed(s, e) # <<>>
         /\ Len(Followed(s, e)) = Len(s) + 1
         /\ Followed(s, e)[Len(Followed(s, e))] = e
         /\ s # <<>> => /\ Tail(Followed(s, e)) = Followed(Tail(s), e)
                        /\ Head(Followed(s, e)) = Head(s)
         /\ Joined(s, Followed(t, e)) = Followed(Joined(s, t), e)
<1>1. PICK S : s \in Seq(S)
  BY DEF IsSequence
<1>2. PICK T : t \in Seq(T)
  BY DEF IsSequence
<1> DEFINE U == (S \cup T) \cup {e}
<1>3. s \in Seq(U) /\ t \in Seq(U) /\ e \in U
  BY <1>1, <1>2
<1> HIDE DEF U
<1>4. /\ Followed(s, e) \in Seq(U)
      /\ Len(Followed(s, e)) = Len(s) + 1 /\ Len(s) \in Nat
  BY <1>3 DEF Followed
<1>5. Followed(s, e) # <<>> /\ Followed(s, e)[Len(Followed(s, e))] = e
  BY <1>3 DEF Followed
<1>6. s # <<>> => /\ Tail(Followed(s, e)) = Followed(Tail(s), e)
                  /\ Head(Followed(s, e)) = Head(s)
  BY <1>3 DEF Followed
<1>7. Joined(s, Followed(t, e)) = Followed(Joined(s, t), e)
  BY <1>3 DEF Followed, Joined
<1>8. QED
  BY <1>4, <1>5, <1>6, <1>7 DEF IsSequence

LEMMA SequenceAssoc ==
  ASSUME NEW s, IsSequence(s), NEW t, IsSequence(t), NEW u, IsSequence(u)
  PROVE  Joined(Joined(s, t), u) = Joined(s, Joined(t, u))
<1>1. PICK S : s \in Seq(S)
  BY DEF IsSequence
<1>2. PICK T : t \in Seq(T)
  BY DEF IsSequence
<1>3. PICK V : u \in Seq(V)
  BY DEF IsSequence
<1> DEFINE U == (S \cup T) \cup V
<1>4. s \in Seq(U) /\ t \in Seq(U) /\ u \in Seq(U)
  BY <1>1, <1>2, <1>3
<1> HIDE DEF U
<1>5. QED
  BY <1>4 DEF Joined

(* SendResponse adds its message to the responses on their way.            *)
LEMMA MessageOutgoing ==
  ASSUME NEW r, NEW F, NEW response, JobInv(r, F), r.alive, QueueFits(r, F),
         NEW s, s = SendMessage(r, response)
  PROVE  /\ QueueFits(s, F \cup s.held)
         /\ Outgoing(s, F \cup s.held) = Followed(Outgoing(r, F), response)
         /\ "WRITE" \in F \cup s.held
         /\ s.mResponseQueue # <<>>
<1> DEFINE G == F \cup s.held
           w == r.written
           q == r.mResponseQueue
           p == Followed(q, response)
<1>1. /\ s.mResponseQueue = p
      /\ "WRITE" \in F => s.written = w /\ s.held = r.held
      /\ "WRITE" \notin F => /\ s.written = Followed(w, Head(p))
                             /\ s.held = r.held \cup {"WRITE"}
  BY MessageQueued
<1>2. "WRITE" \in G
  BY <1>1
<1>3. /\ IsSequence(w) /\ IsSequence(q)
      /\ "WRITE" \in F => q # <<>> /\ w # <<>> /\ Head(q) = w[Len(w)]
  BY DEF QueueFits
<1> HIDE DEF G, w, q
<1>4. /\ IsSequence(p) /\ p # <<>>
      /\ q # <<>> => Tail(p) = Followed(Tail(q), response) /\ Head(p) = Head(q)
      /\ Joined(w, p) = Followed(Joined(w, q), response)
  BY <1>3, SequenceAppend
<1>5. q # <<>> =>
        Joined(w, Followed(Tail(q), response)) = Followed(Joined(w, Tail(q)), response)
  BY <1>3, SequenceTail, SequenceAppend
<1> HIDE DEF p
<1>6. Joined(Followed(w, Head(p)), Tail(p)) = Joined(w, p)
  BY <1>3, <1>4, SequenceConcat
<1>7. LET v == Followed(w, Head(p))
      IN  IsSequence(v) /\ v # <<>> /\ v[Len(v)] = Head(p)
  BY <1>3, SequenceAppend
<1>8. Outgoing(s, G) = Followed(Outgoing(r, F), response)
  BY <1>1, <1>2, <1>3, <1>4, <1>5, <1>6 DEF Outgoing, w, q
<1>9. QueueFits(s, G)
  BY <1>1, <1>3, <1>4, <1>7 DEF QueueFits, w, q
<1>10. QED
  BY <1>1, <1>2, <1>4, <1>8, <1>9 DEF G

(* The loop over SendResponse adds all its messages.                       *)
LEMMA AllOutgoing ==
  ASSUME NEW r, NEW F, NEW responses, IsSequence(responses),
         JobInv(r, F), r.alive, QueueFits(r, F),
         NEW s, s = SendAll(r, responses)
  PROVE  /\ Keeps(r, s, {"mResponseQueue", "written"})
         /\ QueueFits(s, F \cup s.held)
         /\ Outgoing(s, F \cup s.held) = Joined(Outgoing(r, F), responses)
         /\ IF responses = <<>> THEN s = r ELSE "WRITE" \in F \cup s.held
<1>1. /\ IsSequence(r.written) /\ IsSequence(r.mResponseQueue)
      /\ r.held \subseteq F
  BY DEF QueueFits, JobInv
<1>2. IsSequence(Outgoing(r, F))
  BY <1>1, SequenceTail, SequenceConcat DEF Outgoing, QueueFits
<1>3. CASE responses = <<>>
  <2>1. s = r /\ F \cup s.held = F
    BY <1>1, <1>3 DEF SendAll
  <2>2. Joined(Outgoing(r, F), <<>>) = Outgoing(r, F)
    BY <1>2, EmptySequence, SequenceConcat
  <2>3. QED
    BY <1>3, <2>1, <2>2 DEF Keeps
<1>4. CASE responses # <<>>
  <2>1. PICK x, t, m, G : /\ x = Head(responses) /\ t = Tail(responses)
                          /\ m = SendMessage(r, x) /\ G = F \cup m.held
    OBVIOUS
  <2>2. s = [m EXCEPT !.mResponseQueue = Joined(m.mResponseQueue, t)]
    BY <1>4, <2>1 DEF SendAll, Joined
  <2>3. /\ QueueFits(m, G) /\ "WRITE" \in G /\ m.mResponseQueue # <<>>
        /\ Outgoing(m, G) = Followed(Outgoing(r, F), x)
    <3>1. /\ QueueFits(m, F \cup m.held) /\ "WRITE" \in F \cup m.held
          /\ m.mResponseQueue # <<>>
          /\ Outgoing(m, F \cup m.held) = Followed(Outgoing(r, F), x)
      <4>1. QueueFits(m, F \cup m.held)
        BY <2>1, MessageOutgoing
      <4>2. Outgoing(m, F \cup m.held) = Followed(Outgoing(r, F), x)
        BY <2>1, MessageOutgoing
      <4>3. "WRITE" \in F \cup m.held
        BY <2>1, MessageOutgoing
      <4>4. m.mResponseQueue # <<>>
        BY <2>1, MessageOutgoing
      <4>5. QED
        BY <4>1, <4>2, <4>3, <4>4
    <3>2. QED
      BY <2>1, <3>1, Zenon
  <2>4. Keeps(r, m, {"mResponseQueue", "written"}) /\ DOMAIN m = JobFields
    BY <2>1, MessageQueued
  <2>5. /\ IsSequence(t)
        /\ Joined(Outgoing(r, F), responses) = Joined(Followed(Outgoing(r, F), x), t)
    BY <1>2, <1>4, <2>1, SequenceTail, SequenceConcat
  <2> DEFINE w == m.written
             q == m.mResponseQueue
  <2>6. /\ s.mResponseQueue = Joined(q, t) /\ s.held = m.held
        /\ s.written = w
        /\ Keeps(m, s, {"mResponseQueue"})
    BY <2>2, <2>4, Fields DEF Keeps
  <2>7. /\ IsSequence(q) /\ IsSequence(w) /\ q # <<>>
        /\ w # <<>> /\ Head(q) = w[Len(w)]
    BY <2>3 DEF QueueFits
  <2>8. Outgoing(m, G) = Joined(w, Tail(q))
    BY <2>3 DEF Outgoing
  <2> HIDE DEF w, q
  <2>9. /\ Tail(Joined(q, t)) = Joined(Tail(q), t)
        /\ IsSequence(Joined(q, t)) /\ Joined(q, t) # <<>>
        /\ Head(Joined(q, t)) = Head(q)
        /\ IsSequence(Tail(q))
    BY <2>5, <2>7, SequenceConcat, SequenceTail
  <2>10. Joined(w, Joined(Tail(q), t)) = Joined(Joined(w, Tail(q)), t)
    BY <2>5, <2>7, <2>9, SequenceAssoc
  <2>11. Outgoing(s, G) = Joined(Outgoing(m, G), t)
    BY <2>3, <2>6, <2>8, <2>9, <2>10 DEF Outgoing
  <2>12. QueueFits(s, G) /\ G = F \cup s.held
    BY <2>1, <2>6, <2>7, <2>9 DEF QueueFits
  <2>13. Keeps(r, s, {"mResponseQueue", "written"})
    BY <2>4, <2>6, Fields DEF Keeps, Books
  <2>14. QED
    BY <1>4, <2>3, <2>5, <2>11, <2>12, <2>13
<1>5. QED
  BY <1>3, <1>4

(* A completed write leaves the queue; no response is lost or repeated.    *)
LEMMA WriteOutgoing ==
  ASSUME NEW r, NEW F, NEW ok \in BOOLEAN, JobInv(r, F), r.alive, QueueFits(r, F),
         "WRITE" \in F, "WRITE" \notin r.held,
         NEW s, s = ResponseWritten(r, ok), s.alive,
         NEW G, G = (F \ {"WRITE"}) \cup s.held
  PROVE  /\ Keeps(r, s, {"mResponseQueue", "written", "finishes"})
         /\ QueueFits(s, G)
         /\ Outgoing(s, G) = Outgoing(r, F)
         /\ "WRITE" \notin G => ~ok \/ s.mResponseQueue = <<>>
         /\ s.finishes # r.finishes =>
              s.finishes = r.finishes + 1 /\ s.mServerStreamingDone
         /\ s.finishes = r.finishes =>
              (ok /\ s.mServerStreamingDone => "WRITE" \in G)
<1> DEFINE a == AsyncOpFinished(r, "WRITE")
           p == [a EXCEPT !.mResponseQueue = Tail(@)]
<1>1. a.alive /\ (\/ /\ ok /\ p.mResponseQueue # <<>>
                      /\ s = doSendResponse(p)
                   \/ /\ ok /\ p.mResponseQueue = <<>> /\ p.mServerStreamingDone
                      /\ s = doFinish(p)
                   \/ /\ ~ok \/ (p.mResponseQueue = <<>> /\ ~p.mServerStreamingDone)
                      /\ s = p)
  BY DEF ResponseWritten
<1>2. Keeps(r, a, {}) /\ DOMAIN a = JobFields /\ a.held = r.held
  BY <1>1, Retired
<1> HIDE DEF a
<1>3. /\ Keeps(r, p, {"mResponseQueue"}) /\ DOMAIN p = JobFields
      /\ p.mResponseQueue = Tail(r.mResponseQueue) /\ p.held = r.held
  BY <1>2, Fields DEF Keeps, Books
<1> HIDE DEF p
<1>4. /\ IsSequence(r.written) /\ IsSequence(r.mResponseQueue)
      /\ IsSequence(p.mResponseQueue) /\ p.written = r.written
      /\ p.finishes = r.finishes
  BY <1>3, SequenceTail, Fields DEF QueueFits, Keeps, Books
<1>5. Outgoing(r, F) = Joined(r.written, p.mResponseQueue)
  BY <1>3 DEF Outgoing
<1>6. CASE ok /\ p.mResponseQueue # <<>> /\ s = doSendResponse(p)
  <2>1. /\ Keeps(p, s, {"written"}) /\ s.held = r.held \cup {"WRITE"}
        /\ s.written = Followed(r.written, Head(p.mResponseQueue))
    <3>1. /\ Keeps(p, doSendResponse(p), {"written"})
          /\ doSendResponse(p).held = p.held \cup {"WRITE"}
          /\ doSendResponse(p).written = Followed(p.written, Head(p.mResponseQueue))
      BY <1>3, Started, Zenon
    <3>2. QED
      BY <1>3, <1>4, <1>6, <3>1, Zenon
  <2>2. s.mResponseQueue = p.mResponseQueue /\ s.finishes = r.finishes
    BY <1>4, <2>1, Fields DEF Keeps, Books
  <2>3. /\ Joined(s.written, Tail(s.mResponseQueue))
             = Joined(r.written, p.mResponseQueue)
        /\ IsSequence(s.written) /\ s.written # <<>>
        /\ Head(s.mResponseQueue) = s.written[Len(s.written)]
    <3>1. Joined(Followed(r.written, Head(p.mResponseQueue)), Tail(p.mResponseQueue))
            = Joined(r.written, p.mResponseQueue)
      BY <1>4, <1>6, SequenceConcat, Zenon
    <3>2. PICK v : v = Followed(r.written, Head(p.mResponseQueue))
      OBVIOUS
    <3>3. IsSequence(v) /\ v # <<>> /\ v[Len(v)] = Head(p.mResponseQueue)
      BY <1>4, <3>2, SequenceAppend
    <3>4. s.written = v /\ s.mResponseQueue = p.mResponseQueue
      BY <2>1, <2>2, <3>2
    <3>5. QED
      BY <3>1, <3>2, <3>3, <3>4
  <2>4. "WRITE" \in G
    BY <2>1
  <2>5. Outgoing(s, G) = Outgoing(r, F) /\ QueueFits(s, G)
    BY <1>4, <1>5, <1>6, <2>2, <2>3, <2>4 DEF Outgoing, QueueFits
  <2>6. Keeps(r, s, {"mResponseQueue", "written", "finishes"})
    BY <1>3, <2>1, Fields DEF Keeps, Books
  <2>7. QED
    BY <2>2, <2>4, <2>5, <2>6
<1>7. CASE ok /\ p.mResponseQueue = <<>> /\ p.mServerStreamingDone /\ s = doFinish(p)
  <2>1. /\ Keeps(p, s, {"finishes"}) /\ s.held = r.held \cup {"FINISH"}
        /\ s.finishes = r.finishes + 1
    <3>1. /\ Keeps(p, doFinish(p), {"finishes"})
          /\ doFinish(p).held = p.held \cup {"FINISH"}
          /\ doFinish(p).finishes = p.finishes + 1
      BY <1>3, Started, Zenon
    <3>2. QED
      BY <1>3, <1>4, <1>7, <3>1, Zenon
  <2>2. /\ s.mResponseQueue = p.mResponseQueue /\ s.written = r.written
        /\ s.mServerStreamingDone
    BY <1>4, <1>7, <2>1, Fields DEF Keeps, Books
  <2>3. "WRITE" \notin G
    BY <2>1
  <2>4. Outgoing(s, G) = Outgoing(r, F) /\ QueueFits(s, G)
    BY <1>4, <1>5, <2>2, <2>3 DEF Outgoing, QueueFits
  <2>5. Keeps(r, s, {"mResponseQueue", "written", "finishes"})
    BY <1>3, <2>1, Fields DEF Keeps, Books
  <2>6. s.finishes # r.finishes
    BY <2>1 DEF JobInv, IsJob
  <2>7. QED
    BY <1>7, <2>1, <2>2, <2>3, <2>4, <2>5, <2>6
<1>8. CASE s = p /\ (~ok \/ (p.mResponseQueue = <<>> /\ ~p.mServerStreamingDone))
  <2>1. "WRITE" \notin G
    BY <1>3, <1>8
  <2>2. Outgoing(s, G) = Outgoing(r, F) /\ QueueFits(s, G)
    BY <1>4, <1>5, <1>8, <2>1 DEF Outgoing, QueueFits
  <2>3. Keeps(r, s, {"mResponseQueue", "written", "finishes"})
    BY <1>3, <1>8 DEF Keeps
  <2>4. QED
    BY <1>4, <1>8, <2>1, <2>2, <2>3
<1>9. QED
  BY <1>1, <1>6, <1>7, <1>8

LEMMA NoFewer ==
  ASSUME NEW m, NEW n \in Nat, m = n \/ m = n + 1
  PROVE  m >= n
OBVIOUS

\* s is r with "responses" on their way, and the end of them noted.
Lists(r, s, H, responses) ==
  /\ Keeps(r, s, {"mResponseQueue", "written", "finishes",
                  "mServerStreamingDone"})
  /\ s.finishes >= r.finishes
  /\ QueueFits(s, H)
  /\ Outgoing(s, H) = responses
  /\ "WRITE" \notin H => s.mResponseQueue = <<>>

(* The request of a ListFeatures is handled: all its responses are on      *)
(* their way.                                                              *)
LEMMA ListSent ==
  ASSUME NEW r, NEW F, JobInv(r, F), r.alive, r.type = "ServerStreaming",
         "QUEUED_REQUEST" \in F, "QUEUED_REQUEST" \notin r.held,
         r.mResponseQueue = <<>>, r.written = <<>>,
         NEW responses, IsSequence(responses),
         NEW s, s = ServerStreamingOnRead(r, TRUE, responses), s.alive,
         NEW H, H = (F \ {"QUEUED_REQUEST"}) \cup s.held
  PROVE  Lists(r, s, H, responses)
<1> DEFINE a == RequestAccepted(r)
           G == F \ {"QUEUED_REQUEST"}
           t == SendAll(a, responses)
<1>1. a.alive /\ s = SendEnd(t)
  BY DEF ServerStreamingOnRead
<1>2. /\ JobInv(a, G) /\ a.held = r.held /\ a.type = r.type
      /\ a.finishes = 0 /\ G \cap AsyncOpType = {}
  BY <1>1, RequestTaken
<1>3. Keeps(r, a, {}) /\ DOMAIN a = JobFields
  BY <1>1, Retired DEF RequestAccepted
<1> HIDE DEF a
<1>4. a.mResponseQueue = <<>> /\ a.written = <<>> /\ a.finishes = r.finishes
  BY <1>3, Fields DEF Keeps, Books
<1>5. "WRITE" \notin G /\ "QUEUED_REQUEST" \notin G /\ "READ" \notin G
  BY <1>2 DEF AsyncOpType
<1>6. QueueFits(a, G)
  BY <1>4, <1>5, EmptySequence DEF QueueFits
<1>7. Outgoing(a, G) = <<>>
  BY <1>4, <1>5, EmptySequence, SequenceConcat DEF Outgoing
<1> HIDE DEF G
<1>8. /\ Keeps(a, t, {"mResponseQueue", "written"})
      /\ QueueFits(t, G \cup t.held)
      /\ Outgoing(t, G \cup t.held) = Joined(Outgoing(a, G), responses)
      /\ IF responses = <<>> THEN t = a ELSE "WRITE" \in G \cup t.held
  BY <1>1, <1>2, <1>6, AllOutgoing
<1>9. Joined(Outgoing(a, G), responses) = responses
  BY <1>7 DEF Joined, IsSequence
<1>10. Starts(a, G, t) /\ t.finishes = 0
  BY <1>1, <1>2, <1>5, AllSent
<1> HIDE DEF t
<1>11. JobInv(t, G \cup t.held) /\ t.alive /\ t.held \subseteq G \cup t.held
  BY <1>10 DEF Starts
<1>12. /\ Keeps(t, s, {"mServerStreamingDone", "finishes"})
       /\ "WRITE" \in G \cup t.held => s.finishes = t.finishes /\ s.held = t.held
       /\ "WRITE" \notin G \cup t.held =>
            s.finishes = t.finishes + 1 /\ s.held = t.held \cup {"FINISH"}
  BY <1>1, <1>11, EndQueued
<1>13. /\ s.mResponseQueue = t.mResponseQueue /\ s.written = t.written
  BY <1>12, Fields DEF Keeps, Books
<1>14. "WRITE" \in H <=> "WRITE" \in G \cup t.held
  BY <1>12 DEF G
<1>15. QueueFits(s, H) /\ Outgoing(s, H) = Outgoing(t, G \cup t.held)
  BY <1>8, <1>13, <1>14 DEF QueueFits, Outgoing
<1>16. "WRITE" \notin H => s.mResponseQueue = <<>>
  BY <1>4, <1>8, <1>13, <1>14
<1>17. s.finishes >= r.finishes
  <2>1. s.finishes = t.finishes \/ s.finishes = t.finishes + 1
    BY <1>12
  <2>2. r.finishes = 0 /\ t.finishes = r.finishes /\ r.finishes \in Nat
    BY <1>2, <1>4, <1>10
  <2>3. QED
    BY <2>1, <2>2, NoFewer
<1>18. Keeps(r, s, {"mResponseQueue", "written", "finishes", "mServerStreamingDone"})
  BY <1>3, <1>8, <1>12 DEF Keeps
<1>19. QED
  BY <1>8, <1>9, <1>15, <1>16, <1>17, <1>18 DEF Lists

\* s is r with the note it has read on its way, behind the others.
Echoes(r, F, s, H) ==
  /\ Keeps(r, s, {"mResponseQueue", "written"})
  /\ QueueFits(s, H)
  /\ Outgoing(s, H) = Followed(Outgoing(r, F), r.mRequest)
  /\ "WRITE" \in H

(* A note read is echoed: it is the last of those on their way.            *)
LEMMA NoteEchoed ==
  ASSUME NEW r, NEW F, JobInv(r, F), r.alive, r.type = "Bidirectional",
         "READ" \in F, "READ" \notin r.held, QueueFits(r, F),
         NEW s, s = BidirectionalOnRead(r, TRUE), s.alive,
         NEW H, H = (F \ {"READ"}) \cup s.held
  PROVE  Echoes(r, F, s, H)
<1> DEFINE a == AsyncOpFinished(r, "READ")
           G == F \ {"READ"}
           m == SendMessage(a, a.mRequest)
<1>1. a.alive /\ s = StartRead(m)
  BY DEF BidirectionalOnRead, EchoNote
<1>2. JobInv(a, G)
  BY ReadTaken
<1>3. Keeps(r, a, {}) /\ DOMAIN a = JobFields
  BY <1>1, Retired
<1> HIDE DEF a
<1>4. /\ a.mResponseQueue = r.mResponseQueue /\ a.written = r.written
      /\ a.mRequest = r.mRequest
  BY <1>3, Fields DEF Keeps, Books
<1>5. "WRITE" \in G <=> "WRITE" \in F
  OBVIOUS
<1> HIDE DEF G
<1>6. QueueFits(a, G) /\ Outgoing(a, G) = Outgoing(r, F)
  BY <1>4, <1>5 DEF QueueFits, Outgoing
<1>7. /\ QueueFits(m, G \cup m.held)
      /\ Outgoing(m, G \cup m.held) = Followed(Outgoing(a, G), a.mRequest)
      /\ "WRITE" \in G \cup m.held
  BY <1>1, <1>2, <1>6, MessageOutgoing
<1>8. Keeps(a, m, {"mResponseQueue", "written"}) /\ DOMAIN m = JobFields
  BY <1>1, <1>2, MessageQueued
<1> HIDE DEF m
<1>9. Keeps(m, s, {}) /\ s.held = m.held \cup {"READ"}
  <2>1. Keeps(m, StartRead(m), {}) /\ StartRead(m).held = m.held \cup {"READ"}
    BY <1>8, Started
  <2>2. QED
    BY <1>1, <2>1
<1>10. s.mResponseQueue = m.mResponseQueue /\ s.written = m.written
  BY <1>9, Fields DEF Keeps, Books
<1>11. "WRITE" \in H <=> "WRITE" \in G \cup m.held
  BY <1>9 DEF G
<1>12. QueueFits(s, H) /\ Outgoing(s, H) = Outgoing(m, G \cup m.held)
  BY <1>7, <1>10, <1>11 DEF QueueFits, Outgoing
<1>13. Keeps(r, s, {"mResponseQueue", "written"})
  BY <1>3, <1>8, <1>9 DEF Keeps
<1>14. QED
  BY <1>4, <1>6, <1>7, <1>11, <1>12, <1>13 DEF Echoes

(* The notes are over: the RPC is finished, now or by the write in flight. *)
LEMMA NotesEnded ==
  ASSUME NEW r, NEW F, JobInv(r, F), r.alive, r.type = "Bidirectional",
         "READ" \in F, "READ" \notin r.held,
         NEW s, s = BidirectionalOnRead(r, FALSE), s.alive
  PROVE  /\ Keeps(r, s, {"mClientStreamingDone", "mServerStreamingDone",
                         "finishes"})
         /\ s.mClientStreamingDone
         /\ s.mServerStreamingDone
         /\ s.finishes >= r.finishes
         /\ s.held \subseteq r.held \cup {"FINISH"}
<1> DEFINE a == AsyncOpFinished(r, "READ")
           G == F \ {"READ"}
           d == [a EXCEPT !.mClientStreamingDone = TRUE]
<1>1. a.alive /\ s = BidirectionalSendEnd(d)
  BY DEF BidirectionalOnRead, EndOfNotes
<1>2. JobInv(a, G) /\ IsJob(a) /\ a.held = r.held
  BY ReadTaken
<1>3. Keeps(r, a, {}) /\ DOMAIN a = JobFields
  BY <1>1, Retired
<1>4. SameBooks(a, d)
  BY <1>2, MessagesChange
<1> HIDE DEF a
<1>5. /\ Keeps(a, d, {"mClientStreamingDone"}) /\ DOMAIN d = JobFields
      /\ d.mClientStreamingDone /\ d.alive
  BY <1>1, <1>3, Fields DEF Keeps
<1>6. JobInv(d, G) /\ d.held = a.held /\ d.finishes = a.finishes
  BY <1>1, <1>2, <1>4, SameBooksInv DEF SameBooks
<1> HIDE DEF d, G
<1>7. s = SendEnd(d)
  BY <1>1, <1>5 DEF BidirectionalSendEnd
<1>8. /\ Keeps(d, s, {"mServerStreamingDone", "finishes"})
      /\ s.mServerStreamingDone
      /\ s.finishes \in {d.finishes, d.finishes + 1}
      /\ s.held \subseteq d.held \cup {"FINISH"}
  <2>1. /\ Keeps(d, s, {"mServerStreamingDone", "finishes"})
        /\ s.mServerStreamingDone
        /\ "WRITE" \in G => s.finishes = d.finishes /\ s.held = d.held
        /\ "WRITE" \notin G => /\ s.finishes = d.finishes + 1
                               /\ s.held = d.held \cup {"FINISH"}
    BY <1>5, <1>6, <1>7, EndQueued
  <2>2. QED
    BY <2>1
<1>9. r.finishes \in Nat /\ a.finishes = r.finishes
  BY <1>3, Fields DEF Keeps, Books, JobInv, IsJob
<1>a. s.finishes >= r.finishes
  <2>1. s.finishes = r.finishes \/ s.finishes = r.finishes + 1
    BY <1>6, <1>8, <1>9
  <2>2. QED
    BY <1>9, <2>1, NoFewer
<1>10. s.mClientStreamingDone
  BY <1>5, <1>8, Fields DEF Keeps, Books
<1>11. Keeps(r, s, {"mClientStreamingDone", "mServerStreamingDone", "finishes"})
  BY <1>3, <1>5, <1>8 DEF Keeps
<1>12. QED
  BY <1>2, <1>6, <1>8, <1>a, <1>10, <1>11

-----------------------------------------------------------------------------
(* The threads and the lists of tags *)

OpsInFlight(j) == {op \in TagOp : InFlight(j, op)}

\* No tag is in the list twice.
NoRepeat(q) ==
  \A m, n \in DOMAIN q : q[m].job = q[n].job /\ q[m].op = q[n].op => m = n

\* An operation is in one place: with gRPC, or its tag in one of the lists.
OpsInOnePlace ==
  /\ NoRepeat(gIncomingTags)
  /\ NoRepeat(tags)
  /\ \A j \in Jobs, op \in TagOp :
       /\ ~(op \in job[j].held /\ InQueue(gIncomingTags, j, op))
       /\ ~(op \in job[j].held /\ InQueue(tags, j, op))
       /\ ~(InQueue(gIncomingTags, j, op) /\ InQueue(tags, j, op))

\* A job that has handed nothing to gRPC: the chat of the dummy server.
Idle(j) == job[j] = RpcJobFields("Bidirectional") /\ OpsInFlight(j) = {}

BooksOfAllJobs ==
  \A j \in Jobs : Idle(j) \/ JobInv(job[j], OpsInFlight(j))

IInv == TypeOK /\ OpsInOnePlace /\ BooksOfAllJobs

\* What TypeOK says of the variables that no book depends on.
OtherTypesOK ==
  /\ DOMAIN call = Jobs
  /\ \A j \in Jobs : IsCall(call[j])
  /\ DOMAIN mRecordStateMap = Jobs

LEMMA IdleIsJob ==
  LET r == RpcJobFields("Bidirectional")
  IN  /\ IsJob(r) /\ r.alive /\ r.held = {} /\ r.type = "Bidirectional"
      /\ r.mAsyncOpCounter = 0 /\ r.finishes = 0 /\ ~r.asserted
      /\ r.mAsyncReadInProgress = FALSE /\ r.mAsyncWriteInProgress = FALSE
<1> DEFINE r == RpcJobFields("Bidirectional")
<1>1. /\ DOMAIN r = JobFields
      /\ r.type = "Bidirectional" /\ r.alive = TRUE /\ r.held = {}
      /\ r.mAsyncOpCounter = 0 /\ r.finishes = 0
      /\ r.mAsyncReadInProgress = FALSE /\ r.mAsyncWriteInProgress = FALSE
      /\ r.mOnDoneCalled = FALSE /\ r.mClientStreamingDone = FALSE
      /\ r.mServerStreamingDone = FALSE /\ r.asserted = FALSE
  BY Fields DEF RpcJobFields
<1> HIDE DEF r
<1>2. /\ r.alive \in BOOLEAN
      /\ r.mAsyncReadInProgress \in BOOLEAN
      /\ r.mAsyncWriteInProgress \in BOOLEAN
      /\ r.mOnDoneCalled \in BOOLEAN
      /\ r.mClientStreamingDone \in BOOLEAN
      /\ r.mServerStreamingDone \in BOOLEAN
      /\ r.asserted \in BOOLEAN
  BY <1>1, Zenon
<1>3. IsJob(r)
  BY <1>1, <1>2 DEF IsJob, RpcType
<1>4. QED
  BY <1>1, <1>3 DEF r

(* The books of a job with an operation in flight fit. *)
LEMMA InFlightIsServing ==
  ASSUME IInv, NEW j \in Jobs, OpsInFlight(j) # {}
  PROVE  JobInv(job[j], OpsInFlight(j)) /\ job[j].alive
BY DEF IInv, BooksOfAllJobs, Idle, JobInv

-----------------------------------------------------------------------------
(* Lists of tags *)

LEMMA QueueTail ==
  ASSUME NEW q \in Seq(TagInfo), q # <<>>, NoRepeat(q)
  PROVE  /\ Tail(q) \in Seq(TagInfo)
         /\ NoRepeat(Tail(q))
         /\ Head(q) \in TagInfo
         /\ InQueue(q, Head(q).job, Head(q).op)
         /\ \A i, o : InQueue(Tail(q), i, o) <=>
                        /\ InQueue(q, i, o)
                        /\ ~(i = Head(q).job /\ o = Head(q).op)
<1>1. /\ Tail(q) \in Seq(TagInfo)
      /\ Len(q) \in Nat /\ Len(q) > 0
      /\ Len(Tail(q)) = Len(q) - 1
      /\ \A n \in 1..Len(q) - 1 : Tail(q)[n] = q[n + 1]
      /\ DOMAIN q = 1..Len(q) /\ DOMAIN Tail(q) = 1..Len(q) - 1
      /\ Head(q) = q[1] /\ 1 \in DOMAIN q /\ q[1] \in TagInfo
  OBVIOUS
<1>2. \A n \in DOMAIN Tail(q) : n + 1 \in DOMAIN q /\ Tail(q)[n] = q[n + 1]
  BY <1>1
<1>3. \A n \in DOMAIN q : n = 1 \/ (n - 1 \in DOMAIN Tail(q) /\ q[n] = Tail(q)[n - 1])
  BY <1>1
<1>4. NoRepeat(Tail(q))
  <2>1. SUFFICES ASSUME NEW m \in DOMAIN Tail(q), NEW n \in DOMAIN Tail(q),
                        Tail(q)[m].job = Tail(q)[n].job,
                        Tail(q)[m].op = Tail(q)[n].op
                 PROVE  m = n
    BY DEF NoRepeat
  <2>2. m + 1 = n + 1
    BY <1>2, <2>1 DEF NoRepeat
  <2>3. QED
    BY <1>1, <2>2
<1>5. InQueue(q, Head(q).job, Head(q).op)
  BY <1>1 DEF InQueue
<1>6. ASSUME NEW i, NEW o, InQueue(Tail(q), i, o)
      PROVE  InQueue(q, i, o) /\ ~(i = Head(q).job /\ o = Head(q).op)
  <2>1. PICK n \in DOMAIN Tail(q) : Tail(q)[n].job = i /\ Tail(q)[n].op = o
    BY <1>6 DEF InQueue
  <2>2. n + 1 \in DOMAIN q /\ q[n + 1].job = i /\ q[n + 1].op = o
    BY <1>2, <2>1
  <2>3. n + 1 # 1
    BY <1>1
  <2>4. ~(i = q[1].job /\ o = q[1].op)
    BY <1>1, <2>2, <2>3 DEF NoRepeat
  <2>5. QED
    BY <1>1, <2>2, <2>4 DEF InQueue
<1>7. ASSUME NEW i, NEW o, InQueue(q, i, o),
             ~(i = Head(q).job /\ o = Head(q).op)
      PROVE  InQueue(Tail(q), i, o)
  <2>1. PICK n \in DOMAIN q : q[n].job = i /\ q[n].op = o
    BY <1>7 DEF InQueue
  <2>2. n # 1
    BY <1>1, <1>7, <2>1
  <2>3. QED
    BY <1>3, <2>1, <2>2 DEF InQueue
<1>8. QED
  BY <1>1, <1>4, <1>5, <1>6, <1>7

LEMMA QueueAppend ==
  ASSUME NEW q \in Seq(TagInfo), NEW e \in TagInfo, NoRepeat(q),
         ~InQueue(q, e.job, e.op)
  PROVE  /\ Append(q, e) \in Seq(TagInfo)
         /\ NoRepeat(Append(q, e))
         /\ \A i, o : InQueue(Append(q, e), i, o) <=>
                        InQueue(q, i, o) \/ (i = e.job /\ o = e.op)
<1> DEFINE p == Append(q, e)
           l == Len(q)
<1>1. /\ p \in Seq(TagInfo) /\ l \in Nat
      /\ DOMAIN q = 1..l /\ DOMAIN p = 1..(l + 1)
      /\ \A n \in 1..l : p[n] = q[n]
      /\ p[l + 1] = e
  OBVIOUS
<1>2. \A n \in DOMAIN p : (n \in DOMAIN q /\ p[n] = q[n])
                            \/ (n = l + 1 /\ p[n] = e)
  BY <1>1
<1>3. \A n \in DOMAIN q : n \in DOMAIN p /\ p[n] = q[n]
  BY <1>1
<1>4. l + 1 \in DOMAIN p /\ p[l + 1] = e
  BY <1>1
<1> HIDE DEF p, l
<1>5. NoRepeat(p)
  <2>1. SUFFICES ASSUME NEW m \in DOMAIN p, NEW n \in DOMAIN p,
                        p[m].job = p[n].job, p[m].op = p[n].op
                 PROVE  m = n
    BY DEF NoRepeat
  <2>2. CASE m \in DOMAIN q /\ n \in DOMAIN q
    BY <1>3, <2>1, <2>2 DEF NoRepeat
  <2>3. CASE m \notin DOMAIN q \/ n \notin DOMAIN q
    BY <1>2, <2>1, <2>3 DEF InQueue
  <2>4. QED
    BY <2>2, <2>3
<1>6. \A i, o : InQueue(p, i, o) <=> InQueue(q, i, o) \/ (i = e.job /\ o = e.op)
  BY <1>2, <1>3, <1>4 DEF InQueue
<1>7. QED
  BY <1>1, <1>5, <1>6 DEF p

-----------------------------------------------------------------------------
(* Steps that leave the jobs' operations where they are *)

LEMMA SameOps ==
  ASSUME IInv, OtherTypesOK', UNCHANGED <<job, gIncomingTags, tags, mResponders, gRpcCounter>>
  PROVE  IInv'
<1>1. \A j : OpsInFlight(j)' = OpsInFlight(j)
  BY DEF OpsInFlight, InFlight, InQueue
<1>2. BooksOfAllJobs'
  BY <1>1 DEF IInv, BooksOfAllJobs, Idle
<1>3. OpsInOnePlace'
  BY DEF IInv, OpsInOnePlace, NoRepeat, InQueue
<1>4. TypeOK'
  BY DEF IInv, TypeOK, OtherTypesOK
<1>5. QED
  BY <1>2, <1>3, <1>4 DEF IInv

LEMMA Taken ==
  ASSUME IInv, OtherTypesOK', TakeIncomingTags
  PROVE  IInv'
<1>1. \A j : OpsInFlight(j)' = OpsInFlight(j)
  BY DEF OpsInFlight, InFlight, InQueue, TakeIncomingTags
<1>2. BooksOfAllJobs'
  BY <1>1 DEF IInv, BooksOfAllJobs, Idle, TakeIncomingTags
<1>3. TypeOK'
  BY DEF IInv, TypeOK, OtherTypesOK, TakeIncomingTags
<1>4. OpsInOnePlace'
  BY DEF IInv, OpsInOnePlace, NoRepeat, InQueue, TakeIncomingTags
<1>5. QED
  BY <1>2, <1>3, <1>4 DEF IInv

(* gRPC completes an operation: its tag takes its place. *)
LEMMA NoLongerHeld ==
  ASSUME NEW r, NEW c, NEW op, NEW ok, IsJob(r)
  PROVE  Complete(r, c, op, ok).held = r.held \ {op}
BY Fields DEF Complete, IsJob

LEMMA Completed ==
  ASSUME NEW r, NEW F, NEW c, NEW op, NEW ok, JobInv(r, F)
  PROVE  JobInv(Complete(r, c, op, ok), F)
<1> DEFINE s == Complete(r, c, op, ok)
<1>1. s = [r EXCEPT !.held = @ \ {op}, !.mRequest = Received(r, c, op, ok)]
  BY DEF Complete
<1> HIDE DEF s
<1>2. /\ DOMAIN s = DOMAIN r
      /\ s.held = r.held \ {op}
      /\ \A x \in JobFields \ {"held", "mRequest"} : s[x] = r[x]
  BY <1>1, Fields DEF JobInv, IsJob
<1>3. /\ s.type = r.type /\ s.alive = r.alive /\ s.finishes = r.finishes
      /\ s.mAsyncOpCounter = r.mAsyncOpCounter
      /\ s.mAsyncReadInProgress = r.mAsyncReadInProgress
      /\ s.mAsyncWriteInProgress = r.mAsyncWriteInProgress
      /\ s.mOnDoneCalled = r.mOnDoneCalled
      /\ s.mClientStreamingDone = r.mClientStreamingDone
      /\ s.mServerStreamingDone = r.mServerStreamingDone
      /\ s.asserted = r.asserted
  BY <1>2, Fields
<1>4. IsJob(s)
  BY <1>2, <1>3 DEF JobInv, IsJob
<1>5. s.alive => BooksFit(s, F) /\ StagesFit(s, F)
  BY <1>3 DEF JobInv, BooksFit, StagesFit
<1>6. QED
  BY <1>2, <1>3, <1>4, <1>5 DEF JobInv, s

LEMMA HandedOver ==
  ASSUME IInv, OtherTypesOK', NEW j \in Jobs, NEW op \in TagOp,
         HandleRpcs(j, op)
  PROVE  IInv'
<1>1. PICK ok \in BOOLEAN :
        /\ job' = [job EXCEPT ![j] = Complete(job[j], call[j], op, ok)]
        /\ gIncomingTags' = Append(gIncomingTags, [job |-> j, op |-> op, ok |-> ok])
  BY DEF HandleRpcs
<1> DEFINE e == [job |-> j, op |-> op, ok |-> ok]
           s == Complete(job[j], call[j], op, ok)
<1>2. /\ op \in job[j].held /\ UNCHANGED <<tags, mResponders, gRpcCounter>>
  BY DEF HandleRpcs
<1>3. JobInv(job[j], OpsInFlight(j))
  BY <1>2, InFlightIsServing DEF OpsInFlight, InFlight
<1>h. op \in job[j].held
  BY <1>2
<1>4. JobInv(s, OpsInFlight(j)) /\ s.held = job[j].held \ {op}
  <2>1. JobInv(s, OpsInFlight(j))
    BY <1>3, Completed
  <2>2. IsJob(job[j])
    BY <1>3 DEF JobInv
  <2>3. s.held = job[j].held \ {op}
    BY <2>2, NoLongerHeld
  <2>4. QED
    BY <2>1, <2>3
<1>5. e \in TagInfo /\ e.job = j /\ e.op = op
  BY <1>1 DEF TagInfo
<1>6. /\ gIncomingTags \in Seq(TagInfo) /\ NoRepeat(gIncomingTags)
      /\ ~InQueue(gIncomingTags, e.job, e.op)
  BY <1>2, <1>5 DEF IInv, TypeOK, OpsInOnePlace
<1>7. /\ gIncomingTags' \in Seq(TagInfo) /\ NoRepeat(gIncomingTags)'
      /\ \A i, o : InQueue(gIncomingTags, i, o)' <=>
                     InQueue(gIncomingTags, i, o) \/ (i = j /\ o = op)
  <2>1. gIncomingTags' = Append(gIncomingTags, e)
    BY <1>1
  <2> HIDE DEF e
  <2>2. /\ Append(gIncomingTags, e) \in Seq(TagInfo)
        /\ NoRepeat(Append(gIncomingTags, e))
        /\ \A i, o : InQueue(Append(gIncomingTags, e), i, o) <=>
                       InQueue(gIncomingTags, i, o) \/ (i = e.job /\ o = e.op)
    BY <1>5, <1>6, QueueAppend
  <2>3. \A i, o : InQueue(gIncomingTags, i, o)' <=>
                    InQueue(Append(gIncomingTags, e), i, o)
    BY <2>1 DEF InQueue
  <2>4. NoRepeat(gIncomingTags)'
    BY <2>1, <2>2 DEF NoRepeat
  <2>5. QED
    BY <1>5, <2>1, <2>2, <2>3, <2>4
<1>8. \A i, o : InQueue(tags, i, o)' <=> InQueue(tags, i, o)
  BY <1>2 DEF InQueue
<1> HIDE DEF s, e
<1>9. /\ DOMAIN job' = Jobs
      /\ job'[j] = s
      /\ \A i \in Jobs : i # j => job'[i] = job[i]
  BY <1>1 DEF IInv, TypeOK, s
<1>10. \A i \in Jobs : OpsInFlight(i)' = OpsInFlight(i)
  <2>1. \A i \in Jobs, o \in TagOp : InFlight(i, o)' <=> InFlight(i, o)
    BY <1>2, <1>4, <1>7, <1>8, <1>9 DEF InFlight
  <2>2. QED
    BY <2>1 DEF OpsInFlight
<1>11. BooksOfAllJobs'
  BY <1>4, <1>9, <1>10 DEF IInv, BooksOfAllJobs, Idle
<1>12. TypeOK'
  <2>1. \A i \in Jobs : IsJob(job'[i])
    BY <1>4, <1>9 DEF IInv, TypeOK, JobInv
  <2>2. QED
    BY <1>2, <1>7, <1>9, <2>1 DEF IInv, TypeOK, OtherTypesOK
<1>13. OpsInOnePlace'
  <2>1. NoRepeat(tags)'
    BY <1>2 DEF IInv, OpsInOnePlace, NoRepeat
  <2>2. ASSUME NEW i \in Jobs, NEW o \in TagOp
        PROVE  /\ ~(o \in job'[i].held /\ InQueue(gIncomingTags, i, o)')
               /\ ~(o \in job'[i].held /\ InQueue(tags, i, o)')
               /\ ~(InQueue(gIncomingTags, i, o)' /\ InQueue(tags, i, o)')
    BY <1>2, <1>4, <1>7, <1>8, <1>9 DEF IInv, OpsInOnePlace
  <2>3. QED
    BY <1>7, <2>1, <2>2 DEF OpsInOnePlace
<1>14. QED
  BY <1>11, <1>12, <1>13 DEF IInv

-----------------------------------------------------------------------------
(* The processor thread.  A tag's job is alive, its operation in flight    *)
(* and no longer with gRPC.                                                *)

LEMMA FrontTag ==
  ASSUME IInv, tags # <<>>, NEW j, NEW op,
         j = Head(tags).job, op = Head(tags).op
  PROVE  /\ j \in Jobs /\ op \in TagOp
         /\ job[j].alive
         /\ JobInv(job[j], OpsInFlight(j))
         /\ op \in OpsInFlight(j)
         /\ op \notin job[j].held
<1>1. tags \in Seq(TagInfo) /\ NoRepeat(tags)
  BY DEF IInv, TypeOK, OpsInOnePlace
<1>2. Head(tags) \in TagInfo /\ InQueue(tags, j, op)
  BY <1>1, QueueTail
<1>3. j \in Jobs /\ op \in TagOp
  BY <1>2 DEF TagInfo
<1>4. op \in OpsInFlight(j) /\ op \notin job[j].held
  BY <1>2, <1>3 DEF OpsInFlight, InFlight, IInv, OpsInOnePlace
<1>5. JobInv(job[j], OpsInFlight(j))
  BY <1>3, <1>4, InFlightIsServing
<1>6. job[j].alive
  BY <1>4, <1>5 DEF JobInv
<1>7. QED
  BY <1>3, <1>4, <1>5, <1>6

(* The handler of the front tag leaves the tag's job as r; other jobs stay *)
(* as they are or are new.                                                 *)
LEMMA TagHandled ==
  ASSUME IInv, tags # <<>>, NEW j, NEW op, NEW r,
         j = Head(tags).job, op = Head(tags).op,
         Handled(job[j], OpsInFlight(j), op, r),
         job'[j] = r,
         \A i \in Jobs : i # j =>
           \/ job'[i] = job[i]
           \/ ~job[i].alive /\ \E t \in RpcType : job'[i] = NewRpcJob(t),
         tags' = Tail(tags),
         gIncomingTags' = gIncomingTags
  PROVE  OpsInOnePlace' /\ BooksOfAllJobs'
<1> DEFINE F == OpsInFlight(j)
           New(i) == ~job[i].alive /\ \E t \in RpcType : job'[i] = NewRpcJob(t)
<1>1. /\ j \in Jobs /\ op \in TagOp /\ job[j].alive /\ JobInv(job[j], F)
      /\ op \in F /\ op \notin job[j].held
  BY FrontTag
<1>2. /\ tags \in Seq(TagInfo) /\ NoRepeat(tags)
  BY DEF IInv, TypeOK, OpsInOnePlace
<1>3. /\ NoRepeat(Tail(tags))
      /\ InQueue(tags, j, op)
      /\ \A i, o : InQueue(Tail(tags), i, o) <=>
                     InQueue(tags, i, o) /\ ~(i = j /\ o = op)
  BY <1>2, QueueTail
<1>4. /\ NoRepeat(tags)' /\ NoRepeat(gIncomingTags)'
      /\ \A i, o : InQueue(tags, i, o)' <=>
                     InQueue(tags, i, o) /\ ~(i = j /\ o = op)
      /\ \A i, o : InQueue(gIncomingTags, i, o)' <=>
                     InQueue(gIncomingTags, i, o)
  <2>1. NoRepeat(tags)' /\ NoRepeat(gIncomingTags)'
    BY <1>3 DEF NoRepeat, IInv, OpsInOnePlace
  <2>2. \A i, o : InQueue(tags, i, o)' <=> InQueue(Tail(tags), i, o)
    BY DEF InQueue
  <2>3. \A i, o : InQueue(gIncomingTags, i, o)' <=>
                    InQueue(gIncomingTags, i, o)
    BY DEF InQueue
  <2>4. QED
    BY <1>3, <2>1, <2>2, <2>3
<1>5. /\ job[j].held \subseteq r.held
      /\ (r.held \ job[j].held) \cap (F \ {op}) = {}
      /\ JobInv(r, (F \ {op}) \cup r.held)
      /\ r.held \subseteq TagOp
  <2>1. JobInv(r, (F \ {op}) \cup r.held)
    BY DEF Handled
  <2>2. IsJob(r)
    BY <2>1 DEF JobInv
  <2>3. QED
    BY <2>1, <2>2 DEF Handled, IsJob
<1>6. \A i \in Jobs : ~job[i].alive =>
        \A o \in TagOp : /\ o \notin job[i].held
                         /\ ~InQueue(gIncomingTags, i, o)
                         /\ ~InQueue(tags, i, o)
  <2>1. \A i \in Jobs : ~job[i].alive => OpsInFlight(i) = {}
    BY InFlightIsServing
  <2>2. QED
    BY <2>1 DEF OpsInFlight, InFlight
<1>7. \A i \in Jobs : i # j /\ New(i) =>
        /\ JobInv(job'[i], {"QUEUED_REQUEST", "DONE"})
        /\ job'[i].held = {"QUEUED_REQUEST", "DONE"}
  BY Memory
<1>8. \A o \in TagOp : o \in F <=> InFlight(j, o)
  BY DEF OpsInFlight
<1> HIDE DEF F
<1>9. \A i \in Jobs : i = j \/ job'[i] = job[i] \/ New(i)
  OBVIOUS
<1> HIDE DEF New
<1>10. ASSUME NEW i \in Jobs, NEW o \in TagOp
       PROVE  /\ ~(o \in job'[i].held /\ InQueue(gIncomingTags, i, o)')
              /\ ~(o \in job'[i].held /\ InQueue(tags, i, o)')
              /\ ~(InQueue(gIncomingTags, i, o)' /\ InQueue(tags, i, o)')
  <2>1. /\ ~(o \in job[i].held /\ InQueue(gIncomingTags, i, o))
        /\ ~(o \in job[i].held /\ InQueue(tags, i, o))
        /\ ~(InQueue(gIncomingTags, i, o) /\ InQueue(tags, i, o))
    BY DEF IInv, OpsInOnePlace
  <2>2. CASE i = j
    <3>1. job'[i] = r
      BY <2>2
    <3>2. InQueue(gIncomingTags, i, o) => o \in F \ {op}
      BY <1>1, <1>3, <1>8, <2>1, <2>2 DEF InFlight, IInv, OpsInOnePlace
    <3>3. InQueue(tags, i, o)' => o \in F \ {op}
      BY <1>4, <1>8, <2>2 DEF InFlight
    <3>4. QED
      BY <1>4, <1>5, <2>1, <2>2, <3>1, <3>2, <3>3
  <2>3. CASE i # j /\ job'[i] = job[i]
    BY <1>4, <2>1, <2>3
  <2>4. CASE i # j /\ New(i)
    BY <1>4, <1>6, <2>4 DEF New
  <2>5. QED
    BY <1>9, <2>2, <2>3, <2>4
<1>11. OpsInOnePlace'
  BY <1>4, <1>10 DEF OpsInOnePlace
<1>12. OpsInFlight(j)' = (F \ {op}) \cup r.held
  <2>1. job'[j] = r
    OBVIOUS
  <2>2. ASSUME NEW o \in TagOp
        PROVE  InFlight(j, o)' <=> o \in (F \ {op}) \cup r.held
    <3>1. InFlight(j, o)' <=> \/ o \in r.held
                              \/ InQueue(gIncomingTags, j, o)
                              \/ InQueue(tags, j, o) /\ o # op
      BY <1>4, <2>1 DEF InFlight
    <3>2. ~InQueue(gIncomingTags, j, op)
      BY <1>1, <1>3 DEF IInv, OpsInOnePlace
    <3>3. o \in F <=> \/ o \in job[j].held
                      \/ InQueue(gIncomingTags, j, o)
                      \/ InQueue(tags, j, o)
      BY <1>8 DEF InFlight
    <3>4. QED
      BY <1>1, <1>5, <3>1, <3>2, <3>3
  <2>3. OpsInFlight(j)' = {o \in TagOp : InFlight(j, o)'}
    BY DEF OpsInFlight
  <2>4. (F \ {op}) \cup r.held \subseteq TagOp
    BY <1>1, <1>5 DEF JobInv
  <2>5. QED
    BY <2>2, <2>3, <2>4
<1>13. ASSUME NEW i \in Jobs
       PROVE  Idle(i)' \/ JobInv(job'[i], OpsInFlight(i)')
  <2>1. CASE i = j
    <3>1. job'[i] = r
      BY <2>1
    <3>2. QED
      BY <1>5, <1>12, <2>1, <3>1
  <2>2. CASE i # j /\ job'[i] = job[i]
    <3>1. \A o \in TagOp : InFlight(i, o)' <=> InFlight(i, o)
      BY <1>4, <2>2 DEF InFlight
    <3>2. OpsInFlight(i)' = OpsInFlight(i)
      BY <3>1 DEF OpsInFlight
    <3>3. QED
      BY <2>2, <3>2 DEF IInv, BooksOfAllJobs, Idle
  <2>3. CASE i # j /\ New(i)
    <3>1. \A o \in TagOp : InFlight(i, o)' <=> o \in job'[i].held
      BY <1>4, <1>6, <2>3 DEF InFlight, New
    <3>2. OpsInFlight(i)' = {"QUEUED_REQUEST", "DONE"}
      BY <1>7, <2>3, <3>1 DEF OpsInFlight, TagOp, AsyncOpType
    <3>3. QED
      BY <1>7, <2>3, <3>2
  <2>4. QED
    BY <1>9, <2>1, <2>2, <2>3
<1>14. BooksOfAllJobs'
  BY <1>13 DEF BooksOfAllJobs
<1>15. QED
  BY <1>11, <1>14

LEMMA AfterHandlerType ==
  ASSUME IInv, tags # <<>>, NEW j \in Jobs, NEW r, NEW created \in SUBSET Jobs,
         AfterHandler(j, r, created)
  PROVE  /\ tags' \in Seq(TagInfo) /\ gIncomingTags' \in Seq(TagInfo)
         /\ mResponders' \subseteq Jobs
         /\ gRpcCounter' \in [RpcTypes -> Int]
<1>1. /\ tags \in Seq(TagInfo) /\ NoRepeat(tags)
      /\ gIncomingTags \in Seq(TagInfo)
      /\ mResponders \subseteq Jobs
      /\ gRpcCounter \in [RpcTypes -> Int]
  BY DEF IInv, TypeOK, OpsInOnePlace
<1>2. tags' \in Seq(TagInfo) /\ gIncomingTags' \in Seq(TagInfo)
  BY <1>1, QueueTail DEF AfterHandler
<1>3. mResponders' \subseteq Jobs
  BY <1>1 DEF AfterHandler
<1>4. gRpcCounter' \in [RpcTypes -> Int]
  <2> DEFINE x == (IF created = {} THEN 0 ELSE 1)
             y == (IF r.alive THEN 0 ELSE 1)
  <2>1. gRpcCounter' = [gRpcCounter EXCEPT ![r.type] = gRpcCounter[r.type] + x - y]
    BY DEF AfterHandler
  <2>2. x \in Int /\ y \in Int
    OBVIOUS
  <2> HIDE DEF x, y
  <2>3. r.type \in RpcTypes => gRpcCounter[r.type] + x - y \in Int
    BY <1>1, <2>2
  <2>4. QED
    BY <1>1, <2>1, <2>3
<1>5. QED
  BY <1>2, <1>3, <1>4

LEMMA HandlerStepKeepsIInv ==
  ASSUME IInv, OtherTypesOK', tags # <<>>, NEW j, NEW op, NEW r,
         j = Head(tags).job, op = Head(tags).op,
         Handled(job[j], OpsInFlight(j), op, r), HandlerStep(j, r)
  PROVE  IInv'
<1>1. j \in Jobs
  BY FrontTag
<1>2. /\ job' = [job EXCEPT ![j] = r]
      /\ AfterHandler(j, r, {})
      /\ tags' = Tail(tags) /\ gIncomingTags' = gIncomingTags
  BY DEF HandlerStep, AfterHandler
<1>3. DOMAIN job' = Jobs /\ job'[j] = r /\ \A i \in Jobs : i # j => job'[i] = job[i]
  BY <1>1, <1>2 DEF IInv, TypeOK
<1>4. OpsInOnePlace' /\ BooksOfAllJobs'
  BY <1>2, <1>3, TagHandled
<1>5. \A i \in Jobs : IsJob(job'[i])
  BY <1>4, IdleIsJob DEF BooksOfAllJobs, Idle, JobInv
<1>6. TypeOK'
  BY <1>1, <1>2, <1>3, <1>5, AfterHandlerType DEF TypeOK, OtherTypesOK
<1>7. QED
  BY <1>4, <1>6 DEF IInv

LEMMA AcceptStepKeepsIInv ==
  ASSUME IInv, OtherTypesOK', tags # <<>>, NEW j, NEW op, NEW r,
         j = Head(tags).job, op = Head(tags).op,
         Handled(job[j], OpsInFlight(j), op, r), AcceptStep(j, r)
  PROVE  IInv'
<1>1. j \in Jobs /\ job[j].alive
  BY FrontTag
<1>2. PICK k \in Free : /\ job' = [job EXCEPT ![j] = r, ![k] = NewRpcJob(r.type)]
                        /\ AfterHandler(j, r, {k})
  BY DEF AcceptStep
<1>3. tags' = Tail(tags) /\ gIncomingTags' = gIncomingTags
  BY <1>2 DEF AfterHandler
<1>4. k \in Jobs /\ ~job[k].alive /\ k # j
  BY <1>1 DEF Free
<1>5. /\ DOMAIN job' = Jobs /\ job'[j] = r
      /\ job'[k] = NewRpcJob(r.type)
      /\ \A i \in Jobs : i # j /\ i # k => job'[i] = job[i]
  BY <1>1, <1>2, <1>4 DEF IInv, TypeOK
<1>6. r.type \in RpcType
  BY DEF Handled, JobInv, IsJob
<1>7. OpsInOnePlace' /\ BooksOfAllJobs'
  BY <1>3, <1>4, <1>5, <1>6, TagHandled
<1>8. \A i \in Jobs : IsJob(job'[i])
  BY <1>7, IdleIsJob DEF BooksOfAllJobs, Idle, JobInv
<1>9. {k} \in SUBSET Jobs
  BY <1>4
<1>10. TypeOK'
  BY <1>1, <1>2, <1>5, <1>8, <1>9, AfterHandlerType DEF TypeOK, OtherTypesOK
<1>11. QED
  BY <1>7, <1>10 DEF IInv

-----------------------------------------------------------------------------
(* Operations and their results.  What the proofs about the messages need  *)
(* to know of a step: which operations of each job it moves where.         *)

HasTag(q, j, op, ok) ==
  \E i \in DOMAIN q : q[i].job = j /\ q[i].op = op /\ q[i].ok = ok

\* The operations that have completed with result ok and wait for their
\* handler.
Results(j, ok) ==
  {op \in TagOp : HasTag(gIncomingTags, j, op, ok) \/ HasTag(tags, j, op, ok)}

\* Nothing happens to job i.
Unmoved(i) ==
  /\ job'[i] = job[i]
  /\ OpsInFlight(i)' = OpsInFlight(i)
  /\ \A ok \in BOOLEAN : Results(i, ok)' = Results(i, ok)

\* Free memory becomes a job.
Created(i, type) ==
  /\ ~job[i].alive
  /\ job'[i] = NewRpcJob(type)
  /\ OpsInFlight(i)' = {"QUEUED_REQUEST", "DONE"}
  /\ \A ok \in BOOLEAN : Results(i, ok)' = {}

\* gRPC completes operation op of job j.
CompletedFor(j, op, ok) ==
  /\ op \in job[j].held
  /\ MayComplete(job[j], call[j], op, ok)
  /\ job'[j] = Complete(job[j], call[j], op, ok)
  /\ call' = [call EXCEPT ![j] = Delivered(call[j], op, ok)]
  /\ OpsInFlight(j)' = OpsInFlight(j)
  /\ Results(j, ok)' = Results(j, ok) \cup {op}
  /\ Results(j, ~ok)' = Results(j, ~ok)
  /\ \A i \in Jobs \ {j} : Unmoved(i)

\* The tag at the front is for operation op of job j, and its handler leaves
\* the job as r.
Turn(j, op, ok, r) ==
  /\ tags # <<>>
  /\ Head(tags) = [job |-> j, op |-> op, ok |-> ok]
  /\ IF op = "QUEUED_REQUEST" THEN AcceptStep(j, r) ELSE HandlerStep(j, r)

\* What a turn does to all the jobs.
Processed(j, op, ok, r) ==
  /\ job'[j] = r
  /\ call' = [call EXCEPT ![j] = IF r.alive THEN @ ELSE NoCall]
  /\ OpsInFlight(j)' = (OpsInFlight(j) \ {op}) \cup r.held
  /\ \A b \in BOOLEAN : Results(j, b)' = Results(j, b) \ {op}
  /\ IF op = "QUEUED_REQUEST"
     THEN \E k \in Jobs \ {j} : /\ Created(k, r.type)
                                /\ \A i \in Jobs \ {j, k} : Unmoved(i)
                                /\ AfterHandler(j, r, {k})
     ELSE /\ \A i \in Jobs \ {j} : Unmoved(i)
          /\ AfterHandler(j, r, {})

LEMMA TagTail ==
  ASSUME NEW q \in Seq(TagInfo), q # <<>>, NoRepeat(q), NEW i, NEW o, NEW b
  PROVE  HasTag(Tail(q), i, o, b) <=>
           /\ HasTag(q, i, o, b)
           /\ ~(i = Head(q).job /\ o = Head(q).op)
<1>1. /\ Len(q) \in Nat /\ Len(q) > 0
      /\ \A n \in 1..Len(q) - 1 : Tail(q)[n] = q[n + 1]
      /\ DOMAIN q = 1..Len(q) /\ DOMAIN Tail(q) = 1..Len(q) - 1
      /\ Head(q) = q[1] /\ 1 \in DOMAIN q
  OBVIOUS
<1>2. \A n \in DOMAIN Tail(q) : /\ n + 1 \in DOMAIN q /\ n + 1 # 1
                                /\ Tail(q)[n] = q[n + 1]
  BY <1>1
<1>3. \A n \in DOMAIN q : n = 1 \/ (n - 1 \in DOMAIN Tail(q) /\ q[n] = Tail(q)[n - 1])
  BY <1>1
<1>4. ASSUME HasTag(Tail(q), i, o, b)
      PROVE  HasTag(q, i, o, b) /\ ~(i = Head(q).job /\ o = Head(q).op)
  <2>1. PICK n \in DOMAIN Tail(q) : /\ Tail(q)[n].job = i /\ Tail(q)[n].op = o
                                    /\ Tail(q)[n].ok = b
    BY <1>4 DEF HasTag
  <2>2. PICK m \in DOMAIN q : m # 1 /\ q[m].job = i /\ q[m].op = o /\ q[m].ok = b
    BY <1>2, <2>1
  <2>3. ~(i = q[1].job /\ o = q[1].op)
    BY <1>1, <2>2 DEF NoRepeat
  <2>4. QED
    BY <1>1, <2>2, <2>3 DEF HasTag
<1>5. ASSUME HasTag(q, i, o, b), ~(i = Head(q).job /\ o = Head(q).op)
      PROVE  HasTag(Tail(q), i, o, b)
  <2>1. PICK n \in DOMAIN q : q[n].job = i /\ q[n].op = o /\ q[n].ok = b
    BY <1>5 DEF HasTag
  <2>2. n # 1
    BY <1>1, <1>5, <2>1
  <2>3. QED
    BY <1>3, <2>1, <2>2 DEF HasTag
<1>6. QED
  BY <1>4, <1>5

LEMMA TagAppend ==
  ASSUME NEW q \in Seq(TagInfo), NEW e, NEW i, NEW o, NEW b
  PROVE  HasTag(Append(q, e), i, o, b) <=>
           \/ HasTag(q, i, o, b)
           \/ i = e.job /\ o = e.op /\ b = e.ok
<1> DEFINE p == Append(q, e)
<1>1. /\ DOMAIN q = 1..Len(q) /\ DOMAIN p = 1..(Len(q) + 1) /\ Len(q) \in Nat
      /\ \A n \in 1..Len(q) : p[n] = q[n]
      /\ p[Len(q) + 1] = e
  OBVIOUS
<1>2. \A n \in DOMAIN p : (n \in DOMAIN q /\ p[n] = q[n]) \/ p[n] = e
  BY <1>1
<1>3. \A n \in DOMAIN q : n \in DOMAIN p /\ p[n] = q[n]
  BY <1>1
<1>4. \E n \in DOMAIN p : p[n] = e
  BY <1>1
<1> HIDE DEF p
<1>5. QED
  BY <1>2, <1>3, <1>4 DEF HasTag, p

(* An operation in flight is with gRPC or has one result.                  *)
LEMMA InFlightIsHeldOrDone ==
  ASSUME IInv, NEW j \in Jobs
  PROVE  /\ OpsInFlight(j) = job[j].held \cup Results(j, TRUE) \cup Results(j, FALSE)
         /\ job[j].held \cap (Results(j, TRUE) \cup Results(j, FALSE)) = {}
         /\ Results(j, TRUE) \cap Results(j, FALSE) = {}
<1>1. job[j].held \subseteq TagOp
  BY DEF IInv, TypeOK, IsJob
<1>2. /\ gIncomingTags \in Seq(TagInfo) /\ tags \in Seq(TagInfo)
  BY DEF IInv, TypeOK
<1>3. ASSUME NEW q \in Seq(TagInfo), NEW o
      PROVE  InQueue(q, j, o) <=> HasTag(q, j, o, TRUE) \/ HasTag(q, j, o, FALSE)
  <2>1. \A i \in DOMAIN q : q[i] \in TagInfo
    OBVIOUS
  <2>2. \A i \in DOMAIN q : q[i].ok = TRUE \/ q[i].ok = FALSE
    BY <2>1, Zenon DEF TagInfo
  <2>3. QED
    BY <2>2 DEF InQueue, HasTag
<1>4. \A o \in TagOp : InFlight(j, o) <=>
        o \in job[j].held \/ o \in Results(j, TRUE) \/ o \in Results(j, FALSE)
  BY <1>2, <1>3 DEF InFlight, Results
<1>5. ASSUME NEW o \in TagOp, o \in Results(j, TRUE) \cup Results(j, FALSE)
      PROVE  o \notin job[j].held
  BY <1>2, <1>3, <1>5 DEF Results, IInv, OpsInOnePlace
<1>6. ASSUME NEW o \in TagOp, o \in Results(j, TRUE), o \in Results(j, FALSE)
      PROVE  FALSE
  <2>1. ASSUME NEW q, NoRepeat(q), HasTag(q, j, o, TRUE), HasTag(q, j, o, FALSE)
        PROVE  FALSE
    BY <2>1 DEF NoRepeat, HasTag
  <2>2. /\ HasTag(gIncomingTags, j, o, TRUE) \/ HasTag(tags, j, o, TRUE)
        /\ HasTag(gIncomingTags, j, o, FALSE) \/ HasTag(tags, j, o, FALSE)
    BY <1>6 DEF Results
  <2>3. ~(InQueue(gIncomingTags, j, o) /\ InQueue(tags, j, o))
    BY DEF IInv, OpsInOnePlace
  <2>4. QED
    BY <1>2, <1>3, <2>1, <2>2, <2>3 DEF IInv, OpsInOnePlace
<1>7. Results(j, TRUE) \subseteq TagOp /\ Results(j, FALSE) \subseteq TagOp
  BY DEF Results
<1>8. OpsInFlight(j) = job[j].held \cup Results(j, TRUE) \cup Results(j, FALSE)
  BY <1>1, <1>4, <1>7 DEF OpsInFlight
<1>9. QED
  BY <1>5, <1>6, <1>7, <1>8

\* The three facts together, to use them after a step as well as before it.
OpsArePlaced ==
  \A j \in Jobs :
    /\ OpsInFlight(j) = job[j].held \cup Results(j, TRUE) \cup Results(j, FALSE)
    /\ job[j].held \cap (Results(j, TRUE) \cup Results(j, FALSE)) = {}
    /\ Results(j, TRUE) \cap Results(j, FALSE) = {}
    /\ job[j].held \subseteq TagOp

LEMMA AllOpsPlaced == IInv => OpsArePlaced
BY InFlightIsHeldOrDone DEF OpsArePlaced, IInv, TypeOK, IsJob

LEMMA OpsPlacedAfter == IInv' => OpsArePlaced'
BY AllOpsPlaced, PTL

(* Steps of the clients and the hand-over of the list move nothing.        *)
LEMMA NothingMoves ==
  ASSUME job' = job,
         \/ UNCHANGED <<gIncomingTags, tags>>
         \/ TakeIncomingTags
  PROVE  \A i \in Jobs : Unmoved(i)
<1>1. \A i, o : InQueue(gIncomingTags, i, o)' \/ InQueue(tags, i, o)'
                  <=> InQueue(gIncomingTags, i, o) \/ InQueue(tags, i, o)
  BY DEF InQueue, TakeIncomingTags
<1>2. \A i, o, b : HasTag(gIncomingTags, i, o, b)' \/ HasTag(tags, i, o, b)'
                     <=> HasTag(gIncomingTags, i, o, b) \/ HasTag(tags, i, o, b)
  BY DEF HasTag, TakeIncomingTags
<1>3. \A i, o : InFlight(i, o)' <=> InFlight(i, o)
  BY <1>1 DEF InFlight
<1>4. \A i : OpsInFlight(i)' = OpsInFlight(i)
  BY <1>3 DEF OpsInFlight
<1>5. \A i, b : Results(i, b)' = Results(i, b)
  BY <1>2 DEF Results
<1>6. QED
  BY <1>4, <1>5 DEF Unmoved

LEMMA OneOpCompleted ==
  ASSUME IInv, IInv', NEW j \in Jobs, NEW op \in TagOp, HandleRpcs(j, op)
  PROVE  \E ok \in BOOLEAN : CompletedFor(j, op, ok)
<1>1. PICK ok \in BOOLEAN :
        /\ MayComplete(job[j], call[j], op, ok)
        /\ job' = [job EXCEPT ![j] = Complete(job[j], call[j], op, ok)]
        /\ call' = [call EXCEPT ![j] = Delivered(call[j], op, ok)]
        /\ gIncomingTags' = Append(gIncomingTags, [job |-> j, op |-> op, ok |-> ok])
  BY DEF HandleRpcs
<1>2. op \in job[j].held /\ tags' = tags
  BY DEF HandleRpcs
<1> DEFINE s == Complete(job[j], call[j], op, ok)
           e == [job |-> j, op |-> op, ok |-> ok]
<1>3. DOMAIN job = Jobs /\ IsJob(job[j]) /\ gIncomingTags \in Seq(TagInfo)
  BY DEF IInv, TypeOK
<1>4. s.held = job[j].held \ {op}
  BY <1>3, NoLongerHeld
<1>5. e.job = j /\ e.op = op /\ e.ok = ok
  OBVIOUS
<1> HIDE DEF s
<1>6. job'[j] = s /\ \A i \in Jobs \ {j} : job'[i] = job[i]
  BY <1>1, <1>3 DEF s
<1>7. gIncomingTags' = Append(gIncomingTags, e)
  BY <1>1
<1> HIDE DEF e
<1>8. \A i, o, b : HasTag(gIncomingTags, i, o, b)' <=>
                     \/ HasTag(gIncomingTags, i, o, b)
                     \/ i = j /\ o = op /\ b = ok
  <2>1. \A i, o, b : HasTag(Append(gIncomingTags, e), i, o, b) <=>
                       \/ HasTag(gIncomingTags, i, o, b)
                       \/ i = j /\ o = op /\ b = ok
    BY <1>3, <1>5, TagAppend, Zenon
  <2>2. \A i, o, b : HasTag(gIncomingTags, i, o, b)' <=>
                       HasTag(Append(gIncomingTags, e), i, o, b)
    BY <1>7 DEF HasTag
  <2>3. QED
    BY <2>1, <2>2, Zenon
<1>9. \A i, o, b : HasTag(tags, i, o, b)' <=> HasTag(tags, i, o, b)
  BY <1>2 DEF HasTag
<1>10. /\ Results(j, ok)' = Results(j, ok) \cup {op}
       /\ Results(j, ~ok)' = Results(j, ~ok)
  <2>1. ok # ~ok /\ \A o : (ok = ok /\ o = op) <=> o = op
    BY <1>1, Zenon
  <2>r. \A b : \A o \in TagOp :
          /\ o \in Results(j, b)' <=>
               HasTag(gIncomingTags, j, o, b)' \/ HasTag(tags, j, o, b)'
          /\ o \in Results(j, b) <=>
               HasTag(gIncomingTags, j, o, b) \/ HasTag(tags, j, o, b)
    BY DEF Results
  <2>s. \A b : \A o \in TagOp :
          o \in Results(j, b)' <=> o \in Results(j, b) \/ (o = op /\ b = ok)
    <3>1. TAKE b
    <3>2. TAKE o \in TagOp
    <3>3. /\ HasTag(gIncomingTags, j, o, b)' <=>
               HasTag(gIncomingTags, j, o, b) \/ (o = op /\ b = ok)
          /\ HasTag(tags, j, o, b)' <=> HasTag(tags, j, o, b)
      BY <1>8, <1>9
    <3>4. QED
      BY <2>r, <3>3, Zenon
  <2>2. \A o \in TagOp : o \in Results(j, ok)' <=> o \in Results(j, ok) \/ o = op
    BY <2>1, <2>s, Zenon
  <2>3. \A o \in TagOp : o \in Results(j, ~ok)' <=> o \in Results(j, ~ok)
    BY <2>1, <2>s, Zenon
  <2>4. \A b : Results(j, b)' \subseteq TagOp /\ Results(j, b) \subseteq TagOp
    BY DEF Results
  <2>5. QED
    BY <2>2, <2>3, <2>4
<1>11. \A i \in Jobs \ {j} : \A b \in BOOLEAN : Results(i, b)' = Results(i, b)
  BY <1>8, <1>9 DEF Results
<1>12. OpsArePlaced /\ OpsArePlaced'
  BY AllOpsPlaced, OpsPlacedAfter
<1>13. \A i \in Jobs \ {j} : Unmoved(i)
  BY <1>6, <1>11, <1>12 DEF OpsArePlaced, Unmoved
<1>14. OpsInFlight(j)' = OpsInFlight(j)
  <2>1. CASE ok = TRUE
    <3>1. /\ Results(j, TRUE)' = Results(j, TRUE) \cup {op}
          /\ Results(j, FALSE)' = Results(j, FALSE)
      BY <1>10, <2>1, Zenon
    <3>2. /\ OpsInFlight(j)' = (job[j].held \ {op}) \cup Results(j, TRUE)'
                                 \cup Results(j, FALSE)'
          /\ OpsInFlight(j) = job[j].held \cup Results(j, TRUE) \cup Results(j, FALSE)
      BY <1>4, <1>6, <1>12 DEF OpsArePlaced
    <3>3. QED
      BY <1>2, <3>1, <3>2
  <2>2. CASE ok = FALSE
    <3>1. /\ Results(j, FALSE)' = Results(j, FALSE) \cup {op}
          /\ Results(j, TRUE)' = Results(j, TRUE)
      BY <1>10, <2>2, Zenon
    <3>2. /\ OpsInFlight(j)' = (job[j].held \ {op}) \cup Results(j, TRUE)'
                                 \cup Results(j, FALSE)'
          /\ OpsInFlight(j) = job[j].held \cup Results(j, TRUE) \cup Results(j, FALSE)
      BY <1>4, <1>6, <1>12 DEF OpsArePlaced
    <3>3. QED
      BY <1>2, <3>1, <3>2
  <2>3. QED
    BY <1>1, <2>1, <2>2, Zenon
<1>15. QED
  BY <1>1, <1>2, <1>6, <1>10, <1>13, <1>14 DEF CompletedFor, s

LEMMA TurnTaken ==
  ASSUME IInv, OtherTypesOK', NEW j, NEW op, NEW ok, NEW r,
         Turn(j, op, ok, r), Handled(job[j], OpsInFlight(j), op, r)
  PROVE  /\ IInv'
         /\ Processed(j, op, ok, r)
         /\ j \in Jobs /\ op \in TagOp /\ ok \in BOOLEAN
         /\ job[j].alive /\ JobInv(job[j], OpsInFlight(j))
         /\ op \in Results(j, ok) /\ op \in OpsInFlight(j)
         /\ op \notin job[j].held
<1>1. /\ tags # <<>> /\ j = Head(tags).job /\ op = Head(tags).op
      /\ Head(tags).ok = ok
  BY DEF Turn
<1>2. /\ tags \in Seq(TagInfo) /\ NoRepeat(tags) /\ DOMAIN job = Jobs
      /\ DOMAIN call = Jobs
  BY DEF IInv, TypeOK, OpsInOnePlace
<1>3. Head(tags) \in TagInfo /\ HasTag(tags, j, op, ok)
  <2>1. 1 \in DOMAIN tags /\ Head(tags) = tags[1] /\ tags[1] \in TagInfo
    BY <1>1, <1>2
  <2>2. QED
    BY <1>1, <2>1 DEF HasTag
<1>4. ok \in BOOLEAN
  BY <1>3, <1>1, Zenon DEF Turn, TagInfo
<1>5. /\ j \in Jobs /\ op \in TagOp /\ job[j].alive
      /\ JobInv(job[j], OpsInFlight(j)) /\ op \in OpsInFlight(j)
      /\ op \notin job[j].held
  BY <1>1, FrontTag
<1>6. op \in Results(j, ok)
  BY <1>3, <1>5 DEF Results
<1>7. IInv'
  BY <1>1, HandlerStepKeepsIInv, AcceptStepKeepsIInv DEF Turn
<1>8. OpsArePlaced /\ OpsArePlaced'
  BY <1>7, AllOpsPlaced, OpsPlacedAfter
<1>9. \E c : AfterHandler(j, r, c)
  BY DEF Turn, AcceptStep, HandlerStep
<1>10. /\ tags' = Tail(tags) /\ gIncomingTags' = gIncomingTags
       /\ call' = [call EXCEPT ![j] = IF r.alive THEN @ ELSE NoCall]
  BY <1>9 DEF AfterHandler
<1>11. \A i, o, b : HasTag(tags, i, o, b)' <=>
                      HasTag(tags, i, o, b) /\ ~(i = j /\ o = op)
  <2>1. \A i, o, b : HasTag(Tail(tags), i, o, b) <=>
                       HasTag(tags, i, o, b) /\ ~(i = j /\ o = op)
    BY <1>1, <1>2, TagTail, Zenon
  <2>2. \A i, o, b : HasTag(tags, i, o, b)' <=> HasTag(Tail(tags), i, o, b)
    BY <1>10 DEF HasTag
  <2>3. QED
    BY <2>1, <2>2, Zenon
<1>12. \A i, o, b : HasTag(gIncomingTags, i, o, b)' <=> HasTag(gIncomingTags, i, o, b)
  BY <1>10 DEF HasTag
<1>13. \A b \in BOOLEAN : ~HasTag(gIncomingTags, j, op, b)
  <2>1. ~InQueue(gIncomingTags, j, op)
    <3>1. InQueue(tags, j, op)
      BY <1>3 DEF InQueue, HasTag
    <3>2. QED
      BY <1>5, <3>1 DEF IInv, OpsInOnePlace
  <2>2. QED
    BY <2>1 DEF InQueue, HasTag
<1>14. \A b \in BOOLEAN : Results(j, b)' = Results(j, b) \ {op}
  BY <1>11, <1>12, <1>13 DEF Results
<1>15. \A i \in Jobs \ {j} : \A b \in BOOLEAN : Results(i, b)' = Results(i, b)
  BY <1>11, <1>12 DEF Results
<1>16. /\ job'[j] = r
       /\ IF op = "QUEUED_REQUEST"
          THEN \E k \in Jobs \ {j} :
                 /\ ~job[k].alive /\ job'[k] = NewRpcJob(r.type)
                 /\ AfterHandler(j, r, {k})
                 /\ \A i \in Jobs \ {j, k} : job'[i] = job[i]
          ELSE /\ AfterHandler(j, r, {})
               /\ \A i \in Jobs \ {j} : job'[i] = job[i]
  <2>1. CASE op = "QUEUED_REQUEST"
    <3>1. PICK k \in Free : /\ job' = [job EXCEPT ![j] = r, ![k] = NewRpcJob(r.type)]
                            /\ AfterHandler(j, r, {k})
      BY <2>1 DEF Turn, AcceptStep
    <3>2. k \in Jobs \ {j} /\ ~job[k].alive
      BY <1>5 DEF Free
    <3>3. QED
      BY <1>2, <1>5, <2>1, <3>1, <3>2
  <2>2. CASE op # "QUEUED_REQUEST"
    BY <1>2, <1>5, <2>2 DEF Turn, HandlerStep
  <2>3. QED
    BY <2>1, <2>2
<1>17. OpsInFlight(j)' = (OpsInFlight(j) \ {op}) \cup r.held
  BY <1>5, <1>8, <1>14, <1>16 DEF OpsArePlaced, Handled
<1>18. \A i \in Jobs \ {j} : job'[i] = job[i] => Unmoved(i)
  BY <1>8, <1>15 DEF OpsArePlaced, Unmoved
<1>19. ASSUME NEW k \in Jobs \ {j}, ~job[k].alive, job'[k] = NewRpcJob(r.type)
       PROVE  Created(k, r.type)
  <2>1. OpsInFlight(k) = {}
    BY <1>19, InFlightIsServing
  <2>2. Results(k, TRUE) = {} /\ Results(k, FALSE) = {}
    BY <1>8, <2>1 DEF OpsArePlaced
  <2>3. \A b \in BOOLEAN : Results(k, b)' = {}
    BY <1>15, <2>2
  <2>4. job'[k].held = {"QUEUED_REQUEST", "DONE"}
    BY <1>19, Memory DEF Handled, JobInv, IsJob
  <2>5. OpsInFlight(k)' = {"QUEUED_REQUEST", "DONE"}
    BY <1>8, <2>3, <2>4 DEF OpsArePlaced
  <2>6. QED
    BY <1>19, <2>3, <2>5 DEF Created
<1>20. Processed(j, op, ok, r)
  BY <1>10, <1>14, <1>16, <1>17, <1>18, <1>19 DEF Processed
<1>21. QED
  BY <1>4, <1>5, <1>6, <1>7, <1>20

-----------------------------------------------------------------------------
(* The calls and the application's map *)

LEMMA CallFields ==
  DOMAIN NoCall = {"phase", "request", "sent", "delivered", "halfClosed"}
BY DEF NoCall

LEMMA CallsChange ==
  ASSUME NEW c, IsCall(c), NEW request, NEW streams \in BOOLEAN
  PROVE  /\ IsCall(NoCall)
         /\ IsCall(NewCall(request, streams))
         /\ IsCall([c EXCEPT !.sent = @ + 1])
         /\ IsCall([c EXCEPT !.halfClosed = TRUE])
         /\ IsCall([c EXCEPT !.phase = "Dead"])
         /\ c.delivered < c.sent => IsCall([c EXCEPT !.delivered = @ + 1])
<1>1. IsCall(NoCall)
  BY DEF IsCall, NoCall
<1>2. IsCall(NewCall(request, streams))
  <2> DEFINE n == NewCall(request, streams)
  <2>1. /\ DOMAIN n = DOMAIN NoCall
        /\ n.phase = "Open" /\ n.sent = 0 /\ n.delivered = 0
        /\ n.halfClosed \in BOOLEAN
    BY DEF NewCall, NoCall
  <2> HIDE DEF n
  <2>2. QED
    BY <2>1 DEF IsCall, n
<1>3. IsCall([c EXCEPT !.sent = @ + 1])
  BY CallFields DEF IsCall
<1>4. IsCall([c EXCEPT !.halfClosed = TRUE])
  BY CallFields DEF IsCall
<1>5. IsCall([c EXCEPT !.phase = "Dead"])
  BY CallFields DEF IsCall
<1>6. c.delivered < c.sent => IsCall([c EXCEPT !.delivered = @ + 1])
  BY CallFields DEF IsCall
<1>7. QED
  BY <1>1, <1>2, <1>3, <1>4, <1>5, <1>6

\* What a client does.
ClientStep(j) ==
  \/ \E request : StartCall(j, request)
  \/ SendRequest(j)
  \/ HalfClose(j)
  \/ Cancel(j)

LEMMA ClientStepKeepsIInv ==
  ASSUME IInv, NEW j \in Jobs, ClientStep(j)
  PROVE  /\ IInv'
         /\ \A i \in Jobs : Unmoved(i)
         /\ DOMAIN call' = Jobs
         /\ \A i \in Jobs \ {j} : call'[i] = call[i]
         /\ UNCHANGED <<job, mResponders, mRecordStateMap, gRpcCounter>>
<1>0. OtherTypesOK
  BY DEF IInv, TypeOK, OtherTypesOK
<1>1. /\ UNCHANGED <<job, gIncomingTags, tags, mResponders, mRecordStateMap, gRpcCounter>>
      /\ \E c : call' = [call EXCEPT ![j] = c]
  BY DEF ClientStep, StartCall, SendRequest, HalfClose, Cancel
<1>2. IsCall(call'[j])
  <2>1. ASSUME NEW request, StartCall(j, request) PROVE IsCall(call'[j])
    <3>1. Streams(job[j].type) \in BOOLEAN
      BY DEF Streams
    <3>2. IsCall(NewCall(request, Streams(job[j].type)))
      BY <1>0, <3>1, CallsChange DEF OtherTypesOK
    <3>3. QED
      BY <1>0, <2>1, <3>2 DEF StartCall, OtherTypesOK
  <2>2. CASE SendRequest(j)
    <3>1. IsCall([call[j] EXCEPT !.sent = @ + 1])
      BY <1>0, CallsChange DEF OtherTypesOK
    <3>2. QED
      BY <1>0, <2>2, <3>1 DEF SendRequest, OtherTypesOK
  <2>3. CASE HalfClose(j)
    <3>1. IsCall([call[j] EXCEPT !.halfClosed = TRUE])
      BY <1>0, CallsChange DEF OtherTypesOK
    <3>2. QED
      BY <1>0, <2>3, <3>1 DEF HalfClose, OtherTypesOK
  <2>4. CASE Cancel(j)
    <3>1. IsCall([call[j] EXCEPT !.phase = "Dead"])
      BY <1>0, CallsChange DEF OtherTypesOK
    <3>2. QED
      BY <1>0, <2>4, <3>1 DEF Cancel, OtherTypesOK
  <2>5. QED
    BY <2>1, <2>2, <2>3, <2>4 DEF ClientStep
<1>3. DOMAIN call' = Jobs /\ \A i \in Jobs \ {j} : call'[i] = call[i]
  BY <1>0, <1>1 DEF OtherTypesOK
<1>4. OtherTypesOK'
  BY <1>0, <1>1, <1>2, <1>3 DEF OtherTypesOK
<1>5. IInv'
  BY <1>1, <1>4, SameOps
<1>6. \A i \in Jobs : Unmoved(i)
  BY <1>1, NothingMoves
<1>7. QED
  BY <1>1, <1>3, <1>5, <1>6

LEMMA HandleRpcsKeepsIInv ==
  ASSUME IInv, NEW j \in Jobs, NEW op \in TagOp, HandleRpcs(j, op)
  PROVE  /\ IInv'
         /\ \E ok \in BOOLEAN : CompletedFor(j, op, ok)
         /\ UNCHANGED <<mResponders, mRecordStateMap, gRpcCounter>>
<1>1. PICK ok \in BOOLEAN : /\ MayComplete(job[j], call[j], op, ok)
                            /\ call' = [call EXCEPT ![j] = Delivered(call[j], op, ok)]
  BY DEF HandleRpcs
<1>2. op = "READ" /\ ok => call[j].delivered < call[j].sent
  BY <1>1 DEF MayComplete
<1>3. IsCall(call[j])
  BY DEF IInv, TypeOK
<1>4. IsCall(Delivered(call[j], op, ok))
  BY <1>2, <1>3, CallsChange DEF Delivered
<1>5. UNCHANGED <<mResponders, mRecordStateMap, gRpcCounter>>
  BY DEF HandleRpcs
<1>6. OtherTypesOK'
  BY <1>1, <1>4, <1>5 DEF IInv, TypeOK, OtherTypesOK
<1>7. IInv'
  BY <1>6, HandedOver
<1>8. QED
  BY <1>5, <1>7, OneOpCompleted

LEMMA TakeKeepsIInv ==
  ASSUME IInv, TakeIncomingTags
  PROVE  IInv' /\ \A i \in Jobs : Unmoved(i)
<1>1. OtherTypesOK' /\ job' = job
  BY DEF TakeIncomingTags, OtherTypesOK, IInv, TypeOK
<1>2. QED
  BY <1>1, Taken, NothingMoves

\* A turn of the processor thread whose handler leaves the job as r.
TurnOf(j, op, ok, r) ==
  /\ Turn(j, op, ok, r)
  /\ Handled(job[j], OpsInFlight(j), op, r)
  /\ DOMAIN mRecordStateMap' = Jobs

LEMMA TurnKeepsIInv ==
  ASSUME IInv, NEW j, NEW op, NEW ok, NEW r, TurnOf(j, op, ok, r)
  PROVE  /\ IInv'
         /\ Processed(j, op, ok, r)
         /\ j \in Jobs /\ op \in TagOp /\ ok \in BOOLEAN
         /\ job[j].alive /\ JobInv(job[j], OpsInFlight(j))
         /\ op \in Results(j, ok) /\ op \in OpsInFlight(j)
         /\ op \notin job[j].held
<1>1. \E c : AfterHandler(j, r, c)
  BY DEF TurnOf, Turn, AcceptStep, HandlerStep
<1>2. call' = [call EXCEPT ![j] = IF r.alive THEN @ ELSE NoCall]
  BY <1>1 DEF AfterHandler
<1>3. IsCall(NoCall)
  BY DEF IsCall, NoCall
<1>4. DOMAIN call' = Jobs /\ \A i \in Jobs : call'[i] \in {call[i], NoCall}
  BY <1>2 DEF IInv, TypeOK
<1>5. OtherTypesOK'
  BY <1>3, <1>4 DEF OtherTypesOK, TurnOf, IInv, TypeOK
<1>6. QED
  BY <1>5, TurnTaken DEF TurnOf

\* A step of any of the servers.
ServerStep ==
  \/ \E j \in Jobs : ClientStep(j)
  \/ \E j \in Jobs, op \in TagOp : HandleRpcs(j, op)
  \/ TakeIncomingTags
  \/ \E j, op, ok, r : TurnOf(j, op, ok, r)

LEMMA ServerStepKeepsIInv == IInv /\ ServerStep => IInv'
BY ClientStepKeepsIInv, HandleRpcsKeepsIInv, TakeKeepsIInv, TurnKeepsIInv
   DEF ServerStep

-----------------------------------------------------------------------------
(* What the invariant says *)

LEMMA BooksPreventDangling == IInv => NoDanglingTag
<1>1. SUFFICES ASSUME IInv, NEW j \in Jobs, ~job[j].alive, NEW op \in TagOp
               PROVE  ~InFlight(j, op)
  BY DEF NoDanglingTag
<1>2. OpsInFlight(j) = {}
  BY <1>1, InFlightIsServing
<1>3. QED
  BY <1>2 DEF OpsInFlight

LEMMA BooksCount == IInv => CounterCountsOperations
<1>1. SUFFICES ASSUME IInv, NEW j \in Jobs, job[j].alive
               PROVE  /\ job[j].mAsyncOpCounter =
                           One(InFlight(j, "QUEUED_REQUEST"))
                             + One(InFlight(j, "READ"))
                             + One(InFlight(j, "WRITE"))
                             + One(InFlight(j, "FINISH"))
                      /\ AsyncReadInProgress(job[j]) = InFlight(j, "READ")
                      /\ AsyncWriteInProgress(job[j]) = InFlight(j, "WRITE")
  BY DEF CounterCountsOperations
<1> DEFINE F == OpsInFlight(j)
<1>2. /\ IsJob(job[j])
      /\ job[j].mAsyncOpCounter = One("QUEUED_REQUEST" \in F) + One("READ" \in F)
                                    + One("WRITE" \in F) + One("FINISH" \in F)
      /\ job[j].mAsyncReadInProgress <=> "READ" \in F
      /\ job[j].mAsyncWriteInProgress <=> "WRITE" \in F
  <2>1. CASE Idle(j)
    BY <2>1, IdleIsJob DEF Idle, One
  <2>2. CASE JobInv(job[j], F)
    BY <1>1, <2>2 DEF JobInv, BooksFit
  <2>3. QED
    BY <1>1, <2>1, <2>2 DEF IInv, BooksOfAllJobs
<1>3. \A op \in AsyncOpType : op \in F <=> InFlight(j, op)
  BY DEF OpsInFlight, TagOp
<1> HIDE DEF F
<1>4. job[j].mAsyncOpCounter = One(InFlight(j, "QUEUED_REQUEST"))
                                 + One(InFlight(j, "READ"))
                                 + One(InFlight(j, "WRITE"))
                                 + One(InFlight(j, "FINISH"))
  BY <1>2, <1>3 DEF One, AsyncOpType
<1>5. /\ job[j].mAsyncReadInProgress <=> InFlight(j, "READ")
      /\ job[j].mAsyncWriteInProgress <=> InFlight(j, "WRITE")
  BY <1>2, <1>3 DEF AsyncOpType
<1>6. InFlight(j, "READ") \in BOOLEAN /\ InFlight(j, "WRITE") \in BOOLEAN
  BY DEF InFlight, InQueue
<1>7. /\ job[j].mAsyncReadInProgress \in BOOLEAN
      /\ job[j].mAsyncWriteInProgress \in BOOLEAN
  BY <1>2 DEF IsJob
<1>8. /\ AsyncReadInProgress(job[j]) = InFlight(j, "READ")
      /\ AsyncWriteInProgress(job[j]) = InFlight(j, "WRITE")
  BY <1>5, <1>6, <1>7, Zenon DEF AsyncReadInProgress, AsyncWriteInProgress
<1>9. QED
  BY <1>4, <1>8

LEMMA StagesExclude == IInv => OperationsExclusive
<1>1. SUFFICES ASSUME IInv, NEW j \in Jobs, job[j].alive
               PROVE  /\ \A a, b \in AsyncOpType :
                           InFlight(j, a) /\ InFlight(j, b) /\ a # b =>
                             {a, b} = {"READ", "WRITE"}
                      /\ job[j].finishes <= 1
  BY DEF OperationsExclusive
<1>2. \A op \in AsyncOpType : InFlight(j, op) => op \in OpsInFlight(j)
  BY DEF OpsInFlight, TagOp
<1>3. CASE Idle(j)
  BY <1>2, <1>3, IdleIsJob DEF Idle
<1>4. CASE JobInv(job[j], OpsInFlight(j))
  <2>1. StagesFit(job[j], OpsInFlight(j))
    BY <1>1, <1>4 DEF JobInv
  <2>2. QED
    BY <1>2, <2>1 DEF StagesFit, AsyncOpType
<1>5. QED
  BY <1>1, <1>3, <1>4 DEF IInv, BooksOfAllJobs

-----------------------------------------------------------------------------
(* Jobs are reference counted *)

\* The two variables of JobReferences.
Refs  == [j \in Jobs |-> {op \in TagOp : InFlight(j, op)}]
Alive == Jobs \ Free

LEMMA RefsAndAlive ==
  /\ \A j \in Jobs : Refs[j] = OpsInFlight(j) /\ (j \in Alive <=> job[j].alive)
  /\ DOMAIN Refs = Jobs
  /\ Refs = [j \in Jobs |-> OpsInFlight(j)]
BY DEF Refs, OpsInFlight, Alive, Free

LEMMA RefsAndAliveAfter ==
  /\ \A j \in Jobs : Refs'[j] = OpsInFlight(j)' /\ (j \in Alive' <=> job'[j].alive)
  /\ DOMAIN Refs' = Jobs
  /\ Refs' = [j \in Jobs |-> OpsInFlight(j)']
  /\ Alive' \subseteq Jobs
BY DEF Refs, OpsInFlight, Alive, Free

LEMMA MovesNoReference ==
  ASSUME \A i \in Jobs : Unmoved(i)
  PROVE  UNCHANGED <<Refs, Alive>>
<1>1. Refs' = Refs
  BY RefsAndAlive, RefsAndAliveAfter DEF Unmoved
<1>2. Alive' = Alive
  BY DEF Alive, Free, Unmoved
<1>3. QED
  BY <1>1, <1>2

LEMMA CompletionMovesNoReference ==
  ASSUME NEW j \in Jobs, NEW op \in TagOp, NEW ok, IInv, CompletedFor(j, op, ok)
  PROVE  UNCHANGED <<Refs, Alive>>
<1>1. job'[j].alive = job[j].alive
  <2>1. IsJob(job[j])
    BY DEF IInv, TypeOK
  <2>2. Complete(job[j], call[j], op, ok).alive = job[j].alive
    BY <2>1, Fields DEF Complete, IsJob
  <2>3. QED
    BY <2>2 DEF CompletedFor
<1>2. \A i \in Jobs : OpsInFlight(i)' = OpsInFlight(i)
  BY DEF CompletedFor, Unmoved
<1>3. Refs' = Refs
  BY <1>2, RefsAndAlive, RefsAndAliveAfter
<1>4. \A i \in Jobs : job'[i].alive = job[i].alive
  BY <1>1, Zenon DEF CompletedFor, Unmoved
<1>5. Alive' = Alive
  BY <1>4 DEF Alive, Free
<1>6. QED
  BY <1>3, <1>5

(* What is in flight for a job at one time may be.                         *)
LEMMA FlightsCompatible ==
  ASSUME NEW r, NEW F, JobInv(r, F)
  PROVE  /\ References!Compatible(F)
         /\ F = {} <=> ~r.alive
<1>1. F = {} <=> ~r.alive
  BY DEF JobInv, BooksFit
<1>2. \A a, b \in F \ {"DONE"} : a # b => {a, b} = {"READ", "WRITE"}
  <2>1. CASE F = {}
    BY <2>1
  <2>2. CASE F # {}
    <3>1. StagesFit(r, F) /\ F \subseteq TagOp
      BY <1>1, <2>2 DEF JobInv
    <3>2. QED
      BY <3>1 DEF StagesFit, TagOp, AsyncOpType
  <2>3. QED
    BY <2>1, <2>2
<1>3. QED
  BY <1>1, <1>2 DEF References!Compatible

(* A turn of the processor thread drops one reference, takes those of the  *)
(* operations the handler starts, and deletes the job with its last one.   *)
LEMMA TurnIsReferenceStep ==
  ASSUME IInv, NEW j, NEW op, NEW ok, NEW r, TurnOf(j, op, ok, r)
  PROVE  References!Next
<1> DEFINE F == OpsInFlight(j)
           started == r.held \ job[j].held
           G == (F \ {op}) \cup started
<1>1. /\ IInv' /\ Processed(j, op, ok, r)
      /\ j \in Jobs /\ op \in TagOp
      /\ job[j].alive /\ JobInv(job[j], F)
      /\ op \in F /\ op \notin job[j].held
  BY TurnKeepsIInv
<1>2. Handled(job[j], F, op, r)
  BY DEF TurnOf
<1>3. job[j].held \subseteq F
  BY <1>1 DEF JobInv
<1>4. /\ OpsInFlight(j)' = G
      /\ JobInv(r, G)
      /\ F = {op} => started = {}
      /\ started \cap F \subseteq {op}
      /\ started \subseteq AsyncOpType
  BY <1>1, <1>2, <1>3 DEF Processed, Handled, Startable, AsyncOpType
<1>5. References!Compatible(G) /\ (G = {} <=> ~r.alive)
  BY <1>4, FlightsCompatible
<1>6. started \in References!TogetherStarted
  BY <1>4, <1>5 DEF References!TogetherStarted, References!Compatible, AsyncOpType
<1>7. j \in Alive /\ op \in Refs[j] /\ Refs[j] = F /\ job'[j] = r
  BY <1>1, RefsAndAlive DEF Processed
<1>8. Refs'[j] = G /\ (j \in Alive' <=> G # {})
  BY <1>1, <1>4, <1>5, <1>7, RefsAndAliveAfter
<1> HIDE DEF F, started, G
<1>9. CASE op = "QUEUED_REQUEST"
  <2>1. PICK k \in Jobs \ {j} : /\ Created(k, r.type)
                                /\ \A i \in Jobs \ {j, k} : Unmoved(i)
    BY <1>1, <1>9 DEF Processed
  <2>2. k \in Jobs \ Alive
    BY <2>1, RefsAndAlive DEF Created
  <2>3. job'[k].alive
    BY <1>2, <2>1, Memory DEF Created, Handled, JobInv, IsJob
  <2>4. Refs'[k] = References!NewReferences /\ k \in Alive'
    BY <2>1, <2>3, RefsAndAliveAfter DEF Created, References!NewReferences
  <2>5. \A i \in Jobs \ {j, k} : Refs'[i] = Refs[i] /\ (i \in Alive' <=> i \in Alive)
    BY <2>1, RefsAndAlive, RefsAndAliveAfter DEF Unmoved
  <2>6. Refs' = [Refs EXCEPT ![j] = G, ![k] = References!NewReferences]
    BY <1>8, <2>1, <2>4, <2>5, RefsAndAlive, RefsAndAliveAfter
  <2>7. Alive' = (Alive \cup {k}) \ (IF G = {} THEN {j} ELSE {})
    <3>1. Alive \subseteq Jobs /\ Alive' \subseteq Jobs
      BY RefsAndAliveAfter DEF Alive
    <3>2. QED
      BY <1>7, <1>8, <2>1, <2>2, <2>4, <2>5, <3>1
  <2>8. Refs' = [Refs EXCEPT ![j] = (@ \ {"QUEUED_REQUEST"}) \cup started,
                             ![k] = References!NewReferences]
    BY <1>7, <1>9, <2>6 DEF G
  <2>9. References!Accept(j, started)
    BY <1>5, <1>7, <1>8, <1>9, <2>2, <2>7, <2>8
       DEF References!Accept, G, Refs, Alive
  <2>10. QED
    BY <1>6, <1>7, <1>9, <2>9 DEF References!Next, Refs, Alive
<1>10. CASE op # "QUEUED_REQUEST"
  <2>1. \A i \in Jobs \ {j} : Unmoved(i)
    BY <1>1, <1>10 DEF Processed
  <2>2. \A i \in Jobs \ {j} : Refs'[i] = Refs[i] /\ (i \in Alive' <=> i \in Alive)
    BY <2>1, RefsAndAlive, RefsAndAliveAfter DEF Unmoved
  <2>3. Refs' = [Refs EXCEPT ![j] = G]
    BY <1>8, <2>2, RefsAndAlive, RefsAndAliveAfter
  <2>4. Alive' = Alive \ (IF G = {} THEN {j} ELSE {})
    <3>1. Alive \subseteq Jobs /\ Alive' \subseteq Jobs
      BY RefsAndAliveAfter DEF Alive
    <3>2. QED
      BY <1>7, <1>8, <2>2, <3>1
  <2>5. Refs' = [Refs EXCEPT ![j] = (@ \ {op}) \cup started]
    BY <1>7, <2>3 DEF G
  <2>6. References!Handle(j, op, started)
    BY <1>4, <1>5, <1>7, <1>8, <2>4, <2>5
       DEF References!Handle, G, Refs, Alive
  <2>7. QED
    BY <1>6, <1>7, <1>10, <2>6 DEF References!Next, Refs, Alive
<1>11. QED
  BY <1>9, <1>10

LEMMA StepIsReferenceStep ==
  ASSUME IInv, ServerStep
  PROVE  References!Next \/ UNCHANGED <<Refs, Alive>>
<1>1. ASSUME NEW j \in Jobs, ClientStep(j) PROVE UNCHANGED <<Refs, Alive>>
  BY <1>1, ClientStepKeepsIInv, MovesNoReference
<1>2. ASSUME NEW j \in Jobs, NEW op \in TagOp, HandleRpcs(j, op)
      PROVE  UNCHANGED <<Refs, Alive>>
  BY <1>2, HandleRpcsKeepsIInv, CompletionMovesNoReference
<1>3. CASE TakeIncomingTags
  BY <1>3, TakeKeepsIInv, MovesNoReference
<1>4. QED
  BY <1>1, <1>2, <1>3, TurnIsReferenceStep DEF ServerStep

-----------------------------------------------------------------------------
(* One job awaits the next call of each kind *)

Awaits(i, type) ==
  job[i].alive /\ job[i].type = type /\ "QUEUED_REQUEST" \in OpsInFlight(i)

LEMMA OneAwaits ==
  ASSUME NEW type
  PROVE  OneJobAwaits(type) <=>
           \E j \in Jobs : \A i \in Jobs : i = j <=> Awaits(i, type)
BY DEF OneJobAwaits, Awaits, OpsInFlight, TagOp, AsyncOpType

LEMMA OneAwaitsAfter ==
  ASSUME NEW type
  PROVE  OneJobAwaits(type)' <=>
           \E j \in Jobs : \A i \in Jobs : i = j <=> Awaits(i, type)'
BY DEF OneJobAwaits, Awaits, OpsInFlight, TagOp, AsyncOpType

LEMMA TurnKeepsAwaiting ==
  ASSUME IInv, NEW j, NEW op, NEW ok, NEW r, TurnOf(j, op, ok, r), NEW type,
         OneJobAwaits(type)
  PROVE  OneJobAwaits(type)'
<1>1. /\ Processed(j, op, ok, r) /\ j \in Jobs /\ op \in TagOp
      /\ job[j].alive /\ op \in OpsInFlight(j) /\ op \notin job[j].held
      /\ JobInv(job[j], OpsInFlight(j))
  BY TurnKeepsIInv
<1>2. Handled(job[j], OpsInFlight(j), op, r)
  BY DEF TurnOf
<1>3. /\ r.type = job[j].type
      /\ job'[j] = r /\ OpsInFlight(j)' = (OpsInFlight(j) \ {op}) \cup r.held
      /\ JobInv(r, OpsInFlight(j)')
      /\ "QUEUED_REQUEST" \in r.held => "QUEUED_REQUEST" \in job[j].held
  BY <1>1, <1>2 DEF Processed, Handled, Startable
<1>4. "QUEUED_REQUEST" \in OpsInFlight(j)' <=>
        "QUEUED_REQUEST" \in OpsInFlight(j) /\ op # "QUEUED_REQUEST"
  BY <1>1, <1>3 DEF JobInv
<1>5. Awaits(j, type)' <=> Awaits(j, type) /\ op # "QUEUED_REQUEST"
  BY <1>1, <1>3, <1>4 DEF Awaits, JobInv
<1>6. \A i \in Jobs : Unmoved(i) => (Awaits(i, type)' <=> Awaits(i, type))
  BY DEF Unmoved, Awaits
<1>7. PICK a \in Jobs : \A i \in Jobs : i = a <=> Awaits(i, type)
  BY OneAwaits
<1>8. CASE op # "QUEUED_REQUEST"
  <2>1. \A i \in Jobs : Awaits(i, type)' <=> Awaits(i, type)
    BY <1>1, <1>5, <1>6, <1>8 DEF Processed
  <2>2. QED
    BY <1>7, <2>1, OneAwaitsAfter
<1>9. CASE op = "QUEUED_REQUEST"
  <2>1. PICK k \in Jobs \ {j} : /\ Created(k, r.type)
                                /\ \A i \in Jobs \ {j, k} : Unmoved(i)
    BY <1>1, <1>9 DEF Processed
  <2>2. r.type \in RpcType
    BY <1>2 DEF Handled, JobInv, IsJob
  <2>3. Awaits(k, type)' <=> type = r.type
    BY <2>1, <2>2, Memory DEF Created, Awaits
  <2>4. ~Awaits(k, type)
    BY <2>1 DEF Created, Awaits
  <2>5. \A i \in Jobs \ {j, k} : Awaits(i, type)' <=> Awaits(i, type)
    BY <1>6, <2>1
  <2>6. ~Awaits(j, type)'
    BY <1>5, <1>9
  <2>7. Awaits(j, type) <=> type = r.type
    BY <1>1, <1>3, <1>9 DEF Awaits
  <2>8. CASE type = r.type
    <3>a. a = j
      BY <1>1, <1>7, <2>7, <2>8
    <3>b. Awaits(k, type)'
      BY <2>3, <2>8
    <3>c. \A i \in Jobs \ {j, k} : ~Awaits(i, type)'
      BY <1>7, <2>5, <3>a
    <3>1. \A i \in Jobs : i = k <=> Awaits(i, type)'
      BY <2>6, <3>b, <3>c
    <3>2. QED
      BY <3>1, OneAwaitsAfter
  <2>9. CASE type # r.type
    <3>1. \A i \in Jobs : i = a <=> Awaits(i, type)'
      BY <1>7, <2>1, <2>3, <2>4, <2>5, <2>6, <2>7, <2>9
    <3>2. QED
      BY <3>1, OneAwaitsAfter
  <2>10. QED
    BY <2>8, <2>9
<1>10. QED
  BY <1>8, <1>9

LEMMA StepKeepsAwaiting ==
  ASSUME IInv, ServerStep, NEW type, OneJobAwaits(type)
  PROVE  OneJobAwaits(type)'
<1>1. ASSUME \A i \in Jobs : Awaits(i, type)' <=> Awaits(i, type)
      PROVE  OneJobAwaits(type)'
  BY <1>1, OneAwaits, OneAwaitsAfter
<1>2. ASSUME \A i \in Jobs : Unmoved(i)
      PROVE  OneJobAwaits(type)'
  BY <1>1, <1>2 DEF Unmoved, Awaits
<1>3. ASSUME NEW j \in Jobs, NEW op \in TagOp, HandleRpcs(j, op)
      PROVE  OneJobAwaits(type)'
  <2>1. PICK ok : CompletedFor(j, op, ok)
    BY <1>3, HandleRpcsKeepsIInv
  <2>2. IsJob(job[j])
    BY DEF IInv, TypeOK
  <2>3. /\ Complete(job[j], call[j], op, ok).alive = job[j].alive
        /\ Complete(job[j], call[j], op, ok).type = job[j].type
    BY <2>2, Fields DEF Complete, IsJob
  <2>4. Awaits(j, type)' <=> Awaits(j, type)
    BY <2>1, <2>3 DEF CompletedFor, Awaits
  <2>5. QED
    BY <1>1, <2>1, <2>4 DEF CompletedFor, Unmoved, Awaits
<1>4. QED
  BY <1>2, <1>3, ClientStepKeepsIInv, TakeKeepsIInv, TurnKeepsAwaiting
     DEF ServerStep

-----------------------------------------------------------------------------
(* The counters and the responder maps account for the jobs *)

LiveOf(type) == {j \in Jobs \ Free : job[j].type = type}

\* BooksBalance, and every counter counts a finite set.
FiniteBooksBalance ==
  /\ mResponders = Jobs \ Free
  /\ \A t \in RpcTypes : /\ IsFiniteSet(LiveOf(t))
                         /\ gRpcCounter[t] = Cardinality(LiveOf(t))

LEMMA BalanceIsFinite == FiniteBooksBalance => BooksBalance
BY DEF FiniteBooksBalance, BooksBalance, LiveOf

LEMMA CountedIn ==
  ASSUME NEW S, IsFiniteSet(S), NEW x
  PROVE  /\ x \notin S => /\ IsFiniteSet(S \cup {x})
                          /\ Cardinality(S \cup {x}) = Cardinality(S) + 1
         /\ x \in S => /\ IsFiniteSet(S \ {x})
                       /\ Cardinality(S \ {x}) = Cardinality(S) - 1
         /\ Cardinality(S) \in Nat
BY FS_AddElement, FS_RemoveElement, FS_CardinalityType

LEMMA TurnKeepsBalance ==
  ASSUME IInv, FiniteBooksBalance, NEW j, NEW op, NEW ok, NEW r,
         TurnOf(j, op, ok, r)
  PROVE  FiniteBooksBalance'
<1>0. Processed(j, op, ok, r)
  BY TurnKeepsIInv
<1>01. job'[j] = r
  BY <1>0 DEF Processed
<1>1. /\ Processed(j, op, ok, r) /\ j \in Jobs /\ op \in TagOp
      /\ job[j].alive /\ job'[j] = r
  BY <1>0, <1>01, TurnKeepsIInv
<1>2. r.type = job[j].type /\ r.type \in RpcType /\ r.alive \in BOOLEAN
  BY DEF TurnOf, Handled, JobInv, IsJob
<1>3. gRpcCounter \in [RpcTypes -> Int]
  BY DEF IInv, TypeOK
<1> DEFINE Gone == IF r.alive THEN {} ELSE {j}
<1>4. ASSUME NEW created \in SUBSET (Jobs \ {j}),
             AfterHandler(j, r, created),
             \A k \in created : /\ ~job[k].alive /\ job'[k].alive
                                /\ job'[k].type = r.type,
             created # {} => \E k : created = {k},
             \A i \in (Jobs \ {j}) \ created : job'[i] = job[i]
      PROVE  FiniteBooksBalance'
  <2>1. Jobs \ Free' = ((Jobs \ Free) \cup created) \ Gone
    BY <1>1, <1>4 DEF Free
  <2>2. mResponders' = Jobs \ Free'
    BY <1>4, <2>1 DEF AfterHandler, FiniteBooksBalance
  <2>3. ASSUME NEW t \in RpcTypes
        PROVE  /\ IsFiniteSet(LiveOf(t)')
               /\ gRpcCounter'[t] = Cardinality(LiveOf(t)')
    <3> DEFINE S == LiveOf(t)
    <3>1. IsFiniteSet(S) /\ gRpcCounter[t] = Cardinality(S)
      BY DEF FiniteBooksBalance
    <3>2. CASE t # r.type
      <4>1. LiveOf(t)' = S
        BY <1>1, <1>2, <1>4, <2>1, <3>2 DEF LiveOf, Free
      <4>2. gRpcCounter'[t] = gRpcCounter[t]
        BY <1>3, <1>4, <3>2 DEF AfterHandler
      <4>3. QED
        BY <3>1, <4>1, <4>2
    <3>3. CASE t = r.type
      <4>1. LiveOf(t)' = (S \cup created) \ Gone
        BY <1>1, <1>2, <1>4, <2>1, <3>3 DEF LiveOf, Free
      <4>2. j \in S /\ created \cap S = {} /\ j \notin created
        BY <1>1, <1>2, <1>4, <3>3 DEF LiveOf, Free
      <4>3. gRpcCounter'[t] = gRpcCounter[t] + (IF created = {} THEN 0 ELSE 1)
                                - (IF r.alive THEN 0 ELSE 1)
        BY <1>3, <1>4, <3>3 DEF AfterHandler
      <4> HIDE DEF S
      <4>4. PICK U : U = S \cup created
        OBVIOUS
      <4>5. /\ IsFiniteSet(U) /\ Cardinality(U) \in Nat /\ j \in U
            /\ Cardinality(U) = gRpcCounter[t] + (IF created = {} THEN 0 ELSE 1)
        <5>1. CASE created = {}
          <6>1. U = S
            BY <4>4, <5>1
          <6>2. Cardinality(S) \in Nat
            BY <3>1, CountedIn
          <6>3. QED
            BY <3>1, <4>2, <5>1, <6>1, <6>2
        <5>2. CASE created # {}
          <6>1. PICK k : created = {k}
            BY <1>4, <5>2
          <6>2. k \notin S /\ U = S \cup {k}
            BY <4>2, <4>4, <6>1
          <6>3. /\ IsFiniteSet(S \cup {k}) /\ Cardinality(S \cup {k}) = Cardinality(S) + 1
                /\ Cardinality(S) \in Nat
            BY <3>1, <6>2, CountedIn
          <6>4. QED
            BY <3>1, <4>2, <5>2, <6>2, <6>3
        <5>3. QED
          BY <5>1, <5>2
      <4>6. CASE r.alive
        <5>1. LiveOf(t)' = U
          BY <4>1, <4>4, <4>6
        <5>2. QED
          BY <4>3, <4>5, <4>6, <5>1
      <4>7. CASE ~r.alive
        <5>1. LiveOf(t)' = U \ {j}
          BY <4>1, <4>4, <4>7
        <5>2. IsFiniteSet(U \ {j}) /\ Cardinality(U \ {j}) = Cardinality(U) - 1
          BY <4>5, CountedIn
        <5>3. gRpcCounter'[t] = gRpcCounter[t]
                                  + (IF created = {} THEN 0 ELSE 1) - 1
          BY <4>3, <4>7
        <5>a. gRpcCounter[t] \in Int
          BY <1>3
        <5>4. gRpcCounter'[t] = Cardinality(U) - 1
          <6>1. CASE created = {}
            BY <4>5, <5>3, <5>a, <6>1
          <6>2. CASE created # {}
            BY <4>5, <5>3, <5>a, <6>2
          <6>3. QED
            BY <6>1, <6>2
        <5>5. QED
          BY <5>1, <5>2, <5>4
      <4>8. QED
        BY <4>6, <4>7
    <3>4. QED
      BY <3>2, <3>3
  <2>4. QED
    BY <2>2, <2>3 DEF FiniteBooksBalance
<1>5. CASE op = "QUEUED_REQUEST"
  <2>1. PICK k \in Jobs \ {j} : /\ Created(k, r.type)
                                /\ \A i \in Jobs \ {j, k} : Unmoved(i)
                                /\ AfterHandler(j, r, {k})
    BY <1>1, <1>5 DEF Processed
  <2>2. job'[k].alive /\ job'[k].type = r.type /\ ~job[k].alive
    BY <1>2, <2>1, Memory DEF Created
  <2>3. \A i \in (Jobs \ {j}) \ {k} : job'[i] = job[i]
    BY <2>1 DEF Unmoved
  <2>4. {k} \in SUBSET (Jobs \ {j}) /\ \A i \in {k} : i = k
    BY <2>1
  <2>5. QED
    BY <1>4, <2>1, <2>2, <2>3, <2>4
<1>6. CASE op # "QUEUED_REQUEST"
  <2>1. AfterHandler(j, r, {}) /\ \A i \in Jobs \ {j} : job'[i] = job[i]
    BY <1>1, <1>6 DEF Processed, Unmoved
  <2>2. QED
    BY <1>4, <2>1
<1>7. QED
  BY <1>5, <1>6

LEMMA StepKeepsBalance ==
  ASSUME IInv, ServerStep, FiniteBooksBalance
  PROVE  FiniteBooksBalance'
<1>1. ASSUME \A i \in Jobs : job'[i].alive = job[i].alive /\ job'[i].type = job[i].type,
             UNCHANGED <<mResponders, gRpcCounter>>
      PROVE  FiniteBooksBalance'
  <2>1. Free' = Free
    BY <1>1 DEF Free
  <2>2. \A t : LiveOf(t)' = LiveOf(t)
    BY <1>1, <2>1 DEF LiveOf, Free
  <2>3. QED
    BY <1>1, <2>1, <2>2 DEF FiniteBooksBalance
<1>2. ASSUME NEW j \in Jobs, NEW op \in TagOp, HandleRpcs(j, op)
      PROVE  FiniteBooksBalance'
  <2>1. PICK ok : CompletedFor(j, op, ok)
    BY <1>2, HandleRpcsKeepsIInv
  <2>2. IsJob(job[j])
    BY DEF IInv, TypeOK
  <2>3. /\ Complete(job[j], call[j], op, ok).alive = job[j].alive
        /\ Complete(job[j], call[j], op, ok).type = job[j].type
    BY <2>2, Fields DEF Complete, IsJob
  <2>4. \A i \in Jobs : job'[i].alive = job[i].alive /\ job'[i].type = job[i].type
    BY <2>1, <2>3, Zenon DEF CompletedFor, Unmoved
  <2>5. QED
    BY <1>1, <1>2, <2>4 DEF HandleRpcs
<1>3. ASSUME NEW j \in Jobs, ClientStep(j) PROVE FiniteBooksBalance'
  BY <1>1, <1>3, ClientStepKeepsIInv
<1>4. CASE TakeIncomingTags
  BY <1>1, <1>4 DEF TakeIncomingTags
<1>5. QED
  BY <1>2, <1>3, <1>4, TurnKeepsBalance DEF ServerStep

-----------------------------------------------------------------------------
(* The requests of a call.  S are the operations of the job that succeeded *)
(* and X those that failed, their handlers yet to come.                    *)

\* What the job knows of its call, and the call of its job.
CallFits(r, c, F, S, X) ==
  /\ "QUEUED_REQUEST" \notin r.held => c.phase # "None"
  /\ "QUEUED_REQUEST" \notin X
  /\ "QUEUED_REQUEST" \in S => r.mRequest = c.request
  /\ "QUEUED_REQUEST" \in F => c.delivered = 0 /\ ~r.mClientStreamingDone
  /\ c.sent <= Len(Route)
  /\ "READ" \in S => c.delivered > 0 /\ r.mRequest = Route[c.delivered]
  /\ "READ" \in X \/ r.mClientStreamingDone =>
       c.phase = "Dead" \/ (c.halfClosed /\ c.delivered = c.sent)
  /\ X \cap {"WRITE", "FINISH"} # {} => c.phase = "Dead"
  /\ "DONE" \notin r.held => c.phase = "Dead" \/ r.finishes > 0

\* F are the operations in flight: with gRPC, succeeded or failed.
Placed(r, F, S, X) ==
  F = r.held \cup S \cup X /\ r.held \cap (S \cup X) = {} /\ S \cap X = {}

\* What every handler does to the requests: only the failed read tells the
\* job that no more will come.
KeepsRequests(r, op, ok, s) ==
  /\ s.mRequest = r.mRequest
  /\ s.finishes >= r.finishes
  /\ s.mClientStreamingDone => r.mClientStreamingDone \/ (op = "READ" /\ ~ok)

\* What a client may make of the call c of job r: it calls, sends a request,
\* half-closes or is gone.
ClientMoves(r, c, d) ==
  \/ /\ c.phase = "None" /\ "QUEUED_REQUEST" \in r.held
     /\ d.phase = "Open" /\ d.sent = 0
  \/ /\ c.phase = "Open" /\ ~c.halfClosed /\ c.sent < Len(Route)
     /\ d.phase = c.phase /\ d.request = c.request
     /\ d.delivered = c.delivered /\ d.sent = c.sent + 1
  \/ /\ c.phase = "Open" /\ d.halfClosed
     /\ d.phase = c.phase /\ d.request = c.request
     /\ d.delivered = c.delivered /\ d.sent = c.sent
  \/ /\ d.phase = "Dead" /\ d.request = c.request
     /\ d.delivered = c.delivered /\ d.sent = c.sent

LEMMA ClientKeepsCall ==
  ASSUME NEW r, NEW c, NEW d, NEW F, NEW S, NEW X,
         IsCall(c), IsCall(d), JobInv(r, F), r.alive, Placed(r, F, S, X),
         CallFits(r, c, F, S, X),
         ClientMoves(r, c, d)
  PROVE  CallFits(r, d, F, S, X)
<1>1. StagesFit(r, F) /\ r.finishes \in Nat /\ r.held \subseteq F
  BY DEF JobInv, IsJob
<1>2. Len(Route) \in Nat
  BY RouteAssumption
<1>3. /\ c.sent \in Nat /\ c.delivered \in 0..c.sent
      /\ d.sent \in Nat /\ d.delivered \in 0..d.sent
  BY DEF IsCall
<1>4. CASE c.phase = "None" /\ "QUEUED_REQUEST" \in r.held /\ d.phase = "Open" /\ d.sent = 0
  <2>1. /\ F \cap {"READ", "WRITE", "FINISH"} = {} /\ r.finishes = 0
        /\ S \subseteq F /\ X \subseteq F /\ "QUEUED_REQUEST" \in F
        /\ "QUEUED_REQUEST" \notin S /\ "QUEUED_REQUEST" \notin X
    BY <1>1, <1>4 DEF StagesFit, Placed
  <2>2. /\ ~r.mClientStreamingDone /\ "DONE" \in r.held
    BY <1>4, <2>1 DEF CallFits
  <2>3. d.delivered = 0
    BY <1>3, <1>4
  <2>4. QED
    BY <1>2, <1>4, <2>1, <2>2, <2>3 DEF CallFits
<1>5. CASE /\ c.phase = "Open" /\ ~c.halfClosed /\ c.sent < Len(Route)
           /\ d.phase = c.phase /\ d.request = c.request
           /\ d.delivered = c.delivered /\ d.sent = c.sent + 1
  BY <1>2, <1>3, <1>5 DEF CallFits
<1>6. CASE /\ c.phase = "Open" /\ d.halfClosed
           /\ d.phase = c.phase /\ d.request = c.request
           /\ d.delivered = c.delivered /\ d.sent = c.sent
  BY <1>3, <1>6 DEF CallFits
<1>7. CASE /\ d.phase = "Dead" /\ d.request = c.request
           /\ d.delivered = c.delivered /\ d.sent = c.sent
  BY <1>3, <1>7 DEF CallFits
<1>8. QED
  BY <1>4, <1>5, <1>6, <1>7 DEF ClientMoves

(* gRPC completes an operation. *)
LEMMA CompletionKeepsCall ==
  ASSUME NEW r, NEW c, NEW F, NEW S, NEW X, NEW op \in TagOp, NEW ok \in BOOLEAN,
         IsCall(c), JobInv(r, F), r.alive, Placed(r, F, S, X),
         CallFits(r, c, F, S, X), op \in r.held, MayComplete(r, c, op, ok),
         NEW s, s = Complete(r, c, op, ok), NEW d, d = Delivered(c, op, ok),
         NEW S2, S2 = (IF ok THEN S \cup {op} ELSE S),
         NEW X2, X2 = (IF ok THEN X ELSE X \cup {op})
  PROVE  CallFits(s, d, F, S2, X2)
<1>1. StagesFit(r, F) /\ r.finishes \in Nat /\ r.held \subseteq F /\ IsJob(r)
  BY DEF JobInv, IsJob
<1>2. /\ c.sent \in Nat /\ c.delivered \in 0..c.sent
      /\ c.phase \in {"None", "Open", "Dead"}
  BY DEF IsCall
<1>3. /\ s.held = r.held \ {op} /\ s.finishes = r.finishes
      /\ s.mClientStreamingDone = r.mClientStreamingDone
      /\ s.mRequest = Received(r, c, op, ok)
  BY <1>1, Fields DEF Complete, IsJob
<1>4. /\ d.phase = c.phase /\ d.request = c.request /\ d.sent = c.sent
      /\ d.halfClosed = c.halfClosed
      /\ d.delivered = IF op = "READ" /\ ok THEN c.delivered + 1 ELSE c.delivered
  BY <1>2, CallFields DEF Delivered, IsCall
<1>5. /\ S \subseteq F /\ X \subseteq F
      /\ op \in F /\ op \notin S /\ op \notin X
  BY DEF Placed
<1>6. CASE op = "QUEUED_REQUEST"
  <2>1. c.phase # "None" /\ ok
    BY <1>6 DEF MayComplete, RequestMet
  <2>2. s.mRequest = c.request
    BY <1>3, <1>6 DEF Received
  <2>3. F \cap {"READ", "WRITE", "FINISH"} = {}
    BY <1>1, <1>5, <1>6 DEF StagesFit
  <2>4. QED
    BY <1>1, <1>2, <1>3, <1>4, <1>5, <1>6, <2>1, <2>2, <2>3 DEF CallFits
<1>7. CASE op = "READ" /\ ok
  <2>1. c.delivered < c.sent
    BY <1>7 DEF MayComplete
  <2>2. s.mRequest = Route[d.delivered] /\ d.delivered = c.delivered + 1
    BY <1>3, <1>4, <1>7 DEF Received
  <2>3. "QUEUED_REQUEST" \notin F
    BY <1>1, <1>5, <1>7 DEF StagesFit
  <2>4. "READ" \notin X2
    BY <1>5, <1>7
  <2>5. s.mClientStreamingDone => c.phase = "Dead"
    BY <1>2, <1>3, <2>1 DEF CallFits
  <2>6. d.delivered > 0
    BY <1>2, <2>2
  <2>7. X2 = X /\ "QUEUED_REQUEST" \notin S2 /\ c.phase # "None"
    BY <1>1, <1>5, <1>7, <2>3 DEF CallFits
  <2>8. "DONE" \notin s.held => c.phase = "Dead" \/ s.finishes > 0
    BY <1>3, <1>7 DEF CallFits
  <2>9. QED
    BY <1>4, <2>2, <2>3, <2>4, <2>5, <2>6, <2>7, <2>8 DEF CallFits
<1>8. CASE op = "READ" /\ ~ok
  <2>1. c.phase = "Dead" \/ (c.halfClosed /\ c.delivered = c.sent)
    BY <1>8 DEF MayComplete
  <2>2. s.mRequest = r.mRequest
    BY <1>3, <1>8 DEF Received
  <2>3. QED
    BY <1>1, <1>2, <1>3, <1>4, <1>5, <1>8, <2>1, <2>2 DEF CallFits
<1>9. CASE op \in {"WRITE", "FINISH"}
  <2>1. ok \/ c.phase = "Dead"
    <3>1. "QUEUED_REQUEST" \notin F
      BY <1>1, <1>5, <1>9 DEF StagesFit
    <3>2. c.phase # "None"
      BY <1>1, <3>1 DEF CallFits
    <3>3. QED
      BY <1>2, <1>9, <3>2 DEF MayComplete
  <2>2. s.mRequest = r.mRequest
    BY <1>3, <1>9 DEF Received
  <2>3. QED
    BY <1>1, <1>2, <1>3, <1>4, <1>5, <1>9, <2>1, <2>2 DEF CallFits
<1>10. CASE op = "DONE"
  <2>1. (c.phase = "Dead" \/ r.finishes > 0) /\ ok
    BY <1>10 DEF MayComplete
  <2>2. s.mRequest = r.mRequest
    BY <1>3, <1>10 DEF Received
  <2>3. QED
    BY <1>1, <1>2, <1>3, <1>4, <1>5, <1>10, <2>1, <2>2 DEF CallFits
<1>11. QED
  BY <1>6, <1>7, <1>8, <1>9, <1>10 DEF TagOp, AsyncOpType

(* A handler runs. *)
LEMMA HandlerKeepsCall ==
  ASSUME NEW r, NEW c, NEW F, NEW S, NEW X, NEW op \in TagOp, NEW ok \in BOOLEAN,
         IsCall(c), JobInv(r, F), Placed(r, F, S, X),
         CallFits(r, c, F, S, X), op \in (IF ok THEN S ELSE X),
         NEW s, Handled(r, F, op, s), KeepsRequests(r, op, ok, s),
         NEW G, G = (F \ {op}) \cup s.held
  PROVE  CallFits(s, c, G, S \ {op}, X \ {op})
<1>1. /\ r.held \subseteq F /\ r.held \subseteq s.held
      /\ s.held \ r.held \subseteq Startable
      /\ r.finishes \in Nat /\ s.finishes \in Nat
      /\ JobInv(s, G)
  BY DEF JobInv, IsJob, Handled
<1>2. /\ op \in F /\ op \notin r.held
  BY DEF Placed
<1>3. "QUEUED_REQUEST" \notin s.held => c.phase # "None"
  BY <1>1 DEF CallFits
<1>4. "QUEUED_REQUEST" \in G => /\ "QUEUED_REQUEST" \in F /\ op # "READ"
  <2>1. ASSUME "QUEUED_REQUEST" \in G PROVE "QUEUED_REQUEST" \in F
    BY <1>1, <2>1 DEF Startable
  <2>2. ASSUME "QUEUED_REQUEST" \in F, r.alive PROVE op # "READ"
    BY <1>2, <2>2 DEF JobInv, StagesFit
  <2>3. r.alive
    BY <1>2 DEF JobInv
  <2>4. QED
    BY <2>1, <2>2, <2>3
<1>5. s.mClientStreamingDone => r.mClientStreamingDone \/ "READ" \in X
  BY DEF KeepsRequests
<1>6. s.mRequest = r.mRequest /\ s.finishes >= r.finishes
  BY DEF KeepsRequests
<1>7. "QUEUED_REQUEST" \in G => ~s.mClientStreamingDone
  BY <1>4 DEF KeepsRequests, CallFits
<1>8. "DONE" \notin s.held => c.phase = "Dead" \/ s.finishes > 0
  BY <1>1, <1>6 DEF CallFits
<1>9. QED
  BY <1>3, <1>4, <1>5, <1>6, <1>7, <1>8 DEF CallFits

\* The call fits the job; an address whose job has nothing in flight, or no
\* job, has no call.
FitsAt(j) ==
  IF OpsInFlight(j) = {} THEN call[j] = NoCall
  ELSE CallFits(job[j], call[j], OpsInFlight(j), Results(j, TRUE), Results(j, FALSE))

CallsFit == \A j \in Jobs : FitsAt(j)

LEMMA OpsInFlightPlaced ==
  ASSUME IInv, NEW j \in Jobs
  PROVE  Placed(job[j], OpsInFlight(j), Results(j, TRUE), Results(j, FALSE))
BY InFlightIsHeldOrDone DEF Placed

(* What has a call or an operation in flight is a job. *)
LEMMA CallHasJob ==
  ASSUME IInv, CallsFit, NEW j \in Jobs, call[j] # NoCall \/ job[j].held # {}
  PROVE  /\ OpsInFlight(j) # {} /\ job[j].alive
         /\ JobInv(job[j], OpsInFlight(j))
         /\ CallFits(job[j], call[j], OpsInFlight(j), Results(j, TRUE), Results(j, FALSE))
<1>1. OpsInFlight(j) # {}
  BY InFlightIsHeldOrDone DEF CallsFit, FitsAt
<1>2. QED
  BY <1>1, InFlightIsServing DEF CallsFit, FitsAt

(* An address where nothing happens still fits.                            *)
LEMMA UnmovedStillFits ==
  ASSUME CallsFit, NEW i \in Jobs, Unmoved(i), call'[i] = call[i]
  PROVE  FitsAt(i)'
BY DEF CallsFit, FitsAt, Unmoved

LEMMA ClientStepMoves ==
  ASSUME IInv, CallsFit, NEW j \in Jobs, ClientStep(j)
  PROVE  /\ ClientMoves(job[j], call[j], call'[j])
         /\ OpsInFlight(j) # {} /\ JobInv(job[j], OpsInFlight(j)) /\ job[j].alive
         /\ CallFits(job[j], call[j], OpsInFlight(j), Results(j, TRUE), Results(j, FALSE))
<1> DEFINE r == job[j]
           c == call[j]
           d == call'[j]
<1>1. IsCall(c) /\ DOMAIN call = Jobs
  BY DEF IInv, TypeOK
<1>2. "QUEUED_REQUEST" \in r.held \/ "DONE" \in r.held
  BY DEF ClientStep, StartCall, Listening, SendRequest, HalfClose, Cancel, CallOpen
<1>3. ASSUME NEW request, StartCall(j, request) PROVE ClientMoves(r, c, d)
  BY <1>1, <1>3 DEF StartCall, Listening, NewCall, NoCall, ClientMoves
<1>4. ASSUME SendRequest(j) PROVE ClientMoves(r, c, d)
  <2>1. d = [c EXCEPT !.sent = @ + 1]
    BY <1>1, <1>4 DEF SendRequest
  <2>2. /\ d.phase = c.phase /\ d.request = c.request
        /\ d.delivered = c.delivered /\ d.sent = c.sent + 1
    BY <1>1, <2>1, CallFields DEF IsCall
  <2>3. c.phase = "Open" /\ ~c.halfClosed /\ c.sent < Len(Route)
    BY <1>4 DEF SendRequest, CallOpen
  <2> HIDE DEF r, c, d
  <2>4. QED
    BY <2>2, <2>3 DEF ClientMoves
<1>5. ASSUME HalfClose(j) PROVE ClientMoves(r, c, d)
  <2>1. d = [c EXCEPT !.halfClosed = TRUE]
    BY <1>1, <1>5 DEF HalfClose
  <2>2. /\ d.phase = c.phase /\ d.request = c.request /\ d.halfClosed
        /\ d.delivered = c.delivered /\ d.sent = c.sent
    BY <1>1, <2>1, CallFields DEF IsCall
  <2>3. c.phase = "Open"
    BY <1>5 DEF HalfClose, CallOpen
  <2> HIDE DEF r, c, d
  <2>4. QED
    BY <2>2, <2>3 DEF ClientMoves
<1>6. ASSUME Cancel(j) PROVE ClientMoves(r, c, d)
  <2>1. d = [c EXCEPT !.phase = "Dead"]
    BY <1>1, <1>6 DEF Cancel
  <2>2. /\ d.phase = "Dead" /\ d.request = c.request
        /\ d.delivered = c.delivered /\ d.sent = c.sent
    BY <1>1, <2>1, CallFields DEF IsCall
  <2> HIDE DEF r, c, d
  <2>4. QED
    BY <2>2 DEF ClientMoves
<1>7. ClientMoves(r, c, d)
  BY <1>3, <1>4, <1>5, <1>6 DEF ClientStep
<1>8. QED
  BY <1>2, <1>7, CallHasJob

LEMMA ClientStepKeepsCalls ==
  ASSUME IInv, CallsFit, NEW j \in Jobs, ClientStep(j)
  PROVE  CallsFit'
<1> DEFINE r == job[j]
           c == call[j]
           d == call'[j]
<1>1. /\ IInv' /\ \A i \in Jobs : Unmoved(i)
      /\ \A i \in Jobs \ {j} : call'[i] = call[i]
  BY ClientStepKeepsIInv
<1>2. IsCall(c) /\ IsCall(d)
  BY <1>1 DEF IInv, TypeOK
<1>3. /\ ClientMoves(r, c, d)
      /\ OpsInFlight(j) # {} /\ r.alive /\ JobInv(r, OpsInFlight(j))
      /\ CallFits(r, c, OpsInFlight(j), Results(j, TRUE), Results(j, FALSE))
  BY ClientStepMoves
<1>4. CallFits(r, d, OpsInFlight(j), Results(j, TRUE), Results(j, FALSE))
  <2>1. Placed(r, OpsInFlight(j), Results(j, TRUE), Results(j, FALSE))
    BY OpsInFlightPlaced
  <2> HIDE DEF r, c, d
  <2>2. QED
    BY <1>2, <1>3, <2>1, ClientKeepsCall
<1>5. CallFits(job'[j], call'[j], OpsInFlight(j)', Results(j, TRUE)', Results(j, FALSE)')
  BY <1>1, <1>4 DEF Unmoved
<1>6. QED
  <2>1. FitsAt(j)'
    BY <1>1, <1>3, <1>5 DEF FitsAt, Unmoved
  <2>2. QED
    BY <1>1, <2>1, UnmovedStillFits DEF CallsFit

LEMMA CompletionKeepsCalls ==
  ASSUME IInv, CallsFit, NEW j \in Jobs, NEW op \in TagOp, NEW ok \in BOOLEAN,
         CompletedFor(j, op, ok)
  PROVE  CallsFit'
<1> DEFINE r == job[j]
           c == call[j]
           F == OpsInFlight(j)
           S == Results(j, TRUE)
           X == Results(j, FALSE)
<1>1. /\ op \in r.held /\ MayComplete(r, c, op, ok)
      /\ job'[j] = Complete(r, c, op, ok)
      /\ call' = [call EXCEPT ![j] = Delivered(c, op, ok)]
      /\ F' = F
      /\ S' = (IF ok THEN S \cup {op} ELSE S)
      /\ X' = (IF ok THEN X ELSE X \cup {op})
      /\ \A i \in Jobs \ {j} : Unmoved(i)
  BY DEF CompletedFor
<1>2. /\ F # {} /\ r.alive /\ JobInv(r, F) /\ CallFits(r, c, F, S, X)
  BY <1>1, CallHasJob
<1>3. IsCall(c) /\ DOMAIN call = Jobs
  BY DEF IInv, TypeOK
<1>4. Placed(r, F, S, X)
  BY OpsInFlightPlaced
<1>5. /\ call'[j] = Delivered(c, op, ok)
      /\ \A i \in Jobs \ {j} : call'[i] = call[i]
  BY <1>1, <1>3
<1>6. CallFits(job'[j], call'[j], F', S', X')
  <2>1. PICK s, d, S2, X2 : /\ s = job'[j] /\ d = call'[j]
                            /\ S2 = S' /\ X2 = X'
    OBVIOUS
  <2> HIDE DEF r, c, F, S, X
  <2>2. CallFits(s, d, F, S2, X2)
    BY <1>1, <1>2, <1>3, <1>4, <1>5, <2>1, CompletionKeepsCall
  <2>3. QED
    BY <1>1, <2>1, <2>2
<1>7. QED
  <2>1. FitsAt(j)'
    BY <1>1, <1>2, <1>6 DEF FitsAt
  <2>2. QED
    BY <1>1, <1>5, <2>1, UnmovedStillFits DEF CallsFit

LEMMA NewJobHasNoCall ==
  ASSUME NEW type \in RpcType
  PROVE  CallFits(NewRpcJob(type), NoCall, {"QUEUED_REQUEST", "DONE"}, {}, {})
<1> DEFINE r == NewRpcJob(type)
<1>1. r.held = {"QUEUED_REQUEST", "DONE"} /\ r.mClientStreamingDone = FALSE
  BY Memory DEF NewRpcJob, GrpcHolds, AsyncOpStarted, RpcJobFields
<1>2. Len(Route) \in Nat
  BY RouteAssumption
<1>3. NoCall.sent = 0 /\ NoCall.delivered = 0
  BY DEF NoCall
<1> HIDE DEF r
<1>4. CallFits(r, NoCall, {"QUEUED_REQUEST", "DONE"}, {}, {})
  BY <1>1, <1>2, <1>3 DEF CallFits
<1>5. QED
  BY <1>4 DEF r

LEMMA TurnKeepsCalls ==
  ASSUME IInv, CallsFit, NEW j, NEW op, NEW ok, NEW r, TurnOf(j, op, ok, r),
         r.alive => KeepsRequests(job[j], op, ok, r)
  PROVE  CallsFit'
<1> DEFINE F == OpsInFlight(j)
           S == Results(j, TRUE)
           X == Results(j, FALSE)
           G == (F \ {op}) \cup r.held
<1>1. /\ IInv' /\ Processed(j, op, ok, r)
      /\ j \in Jobs /\ op \in TagOp /\ ok \in BOOLEAN
      /\ job[j].alive /\ JobInv(job[j], F)
      /\ op \in Results(j, ok) /\ op \in F /\ op \notin job[j].held
  BY TurnKeepsIInv
<1>2. /\ job'[j] = r /\ F' = G
      /\ S' = S \ {op} /\ X' = X \ {op}
      /\ call' = [call EXCEPT ![j] = IF r.alive THEN @ ELSE NoCall]
  BY <1>1 DEF Processed
<1>3. Handled(job[j], F, op, r)
  BY DEF TurnOf
<1>4. JobInv(r, G)
  BY <1>3 DEF Handled
<1>5. Placed(job[j], F, S, X)
  BY <1>1, OpsInFlightPlaced
<1>6. IsCall(call[j]) /\ DOMAIN call = Jobs
  BY <1>1 DEF IInv, TypeOK
<1>7. CallFits(job[j], call[j], F, S, X)
  BY <1>1 DEF CallsFit, FitsAt
<1>8. \A i \in Jobs \ {j} : call'[i] = call[i]
  BY <1>2, <1>6
<1>9. FitsAt(j)'
  <2>1. CASE ~r.alive
    <3>1. G = {}
      BY <1>4, <2>1 DEF JobInv
    <3>2. call'[j] = NoCall
      BY <1>1, <1>2, <1>6, <2>1
    <3>3. QED
      BY <1>2, <3>1, <3>2 DEF FitsAt
  <2>2. CASE r.alive
    <3>1. G # {}
      BY <1>4, <2>2 DEF JobInv, BooksFit
    <3>2. call'[j] = call[j]
      BY <1>1, <1>2, <1>6, <2>2
    <3>3. op \in (IF ok THEN S ELSE X)
      BY <1>1
    <3>4. PICK q, c, H : q = job[j] /\ c = call[j] /\ H = G
      OBVIOUS
    <3>5. CallFits(r, c, H, S \ {op}, X \ {op})
      <4> HIDE DEF F, S, X
      <4>1. QED
        BY <1>1, <1>3, <1>5, <1>6, <1>7, <2>2, <3>3, <3>4, HandlerKeepsCall DEF G
    <3>6. QED
      BY <1>2, <3>1, <3>2, <3>4, <3>5 DEF FitsAt
  <2>3. QED
    BY <2>1, <2>2
<1>10. CASE op = "QUEUED_REQUEST"
  <2>1. PICK k \in Jobs \ {j} : /\ Created(k, r.type)
                                /\ \A i \in Jobs \ {j, k} : Unmoved(i)
    BY <1>1, <1>10 DEF Processed
  <2>2. r.type \in RpcType
    BY <1>4 DEF JobInv, IsJob
  <2>3. call[k] = NoCall
    BY <2>1, CallHasJob DEF Created
  <2>4. CallFits(job'[k], call'[k], OpsInFlight(k)', Results(k, TRUE)', Results(k, FALSE)')
    <3>1. CallFits(NewRpcJob(r.type), NoCall, {"QUEUED_REQUEST", "DONE"}, {}, {})
      BY <2>2, NewJobHasNoCall
    <3>2. QED
      BY <1>8, <2>1, <2>3, <3>1 DEF Created
  <2>5. FitsAt(k)'
    BY <2>1, <2>4 DEF Created, FitsAt
  <2>6. QED
    BY <1>8, <1>9, <2>1, <2>5, UnmovedStillFits DEF CallsFit
<1>11. CASE op # "QUEUED_REQUEST"
  <2>1. \A i \in Jobs \ {j} : Unmoved(i)
    BY <1>1, <1>11 DEF Processed
  <2>2. QED
    BY <1>8, <1>9, <2>1, UnmovedStillFits DEF CallsFit
<1>12. QED
  BY <1>10, <1>11

-----------------------------------------------------------------------------
(* Requests handled *)

\* How many requests of the call have been read and handled.
RequestsHandled(c, S) == c.delivered - One("READ" \in S)

(* A read that completes adds a request to those delivered, not to those   *)
(* that were handled.                                                      *)
LEMMA CompletionHandlesNoRequest ==
  ASSUME NEW c, IsCall(c), NEW S, NEW op, op \notin S, NEW ok \in BOOLEAN,
         NEW d, d = Delivered(c, op, ok),
         NEW T, T = (IF ok THEN S \cup {op} ELSE S)
  PROVE  /\ RequestsHandled(d, T) = RequestsHandled(c, S)
         /\ d.phase = c.phase /\ d.request = c.request
<1>1. /\ d.phase = c.phase /\ d.request = c.request
      /\ d.delivered = IF op = "READ" /\ ok THEN c.delivered + 1 ELSE c.delivered
  BY CallFields DEF Delivered, IsCall
<1>2. c.delivered \in Nat
  BY DEF IsCall
<1>3. CASE op = "READ" /\ ok
  BY <1>1, <1>2, <1>3 DEF One, RequestsHandled
<1>4. CASE ~(op = "READ" /\ ok)
  <2>1. "READ" \in T <=> "READ" \in S
    BY <1>4
  <2>2. QED
    BY <1>1, <1>4, <2>1 DEF One, RequestsHandled
<1>5. QED
  BY <1>1, <1>3, <1>4

LEMMA ReadIsHandled ==
  ASSUME NEW c, c.delivered \in Int, NEW S, "READ" \in S
  PROVE  /\ RequestsHandled(c, S) = c.delivered - 1
         /\ RequestsHandled(c, S \ {"READ"}) = c.delivered
BY DEF RequestsHandled, One

(* A finished RPC has nothing in flight but its end. *)
LEMMA FinishedHasEnded ==
  ASSUME NEW q, NEW F, JobInv(q, F), q.alive, q.finishes > 0
  PROVE  q.finishes = 1 /\ F \cap {"QUEUED_REQUEST", "READ", "WRITE"} = {}
<1>1. q.finishes \in Nat /\ q.finishes <= 1
  BY DEF JobInv, StagesFit, IsJob
<1>2. q.finishes = 1
  BY <1>1
<1>3. QED
  BY <1>2 DEF JobInv, StagesFit
=============================================================================
