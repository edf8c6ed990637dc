--------------------------- MODULE ResponseQueue ---------------------------
(***************************************************************************)
(* The queue of responses that ServerStreamingRpcJob and                   *)
(* BidirectionalStreamingRpcJob both carry, in the same words.  gRPC takes *)
(* one write at a time, so responses wait in mResponseQueue; its front is  *)
(* the one being written and leaves the queue when the write completes.    *)
(***************************************************************************)
EXTENDS RpcJob

doSendResponse(r) ==
  Write(AsyncOpStarted(r, "WRITE"), Head(r.mResponseQueue))

doFinish(r) == Finish(AsyncOpStarted(r, "FINISH"))

\* Pushed to the front, under the message that is being written.
MutQueuedInFront(r, response) ==
  [r EXCEPT !.mResponseQueue = <<response>> \o @]

Queued(r, response) == [r EXCEPT !.mResponseQueue = Append(@, response)]

\* Written at once, even under another write.
MutSendMessageIgnoresWrite(r, response) == doSendResponse(Queued(r, response))

\* SendResponse with a message: queued, and written if no write is under way.
SendMessage(r, response) ==
  IF AsyncWriteInProgress(r) THEN Queued(r, response)
                             ELSE doSendResponse(Queued(r, response))

\* Finished at once, even under a write.
MutSendEndFinishesAtOnce(r) == doFinish([r EXCEPT !.mServerStreamingDone = TRUE])

\* SendResponse with nullptr: no more will come.  With a write under way it
\* is that write's completion that finishes the RPC.
SendEnd(r) ==
  LET ended == [r EXCEPT !.mServerStreamingDone = TRUE]
  IN  IF AsyncWriteInProgress(r) THEN ended ELSE doFinish(ended)

\* Finished before the rest of the queue is written.
MutResponseWrittenEndsFirst(r, ok) ==
  LET retired == AsyncOpFinished(r, "WRITE")
      popped  == [retired EXCEPT !.mResponseQueue = Tail(@)]
  IN  CASE ~retired.alive -> retired
        [] retired.alive /\ ok /\ popped.mServerStreamingDone -> doFinish(popped)
        [] retired.alive /\ ok /\ ~popped.mServerStreamingDone
             /\ popped.mResponseQueue # <<>> ->
             doSendResponse(popped)
        [] OTHER -> popped

\* OnWrite: the finished message leaves the queue; then the next one is
\* written, or the RPC finished.  After a failed write neither happens.
ResponseWritten(r, ok) ==
  LET retired == AsyncOpFinished(r, "WRITE")
      popped  == [retired EXCEPT !.mResponseQueue = Tail(@)]
  IN  CASE ~retired.alive -> retired
        [] retired.alive /\ ok /\ popped.mResponseQueue # <<>> ->
             doSendResponse(popped)
        [] retired.alive /\ ok /\ popped.mResponseQueue = <<>>
             /\ popped.mServerStreamingDone ->
             doFinish(popped)
        [] OTHER -> popped
=============================================================================
