-------------------- MODULE BidirectionalStreamingRpcJob --------------------
(***************************************************************************)
(* A stream each way (chatDemoServer.cpp and route_guide_server_async.cpp, *)
(* BidirectionalStreamingRpcJob, the same text in both).  Reading goes on  *)
(* while earlier responses are written; the server finishes the RPC after  *)
(* the client's last request and the last queued response.                 *)
(***************************************************************************)
EXTENDS ResponseQueue

\* SendResponse(nullptr); GPR_ASSERT: only after the client's last request.
BidirectionalSendEnd(r) ==
  IF r.mClientStreamingDone THEN SendEnd(r) ELSE [r EXCEPT !.asserted = TRUE]

\* The application, RouteChatProcessor: a note is echoed (SendResponse with a
\* copy of it), the end of the notes is the end of the responses.
EchoNote(r)   == SendMessage(r, r.mRequest)
EndOfNotes(r) == BidirectionalSendEnd(r)

BidirectionalOnInit(r, ok) ==
  LET accepted == RequestAccepted(r)
  IN  IF accepted.alive /\ ok THEN StartRead(accepted) ELSE accepted

\* mClientStreamingDone is not set before the application is told.
MutBidirectionalOnReadForgetsClientDone(r, ok) ==
  LET retired == AsyncOpFinished(r, "READ")
  IN  CASE ~retired.alive       -> retired
        [] retired.alive /\ ok  -> StartRead(EchoNote(retired))
        [] retired.alive /\ ~ok -> EndOfNotes(retired)

\* A note is echoed and the next one is asked for, or the notes are over.
BidirectionalOnRead(r, ok) ==
  LET retired == AsyncOpFinished(r, "READ")
  IN  CASE ~retired.alive       -> retired
        [] retired.alive /\ ok  -> StartRead(EchoNote(retired))
        [] retired.alive /\ ~ok ->
             EndOfNotes([retired EXCEPT !.mClientStreamingDone = TRUE])

BidirectionalOnWrite(r, ok) == ResponseWritten(r, ok)
=============================================================================
