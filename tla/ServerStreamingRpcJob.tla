----------------------- MODULE ServerStreamingRpcJob -----------------------
(***************************************************************************)
(* One request, a stream of responses (route_guide_server_async.cpp,       *)
(* ServerStreamingRpcJob).                                                 *)
(***************************************************************************)
EXTENDS ResponseQueue

\* The processor's loop: SendResponse for each response in turn.  Only the
\* first can find no write in progress; the others queue up behind it.
SendAll(r, responses) ==
  IF responses = <<>> THEN r
  ELSE LET first == SendMessage(r, Head(responses))
       IN  [first EXCEPT !.mResponseQueue = @ \o Tail(responses)]

\* The request tag: the application streams all its responses and ends.
ServerStreamingOnRead(r, ok, responses) ==
  LET accepted == RequestAccepted(r)
  IN  IF accepted.alive /\ ok THEN SendEnd(SendAll(accepted, responses))
                              ELSE accepted

ServerStreamingOnWrite(r, ok) == ResponseWritten(r, ok)
=============================================================================
