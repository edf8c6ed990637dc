----------------------- MODULE ClientStreamingRpcJob -----------------------
(***************************************************************************)
(* A stream of requests, one response (route_guide_server_async.cpp,       *)
(* ClientStreamingRpcJob).                                                 *)
(***************************************************************************)
EXTENDS RpcJob

\* GPR_ASSERT: only after the client's last request.
ClientStreamingSendResponse(r, response) ==
  IF r.mClientStreamingDone
  THEN Finish(AsyncOpStarted([r EXCEPT !.mResponse = response], "FINISH"))
  ELSE [r EXCEPT !.asserted = TRUE]

ClientStreamingOnInit(r, ok) ==
  LET accepted == RequestAccepted(r)
  IN  IF accepted.alive /\ ok THEN StartRead(accepted) ELSE accepted

\* mClientStreamingDone is not set before the application is told.
MutClientStreamingOnReadForgetsClientDone(r, ok, response) ==
  LET retired == AsyncOpFinished(r, "READ")
  IN  CASE ~retired.alive       -> retired
        [] retired.alive /\ ok  -> StartRead(retired)
        [] retired.alive /\ ~ok -> ClientStreamingSendResponse(retired, response)

\* A request is consumed by the application and the next one is asked for;
\* at the end of the stream the application answers with "response".
ClientStreamingOnRead(r, ok, response) ==
  LET retired == AsyncOpFinished(r, "READ")
  IN  CASE ~retired.alive       -> retired
        [] retired.alive /\ ok  -> StartRead(retired)
        [] retired.alive /\ ~ok ->
             ClientStreamingSendResponse([retired EXCEPT !.mClientStreamingDone = TRUE], response)
=============================================================================
