---------------------------- MODULE UnaryRpcJob ----------------------------
(***************************************************************************)
(* One request, one response (route_guide_server_async.cpp, UnaryRpcJob).  *)
(***************************************************************************)
EXTENDS RpcJob

UnarySendResponse(r, response) ==
  Finish(AsyncOpStarted([r EXCEPT !.mResponse = response], "FINISH"))

\* The request tag: its mRequest is filled in.  The application's processor
\* answers at once, with "response".  ok = FALSE hits GPR_ASSERT(ok).
UnaryOnRead(r, ok, response) ==
  LET accepted == RequestAccepted(r)
  IN  CASE ~accepted.alive       -> accepted
        [] accepted.alive /\ ok  -> UnarySendResponse(accepted, response)
        [] accepted.alive /\ ~ok -> [accepted EXCEPT !.asserted = TRUE]
=============================================================================
