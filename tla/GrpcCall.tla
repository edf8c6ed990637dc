------------------------------ MODULE GrpcCall ------------------------------
(***************************************************************************)
(* What the gRPC library does with the calls of one server, as the servers *)
(* of this repository rely on it (external: not in this repository).  A    *)
(* call belongs to the job whose queued request it met.  Everything a      *)
(* client streams is a prefix of Route.                                    *)
(***************************************************************************)
EXTENDS RpcJob

CONSTANT Route   \* the messages a client streams, in order

ASSUME RouteAssumption == Route \in Seq({Route[i] : i \in DOMAIN Route})

NoCall == [phase |-> "None", request |-> NULL, sent |-> 0, delivered |-> 0,
           halfClosed |-> FALSE]

IsCall(call) ==
  /\ DOMAIN call = DOMAIN NoCall
  /\ call.phase \in {"None", "Open", "Dead"}
  /\ call.sent \in Nat
  /\ call.delivered \in 0..call.sent
  /\ call.halfClosed \in BOOLEAN

\* A client that streams no requests has sent everything when it calls.
NewCall(request, streams) ==
  [NoCall EXCEPT !.phase = "Open", !.request = request, !.halfClosed = ~streams]

\* An RPC has met the queued request.
RequestMet(call) == call.phase # "None"

\* When gRPC may complete operation op of job r with result ok.  What had
\* already completed when the call died keeps its ok = TRUE.  The done event
\* is armed once the request's own tag has been delivered; it does not wait
\* for the tags of other operations, not even for Finish's.
MayComplete(r, call, op, ok) ==
  CASE op = "QUEUED_REQUEST" -> RequestMet(call) /\ ok
    [] op = "READ"   -> IF ok THEN call.delivered < call.sent
                        ELSE \/ call.phase = "Dead"
                             \/ call.halfClosed /\ call.delivered = call.sent
    [] op = "WRITE"  -> ok = (call.phase = "Open")
    [] op = "FINISH" -> ok = (call.phase = "Open")
    [] op = "DONE"   -> /\ RequestMet(call)
                        /\ "QUEUED_REQUEST" \notin r.held
                        /\ call.phase = "Dead" \/ r.finishes > 0
                        /\ ok

\* The message a completed operation leaves in mRequest.
Received(r, call, op, ok) ==
  CASE op = "QUEUED_REQUEST" -> call.request
    [] op = "READ" /\ ok     -> Route[call.delivered + 1]
    [] OTHER                 -> r.mRequest

Complete(r, call, op, ok) ==
  [r EXCEPT !.held = @ \ {op}, !.mRequest = Received(r, call, op, ok)]

Delivered(call, op, ok) ==
  IF op = "READ" /\ ok THEN [call EXCEPT !.delivered = @ + 1] ELSE call
=============================================================================
