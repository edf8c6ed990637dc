--------------------------- MODULE JobReferences ---------------------------
(***************************************************************************)
(* What the job framework promises, without counters, flags or queues: a   *)
(* job is held by references, one for each operation it started and one    *)
(* for the done event.  Handling the event of an operation gives up its    *)
(* reference and may take new ones for further operations; the job is      *)
(* deleted by the handler that gives up the last reference, and by no      *)
(* other.                                                                  *)
(***************************************************************************)
CONSTANTS Jobs, AsyncOpType

VARIABLES
  refs,    \* the references to the job at each address
  alive    \* the addresses that hold a job

vars == <<refs, alive>>

References == AsyncOpType \cup {"DONE"}

NewReferences == {"QUEUED_REQUEST", "DONE"}

\* One operation at a time, except that a read and a write may overlap.
Compatible(ops) ==
  \A a, b \in ops \ {"DONE"} : a # b => {a, b} = {"READ", "WRITE"}

Init ==
  /\ alive \in SUBSET Jobs
  /\ refs = [j \in Jobs |-> IF j \in alive THEN NewReferences ELSE {}]

\* The handler of op's event; "started" are the operations it starts.  Once
\* nothing but op refers to the job, the handler may start nothing.
Handle(j, op, started) ==
  /\ j \in alive
  /\ op \in refs[j]
  /\ started \cap refs[j] \subseteq {op}
  /\ refs[j] = {op} => started = {}
  /\ Compatible((refs[j] \ {op}) \cup started)
  /\ refs' = [refs EXCEPT ![j] = (@ \ {op}) \cup started]
  /\ alive' = alive \ (IF refs'[j] = {} THEN {j} ELSE {})

\* The handler of a met request creates the next job, at a free address.
Accept(j, started) ==
  \E k \in Jobs \ alive :
    /\ j \in alive
    /\ "QUEUED_REQUEST" \in refs[j]
    /\ Compatible((refs[j] \ {"QUEUED_REQUEST"}) \cup started)
    /\ refs' = [refs EXCEPT ![j] = (@ \ {"QUEUED_REQUEST"}) \cup started,
                            ![k] = NewReferences]
    /\ alive' = (alive \cup {k}) \ (IF refs'[j] = {} THEN {j} ELSE {})

\* The operations that may be under way together.
TogetherStarted == {ops \in SUBSET AsyncOpType : Compatible(ops)}

Next ==
  \E j \in alive : \E op \in refs[j] : \E started \in TogetherStarted :
    IF op = "QUEUED_REQUEST" THEN Accept(j, started) ELSE Handle(j, op, started)

Spec == Init /\ [][Next]_vars
=============================================================================
