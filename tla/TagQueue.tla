------------------------------ MODULE TagQueue ------------------------------
(***************************************************************************)
(* What the two threads of an asynchronous server share, seen from         *)
(* outside: a first-in first-out queue of completed tags.  This is the     *)
(* queue RouteGuideServer works with.                                      *)
(***************************************************************************)
EXTENDS Sequences

CONSTANT Tags

VARIABLES
  completed,   \* what the completion queue has returned
  queue,       \* returned and not yet handled
  handled      \* handled, in order

Init == completed = <<>> /\ queue = <<>> /\ handled = <<>>

\* A completion is returned for the first and only time.
Put(tag) ==
  /\ \A i \in DOMAIN completed : completed[i] # tag
  /\ completed' = Append(completed, tag)
  /\ queue' = Append(queue, tag)
  /\ UNCHANGED handled

Get ==
  /\ queue # <<>>
  /\ handled' = Append(handled, Head(queue))
  /\ queue' = Tail(queue)
  /\ UNCHANGED completed

Next == Get \/ \E tag \in Tags : Put(tag)

Spec == Init /\ [][Next]_<<completed, queue, handled>>
=============================================================================
