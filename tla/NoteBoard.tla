----------------------------- MODULE NoteBoard -----------------------------
(***************************************************************************)
(* What the synchronous RouteChat promises: a board of notes.  Posting a   *)
(* note is one step: the client that posts it is answered with those of    *)
(* the notes posted before that concern it, and nobody else is.            *)
(***************************************************************************)
EXTENDS Sequences

CONSTANTS
  Clients,           \* those who chat
  Note,              \* the notes there are
  AnswersTo(_, _)    \* those of some notes, in order, that answer a note

VARIABLES
  board,     \* the notes posted, in order
  answers    \* what each client was answered

Init ==
  /\ board = <<>>
  /\ answers = [c \in Clients |-> <<>>]

Post(c, note) ==
  /\ answers' = [answers EXCEPT ![c] = @ \o AnswersTo(note, board)]
  /\ board' = Append(board, note)

Next == \E c \in Clients, note \in Note : Post(c, note)

Spec == Init /\ [][Next]_<<board, answers>>
=============================================================================
