--------------------------- MODULE SyncRouteChat ---------------------------
(***************************************************************************)
(* RouteChat of the synchronous server (route_guide_server.cpp) and of its *)
(* client (route_guide_client.cpp).  A client is two threads: the writer   *)
(* sends the notes, the main thread reads until the server ends the chat   *)
(* and then joins the writer.  gRPC runs one handler per chat on threads   *)
(* of its own; the handlers share received_notes_ under mu_.  A stream     *)
(* holds a bounded number of messages per direction, and Write waits for   *)
(* room.                                                                   *)
(***************************************************************************)
EXTENDS Integers, Sequences

CONSTANTS
  Clients,      \* the clients, each of which chats once
  Locations,    \* the locations of the notes every client sends, in order
  Window,       \* how many messages a stream holds per direction
  NULL

ASSUME WindowAssumption == Window \in Nat \ {0}

ASSUME LocationsAssumption ==
  Locations \in Seq({Locations[i] : i \in DOMAIN Locations})

\* NULL is where there is no client.
ASSUME NoClientIsNull == NULL \notin Clients

VARIABLES
  received_notes_,  \* the server's notes
  mu_,              \* the client whose handler holds the mutex, or NULL
  handler,          \* the handler of each chat: its statement, its note and
                    \* the notes its loop has still to write
  toServer,         \* notes on their way to the handler
  toClient,         \* answers on their way to the client
  sent,             \* how many notes the writer thread has sent
  client,           \* the statements the two threads of a client are at
  written,          \* answers the handler has written
  broken            \* the connection is gone

vars == <<received_notes_, mu_, handler, toServer, toClient, sent, client,
          written, broken>>

serverVars == <<received_notes_, mu_, handler, written>>
clientVars == <<sent, client>>

Note == [by : Clients, no : DOMAIN Locations]
Location(note) == Locations[note.no]

Idle == [at |-> "none", note |-> NULL, left |-> <<>>]

Init ==
  /\ received_notes_ = <<>>
  /\ mu_ = NULL
  /\ handler = [c \in Clients |-> Idle]
  /\ toServer = [c \in Clients |-> <<>>]
  /\ toClient = [c \in Clients |-> <<>>]
  /\ sent = [c \in Clients |-> 0]
  /\ client = [c \in Clients |-> [writer |-> "Write", main |-> "Read"]]
  /\ written = [c \in Clients |-> <<>>]
  /\ broken = [c \in Clients |-> FALSE]

-----------------------------------------------------------------------------
(* The handler of a chat *)

RouteChat(c) ==
  /\ handler[c].at = "none"
  /\ handler' = [handler EXCEPT ![c].at = "Read"]
  /\ UNCHANGED <<received_notes_, mu_, written, toServer, toClient, broken>>
  /\ UNCHANGED clientVars

\* No note, and none to come.
EndOfNotes(c) ==
  broken[c] \/ (toServer[c] = <<>> /\ client[c].writer = "done")

HandlerRead(c) ==
  /\ handler[c].at = "Read"
  /\ \/ /\ toServer[c] # <<>>
        /\ toServer' = [toServer EXCEPT ![c] = Tail(@)]
        /\ handler' = [handler EXCEPT ![c] =
                         [Idle EXCEPT !.at = "lock", !.note = Head(toServer[c])]]
     \/ /\ EndOfNotes(c)
        /\ handler' = [handler EXCEPT ![c] = [Idle EXCEPT !.at = "returned"]]
        /\ UNCHANGED toServer
  /\ UNCHANGED <<received_notes_, mu_, written, toClient, broken>>
  /\ UNCHANGED clientVars

\* The notes at the location of a note, in order.
NotesWhere(note, notes) ==
  LET same[n \in 0..Len(notes)] ==
        IF n = 0 THEN <<>>
        ELSE IF Location(notes[n]) = Location(note)
             THEN Append(same[n - 1], notes[n])
             ELSE same[n - 1]
  IN  same[Len(notes)]

\* The loop writes the notes at this note's location that there are when it
\* begins.
EnterLoop(c) ==
  handler' = [handler EXCEPT ![c].at = "loop",
                             ![c].left = NotesWhere(handler[c].note, received_notes_)]

\* The mutex is not waited for.
MutHandlerLockBarges(c) ==
  /\ handler[c].at = "lock"
  /\ mu_' = c
  /\ EnterLoop(c)
  /\ UNCHANGED <<received_notes_, written, toServer, toClient, broken>>
  /\ UNCHANGED clientVars

\* std::unique_lock lock(mu_)
HandlerLock(c) ==
  /\ handler[c].at = "lock"
  /\ mu_ = NULL
  /\ mu_' = c
  /\ EnterLoop(c)
  /\ UNCHANGED <<received_notes_, written, toServer, toClient, broken>>
  /\ UNCHANGED clientVars

\* Write waits while the client's window is full; its result is not looked
\* at, and on a broken connection nothing is sent.
HandlerWrite(c) ==
  /\ handler[c].at = "loop"
  /\ handler[c].left # <<>>
  /\ broken[c] \/ Len(toClient[c]) < Window
  /\ LET n == Head(handler[c].left)
     IN  /\ toClient' = IF broken[c] THEN toClient
                        ELSE [toClient EXCEPT ![c] = Append(@, n)]
         /\ written' = [written EXCEPT ![c] = Append(@, n)]
  /\ handler' = [handler EXCEPT ![c].left = Tail(@)]
  /\ UNCHANGED <<received_notes_, mu_, toServer, broken>>
  /\ UNCHANGED clientVars

\* Inserted at the front.
MutHandlerPushFront(c) ==
  /\ handler[c].at = "loop"
  /\ handler[c].left = <<>>
  /\ received_notes_' = <<handler[c].note>> \o received_notes_
  /\ mu_' = NULL
  /\ handler' = [handler EXCEPT ![c] = [Idle EXCEPT !.at = "Read"]]
  /\ UNCHANGED <<written, toServer, toClient, broken>>
  /\ UNCHANGED clientVars

\* received_notes_.push_back(note), and the end of the lock's scope.
HandlerPushBack(c) ==
  /\ handler[c].at = "loop"
  /\ handler[c].left = <<>>
  /\ received_notes_' = Append(received_notes_, handler[c].note)
  /\ mu_' = NULL
  /\ handler' = [handler EXCEPT ![c] = [Idle EXCEPT !.at = "Read"]]
  /\ UNCHANGED <<written, toServer, toClient, broken>>
  /\ UNCHANGED clientVars

Handler(c) ==
  \/ RouteChat(c)
  \/ HandlerRead(c)
  \/ HandlerLock(c)
  \/ HandlerWrite(c)
  \/ HandlerPushBack(c)

-----------------------------------------------------------------------------
(* A client *)

\* The writer's loop: the result of Write is not looked at.
WriterWrite(c) ==
  /\ client[c].writer = "Write"
  /\ sent[c] < Len(Locations)
  /\ broken[c] \/ Len(toServer[c]) < Window
  /\ sent' = [sent EXCEPT ![c] = @ + 1]
  /\ toServer' = IF broken[c] THEN toServer
                 ELSE [toServer EXCEPT ![c] =
                         Append(@, [by |-> c, no |-> sent[c] + 1])]
  /\ UNCHANGED <<client, toClient, broken>>
  /\ UNCHANGED serverVars

WriterWritesDone(c) ==
  /\ client[c].writer = "Write"
  /\ sent[c] = Len(Locations)
  /\ client' = [client EXCEPT ![c].writer = "done"]
  /\ UNCHANGED <<sent, toServer, toClient, broken>>
  /\ UNCHANGED serverVars

Writer(c) == WriterWrite(c) \/ WriterWritesDone(c)

\* No answer, and none to come.
EndOfAnswers(c) ==
  broken[c] \/ (toClient[c] = <<>> /\ handler[c].at = "returned")

\* The writer is joined before the answers are read.
MutMainReadAfterJoin(c) ==
  /\ client[c].main = "Read"
  /\ client[c].writer = "done"
  /\ \/ /\ toClient[c] # <<>>
        /\ toClient' = [toClient EXCEPT ![c] = Tail(@)]
        /\ UNCHANGED client
     \/ /\ EndOfAnswers(c)
        /\ client' = [client EXCEPT ![c].main = "join"]
        /\ UNCHANGED toClient
  /\ UNCHANGED <<sent, toServer, broken>>
  /\ UNCHANGED serverVars

\* Reading ends when the server has nothing more for now.
MutMainReadUntilEmpty(c) ==
  /\ client[c].main = "Read"
  /\ \/ /\ toClient[c] # <<>>
        /\ toClient' = [toClient EXCEPT ![c] = Tail(@)]
        /\ UNCHANGED client
     \/ /\ toClient[c] = <<>> /\ client[c].writer = "done"
        /\ client' = [client EXCEPT ![c].main = "join"]
        /\ UNCHANGED toClient
  /\ UNCHANGED <<sent, toServer, broken>>
  /\ UNCHANGED serverVars

MainRead(c) ==
  /\ client[c].main = "Read"
  /\ \/ /\ toClient[c] # <<>>
        /\ toClient' = [toClient EXCEPT ![c] = Tail(@)]
        /\ UNCHANGED client
     \/ /\ EndOfAnswers(c)
        /\ client' = [client EXCEPT ![c].main = "join"]
        /\ UNCHANGED toClient
  /\ UNCHANGED <<sent, toServer, broken>>
  /\ UNCHANGED serverVars

\* writer.join(), and Finish, which has the status by then.
MainJoin(c) ==
  /\ client[c].main = "join"
  /\ client[c].writer = "done"
  /\ client' = [client EXCEPT ![c].main = "finished"]
  /\ UNCHANGED <<sent, toServer, toClient, broken>>
  /\ UNCHANGED serverVars

Main(c) == MainRead(c) \/ MainJoin(c)

\* The connection breaks while the chat goes on.  What is read after that
\* could have been read before: the messages on their way are lost.
Disconnect(c) ==
  /\ ~broken[c]
  /\ handler[c].at # "returned"
  /\ broken' = [broken EXCEPT ![c] = TRUE]
  /\ toServer' = [toServer EXCEPT ![c] = <<>>]
  /\ toClient' = [toClient EXCEPT ![c] = <<>>]
  /\ UNCHANGED serverVars
  /\ UNCHANGED clientVars

-----------------------------------------------------------------------------
Next == \E c \in Clients : Handler(c) \/ Writer(c) \/ Main(c) \/ Disconnect(c)

Spec == Init /\ [][Next]_vars

\* All threads run on.  The mutex is taken a bounded number of times, so a
\* thread that waits for it need not be favoured.
Fairness ==
  \A c \in Clients : WF_vars(Handler(c)) /\ WF_vars(Writer(c)) /\ WF_vars(Main(c))

FairSpec == Spec /\ Fairness

-----------------------------------------------------------------------------
\* Whatever the handlers do at once, the notes of each client are kept in the
\* order it sent them: none is kept twice, and each only after all those that
\* its client sent before it.
NotesKeptInOrder ==
  \A k \in DOMAIN received_notes_ :
    LET note == received_notes_[k]
        Before(n) == \E i \in 1..(k - 1) : received_notes_[i] = n
    IN  /\ ~Before(note)
        /\ \A m \in 1..(note.no - 1) : Before([by |-> note.by, no |-> m])

\* A client whose connection held finishes with all of its notes kept and all
\* answers to them read.
FinishedWithAllAnswers ==
  \A c \in Clients : client[c].main = "finished" /\ ~broken[c] =>
    /\ handler[c].at = "returned" /\ toClient[c] = <<>>
    /\ \A i \in DOMAIN Locations : \E k \in DOMAIN received_notes_ :
         received_notes_[k] = [by |-> c, no |-> i]

\* A note is posted when its handler has the mutex.
Board == INSTANCE NoteBoard WITH
  AnswersTo <- NotesWhere,
  board     <- IF mu_ = NULL THEN received_notes_
               ELSE Append(received_notes_, handler[mu_].note),
  answers   <- [c \in Clients |-> written[c] \o handler[c].left]

\* The server implements the board: a note is answered with exactly the notes
\* that came before it, from whatever client, although the answers are
\* written one by one while other notes arrive.
ImplementsNoteBoard == Board!Spec

\* Every chat comes to its end: the handlers do not block each other for ever,
\* nor a handler and the two threads of its client.
EveryChatEnds == \A c \in Clients : <>(client[c].main = "finished")
=============================================================================
