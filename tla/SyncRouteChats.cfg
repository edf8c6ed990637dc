SPECIFICATION FairSpec

CONSTANTS
  NULL = NULL
  a1 = a1
  a2 = a2
  Clients = {a1, a2}
  Locations <- MCLocations
  Window = 1

\* When all clients have finished the server waits for others.
CHECK_DEADLOCK FALSE

INVARIANTS
  NotesKeptInOrder
  FinishedWithAllAnswers

PROPERTIES
  ImplementsNoteBoard
  EveryChatEnds
