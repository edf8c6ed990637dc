------------------------ MODULE SyncRouteChat_proofs ------------------------
(***************************************************************************)
(* For any clients, any notes and streams of any length: the mutex keeps   *)
(* the handlers apart while they write and append, and so they implement   *)
(* the board of notes; no note is lost, doubled or overtaken between the   *)
(* thread that sends it and received_notes_.                               *)
(***************************************************************************)
EXTENDS SyncRouteChat, WellFoundedInduction, TLAPS

NoteOf(c, n) == [by |-> c, no |-> n]

IsSequence(s) == \E S : s \in Seq(S)

-----------------------------------------------------------------------------
(* The inductive invariant *)

Statements == {"none", "Read", "lock", "loop", "returned"}

\* What the variables hold, the answers under way aside.
Types ==
  /\ received_notes_ \in Seq(Note)
  /\ mu_ \in Clients \cup {NULL}
  /\ DOMAIN handler = Clients
  /\ \A c \in Clients : /\ DOMAIN handler[c] = {"at", "note", "left"}
                        /\ handler[c].at \in Statements
                        /\ IsSequence(handler[c].left)
  /\ DOMAIN toServer = Clients /\ \A c \in Clients : toServer[c] \in Seq(Note)
  /\ DOMAIN toClient = Clients
  /\ sent \in [Clients -> Nat]
  /\ DOMAIN client = Clients
  /\ \A c \in Clients : DOMAIN client[c] = {"writer", "main"}
  /\ DOMAIN written = Clients /\ \A c \in Clients : IsSequence(written[c])
  /\ DOMAIN broken = Clients

\* The mutex is held by the handler that is in its loop, and only the loop has
\* notes left to write.
MutexHeld ==
  \A c \in Clients : /\ handler[c].at = "loop" <=> mu_ = c
                     /\ handler[c].at # "loop" => handler[c].left = <<>>

HasNote(c) == handler[c].at \in {"lock", "loop"}

\* The first n notes of client c are kept, and no others of its.
Kept(c, n) ==
  /\ \A i \in DOMAIN received_notes_ :
       received_notes_[i].by = c => received_notes_[i].no \in 1..n
  /\ \A m \in 1..n : \E i \in DOMAIN received_notes_ : received_notes_[i] = NoteOf(c, m)

\* The handler of client c has read its first n notes, and after those come
\* the notes in the stream, up to the last one sent.
Streamed(c, n) ==
  /\ \A k \in 1..Len(toServer[c]) : toServer[c][k] = NoteOf(c, n + k)
  /\ n + Len(toServer[c]) <= sent[c]
  /\ broken[c] => toServer[c] = <<>>
  /\ ~broken[c] => n + Len(toServer[c]) = sent[c]

\* How far the notes of client c have come.
NotesAtHand(c) ==
  \E n \in 0..Len(Locations) :
    /\ Kept(c, n)
    /\ IF HasNote(c) THEN handler[c].note = NoteOf(c, n + 1) /\ Streamed(c, n + 1)
                     ELSE Streamed(c, n)

\* What the threads know when they have come so far.
Threads(c) ==
  /\ sent[c] <= Len(Locations)
  /\ client[c].writer = "done" => sent[c] = Len(Locations)
  /\ ~broken[c] =>
       /\ handler[c].at = "returned" => toServer[c] = <<>> /\ client[c].writer = "done"
       /\ client[c].main \in {"join", "finished"} =>
            toClient[c] = <<>> /\ handler[c].at = "returned"

IInv ==
  /\ Types
  /\ MutexHeld
  /\ \A c \in Clients : NotesAtHand(c) /\ Threads(c)
  /\ NotesKeptInOrder

-----------------------------------------------------------------------------
(* Sequences.  A step that appends or concatenates names the result, so    *)
(* that it is not looked into where only these facts matter.               *)

Joined(s, t) == s \o t

Followed(s, e) == Append(s, e)

LEMMA EmptySequence == IsSequence(<<>>)
<1>1. <<>> \in Seq({})
  OBVIOUS
<1>2. QED
  BY <1>1 DEF IsSequence

LEMMA Sequences ==
  ASSUME NEW s, IsSequence(s), NEW t, IsSequence(t), NEW e
  PROVE  /\ IsSequence(Joined(s, t)) /\ IsSequence(Followed(s, e))
         /\ Joined(s, <<>>) = s
         /\ t # <<>> => /\ IsSequence(Tail(t))
                        /\ Joined(Followed(s, Head(t)), Tail(t)) = Joined(s, t)
<1>1. PICK S : s \in Seq(S)
  BY DEF IsSequence
<1>2. PICK T : t \in Seq(T)
  BY DEF IsSequence
<1> DEFINE U == (S \cup T) \cup {e}
<1>3. s \in Seq(U) /\ t \in Seq(U) /\ e \in U
  BY <1>1, <1>2
<1> HIDE DEF U
<1>4. Joined(s, t) \in Seq(U) /\ Followed(s, e) \in Seq(U)
  BY <1>3 DEF Joined, Followed
<1>5. Joined(s, <<>>) = s
  BY <1>3 DEF Joined
<1>6. t # <<>> => Joined(Followed(s, Head(t)), Tail(t)) = Joined(s, t)
  BY <1>3 DEF Joined, Followed
<1>7. t # <<>> => Tail(t) \in Seq(U)
  BY <1>3
<1>8. QED
  BY <1>4, <1>5, <1>6, <1>7 DEF IsSequence

(* The note a client sends next, or a handler is given, is a note.         *)
LEMMA NoteOfIsNote ==
  ASSUME NEW c \in Clients, NEW n \in 1..Len(Locations)
  PROVE  NoteOf(c, n) \in Note
BY LocationsAssumption DEF Note, NoteOf

-----------------------------------------------------------------------------
(* The notes at a location *)

LEMMA Least ==
  ASSUME NEW T \in SUBSET Nat, T # {}
  PROVE  \E m \in T : \A n \in T : m <= n
<1> DEFINE R == OpToRel(<, Nat)
<1>1. IsWellFoundedOn(R, Nat)
  BY NatLessThanWellFounded
<1>2. \A m, n \in Nat : m < n => <<m, n>> \in R
  BY DEF OpToRel
<1> HIDE DEF R
<1>3. \E x \in T : \A y \in T : ~ (<<y, x>> \in R)
  BY <1>1, WFMin
<1>4. PICK x \in T : \A y \in T : ~ (<<y, x>> \in R)
  BY <1>3
<1>5. \A y \in T : ~(y < x)
  BY <1>2, <1>4, Zenon
<1>6. QED
  BY <1>5

\* The first n rounds of the loop over "notes" that looks for those at the
\* location of "note".
Looks(note, notes, n, same) ==
  /\ same \in [0..n -> Seq(Note)]
  /\ same[0] = <<>>
  /\ \A k \in 1..n : same[k] = IF Location(notes[k]) = Location(note)
                               THEN Append(same[k - 1], notes[k])
                               ELSE same[k - 1]

LEMMA LooksOn ==
  ASSUME NEW note, NEW notes \in Seq(Note), NEW n \in 1..Len(notes),
         NEW f, Looks(note, notes, n - 1, f)
  PROVE  \E same : Looks(note, notes, n, same)
<1> DEFINE next == IF Location(notes[n]) = Location(note)
                   THEN Append(f[n - 1], notes[n]) ELSE f[n - 1]
           g == [k \in 0..n |-> IF k = n THEN next ELSE f[k]]
<1>1. f \in [0..(n - 1) -> Seq(Note)]
  BY DEF Looks
<1>2. f[n - 1] \in Seq(Note) /\ notes[n] \in Note
  BY <1>1
<1>3. next \in Seq(Note)
  BY <1>2
<1>4. /\ f[0] = <<>>
      /\ \A k \in 1..(n - 1) :
           f[k] = IF Location(notes[k]) = Location(note)
                  THEN Append(f[k - 1], notes[k]) ELSE f[k - 1]
  BY DEF Looks
<1> HIDE DEF next
<1>5. g \in [0..n -> Seq(Note)]
  BY <1>1, <1>3
<1>6. g[0] = <<>> /\ g[n] = next /\ \A k \in 0..(n - 1) : g[k] = f[k]
  BY <1>4
<1> HIDE DEF g
<1>7. ASSUME NEW k \in 1..n
      PROVE  g[k] = IF Location(notes[k]) = Location(note)
                    THEN Append(g[k - 1], notes[k]) ELSE g[k - 1]
  <2>1. k - 1 \in 0..(n - 1) /\ g[k - 1] = f[k - 1]
    BY <1>6
  <2>2. CASE k = n
    BY <1>6, <2>1, <2>2 DEF next
  <2>3. CASE k # n
    <3>1. k \in 1..(n - 1) /\ g[k] = f[k]
      BY <1>6, <2>3
    <3>2. QED
      BY <1>4, <2>1, <3>1
  <2>4. QED
    BY <2>2, <2>3
<1>8. Looks(note, notes, n, g)
  BY <1>5, <1>6, <1>7 DEF Looks
<1>9. QED
  BY <1>8

(* What the loop of a handler writes is a sequence of notes.               *)
LEMMA NotesAreWritten ==
  ASSUME NEW note, NEW notes \in Seq(Note)
  PROVE  NotesWhere(note, notes) \in Seq(Note)
<1> DEFINE N == Len(notes)
           Fails == {n \in 0..N : ~\E same : Looks(note, notes, n, same)}
<1>1. N \in Nat
  OBVIOUS
<1>2. Fails = {}
  <2> SUFFICES ASSUME Fails # {} PROVE FALSE
    OBVIOUS
  <2>1. Fails \in SUBSET Nat
    OBVIOUS
  <2>2. PICK m \in Fails : \A n \in Fails : m <= n
    BY <2>1, Least
  <2>3. m # 0
    <3>1. Looks(note, notes, 0, [k \in 0..0 |-> <<>>])
      BY DEF Looks
    <3>2. QED
      BY <3>1
  <2>4. m \in 1..N /\ m - 1 \in 0..N /\ m - 1 \notin Fails
    BY <1>1, <2>2, <2>3
  <2>5. PICK f : Looks(note, notes, m - 1, f)
    BY <2>4
  <2>6. QED
    BY <2>2, <2>4, <2>5, LooksOn
<1>3. PICK f : Looks(note, notes, N, f)
  BY <1>1, <1>2
<1> DEFINE Loop(same) ==
             same = [n \in 0..N |->
                       IF n = 0 THEN <<>>
                       ELSE IF Location(notes[n]) = Location(note)
                            THEN Append(same[n - 1], notes[n])
                            ELSE same[n - 1]]
<1>4. Loop(f)
  <2>1. f = [n \in 0..N |-> f[n]]
    BY <1>3 DEF Looks
  <2>2. ASSUME NEW n \in 0..N
        PROVE  f[n] = IF n = 0 THEN <<>>
                      ELSE IF Location(notes[n]) = Location(note)
                           THEN Append(f[n - 1], notes[n])
                           ELSE f[n - 1]
    <3>1. n = 0 \/ (n \in 1..N /\ n # 0)
      BY <1>1
    <3> HIDE DEF N
    <3>2. QED
      BY <1>3, <3>1 DEF Looks
  <2>3. QED
    BY <2>1, <2>2
<1>5. PICK same : Loop(same) /\ NotesWhere(note, notes) = same[N]
  BY <1>4 DEF NotesWhere
<1> DEFINE Bad == {n \in 0..N : same[n] \notin Seq(Note)}
<1>6. Bad = {}
  <2> SUFFICES ASSUME Bad # {} PROVE FALSE
    OBVIOUS
  <2>1. Bad \in SUBSET Nat
    OBVIOUS
  <2>2. PICK m \in Bad : \A n \in Bad : m <= n
    BY <2>1, Least
  <2>3. same[0] = <<>> /\ <<>> \in Seq(Note)
    BY <1>1, <1>5
  <2>4. m # 0
    <3> SUFFICES ASSUME m = 0 PROVE FALSE
      OBVIOUS
    <3>1. same[m] \in Seq(Note)
      BY <2>3
    <3>2. QED
      BY <2>2, <3>1
  <2>5. m \in 1..N /\ m - 1 \in 0..N /\ m - 1 \notin Bad
    BY <1>1, <2>2, <2>4
  <2>6. same[m - 1] \in Seq(Note) /\ notes[m] \in Note
    BY <2>5
  <2>7. same[m] = IF Location(notes[m]) = Location(note)
                  THEN Append(same[m - 1], notes[m]) ELSE same[m - 1]
    BY <1>5, <2>4, <2>5
  <2>8. same[m] \in Seq(Note)
    BY <2>6, <2>7
  <2>9. QED
    BY <2>2, <2>8
<1>7. same[N] \in Seq(Note)
  <2>1. N \in 0..N
    BY <1>1
  <2>2. QED
    BY <1>6, <2>1
<1>8. QED
  BY <1>5, <1>7

-----------------------------------------------------------------------------
(* IInv holds at the start *)

LEMMA InitIInv == Init => IInv
<1> SUFFICES ASSUME Init PROVE IInv
  OBVIOUS
<1>1. Types
  BY EmptySequence DEF Init, Idle, Types, Statements
<1>2. MutexHeld
  BY NoClientIsNull DEF Init, Idle, MutexHeld
<1>3. ASSUME NEW c \in Clients PROVE NotesAtHand(c) /\ Threads(c)
  <2>1. Len(Locations) \in Nat
    BY LocationsAssumption
  <2>2. /\ handler[c].at = "none" /\ toServer[c] = <<>> /\ sent[c] = 0
        /\ client[c].writer = "Write" /\ client[c].main = "Read"
    BY DEF Init, Idle
  <2>3. Kept(c, 0)
    BY DEF Init, Kept
  <2>4. Streamed(c, 0)
    BY <2>2 DEF Streamed
  <2>5. NotesAtHand(c)
    BY <2>1, <2>2, <2>3, <2>4 DEF NotesAtHand, HasNote
  <2>6. Threads(c)
    BY <2>1, <2>2 DEF Threads
  <2>7. QED
    BY <2>5, <2>6
<1>4. NotesKeptInOrder
  BY DEF Init, NotesKeptInOrder
<1>5. QED
  BY <1>1, <1>2, <1>3, <1>4 DEF IInv

-----------------------------------------------------------------------------
(* The chats that a step is not about *)

Untouched(d) ==
  /\ handler'[d] = handler[d] /\ toServer'[d] = toServer[d]
  /\ toClient'[d] = toClient[d] /\ sent'[d] = sent[d]
  /\ client'[d] = client[d] /\ broken'[d] = broken[d]

\* What is appended is not a note of client d.
NothingKeptOf(d) ==
  \/ received_notes_' = received_notes_
  \/ \E note \in Note : note.by # d /\ received_notes_' = Append(received_notes_, note)

LEMMA KeptStays ==
  ASSUME received_notes_ \in Seq(Note), NEW d \in Clients, NEW n, Kept(d, n), NothingKeptOf(d)
  PROVE  Kept(d, n)'
<1>1. CASE received_notes_' = received_notes_
  BY <1>1 DEF Kept
<1>2. ASSUME NEW note \in Note, note.by # d, received_notes_' = Append(received_notes_, note)
      PROVE  Kept(d, n)'
  <2>1. PICK L \in Nat : L = Len(received_notes_)
    OBVIOUS
  <2>2. /\ DOMAIN received_notes_ = 1..L /\ DOMAIN received_notes_' = 1..(L + 1)
        /\ \A i \in 1..L : received_notes_'[i] = received_notes_[i]
        /\ received_notes_'[L + 1] = note
    BY <1>2, <2>1
  <2>3. \A i \in 1..(L + 1) : i = L + 1 \/ i \in 1..L
    OBVIOUS
  <2>4. \A i \in 1..L : i \in 1..(L + 1)
    OBVIOUS
  <2>5. QED
    BY <1>2, <2>2, <2>3, <2>4 DEF Kept
<1>3. QED
  BY <1>1, <1>2 DEF NothingKeptOf

LEMMA UntouchedKeeps ==
  ASSUME IInv, NEW d \in Clients, Untouched(d), NothingKeptOf(d)
  PROVE  NotesAtHand(d)' /\ Threads(d)'
<1>1. PICK n \in 0..Len(Locations) :
        /\ Kept(d, n)
        /\ IF HasNote(d) THEN handler[d].note = NoteOf(d, n + 1) /\ Streamed(d, n + 1)
                         ELSE Streamed(d, n)
  BY DEF IInv, NotesAtHand
<1>2. Kept(d, n)'
  BY <1>1, KeptStays DEF IInv, Types
<1>3. \A k : Streamed(d, k) => Streamed(d, k)'
  BY DEF Untouched, Streamed
<1>4. HasNote(d)' <=> HasNote(d)
  BY DEF Untouched, HasNote
<1>5. NotesAtHand(d)'
  BY <1>1, <1>2, <1>3, <1>4 DEF NotesAtHand, Untouched
<1>6. Threads(d)'
  BY DEF IInv, Untouched, Threads
<1>7. QED
  BY <1>5, <1>6

\* Where the notes of client c are when its handler has read n of them and the
\* first "kept" of those are kept.
At(c, kept, n) ==
  /\ kept \in 0..Len(Locations) /\ n \in Nat
  /\ Kept(c, kept) /\ Streamed(c, n)
  /\ IF HasNote(c) THEN handler[c].note = NoteOf(c, n) /\ n = kept + 1 ELSE n = kept

LEMMA AtHand ==
  ASSUME NEW c
  PROVE  NotesAtHand(c) <=> \E kept, n : At(c, kept, n)
<1>1. Len(Locations) \in Nat
  BY LocationsAssumption
<1>2. ASSUME NotesAtHand(c) PROVE \E kept, n : At(c, kept, n)
  <2>1. PICK kept \in 0..Len(Locations) :
          /\ Kept(c, kept)
          /\ IF HasNote(c)
             THEN handler[c].note = NoteOf(c, kept + 1) /\ Streamed(c, kept + 1)
             ELSE Streamed(c, kept)
    BY <1>2 DEF NotesAtHand
  <2>2. kept \in Nat /\ kept + 1 \in Nat
    BY <1>1
  <2>3. HasNote(c) => At(c, kept, kept + 1)
    BY <2>1, <2>2 DEF At
  <2>4. ~HasNote(c) => At(c, kept, kept)
    BY <2>1, <2>2 DEF At
  <2>5. QED
    BY <2>3, <2>4
<1>3. ASSUME NEW kept, NEW n, At(c, kept, n) PROVE NotesAtHand(c)
  BY <1>3 DEF At, NotesAtHand
<1>4. QED
  BY <1>2, <1>3

(* A step about the chat of client c keeps IInv if it keeps what IInv says *)
(* of that chat and of the variables that the chats share.                 *)
LEMMA ChatKeepsIInv ==
  ASSUME IInv, NEW c \in Clients, Types', MutexHeld', NotesKeptInOrder',
         NEW kept, NEW n, At(c, kept, n)', Threads(c)',
         \A d \in Clients \ {c} : Untouched(d) /\ NothingKeptOf(d)
  PROVE  IInv'
<1>1. NotesAtHand(c)'
  BY DEF At, NotesAtHand
<1>2. \A d \in Clients \ {c} : NotesAtHand(d)' /\ Threads(d)'
  BY UntouchedKeeps
<1>3. QED
  BY <1>1, <1>2 DEF IInv

-----------------------------------------------------------------------------
(* The handler *)

LEMMA RouteChatKeepsIInv ==
  ASSUME IInv, NEW c \in Clients, RouteChat(c)
  PROVE  IInv'
<1>1. /\ handler[c].at = "none" /\ handler' = [handler EXCEPT ![c].at = "Read"]
      /\ UNCHANGED <<received_notes_, mu_, written, toServer, toClient, broken, sent, client>>
  BY DEF RouteChat, clientVars
<1>2. Types /\ MutexHeld /\ NotesKeptInOrder /\ Threads(c)
  BY DEF IInv
<1>3. /\ handler'[c].at = "Read" /\ handler'[c].note = handler[c].note
      /\ handler'[c].left = handler[c].left
      /\ DOMAIN handler'[c] = DOMAIN handler[c] /\ DOMAIN handler' = Clients
      /\ \A d \in Clients \ {c} : handler'[d] = handler[d]
  BY <1>1, <1>2 DEF Types
<1>4. Types'
  BY <1>1, <1>2, <1>3 DEF Types, Statements
<1>5. MutexHeld'
  BY <1>1, <1>2, <1>3 DEF MutexHeld
<1>6. NotesKeptInOrder'
  BY <1>1, <1>2 DEF NotesKeptInOrder
<1>7. PICK kept, n : At(c, kept, n)
  BY AtHand DEF IInv
<1>8. At(c, kept, n)'
  BY <1>1, <1>3, <1>7 DEF At, HasNote, Kept, Streamed
<1>9. Threads(c)'
  BY <1>1, <1>2, <1>3 DEF Threads
<1>10. \A d \in Clients \ {c} : Untouched(d) /\ NothingKeptOf(d)
  BY <1>1, <1>3 DEF Untouched, NothingKeptOf
<1>11. QED
  BY <1>4, <1>5, <1>6, <1>8, <1>9, <1>10, ChatKeepsIInv

LEMMA HandlerReadKeepsIInv ==
  ASSUME IInv, NEW c \in Clients, HandlerRead(c)
  PROVE  IInv'
<1>1. /\ handler[c].at = "Read"
      /\ UNCHANGED <<received_notes_, mu_, written, toClient, broken, sent, client>>
  BY DEF HandlerRead, clientVars
<1>2. Types /\ MutexHeld /\ NotesKeptInOrder /\ Threads(c)
  BY DEF IInv
<1>3. PICK kept, n : At(c, kept, n)
  BY AtHand DEF IInv
<1>4. n = kept /\ n \in Nat /\ Kept(c, kept) /\ Streamed(c, n) /\ kept \in 0..Len(Locations)
  BY <1>1, <1>3 DEF At, HasNote
<1>5. NotesKeptInOrder' /\ Kept(c, kept)'
  BY <1>1, <1>2, <1>4 DEF NotesKeptInOrder, Kept
<1>6. CASE /\ toServer[c] # <<>>
           /\ toServer' = [toServer EXCEPT ![c] = Tail(@)]
           /\ handler' = [handler EXCEPT ![c] =
                            [Idle EXCEPT !.at = "lock", !.note = Head(toServer[c])]]
  <2>1. PICK r : r = [Idle EXCEPT !.at = "lock", !.note = Head(toServer[c])]
    OBVIOUS
  <2>2. /\ r.at = "lock" /\ r.note = Head(toServer[c]) /\ r.left = <<>>
        /\ DOMAIN r = {"at", "note", "left"}
    BY <2>1 DEF Idle
  <2>3. /\ handler'[c] = r /\ DOMAIN handler' = Clients
        /\ \A d \in Clients \ {c} : handler'[d] = handler[d]
    BY <1>2, <1>6, <2>1 DEF Types
  <2>4. PICK q : q = toServer[c]
    OBVIOUS
  <2>5. q \in Seq(Note) /\ q # <<>>
    BY <1>2, <1>6, <2>4 DEF Types
  <2>6. /\ toServer'[c] = Tail(q) /\ DOMAIN toServer' = Clients
        /\ \A d \in Clients \ {c} : toServer'[d] = toServer[d]
    BY <1>2, <1>6, <2>4 DEF Types
  <2>7. /\ Len(q) \in Nat /\ Len(q) > 0 /\ Tail(q) \in Seq(Note)
        /\ Len(Tail(q)) = Len(q) - 1 /\ Head(q) = q[1]
        /\ \A k \in 1..(Len(q) - 1) : Tail(q)[k] = q[k + 1]
    BY <2>5
  <2>8. Types'
    <3>1. \A d \in Clients : /\ DOMAIN handler'[d] = {"at", "note", "left"}
                             /\ handler'[d].at \in Statements
                             /\ IsSequence(handler'[d].left)
      BY <1>2, <2>2, <2>3, EmptySequence DEF Types, Statements
    <3>2. \A d \in Clients : toServer'[d] \in Seq(Note)
      BY <1>2, <2>6, <2>7 DEF Types
    <3>3. QED
      BY <1>1, <1>2, <2>3, <2>6, <3>1, <3>2 DEF Types
  <2>9. MutexHeld'
    BY <1>1, <1>2, <2>2, <2>3 DEF MutexHeld
  <2>10. /\ \A k \in 1..Len(q) : q[k] = NoteOf(c, n + k)
         /\ n + Len(q) <= sent[c]
         /\ ~broken[c] /\ n + Len(q) = sent[c]
    BY <1>4, <2>4, <2>5 DEF Streamed
  <2>11. Streamed(c, n + 1)'
    <3>1. ASSUME NEW k \in 1..(Len(q) - 1) PROVE Tail(q)[k] = NoteOf(c, (n + 1) + k)
      <4>1. k + 1 \in 1..Len(q) /\ n + (k + 1) = (n + 1) + k
        BY <1>4, <2>7
      <4>2. QED
        BY <2>7, <2>10, <4>1
    <3>2. (n + 1) + (Len(q) - 1) = n + Len(q)
      BY <1>4, <2>7
    <3>3. sent[c] \in Nat
      BY <1>2 DEF Types
    <3>4. n + Len(q) <= sent[c] /\ (n + 1) + Len(Tail(q)) = sent[c]
      BY <2>7, <2>10, <3>2
    <3>5. QED
      BY <1>1, <2>6, <2>7, <2>10, <3>1, <3>3, <3>4 DEF Streamed
  <2>12. At(c, kept, n + 1)'
    <3>1. r.note = NoteOf(c, n + 1)
      BY <2>2, <2>4, <2>7, <2>10
    <3>2. n + 1 = kept + 1 /\ n + 1 \in Nat
      BY <1>4
    <3>3. QED
      BY <1>4, <1>5, <2>2, <2>3, <2>11, <3>1, <3>2 DEF At, HasNote
  <2>13. Threads(c)'
    BY <1>1, <1>2, <2>2, <2>3 DEF Threads
  <2>14. \A d \in Clients \ {c} : Untouched(d) /\ NothingKeptOf(d)
    BY <1>1, <2>3, <2>6 DEF Untouched, NothingKeptOf
  <2>15. QED
    BY <1>5, <2>8, <2>9, <2>12, <2>13, <2>14, ChatKeepsIInv
<1>7. CASE /\ EndOfNotes(c)
           /\ handler' = [handler EXCEPT ![c] = [Idle EXCEPT !.at = "returned"]]
           /\ UNCHANGED toServer
  <2>1. PICK r : r = [Idle EXCEPT !.at = "returned"]
    OBVIOUS
  <2>2. /\ r.at = "returned" /\ r.left = <<>>
        /\ DOMAIN r = {"at", "note", "left"}
    BY <2>1 DEF Idle
  <2>3. /\ handler'[c] = r /\ DOMAIN handler' = Clients
        /\ \A d \in Clients \ {c} : handler'[d] = handler[d]
    BY <1>2, <1>7, <2>1 DEF Types
  <2>4. Types'
    BY <1>1, <1>2, <1>7, <2>2, <2>3, EmptySequence DEF Types, Statements
  <2>5. MutexHeld'
    BY <1>1, <1>2, <2>2, <2>3 DEF MutexHeld
  <2>6. At(c, kept, n)'
    BY <1>1, <1>4, <1>5, <1>7, <2>2, <2>3 DEF At, HasNote, Streamed
  <2>7. Threads(c)'
    BY <1>1, <1>2, <1>7, <2>2, <2>3 DEF Threads, EndOfNotes
  <2>8. \A d \in Clients \ {c} : Untouched(d) /\ NothingKeptOf(d)
    BY <1>1, <1>7, <2>3 DEF Untouched, NothingKeptOf
  <2>9. QED
    BY <1>5, <2>4, <2>5, <2>6, <2>7, <2>8, ChatKeepsIInv
<1>8. QED
  BY <1>6, <1>7 DEF HandlerRead

LEMMA HandlerLockKeepsIInv ==
  ASSUME IInv, NEW c \in Clients, HandlerLock(c)
  PROVE  IInv'
<1> DEFINE left == NotesWhere(handler[c].note, received_notes_)
<1>1. /\ handler[c].at = "lock" /\ mu_ = NULL /\ mu_' = c
      /\ handler' = [handler EXCEPT ![c].at = "loop", ![c].left = left]
      /\ UNCHANGED <<received_notes_, written, toServer, toClient, broken, sent, client>>
  BY DEF HandlerLock, EnterLoop, clientVars
<1>2. Types /\ MutexHeld /\ NotesKeptInOrder /\ Threads(c)
  BY DEF IInv
<1>3. IsSequence(left)
  BY <1>2, NotesAreWritten DEF Types, IsSequence
<1> HIDE DEF left
<1>4. /\ handler'[c].at = "loop" /\ handler'[c].note = handler[c].note
      /\ handler'[c].left = left
      /\ DOMAIN handler'[c] = DOMAIN handler[c] /\ DOMAIN handler' = Clients
      /\ \A d \in Clients \ {c} : handler'[d] = handler[d]
  BY <1>1, <1>2 DEF Types
<1>5. Types'
  BY <1>1, <1>2, <1>3, <1>4 DEF Types, Statements
<1>6. MutexHeld'
  BY <1>1, <1>2, <1>4, NoClientIsNull DEF MutexHeld
<1>7. NotesKeptInOrder'
  BY <1>1, <1>2 DEF NotesKeptInOrder
<1>8. PICK kept, n : At(c, kept, n)
  BY AtHand DEF IInv
<1>9. At(c, kept, n)'
  BY <1>1, <1>4, <1>8 DEF At, HasNote, Kept, Streamed
<1>10. Threads(c)'
  BY <1>1, <1>2, <1>4 DEF Threads
<1>11. \A d \in Clients \ {c} : Untouched(d) /\ NothingKeptOf(d)
  BY <1>1, <1>4 DEF Untouched, NothingKeptOf
<1>12. QED
  BY <1>5, <1>6, <1>7, <1>9, <1>10, <1>11, ChatKeepsIInv

LEMMA HandlerWriteKeepsIInv ==
  ASSUME IInv, NEW c \in Clients, HandlerWrite(c)
  PROVE  IInv'
<1> DEFINE left == handler[c].left
<1>1. /\ handler[c].at = "loop" /\ left # <<>>
      /\ written' = [written EXCEPT ![c] = Followed(@, Head(left))]
      /\ handler' = [handler EXCEPT ![c].left = Tail(@)]
      /\ toClient' = IF broken[c] THEN toClient
                     ELSE [toClient EXCEPT ![c] = Append(@, Head(left))]
      /\ UNCHANGED <<received_notes_, mu_, toServer, broken, sent, client>>
  BY DEF HandlerWrite, clientVars, Followed
<1>2. Types /\ MutexHeld /\ NotesKeptInOrder /\ Threads(c)
  BY DEF IInv
<1>3. IsSequence(Tail(left)) /\ IsSequence(Followed(written[c], Head(left)))
  BY <1>1, <1>2, Sequences DEF Types
<1>4. /\ handler'[c].at = "loop" /\ handler'[c].note = handler[c].note
      /\ handler'[c].left = Tail(left)
      /\ DOMAIN handler'[c] = DOMAIN handler[c] /\ DOMAIN handler' = Clients
      /\ \A d \in Clients \ {c} : handler'[d] = handler[d]
      /\ DOMAIN toClient' = Clients
      /\ \A d \in Clients \ {c} : toClient'[d] = toClient[d]
      /\ DOMAIN written' = Clients
      /\ written'[c] = Followed(written[c], Head(left))
      /\ \A d \in Clients \ {c} : written'[d] = written[d]
  BY <1>1, <1>2 DEF Types
<1> HIDE DEF left
<1>5. Types'
  BY <1>1, <1>2, <1>3, <1>4 DEF Types, Statements
<1>6. MutexHeld'
  BY <1>1, <1>2, <1>4 DEF MutexHeld
<1>7. NotesKeptInOrder'
  BY <1>1, <1>2 DEF NotesKeptInOrder
<1>8. PICK kept, n : At(c, kept, n)
  BY AtHand DEF IInv
<1>9. At(c, kept, n)'
  BY <1>1, <1>4, <1>8 DEF At, HasNote, Kept, Streamed
<1>10. Threads(c)'
  BY <1>1, <1>2, <1>4 DEF Threads
<1>11. \A d \in Clients \ {c} : Untouched(d) /\ NothingKeptOf(d)
  BY <1>1, <1>4 DEF Untouched, NothingKeptOf
<1>12. QED
  BY <1>5, <1>6, <1>7, <1>9, <1>10, <1>11, ChatKeepsIInv

(* The note of client c that is appended is its first that is not kept.    *)
LEMMA NextIsKept ==
  ASSUME received_notes_ \in Seq(Note), NotesKeptInOrder,
         NEW c \in Clients, NEW n \in Nat, Kept(c, n),
         NEW note \in Note, note = NoteOf(c, n + 1),
         received_notes_' = Append(received_notes_, note)
  PROVE  NotesKeptInOrder' /\ Kept(c, n + 1)'
<1>0. Len(received_notes_) \in Nat
  OBVIOUS
<1>1. PICK L, r, s : /\ L = Len(received_notes_) /\ L \in Nat
                     /\ r = received_notes_ /\ s = received_notes_'
  BY <1>0, Zenon
<1>2. /\ DOMAIN r = 1..L /\ DOMAIN s = 1..(L + 1)
      /\ \A i \in 1..L : s[i] = r[i]
      /\ s[L + 1] = note
  BY <1>1
<1>3. note.by = c /\ note.no = n + 1
  BY DEF NoteOf
<1>4. /\ \A i \in 1..L : r[i].by = c => r[i].no \in 1..n
      /\ \A m \in 1..n : \E i \in 1..L : r[i] = NoteOf(c, m)
  BY <1>1, <1>2 DEF Kept
<1>5. \A k \in 1..L : /\ \A i \in 1..(k - 1) : r[i] # r[k]
                      /\ \A m \in 1..(r[k].no - 1) : \E i \in 1..(k - 1) :
                           r[i] = NoteOf(r[k].by, m)
  BY <1>1, <1>2 DEF NotesKeptInOrder, NoteOf
<1>6. ASSUME NEW k \in 1..(L + 1)
      PROVE  /\ \A i \in 1..(k - 1) : s[i] # s[k]
             /\ \A m \in 1..(s[k].no - 1) : \E i \in 1..(k - 1) : s[i] = NoteOf(s[k].by, m)
  <2>1. \A i \in 1..(k - 1) : i \in 1..L /\ s[i] = r[i]
    BY <1>1, <1>2
  <2>2. CASE k \in 1..L
    BY <1>2, <1>5, <2>1, <2>2
  <2>3. CASE k = L + 1
    <3>1. ASSUME NEW i \in 1..(k - 1) PROVE s[i] # s[k]
      <4>1. i \in 1..L /\ s[i] = r[i] /\ s[k] = note
        BY <1>2, <2>1, <2>3
      <4>2. r[i].by = c => r[i].no # n + 1
        BY <1>4, <4>1
      <4>3. QED
        BY <1>3, <4>1, <4>2
    <3>2. ASSUME NEW m \in 1..(s[k].no - 1)
          PROVE  \E i \in 1..(k - 1) : s[i] = NoteOf(s[k].by, m)
      <4>1. m \in 1..n /\ s[k].by = c
        BY <1>2, <1>3, <2>3
      <4>2. PICK i \in 1..L : r[i] = NoteOf(c, m)
        BY <1>4, <4>1
      <4>3. i \in 1..(k - 1)
        BY <1>1, <2>3
      <4>4. QED
        BY <2>1, <4>1, <4>2, <4>3
    <3>3. QED
      BY <3>1, <3>2
  <2>4. QED
    BY <1>1, <2>2, <2>3
<1>7. NotesKeptInOrder'
  BY <1>1, <1>2, <1>6 DEF NotesKeptInOrder, NoteOf
<1>8. Kept(c, n + 1)'
  <2>1. ASSUME NEW i \in 1..(L + 1), s[i].by = c PROVE s[i].no \in 1..(n + 1)
    <3>1. CASE i = L + 1
      BY <1>2, <1>3, <3>1
    <3>2. CASE i \in 1..L
      BY <1>2, <1>4, <2>1, <3>2
    <3>3. QED
      BY <1>1, <3>1, <3>2
  <2>2. ASSUME NEW m \in 1..(n + 1) PROVE \E i \in 1..(L + 1) : s[i] = NoteOf(c, m)
    <3>1. CASE m = n + 1
      BY <1>1, <1>2, <3>1
    <3>2. CASE m \in 1..n
      <4>1. PICK i \in 1..L : r[i] = NoteOf(c, m)
        BY <1>4, <3>2
      <4>2. i \in 1..(L + 1) /\ s[i] = r[i]
        BY <1>1, <1>2
      <4>3. QED
        BY <4>1, <4>2
    <3>3. QED
      BY <3>1, <3>2
  <2>3. QED
    BY <1>1, <1>2, <2>1, <2>2 DEF Kept
<1>9. QED
  BY <1>7, <1>8

(* What the handler of client c has in hand is a note of that client.      *)
LEMMA NoteInHand ==
  ASSUME IInv, NEW c \in Clients, HasNote(c), NEW kept, NEW n, At(c, kept, n)
  PROVE  /\ handler[c].note = NoteOf(c, n) /\ handler[c].note \in Note
         /\ n = kept + 1 /\ kept \in Nat /\ n \in 0..Len(Locations)
<1>1. /\ handler[c].note = NoteOf(c, n) /\ n = kept + 1
      /\ kept \in 0..Len(Locations) /\ Streamed(c, n)
  BY DEF At
<1>2. /\ Len(toServer[c]) \in Nat /\ sent[c] \in Nat /\ sent[c] <= Len(Locations)
      /\ Len(Locations) \in Nat
  BY LocationsAssumption DEF IInv, Types, Threads
<1>3. n + Len(toServer[c]) <= sent[c]
  BY <1>1 DEF Streamed
<1>4. n \in 1..Len(Locations) /\ kept \in Nat
  BY <1>1, <1>2, <1>3
<1>5. handler[c].note \in Note
  BY <1>1, <1>4, NoteOfIsNote
<1>6. QED
  BY <1>1, <1>2, <1>4, <1>5

LEMMA HandlerPushBackKeepsIInv ==
  ASSUME IInv, NEW c \in Clients, HandlerPushBack(c)
  PROVE  IInv'
<1> DEFINE note == handler[c].note
<1>1. /\ handler[c].at = "loop" /\ handler[c].left = <<>>
      /\ received_notes_' = Append(received_notes_, note) /\ mu_' = NULL
      /\ handler' = [handler EXCEPT ![c] = [Idle EXCEPT !.at = "Read"]]
      /\ UNCHANGED <<written, toServer, toClient, broken, sent, client>>
  BY DEF HandlerPushBack, clientVars
<1>2. Types /\ MutexHeld /\ NotesKeptInOrder /\ Threads(c)
  BY DEF IInv
<1>3. PICK r : r = [Idle EXCEPT !.at = "Read"]
  OBVIOUS
<1>4. r.at = "Read" /\ r.left = <<>> /\ DOMAIN r = {"at", "note", "left"}
  BY <1>3 DEF Idle
<1>5. /\ handler'[c] = r /\ DOMAIN handler' = Clients
      /\ \A d \in Clients \ {c} : handler'[d] = handler[d]
  BY <1>1, <1>2, <1>3 DEF Types
<1>6. PICK kept, n : At(c, kept, n)
  BY AtHand DEF IInv
<1>7. /\ note = NoteOf(c, n) /\ note \in Note
      /\ n = kept + 1 /\ kept \in Nat /\ n \in 0..Len(Locations)
  BY <1>1, <1>6, NoteInHand DEF HasNote
<1> HIDE DEF note
<1>8. NotesKeptInOrder' /\ Kept(c, n)'
  <2>1. received_notes_ \in Seq(Note) /\ Kept(c, kept)
    BY <1>2, <1>6 DEF Types, At
  <2>2. QED
    BY <1>1, <1>2, <1>7, <2>1, NextIsKept
<1>9. Types'
  <2>1. \A d \in Clients : /\ DOMAIN handler'[d] = {"at", "note", "left"}
                           /\ handler'[d].at \in Statements
                           /\ IsSequence(handler'[d].left)
    BY <1>2, <1>4, <1>5, EmptySequence DEF Types, Statements
  <2>2. received_notes_' \in Seq(Note)
    BY <1>1, <1>2, <1>7 DEF Types
  <2>3. QED
    BY <1>1, <1>2, <1>5, <2>1, <2>2 DEF Types
<1>10. MutexHeld'
  BY <1>1, <1>2, <1>4, <1>5, NoClientIsNull DEF MutexHeld
<1>11. At(c, n, n)'
  <2>1. Streamed(c, n)'
    BY <1>1, <1>6 DEF At, Streamed
  <2>2. n \in Nat
    BY <1>7
  <2>3. QED
    BY <1>4, <1>5, <1>7, <1>8, <2>1, <2>2 DEF At, HasNote
<1>12. Threads(c)'
  BY <1>1, <1>2, <1>4, <1>5 DEF Threads
<1>13. \A d \in Clients \ {c} : Untouched(d) /\ NothingKeptOf(d)
  <2>1. note.by = c
    BY <1>7 DEF NoteOf
  <2>2. QED
    BY <1>1, <1>5, <1>7, <2>1 DEF Untouched, NothingKeptOf
<1>14. QED
  BY <1>8, <1>9, <1>10, <1>11, <1>12, <1>13, ChatKeepsIInv

-----------------------------------------------------------------------------
(* The client *)

LEMMA WriterWriteKeepsIInv ==
  ASSUME IInv, NEW c \in Clients, WriterWrite(c)
  PROVE  IInv'
<1>1. /\ client[c].writer = "Write" /\ sent[c] < Len(Locations)
      /\ sent' = [sent EXCEPT ![c] = @ + 1]
      /\ toServer' = IF broken[c] THEN toServer
                     ELSE [toServer EXCEPT ![c] = Append(@, NoteOf(c, sent[c] + 1))]
      /\ UNCHANGED <<received_notes_, mu_, handler, written, client, toClient, broken>>
  BY DEF WriterWrite, serverVars, NoteOf
<1>2. Types /\ MutexHeld /\ NotesKeptInOrder /\ Threads(c)
  BY DEF IInv
<1>3. PICK kept, n : At(c, kept, n)
  BY AtHand DEF IInv
<1>4. n \in Nat /\ Streamed(c, n)
  BY <1>3 DEF At
<1>5. PICK q : q = toServer[c]
  OBVIOUS
<1>6. q \in Seq(Note) /\ Len(q) \in Nat /\ sent[c] \in Nat /\ Len(Locations) \in Nat
  BY <1>2, <1>5, LocationsAssumption DEF Types
<1>7. /\ sent'[c] = sent[c] + 1 /\ sent' \in [Clients -> Nat]
      /\ \A d \in Clients \ {c} : sent'[d] = sent[d]
  BY <1>1, <1>2 DEF Types
<1>8. PICK note : note = NoteOf(c, sent[c] + 1)
  OBVIOUS
<1>9. note \in Note
  <2>1. sent[c] + 1 \in 1..Len(Locations)
    BY <1>1, <1>6
  <2>2. QED
    BY <1>8, <2>1, NoteOfIsNote
<1>10. /\ toServer'[c] = IF broken[c] THEN q ELSE Append(q, note)
       /\ DOMAIN toServer' = Clients
       /\ \A d \in Clients \ {c} : toServer'[d] = toServer[d]
  BY <1>1, <1>2, <1>5, <1>8 DEF Types
<1>11. Types'
  <2>0. toServer'[c] \in Seq(Note)
    <3>1. Append(q, note) \in Seq(Note)
      BY <1>6, <1>9
    <3>2. QED
      BY <1>6, <1>10, <3>1
  <2>1. \A d \in Clients : toServer'[d] \in Seq(Note)
    BY <1>2, <1>10, <2>0 DEF Types
  <2>2. QED
    BY <1>1, <1>2, <1>7, <1>10, <2>1 DEF Types
<1>12. MutexHeld' /\ NotesKeptInOrder'
  BY <1>1, <1>2 DEF MutexHeld, NotesKeptInOrder
<1>13. Streamed(c, n)'
  <2>1. /\ \A k \in 1..Len(q) : q[k] = NoteOf(c, n + k)
        /\ n + Len(q) <= sent[c]
        /\ broken[c] => q = <<>>
        /\ ~broken[c] => n + Len(q) = sent[c]
    BY <1>4, <1>5 DEF Streamed
  <2>2. CASE broken[c]
    <3>1. toServer'[c] = q /\ n + Len(q) <= sent'[c] /\ broken'[c]
      BY <1>1, <1>4, <1>6, <1>7, <1>10, <2>1, <2>2
    <3>2. QED
      BY <2>1, <2>2, <3>1 DEF Streamed
  <2>3. CASE ~broken[c]
    <3>1. PICK t : t = Append(q, note)
      OBVIOUS
    <3>2. /\ Len(t) = Len(q) + 1 /\ t[Len(q) + 1] = note
          /\ \A k \in 1..Len(q) : t[k] = q[k]
      BY <1>6, <1>9, <3>1
    <3>3. ASSUME NEW k \in 1..(Len(q) + 1) PROVE t[k] = NoteOf(c, n + k)
      <4>1. CASE k = Len(q) + 1
        <5>1. n + k = sent[c] + 1
          BY <1>4, <1>6, <2>1, <2>3, <4>1
        <5>2. QED
          BY <1>8, <3>2, <4>1, <5>1
      <4>2. CASE k \in 1..Len(q)
        BY <2>1, <3>2, <4>2
      <4>3. QED
        BY <1>6, <4>1, <4>2
    <3>4. n + (Len(q) + 1) = sent'[c] /\ sent'[c] \in Nat
      BY <1>4, <1>6, <1>7, <2>1, <2>3
    <3>5. n + (Len(q) + 1) <= sent'[c]
      BY <1>6, <3>4
    <3>6. toServer'[c] = t /\ ~broken'[c]
      BY <1>1, <1>10, <2>3, <3>1
    <3>7. QED
      BY <3>2, <3>3, <3>4, <3>5, <3>6 DEF Streamed
  <2>4. QED
    BY <2>2, <2>3
<1>14. At(c, kept, n)'
  BY <1>1, <1>3, <1>13 DEF At, HasNote, Kept
<1>15. Threads(c)'
  BY <1>1, <1>2, <1>6, <1>7 DEF Threads
<1>16. \A d \in Clients \ {c} : Untouched(d) /\ NothingKeptOf(d)
  BY <1>1, <1>7, <1>10 DEF Untouched, NothingKeptOf
<1>17. QED
  BY <1>11, <1>12, <1>14, <1>15, <1>16, ChatKeepsIInv

LEMMA WriterWritesDoneKeepsIInv ==
  ASSUME IInv, NEW c \in Clients, WriterWritesDone(c)
  PROVE  IInv'
<1>1. /\ sent[c] = Len(Locations) /\ client[c].writer = "Write"
      /\ client' = [client EXCEPT ![c].writer = "done"]
      /\ UNCHANGED <<received_notes_, mu_, handler, written, sent, toServer, toClient, broken>>
  BY DEF WriterWritesDone, serverVars
<1>2. Types /\ MutexHeld /\ NotesKeptInOrder /\ Threads(c)
  BY DEF IInv
<1>3. /\ client'[c].writer = "done" /\ client'[c].main = client[c].main
      /\ DOMAIN client'[c] = DOMAIN client[c] /\ DOMAIN client' = Clients
      /\ \A d \in Clients \ {c} : client'[d] = client[d]
  BY <1>1, <1>2 DEF Types
<1>4. Types'
  BY <1>1, <1>2, <1>3 DEF Types
<1>5. MutexHeld' /\ NotesKeptInOrder'
  BY <1>1, <1>2 DEF MutexHeld, NotesKeptInOrder
<1>6. PICK kept, n : At(c, kept, n)
  BY AtHand DEF IInv
<1>7. At(c, kept, n)'
  BY <1>1, <1>6 DEF At, HasNote, Kept, Streamed
<1>8. Threads(c)'
  BY <1>1, <1>2, <1>3 DEF Threads
<1>9. \A d \in Clients \ {c} : Untouched(d) /\ NothingKeptOf(d)
  BY <1>1, <1>3 DEF Untouched, NothingKeptOf
<1>10. QED
  BY <1>4, <1>5, <1>7, <1>8, <1>9, ChatKeepsIInv

LEMMA MainReadKeepsIInv ==
  ASSUME IInv, NEW c \in Clients, MainRead(c)
  PROVE  IInv'
<1>1. /\ client[c].main = "Read"
      /\ UNCHANGED <<received_notes_, mu_, handler, written, sent, toServer, broken>>
  BY DEF MainRead, serverVars
<1>2. Types /\ MutexHeld /\ NotesKeptInOrder /\ Threads(c)
  BY DEF IInv
<1>3. MutexHeld' /\ NotesKeptInOrder'
  BY <1>1, <1>2 DEF MutexHeld, NotesKeptInOrder
<1>4. PICK kept, n : At(c, kept, n)
  BY AtHand DEF IInv
<1>5. At(c, kept, n)'
  BY <1>1, <1>4 DEF At, HasNote, Kept, Streamed
<1>6. CASE toClient' = [toClient EXCEPT ![c] = Tail(@)] /\ UNCHANGED client
  <2>1. /\ DOMAIN toClient' = Clients
        /\ \A d \in Clients \ {c} : toClient'[d] = toClient[d]
    BY <1>2, <1>6 DEF Types
  <2>2. Types'
    BY <1>1, <1>2, <1>6, <2>1 DEF Types
  <2>3. Threads(c)'
    BY <1>1, <1>2, <1>6 DEF Threads
  <2>4. \A d \in Clients \ {c} : Untouched(d) /\ NothingKeptOf(d)
    BY <1>1, <1>6, <2>1 DEF Untouched, NothingKeptOf
  <2>5. QED
    BY <1>3, <1>5, <2>2, <2>3, <2>4, ChatKeepsIInv
<1>7. CASE /\ EndOfAnswers(c) /\ UNCHANGED toClient
           /\ client' = [client EXCEPT ![c].main = "join"]
  <2>1. /\ client'[c].main = "join" /\ client'[c].writer = client[c].writer
        /\ DOMAIN client'[c] = DOMAIN client[c] /\ DOMAIN client' = Clients
        /\ \A d \in Clients \ {c} : client'[d] = client[d]
    BY <1>2, <1>7 DEF Types
  <2>2. Types'
    BY <1>1, <1>2, <1>7, <2>1 DEF Types
  <2>3. Threads(c)'
    BY <1>1, <1>2, <1>7, <2>1 DEF Threads, EndOfAnswers
  <2>4. \A d \in Clients \ {c} : Untouched(d) /\ NothingKeptOf(d)
    BY <1>1, <1>7, <2>1 DEF Untouched, NothingKeptOf
  <2>5. QED
    BY <1>3, <1>5, <2>2, <2>3, <2>4, ChatKeepsIInv
<1>8. QED
  BY <1>6, <1>7 DEF MainRead

LEMMA MainJoinKeepsIInv ==
  ASSUME IInv, NEW c \in Clients, MainJoin(c)
  PROVE  IInv'
<1>1. /\ client[c].main = "join"
      /\ client' = [client EXCEPT ![c].main = "finished"]
      /\ UNCHANGED <<received_notes_, mu_, handler, written, sent, toServer, toClient, broken>>
  BY DEF MainJoin, serverVars
<1>2. Types /\ MutexHeld /\ NotesKeptInOrder /\ Threads(c)
  BY DEF IInv
<1>3. /\ client'[c].main = "finished" /\ client'[c].writer = client[c].writer
      /\ DOMAIN client'[c] = DOMAIN client[c] /\ DOMAIN client' = Clients
      /\ \A d \in Clients \ {c} : client'[d] = client[d]
  BY <1>1, <1>2 DEF Types
<1>4. Types'
  BY <1>1, <1>2, <1>3 DEF Types
<1>5. MutexHeld' /\ NotesKeptInOrder'
  BY <1>1, <1>2 DEF MutexHeld, NotesKeptInOrder
<1>6. PICK kept, n : At(c, kept, n)
  BY AtHand DEF IInv
<1>7. At(c, kept, n)'
  BY <1>1, <1>6 DEF At, HasNote, Kept, Streamed
<1>8. Threads(c)'
  BY <1>1, <1>2, <1>3 DEF Threads
<1>9. \A d \in Clients \ {c} : Untouched(d) /\ NothingKeptOf(d)
  BY <1>1, <1>3 DEF Untouched, NothingKeptOf
<1>10. QED
  BY <1>4, <1>5, <1>7, <1>8, <1>9, ChatKeepsIInv

LEMMA DisconnectKeepsIInv ==
  ASSUME IInv, NEW c \in Clients, Disconnect(c)
  PROVE  IInv'
<1>1. /\ ~broken[c]
      /\ broken' = [broken EXCEPT ![c] = TRUE]
      /\ toServer' = [toServer EXCEPT ![c] = <<>>]
      /\ toClient' = [toClient EXCEPT ![c] = <<>>]
      /\ UNCHANGED <<received_notes_, mu_, handler, written, sent, client>>
  BY DEF Disconnect, serverVars, clientVars
<1>2. Types /\ MutexHeld /\ NotesKeptInOrder /\ Threads(c)
  BY DEF IInv
<1>3. /\ DOMAIN broken' = Clients /\ broken'[c]
      /\ DOMAIN toServer' = Clients /\ toServer'[c] = <<>>
      /\ DOMAIN toClient' = Clients
      /\ \A d \in Clients \ {c} : /\ broken'[d] = broken[d]
                                  /\ toServer'[d] = toServer[d]
                                  /\ toClient'[d] = toClient[d]
  BY <1>1, <1>2 DEF Types
<1>4. Types'
  <2>1. <<>> \in Seq(Note)
    OBVIOUS
  <2>2. \A d \in Clients : toServer'[d] \in Seq(Note)
    BY <1>2, <1>3, <2>1 DEF Types
  <2>3. QED
    BY <1>1, <1>2, <1>3, <2>2 DEF Types
<1>5. MutexHeld' /\ NotesKeptInOrder'
  BY <1>1, <1>2 DEF MutexHeld, NotesKeptInOrder
<1>6. PICK kept, n : At(c, kept, n)
  BY AtHand DEF IInv
<1>7. Streamed(c, n)'
  <2>1. n \in Nat /\ n + Len(toServer[c]) <= sent[c] /\ ~broken[c]
    BY <1>1, <1>6 DEF At, Streamed
  <2>2. Len(toServer[c]) \in Nat /\ sent[c] \in Nat
    BY <1>2 DEF Types
  <2>3. n + 0 <= sent'[c]
    BY <1>1, <2>1, <2>2
  <2>4. QED
    BY <1>3, <2>3 DEF Streamed
<1>8. At(c, kept, n)'
  BY <1>1, <1>6, <1>7 DEF At, HasNote, Kept
<1>9. Threads(c)'
  BY <1>1, <1>2, <1>3 DEF Threads
<1>10. \A d \in Clients \ {c} : Untouched(d) /\ NothingKeptOf(d)
  BY <1>1, <1>3 DEF Untouched, NothingKeptOf
<1>11. QED
  BY <1>4, <1>5, <1>8, <1>9, <1>10, ChatKeepsIInv

-----------------------------------------------------------------------------
(* IInv is an invariant, and what follows from it *)

LEMMA NextIInv == IInv /\ [Next]_vars => IInv'
<1> SUFFICES ASSUME IInv, [Next]_vars PROVE IInv'
  OBVIOUS
<1>1. CASE UNCHANGED vars
  BY <1>1 DEF vars, IInv, Types, MutexHeld, NotesAtHand, HasNote, Kept, Streamed,
              Threads, NotesKeptInOrder
<1>2. CASE Next
  <2>1. PICK c \in Clients : Handler(c) \/ Writer(c) \/ Main(c) \/ Disconnect(c)
    BY <1>2 DEF Next
  <2>2. CASE Handler(c)
    BY <2>2, RouteChatKeepsIInv, HandlerReadKeepsIInv, HandlerLockKeepsIInv,
       HandlerWriteKeepsIInv, HandlerPushBackKeepsIInv DEF Handler
  <2>3. CASE Writer(c)
    BY <2>3, WriterWriteKeepsIInv, WriterWritesDoneKeepsIInv DEF Writer
  <2>4. CASE Main(c)
    BY <2>4, MainReadKeepsIInv, MainJoinKeepsIInv DEF Main
  <2>5. QED
    BY <2>1, <2>2, <2>3, <2>4, DisconnectKeepsIInv
<1>3. QED
  BY <1>1, <1>2

(* The mutex keeps the handlers' loops apart, and every note is where the  *)
(* threads that have handled it left it.                                   *)
THEOREM Invariant == Spec => []IInv
<1>1. QED
  BY InitIInv, NextIInv, PTL DEF Spec

(* received_notes_ holds the notes of every client in the order it sent    *)
(* them, each of them once, whatever the handlers do at once.              *)
THEOREM NotesStayInOrder == Spec => []NotesKeptInOrder
<1>1. IInv => NotesKeptInOrder
  BY DEF IInv
<1>2. QED
  BY <1>1, Invariant, PTL

(* A client that finishes on a connection that held has read every answer, *)
(* and the server has kept all of its notes.                               *)
THEOREM FinishedChatsAreComplete == Spec => []FinishedWithAllAnswers
<1>1. IInv => FinishedWithAllAnswers
  <2> SUFFICES ASSUME IInv, NEW c \in Clients,
                      client[c].main = "finished", ~broken[c]
               PROVE  /\ handler[c].at = "returned" /\ toClient[c] = <<>>
                      /\ \A i \in DOMAIN Locations : \E k \in DOMAIN received_notes_ :
                           received_notes_[k] = [by |-> c, no |-> i]
    BY DEF FinishedWithAllAnswers
  <2>1. /\ handler[c].at = "returned" /\ toClient[c] = <<>>
        /\ toServer[c] = <<>> /\ sent[c] = Len(Locations)
    BY DEF IInv, Threads
  <2>2. PICK n \in 0..Len(Locations) : Kept(c, n) /\ Streamed(c, n)
    BY <2>1 DEF IInv, NotesAtHand, HasNote
  <2>3. n = Len(Locations) /\ DOMAIN Locations = 1..Len(Locations)
    BY <2>1, <2>2, LocationsAssumption DEF Streamed
  <2>4. QED
    BY <2>1, <2>2, <2>3 DEF Kept, NoteOf
<1>2. QED
  BY <1>1, Invariant, PTL

-----------------------------------------------------------------------------
(* The board of notes *)

Posted == IF mu_ = NULL THEN received_notes_
          ELSE Followed(received_notes_, handler[mu_].note)

Answered == [c \in Clients |-> Joined(written[c], handler[c].left)]

PostedAndAnswered == <<Posted, Answered>>

Post(c, note) ==
  /\ Answered' = [Answered EXCEPT ![c] = Joined(@, NotesWhere(note, Posted))]
  /\ Posted' = Followed(Posted, note)

\* What client c is answered with stays when its handler and what it wrote do.
LEMMA AnsweredStays ==
  ASSUME DOMAIN written = Clients, DOMAIN handler = Clients,
         NEW c \in Clients,
         \A d \in Clients \ {c} : written'[d] = written[d] /\ handler'[d] = handler[d],
         Joined(written'[c], handler'[c].left) = Joined(written[c], handler[c].left)
  PROVE  Answered' = Answered
<1>1. \A d \in Clients :
        Joined(written'[d], handler'[d].left) = Joined(written[d], handler[d].left)
  OBVIOUS
<1>2. QED
  BY <1>1 DEF Answered

(* Taking the mutex is posting the note: what the loop is going to write   *)
(* is all that the board answers.                                          *)
LEMMA LockPosts ==
  ASSUME IInv, NEW c \in Clients, HandlerLock(c)
  PROVE  handler[c].note \in Note /\ Post(c, handler[c].note)
<1> DEFINE left == NotesWhere(handler[c].note, received_notes_)
<1>1. /\ handler[c].at = "lock" /\ mu_ = NULL /\ mu_' = c
      /\ handler' = [handler EXCEPT ![c].at = "loop", ![c].left = left]
      /\ UNCHANGED <<received_notes_, written>>
  BY DEF HandlerLock, EnterLoop, clientVars
<1>2. Types /\ MutexHeld
  BY DEF IInv
<1>3. handler[c].note \in Note
  <2>1. PICK kept, n : At(c, kept, n)
    BY AtHand DEF IInv
  <2>2. QED
    BY <1>1, <2>1, NoteInHand DEF HasNote
<1>4. /\ handler'[c].note = handler[c].note /\ handler'[c].left = left
      /\ \A d \in Clients \ {c} : handler'[d] = handler[d]
  BY <1>1, <1>2 DEF Types
<1>5. Posted = received_notes_ /\ Posted' = Followed(received_notes_, handler[c].note)
  BY <1>1, <1>4, NoClientIsNull DEF Posted
<1>6. Joined(written[c], handler[c].left) = written[c]
  <2>1. handler[c].left = <<>> /\ IsSequence(written[c])
    BY <1>1, <1>2 DEF MutexHeld, Types
  <2>2. QED
    BY <2>1, EmptySequence, Sequences
<1> HIDE DEF left
<1>7. Answered' = [Answered EXCEPT ![c] = Joined(@, left)]
  <2>1. Answered[c] = written[c]
    BY <1>6 DEF Answered
  <2>2. /\ Joined(written'[c], handler'[c].left) = Joined(Answered[c], left)
        /\ \A d \in Clients \ {c} : Joined(written'[d], handler'[d].left) = Answered[d]
    <3>1. written'[c] = Answered[c] /\ handler'[c].left = left
      BY <1>1, <1>4, <2>1
    <3>2. \A d \in Clients \ {c} : written'[d] = written[d] /\ handler'[d] = handler[d]
      BY <1>1, <1>4
    <3>3. \A d \in Clients : Answered[d] = Joined(written[d], handler[d].left)
      BY DEF Answered
    <3>4. QED
      BY <3>1, <3>2, <3>3
  <2>3. Answered' = [d \in Clients |-> Joined(written'[d], handler'[d].left)]
    BY DEF Answered
  <2>4. QED
    BY <2>2, <2>3 DEF Answered
<1>8. QED
  BY <1>3, <1>5, <1>7 DEF Post, left

(* No other step changes what has been posted and is to be answered.       *)
LEMMA OthersStutter ==
  ASSUME IInv, NEW c \in Clients,
         \/ RouteChat(c) \/ HandlerRead(c) \/ HandlerWrite(c) \/ HandlerPushBack(c)
         \/ Writer(c) \/ Main(c) \/ Disconnect(c)
  PROVE  UNCHANGED PostedAndAnswered
<1>1. Types /\ MutexHeld
  BY DEF IInv
<1>2. CASE RouteChat(c) \/ HandlerRead(c)
  <2>1. /\ handler[c].at \in {"none", "Read"}
        /\ UNCHANGED <<received_notes_, mu_, written>>
    BY <1>2 DEF RouteChat, HandlerRead
  <2>2. mu_ # c /\ handler[c].left = <<>>
    BY <1>1, <2>1 DEF MutexHeld
  <2>3. handler'[c].left = <<>> /\ \A d \in Clients \ {c} : handler'[d] = handler[d]
    <3>1. CASE RouteChat(c)
      BY <1>1, <2>2, <3>1 DEF Types, RouteChat
    <3>2. CASE HandlerRead(c)
      <4>1. PICK r : r.left = <<>> /\ handler' = [handler EXCEPT ![c] = r]
        BY <3>2 DEF HandlerRead, Idle
      <4>2. QED
        BY <1>1, <4>1 DEF Types
    <3>3. QED
      BY <1>2, <3>1, <3>2
  <2>4. Posted' = Posted
    BY <1>1, <2>1, <2>2, <2>3 DEF Posted, Types
  <2>5. Answered' = Answered
    BY <1>1, <2>1, <2>2, <2>3, AnsweredStays DEF Types
  <2>6. QED
    BY <2>4, <2>5 DEF PostedAndAnswered
<1>3. CASE HandlerWrite(c)
  <2> DEFINE left == handler[c].left
  <2>1. /\ handler[c].at = "loop" /\ left # <<>>
        /\ written' = [written EXCEPT ![c] = Followed(@, Head(left))]
        /\ handler' = [handler EXCEPT ![c].left = Tail(@)]
        /\ UNCHANGED <<received_notes_, mu_>>
    BY <1>3 DEF HandlerWrite, Followed
  <2>2. /\ handler'[c].note = handler[c].note /\ handler'[c].left = Tail(left)
        /\ \A d \in Clients \ {c} : handler'[d] = handler[d]
        /\ written'[c] = Followed(written[c], Head(left))
        /\ \A d \in Clients \ {c} : written'[d] = written[d]
    BY <1>1, <2>1 DEF Types
  <2>3. Joined(written'[c], handler'[c].left) = Joined(written[c], left)
    <3>1. IsSequence(written[c]) /\ IsSequence(left)
      BY <1>1 DEF Types
    <3>2. QED
      BY <2>1, <2>2, <3>1, Sequences
  <2>4. Posted' = Posted
    BY <1>1, <2>1, <2>2 DEF Posted, MutexHeld
  <2>5. Answered' = Answered
    BY <1>1, <2>2, <2>3, AnsweredStays DEF Types
  <2>6. QED
    BY <2>4, <2>5 DEF PostedAndAnswered
<1>4. CASE HandlerPushBack(c)
  <2>1. /\ handler[c].at = "loop" /\ handler[c].left = <<>>
        /\ received_notes_' = Followed(received_notes_, handler[c].note) /\ mu_' = NULL
        /\ handler' = [handler EXCEPT ![c] = [Idle EXCEPT !.at = "Read"]]
        /\ UNCHANGED written
    BY <1>4 DEF HandlerPushBack, Followed
  <2>2. handler'[c].left = <<>> /\ \A d \in Clients \ {c} : handler'[d] = handler[d]
    BY <1>1, <2>1 DEF Types, Idle
  <2>3. mu_ = c /\ c # NULL
    BY <1>1, <2>1, NoClientIsNull DEF MutexHeld
  <2>4. Posted' = Posted
    BY <2>1, <2>3 DEF Posted
  <2>5. Answered' = Answered
    BY <1>1, <2>1, <2>2, AnsweredStays DEF Types
  <2>6. QED
    BY <2>4, <2>5 DEF PostedAndAnswered
<1>5. CASE Writer(c) \/ Main(c) \/ Disconnect(c)
  BY <1>5 DEF Writer, WriterWrite, WriterWritesDone, Main, MainRead, MainJoin,
              Disconnect, serverVars, PostedAndAnswered, Posted, Answered
<1>6. QED
  BY <1>2, <1>3, <1>4, <1>5

LEMMA StepImplementsBoard ==
  IInv /\ [Next]_vars =>
    \/ \E c \in Clients, note \in Note : Post(c, note)
    \/ UNCHANGED PostedAndAnswered
<1> SUFFICES ASSUME IInv, [Next]_vars
             PROVE  \/ \E c \in Clients, note \in Note : Post(c, note)
                    \/ UNCHANGED PostedAndAnswered
  OBVIOUS
<1>1. CASE UNCHANGED vars
  BY <1>1 DEF vars, PostedAndAnswered, Posted, Answered
<1>2. CASE Next
  <2>1. PICK c \in Clients : Handler(c) \/ Writer(c) \/ Main(c) \/ Disconnect(c)
    BY <1>2 DEF Next
  <2>2. CASE HandlerLock(c)
    BY <2>2, LockPosts
  <2>3. CASE ~HandlerLock(c)
    BY <2>1, <2>3, OthersStutter DEF Handler
  <2>4. QED
    BY <2>2, <2>3
<1>3. QED
  BY <1>1, <1>2

(* The server implements the board: a note is answered with exactly the    *)
(* notes posted before it that it has the location of, although they are   *)
(* written one by one while other notes arrive.                            *)
THEOREM BoardImplemented == Spec => ImplementsNoteBoard
<1>1. Init => Board!Init
  <2> SUFFICES ASSUME Init PROVE Board!Init
    OBVIOUS
  <2>1. Posted = <<>>
    BY DEF Init, Posted
  <2>2. \A c \in Clients : written[c] = <<>> /\ handler[c].left = <<>>
    BY DEF Init, Idle
  <2>3. Joined(<<>>, <<>>) = <<>>
    BY EmptySequence, Sequences
  <2>4. Answered = [c \in Clients |-> <<>>]
    BY <2>2, <2>3 DEF Answered
  <2>5. QED
    BY <2>1, <2>4 DEF Board!Init, Posted, Answered, Joined, Followed
<1>2. IInv /\ [Next]_vars =>
        [Board!Next]_<<IF mu_ = NULL THEN received_notes_
                       ELSE Append(received_notes_, handler[mu_].note),
                       [c \in Clients |-> written[c] \o handler[c].left]>>
  BY StepImplementsBoard
     DEF Board!Next, Board!Post, Post, PostedAndAnswered, Posted, Answered, Joined, Followed
<1>3. QED
  BY <1>1, <1>2, Invariant, PTL DEF Spec, ImplementsNoteBoard, Board!Spec
=============================================================================
