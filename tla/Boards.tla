------------------------------- MODULE Boards -------------------------------
(***************************************************************************)
(* The C server's bulletin boards (boards.c) and the part of the line      *)
(* editor that writes on them (modify.c).  A message is an entry in its    *)
(* board's index and a slot of one array of texts that all boards share.   *)
(* Its author's descriptor holds a pointer to that slot (d->str) for as    *)
(* long as the author writes, over as many passes of the game loop as      *)
(* that takes, while others post and remove messages, and while the author *)
(* may hang up, be taken over by a second login, or die.                   *)
(*                                                                         *)
(* A pass of game_loop hears at most one line of each connection, closes   *)
(* the connections that were set to close, and ends with the heartbeat.    *)
(*                                                                         *)
(* A text is the sequence of the messages its lines were written for.      *)
(* Rights to read, write and remove are left out: whoever asks may.        *)
(***************************************************************************)
EXTENDS Naturals, Sequences, FiniteSets, SequencesExt, FiniteSetsExt

CONSTANTS
  Authors,      \* connections
  NumBoards,    \* NUM_OF_BOARDS
  MaxMessages,  \* MAX_BOARD_MESSAGES
  Spare,        \* what INDEX_SIZE has beyond one slot per message: 5 in boards.h
  MaxPosts,     \* bound: messages posted in a behaviour
  MaxLines      \* bound: lines of a text (MAX_MESSAGE_LENGTH, in characters)

ASSUME BoardsAssumption ==
  /\ NumBoards \in Nat /\ MaxMessages \in Nat /\ Spare \in Nat
  /\ MaxPosts \in Nat /\ MaxLines \in Nat

INDEX_SIZE == NumBoards * MaxMessages + Spare
Boards == 1..NumBoards
Slots  == 1..INDEX_SIZE

VARIABLES
  storage,      \* msg_storage: a slot's text, or Null
  taken,        \* msg_storage_taken
  index,        \* msg_index, up to num_of_msgs: the messages of each board
  file,         \* the board's file: the messages as they were last saved
  state,        \* STATE(d): playing, at the menu, or closing (CON_CLOSE, CON_DISCONNECT)
  str,          \* d->str with d->mail_to: what a connection is writing
  heard,        \* connections that have had their line in this pass of the loop
  posts,        \* messages begun (history)
  ended,        \* messages their author has ended while playing (history)
  left          \* messages whose author stopped playing while writing them (history)

vars == <<storage, taken, index, file, state, str, heard, posts, ended, left>>

Null == <<0>>
Nobody == [slot |-> 0, board |-> 0, id |-> 0]

-----------------------------------------------------------------------------
(* boards.c *)

FreeSlots == {s \in Slots : ~taken[s]}

\* Mutant of FoundSlot: a slot nobody has written in yet counts as free.
FoundSlotUnwritten == Min({s \in Slots : storage[s] = Null})

\* find_slot: the first that is not taken.
FoundSlot == Min(FreeSlots)

\* Mutant of Saved: the file gets the messages from before the change.
SavedAsBefore(b, messages, texts) ==
  [file EXCEPT ![b] = [i \in DOMAIN index[b] |->
                        [id |-> index[b][i].id, text |-> texts[index[b][i].slot]]]]

\* Board_save_board: every message with the text its slot has now.
Saved(b, messages, texts) ==
  [file EXCEPT ![b] = [i \in DOMAIN messages |->
                        [id |-> messages[i].id, text |-> texts[messages[i].slot]]]]

\* Mutant of NotFull: one message too many.
NotFullYet(b) == Len(index[b]) <= MaxMessages

NotFull(b) == Len(index[b]) < MaxMessages

\* A connection's turn in the pass: the loop takes one line from its queue.
Turn(a) == a \notin heard /\ heard' = heard \union {a}

\* Board_write_message and string_write.  The headline is looked at only after
\* the slot has been taken.
WriteMessage(a, b, headline) ==
  /\ Turn(a)
  /\ state[a] = "playing" /\ str[a] = Nobody
  /\ posts < MaxPosts
  /\ NotFull(b)
  /\ FreeSlots # {}
  /\ taken' = [taken EXCEPT ![FoundSlot] = TRUE]
  /\ posts' = posts + 1
  /\ LET entry == [slot |-> FoundSlot, board |-> b, id |-> posts']
     IN IF headline
        THEN /\ index' = [index EXCEPT ![b] = Append(@, entry)]
             /\ str' = [str EXCEPT ![a] = entry]
        ELSE UNCHANGED <<index, str>>
  /\ UNCHANGED <<storage, file, state, ended, left>>

\* Mutant of Writing: somebody who writes is looked for at the menu.
WritingAtMenu(slot) == \E a \in Authors : state[a] = "menu" /\ str[a].slot = slot

\* Is the message's author still at it, as Board_remove_msg asks?
Writing(slot) == \E a \in Authors : state[a] = "playing" /\ str[a].slot = slot

\* Board_remove_msg.
RemoveMessage(a, b, i) ==
  /\ Turn(a)
  /\ state[a] = "playing" /\ str[a] = Nobody
  /\ i \in DOMAIN index[b]
  /\ LET slot == index[b][i].slot
     IN /\ ~Writing(slot)
        /\ storage' = [storage EXCEPT ![slot] = Null]
        /\ taken' = [taken EXCEPT ![slot] = FALSE]
  /\ index' = [index EXCEPT ![b] = RemoveAt(@, i)]
  /\ file' = Saved(b, index'[b], storage')
  /\ UNCHANGED <<state, str, posts, ended, left>>

-----------------------------------------------------------------------------
(* modify.c: string_add *)

\* The lines of a text.
TextOf(text) == IF text = Null THEN <<>> ELSE text

\* A line goes wherever the pointer shows, whatever state the connection is in.
WriteLine(a) ==
  /\ Turn(a)
  /\ str[a] # Nobody
  /\ LET text == TextOf(storage[str[a].slot])
     IN /\ Len(text) < MaxLines
        /\ storage' = [storage EXCEPT ![str[a].slot] = Append(text, str[a].id)]
  /\ UNCHANGED <<taken, index, file, state, str, posts, ended, left>>

\* `@': playing_string_cleanup saves the board, for somebody who is playing.
EndMessage(a) ==
  /\ Turn(a)
  /\ str[a] # Nobody
  /\ IF state[a] = "playing"
     THEN /\ file' = Saved(str[a].board, index[str[a].board], storage)
          /\ ended' = ended \union {str[a].id}
     ELSE UNCHANGED <<file, ended>>
  /\ str' = [str EXCEPT ![a] = Nobody]
  /\ UNCHANGED <<storage, taken, index, state, posts, left>>

-----------------------------------------------------------------------------
(* What else becomes of a connection *)

\* A connection stops playing, its pointer as it was.
Leaves(a, where) ==
  /\ state' = [state EXCEPT ![a] = where]
  /\ left' = IF str[a] # Nobody THEN left \union {str[a].id} ELSE left
  /\ UNCHANGED <<storage, taken, index, file, str, posts, ended>>

\* extract_char_final, from the heartbeat: the author was killed or has quit, and the
\* descriptor is left at the menu.
ToMenu(a) ==
  /\ heard = {} /\ UNCHANGED heard
  /\ state[a] = "playing"
  /\ Leaves(a, "menu")

\* perform_dupe_check, do_dc, a purge, check_idling: the descriptor is only set to
\* close.  It stays on descriptor_list, and may have its line in this pass still.
Close(a) ==
  /\ state[a] # "closing"
  /\ Leaves(a, "closing")
  /\ UNCHANGED heard

\* The end of the pass: close_socket for those set to close, and a new connection in
\* place of each.
EndPass ==
  /\ heard' = {}
  /\ state' = [a \in Authors |-> IF state[a] = "closing" THEN "menu" ELSE state[a]]
  /\ str' = [a \in Authors |-> IF state[a] = "closing" THEN Nobody ELSE str[a]]
  /\ UNCHANGED <<storage, taken, index, file, posts, ended, left>>

\* nanny hears a connection at the menu only once it writes nothing.
Enter(a) ==
  /\ Turn(a)
  /\ state[a] = "menu" /\ str[a] = Nobody
  /\ state' = [state EXCEPT ![a] = "playing"]
  /\ UNCHANGED <<storage, taken, index, file, str, posts, ended, left>>

\* The link is lost, and close_socket follows at once, before the commands of the next
\* pass; a new connection takes its place.
Hangup(a) ==
  /\ heard = {} /\ UNCHANGED heard
  /\ state' = [state EXCEPT ![a] = "menu"]
  /\ str' = [str EXCEPT ![a] = Nobody]
  /\ UNCHANGED <<storage, taken, index, file, posts, ended, left>>

\* The server starts again.  init_boards reads the files, board after board ...
Before[b \in 0..NumBoards] == IF b = 0 THEN 0 ELSE Before[b - 1] + Len(file[b])

\* ... and in Board_load_board each message takes the next slot.
Loaded ==
  [b \in Boards |-> [i \in DOMAIN file[b] |->
     [slot |-> Before[b - 1] + i, board |-> b, id |-> file[b][i].id]]]

LoadedIn(s) ==
  {m \in Boards \X (1..MaxMessages) :
     m[2] \in DOMAIN file[m[1]] /\ Before[m[1] - 1] + m[2] = s}

Restart ==
  /\ index' = Loaded
  /\ taken' = [s \in Slots |-> LoadedIn(s) # {}]
  /\ storage' = [s \in Slots |->
       IF LoadedIn(s) = {} THEN Null
       ELSE LET m == CHOOSE m \in LoadedIn(s) : TRUE IN file[m[1]][m[2]].text]
  /\ state' = [a \in Authors |-> "menu"]
  /\ str' = [a \in Authors |-> Nobody]
  /\ heard' = {}
  /\ UNCHANGED <<file, posts, ended, left>>

Init ==
  /\ storage = [s \in Slots |-> Null]
  /\ taken = [s \in Slots |-> FALSE]
  /\ index = [b \in Boards |-> <<>>]
  /\ file = [b \in Boards |-> <<>>]
  /\ state = [a \in Authors |-> "menu"]
  /\ str = [a \in Authors |-> Nobody]
  /\ heard = {}
  /\ posts = 0 /\ ended = {} /\ left = {}

Next ==
  \/ \E a \in Authors, b \in Boards :
       \/ \E headline \in BOOLEAN : WriteMessage(a, b, headline)
       \/ \E i \in 1..MaxMessages : RemoveMessage(a, b, i)
  \/ \E a \in Authors :
       WriteLine(a) \/ EndMessage(a) \/ ToMenu(a) \/ Close(a) \/ Enter(a) \/ Hangup(a)
  \/ EndPass
  \/ Restart

Spec == Init /\ [][Next]_vars

-----------------------------------------------------------------------------
(* Properties *)

Entries(b) == Range(index[b])

\* The range of every variable.
TypeOK ==
  LET entry == [slot : Slots, board : Boards, id : 1..MaxPosts]
      text == UNION {[1..n -> 1..MaxPosts] : n \in 0..MaxLines}
  IN /\ storage \in [Slots -> text \union {Null}]
     /\ taken \in [Slots -> BOOLEAN]
     /\ \A b \in Boards : Entries(b) \subseteq entry /\ Len(index[b]) <= MaxMessages
     /\ state \in [Authors -> {"playing", "menu", "closing"}]
     /\ str \in [Authors -> entry \union {Nobody}]
     /\ heard \subseteq Authors
     /\ posts \in 0..MaxPosts /\ ended \subseteq 1..posts /\ left \subseteq 1..posts

\* No two messages of any boards share a slot, none has a slot that the next find_slot
\* could give away, and whatever its author did not write into a message comes from
\* somebody who stopped playing while they were writing another.
SlotsHeldOnce ==
  \A b, c \in Boards : \A m \in Entries(b), n \in Entries(c) :
    /\ taken[m.slot]
    /\ m.slot = n.slot => m = n
    /\ ToSet(TextOf(storage[m.slot])) \subseteq {m.id} \union left

\* Whoever plays and writes has their message on its board, and no other player writes
\* into its slot: Board_remove_msg tells others to wait `until the author is finished'.
AuthorKeepsMessage ==
  \A a \in Authors : str[a] # Nobody /\ state[a] = "playing" =>
    /\ str[a] \in Entries(str[a].board)
    /\ \A o \in Authors : state[o] = "playing" /\ str[o].slot = str[a].slot => o = a

\* What string_add promises less: the same of whoever still has the editor open.
WriterKeepsMessage ==
  \A a \in Authors : str[a] # Nobody => str[a] \in Entries(str[a].board)

\* A text is what was kept of it, and then lines of those messages.
GrownBy(kept, text, ids) ==
  /\ Len(kept) <= Len(text)
  /\ \A i \in DOMAIN text : IF i <= Len(kept) THEN text[i] = kept[i] ELSE text[i] \in ids

\* What a restart would bring back: every message its author ended while playing, with
\* the text it has (only those who left while writing can have added to it since), and
\* nothing that was removed.
EndedIsSaved ==
  \A b \in Boards :
    /\ \A m \in Entries(b) : m.id \in ended =>
         \E f \in Range(file[b]) :
           f.id = m.id /\ GrownBy(TextOf(f.text), TextOf(storage[m.slot]), left)
    /\ \A f \in Range(file[b]) : \E m \in Entries(b) : m.id = f.id
=============================================================================
