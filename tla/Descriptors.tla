----------------------------- MODULE Descriptors -----------------------------
(***************************************************************************)
(* The C server's connections (comm.c, interpreter.c), the bodies they     *)
(* drive and the extraction of those bodies (handler.c), and the player's  *)
(* record and rent file (objsave.c): one player, whose connections come    *)
(* one after the other, and one mobile the player may switch into.         *)
(*                                                                         *)
(* There is one thread.  What is hard is the order of things inside one    *)
(* pass of game_loop -- hang-ups, one command per descriptor from the      *)
(* newest to the oldest, the sweep of descriptors marked for closing, the  *)
(* heartbeat, and last the extraction of everybody marked for it -- and    *)
(* what pointers between descriptors and bodies mean when several of these *)
(* fall into one pass.                                                     *)
(*                                                                         *)
(* A body has the name of the connection whose login allocated it; of a    *)
(* record only how far play has taken it matters, and of belongings how    *)
(* many copies there are.  `May' names what people may do in an instance.  *)
(***************************************************************************)
EXTENDS Integers, FiniteSets, FiniteSetsExt

CONSTANTS
  Last,         \* bound: connections accepted in a behaviour
  MaxRec,       \* bound: how far play takes the record
  May           \* what may happen; see MayAssumption

ASSUME DescriptorsAssumption == Last \in Nat /\ MaxRec \in Nat
ASSUME MayAssumption ==
  May \subseteq {"drop", "die", "build", "switch", "dc", "purge", "idle", "guess",
                 "dcBuilder", "quitAtAutosave", "unsaved", "lateLogin"}

Conns  == 1..Last
NoConn == 0
Mob    == 0             \* the mobile, among the bodies
Bodies == 0..Last
NoBody == -1

VARIABLES
  phase,        \* how far game_loop has come in this pass
  turn,         \* the descriptor whose command is due
  accepted,     \* connections there have been
  conn,         \* the descriptors: STATE(d), d->character, d->original
  body,         \* the character structures
  disk,         \* the player's record and rent file
  floor,        \* belongings lying in the world
  newest        \* how far play has ever taken the record (history)

vars == <<phase, turn, accepted, conn, body, disk, floor, newest>>
world == <<floor, newest>>

Unborn == [alloc |-> FALSE, listed |-> FALSE, pending |-> FALSE, desc |-> NoConn,
           idle |-> 0, dirty |-> FALSE, rec |-> 0, stuff |-> 0]
Unmade == [state |-> "none", char |-> NoBody, orig |-> NoBody]

Open(d) == conn[d].state \notin {"none", "gone"}
InGame(d) == conn[d].state \in {"playing", "building"}   \* IS_PLAYING
Marked(d) == conn[d].state \in {"close", "disconnect"}
Players == Bodies \ {Mob}
Listed == {c \in Bodies : body[c].listed}                  \* character_list

\* d drives a body of its own, rather than one it has switched into.
Driving(d) == conn[d].state = "playing" /\ conn[d].orig = NoBody
\* c belongs to somebody who has switched out of it.
LeftBehind(c) == \E d \in Conns : Open(d) /\ conn[d].orig = c

-----------------------------------------------------------------------------
(* Pieces the handlers share, as functions of the state they start from *)

\* Mutant of SavedRecord: the record is not written.
SavedRecordNever(c, bodies, dsk) == dsk

\* save_char, which ignores mobiles and everybody without a descriptor.
SavedRecord(c, bodies, dsk) ==
  IF c = Mob \/ bodies[c].desc = NoConn THEN dsk
  ELSE [dsk EXCEPT !.rec = bodies[c].rec]

\* Crash_crashsave: what c carries is written and stays in its hands.
CrashSaved(c, bodies, dsk) == [dsk EXCEPT !.code = "crash", !.stuff = bodies[c].stuff]

\* Crash_rentsave, Crash_idlesave: what c carries goes into the file.
Stored(c, code, dsk) == [dsk EXCEPT !.code = code, !.stuff = body[c].stuff]

\* Mutant of Emptied: what has been stored stays in hand.
EmptiedNot(c) == body[c]

Emptied(c) == [body[c] EXCEPT !.stuff = 0, !.dirty = @ \/ body[c].stuff > 0]

\* close_socket: somebody in the game leaves a body behind; anybody else's is
\* freed.  The save of the body left behind comes after its descriptor is taken
\* away, and so does nothing.
CloseSocket(d) ==
  LET c == conn[d].char
      stays == InGame(d) \/ conn[d].state = "disconnect"
  IN /\ conn' = [conn EXCEPT ![d] = [Unmade EXCEPT !.state = "gone"]]
     /\ body' = [x \in Bodies |->
          IF x = c THEN [body[x] EXCEPT !.desc = NoConn, !.alloc = @ /\ stays]
          ELSE IF x = conn[d].orig THEN [body[x] EXCEPT !.desc = NoConn]
          ELSE body[x]]

\* What a command of d's own does first: its body comes back from the void.
Awake(d) ==
  LET c == conn[d].char
  IN [body EXCEPT ![c].idle = IF conn[d].state # "playing" /\ @ = 2 THEN 2 ELSE 0]

\* What an instance leaves out.  A body that goes without anybody driving it is
\* not saved, and logins under way are not cut off by it: `unsaved' lets it go
\* with more to its name than its record has, and `lateLogin' while the player
\* is at the password prompt.
Bound(d, c) == c = conn[d].char \/ c = conn[d].orig
Loses(c) ==
  c = Mob \/ /\ body[c].rec = disk.rec \/ "unsaved" \in May
             /\ (\A d \in Conns : conn[d].state # "password") \/ "lateLogin" \in May
Goes(c) == Loses(c) \/ \E d \in Conns : Bound(d, c) /\ ~Marked(d)
LosesNobody(d) == \A c \in Bodies : Bound(d, c) /\ body[c].pending => Loses(c)

\* The command loop goes on to the next older descriptor.
Turn(d) == phase = "commands" /\ turn = d /\ turn' = d - 1

-----------------------------------------------------------------------------
(* New connections and hang-ups *)

\* new_descriptor, with nanny's greeting.
Accept ==
  /\ phase = "input" /\ accepted < Last
  /\ accepted' = accepted + 1
  /\ conn' = [conn EXCEPT ![accepted + 1].state = "name"]
  /\ UNCHANGED <<phase, turn, body, disk, world>>

\* process_input fails, or the exception set names the descriptor; or, after the
\* commands, process_output fails.
Hangup(d) ==
  /\ phase \in {"input", "sweep"} /\ Open(d)
  /\ LosesNobody(d)
  /\ CloseSocket(d)
  /\ UNCHANGED <<phase, turn, accepted, disk, world>>

\* A descriptor with no command waiting, or one that is no longer there.
Silent(d) ==
  /\ Turn(d)
  /\ UNCHANGED <<phase, accepted, conn, body, disk, world>>

-----------------------------------------------------------------------------
(* nanny *)

\* CON_GET_NAME: the record is loaded before the password is asked for.
GiveName(d) ==
  /\ Turn(d) /\ conn[d].state = "name"
  /\ conn' = [conn EXCEPT ![d].state = "password", ![d].char = d]
  /\ body' = [body EXCEPT ![d] =
       [Unborn EXCEPT !.alloc = TRUE, !.desc = d, !.rec = disk.rec]]
  /\ UNCHANGED <<phase, accepted, disk, world>>

\* CON_PASSWORD, wrong: the failure is counted in the record, which is saved.
WrongPassword(d) ==
  /\ "guess" \in May
  /\ Turn(d) /\ conn[d].state = "password"
  /\ \E s \in {"password", "close"} : conn' = [conn EXCEPT ![d].state = s]
  /\ disk' = SavedRecord(conn[d].char, body, disk)
  /\ UNCHANGED <<phase, accepted, body, world>>

\* perform_dupe_check: the other descriptors of this player, the body that the
\* newest of them leaves over, and what is left of them.
Duplicates(d) ==
  {k \in Conns \ {d} : Open(k) /\ (conn[k].orig # NoBody \/ conn[k].char \in Players)}
Leftover(d) ==
  {k \in Duplicates(d) : conn[k].orig # NoBody \/ conn[k].state = "playing"}

\* Mutant of CutOff: a descriptor that is to close keeps its character.
CutOffWithCharacter(d) ==
  [k \in Conns |-> IF k \in Duplicates(d) THEN [conn[k] EXCEPT !.state = "close"]
                                          ELSE conn[k]]

CutOff(d) ==
  [k \in Conns |-> IF k \in Duplicates(d) THEN [Unmade EXCEPT !.state = "close"]
                                          ELSE conn[k]]
Unlinked(d) ==
  [c \in Bodies |-> IF \E k \in Duplicates(d) : conn[k].char = c
                    THEN [body[c] EXCEPT !.desc = NoConn] ELSE body[c]]

\* Mutant of Linkless: a body without a descriptor is not looked for.
LinklessNone(d) == {}

\* The bodies on character_list that the second loop of the check would see.
Linkless(d) == {c \in Listed \cap Players : Unlinked(d)[c].desc = NoConn}

Targets(d) ==
  IF Leftover(d) = {} THEN Linkless(d)
  ELSE LET k == conn[Max(Leftover(d))]
       IN {IF k.orig # NoBody THEN k.orig ELSE k.char}

\* CON_PASSWORD, right, and a body to reconnect to: it is taken over, and any
\* other is marked for extraction.
Reconnect(d) ==
  /\ Turn(d) /\ conn[d].state = "password"
  /\ \E t \in Targets(d) :
       /\ conn' = [CutOff(d) EXCEPT ![d] = [Unmade EXCEPT !.state = "playing", !.char = t]]
       /\ body' = [c \in Bodies |->
            CASE c = t -> [Unlinked(d)[c] EXCEPT
                             !.desc = d, !.idle = IF @ = 2 THEN 2 ELSE 0]
              [] c = d -> Unborn
              [] c \in Linkless(d) \ {t} -> [Unlinked(d)[c] EXCEPT !.pending = TRUE]
              [] OTHER -> Unlinked(d)[c]]
  /\ UNCHANGED <<phase, accepted, disk, world>>

\* CON_PASSWORD, right, and nobody to reconnect to; CON_RMOTD.
ToMenu(d) ==
  /\ Turn(d) /\ conn[d].state = "password"
  /\ Targets(d) = {}
  /\ conn' = [CutOff(d) EXCEPT ![d].state = "menu"]
  /\ body' = Unlinked(d)
  /\ UNCHANGED <<phase, accepted, disk, world>>

\* CON_MENU, `1': onto character_list, and Crash_load, with the rent paid for.
EnterGame(d) ==
  LET c == conn[d].char
  IN /\ Turn(d) /\ conn[d].state = "menu"
     /\ body' = [body EXCEPT ![c].listed = TRUE, ![c].idle = 0,
                            ![c].stuff = disk.stuff, ![c].dirty = disk.stuff > 0]
     /\ disk' = [disk EXCEPT !.rec = body[c].rec,
                            !.code = IF @ = "none" THEN "none" ELSE "crash"]
     /\ conn' = [conn EXCEPT ![d].state = "playing"]
     /\ UNCHANGED <<phase, accepted, world>>

\* CON_MENU, `0'.
Goodbye(d) ==
  /\ Turn(d) /\ conn[d].state = "menu"
  /\ conn' = [conn EXCEPT ![d].state = "close"]
  /\ UNCHANGED <<phase, accepted, body, disk, world>>

-----------------------------------------------------------------------------
(* Commands of somebody who is playing *)

\* Anything that takes the record further.
Play(d) ==
  /\ Turn(d) /\ Driving(d) /\ newest < MaxRec
  /\ newest' = newest + 1
  /\ body' = [Awake(d) EXCEPT ![conn[d].char].rec = newest + 1]
  /\ UNCHANGED <<phase, accepted, conn, disk, floor>>

\* Mutant of Drop: what is dropped stays in hand.
DropKeeps(d) ==
  LET c == conn[d].char
  IN /\ "drop" \in May
     /\ Turn(d) /\ Driving(d) /\ body[c].stuff > 0
     /\ body' = [Awake(d) EXCEPT ![c].dirty = TRUE]
     /\ floor' = floor + 1
     /\ UNCHANGED <<phase, accepted, conn, disk, newest>>

Drop(d) ==
  LET c == conn[d].char
  IN /\ "drop" \in May
     /\ Turn(d) /\ Driving(d) /\ body[c].stuff > 0
     /\ body' = [Awake(d) EXCEPT ![c].stuff = @ - 1, ![c].dirty = TRUE]
     /\ floor' = floor + 1
     /\ UNCHANGED <<phase, accepted, conn, disk, newest>>

Get(d) ==
  LET c == conn[d].char
  IN /\ Turn(d) /\ Driving(d) /\ floor > 0
     /\ body' = [Awake(d) EXCEPT ![c].stuff = @ + 1, ![c].dirty = TRUE]
     /\ floor' = floor - 1
     /\ UNCHANGED <<phase, accepted, conn, disk, newest>>

\* do_quit with free_rent, or a receptionist without it.
Quit(d) ==
  LET c == conn[d].char
  IN /\ Turn(d) /\ Driving(d)
     /\ disk' = Stored(c, "rented", disk)
     /\ body' = [body EXCEPT ![c] = [Emptied(c) EXCEPT !.pending = TRUE, !.idle = 0]]
     /\ UNCHANGED <<phase, accepted, conn, world>>

\* do_save.
Save(d) ==
  LET c == conn[d].char
  IN /\ Turn(d) /\ Driving(d)
     /\ disk' = CrashSaved(c, body, SavedRecord(c, body, disk))
     /\ body' = [Awake(d) EXCEPT ![c].dirty = FALSE]
     /\ UNCHANGED <<phase, accepted, conn, world>>

\* do_oasis, and the way back from the editor.
Build(d) ==
  /\ "build" \in May
  /\ Turn(d) /\ Driving(d)
  /\ conn' = [conn EXCEPT ![d].state = "building"]
  /\ body' = Awake(d)
  /\ UNCHANGED <<phase, accepted, disk, world>>

FinishBuilding(d) ==
  /\ Turn(d) /\ conn[d].state = "building"
  /\ conn' = [conn EXCEPT ![d].state = "playing"]
  /\ body' = Awake(d)
  /\ UNCHANGED <<phase, accepted, disk, world>>

Switch(d) ==
  LET c == conn[d].char
  IN /\ "switch" \in May
     /\ Turn(d) /\ Driving(d)
     /\ Mob \in Listed /\ body[Mob].desc = NoConn
     /\ conn' = [conn EXCEPT ![d].char = Mob, ![d].orig = c]
     /\ body' = [Awake(d) EXCEPT ![c].desc = NoConn, ![Mob].desc = d]
     /\ UNCHANGED <<phase, accepted, disk, world>>

\* do_return: d goes back from the body it has switched into.
Returned(d) ==
  LET o == conn[d].orig
  IN [conn |-> [conn EXCEPT ![d].char = o, ![d].orig = NoBody],
      body |-> [body EXCEPT ![o].desc = d, ![conn[d].char].desc = NoConn]]

Return(d) ==
  /\ Turn(d) /\ conn[d].state = "playing" /\ conn[d].orig # NoBody
  /\ conn' = Returned(d).conn /\ body' = Returned(d).body
  /\ UNCHANGED <<phase, accepted, disk, world>>

-----------------------------------------------------------------------------
(* What others do to a connection or a body *)

\* do_dc: in the game the body stays, anywhere else it is to go.
Dc(d) ==
  /\ "dc" \in May
  /\ phase = "commands" /\ Open(d) /\ ~Marked(d)
  /\ conn[d].state = "building" => "dcBuilder" \in May
  /\ LosesNobody(d)
  /\ conn' = [conn EXCEPT ![d].state =
                IF @ = "playing" THEN "disconnect" ELSE "close"]
  /\ UNCHANGED <<phase, turn, accepted, body, disk, world>>

\* do_purge of a player: the descriptor is let go before the body is extracted.
Purge(c) ==
  /\ "purge" \in May
  /\ phase = "commands" /\ c \in Listed \cap Players /\ Loses(c)
  /\ LET d == body[c].desc
     IN conn' = IF d = NoConn THEN conn
                ELSE [conn EXCEPT ![d].state = "close", ![d].char = NoBody]
  /\ body' = [body EXCEPT ![c].desc = NoConn, ![c].pending = TRUE]
  /\ UNCHANGED <<phase, turn, accepted, disk, world>>

\* die and raw_kill, by a command or in a round of combat, or a death trap, which
\* leaves no corpse: what is carried falls when the body is extracted.
Die(c) ==
  /\ "die" \in May
  /\ phase \in {"commands", "heartbeat"}
  /\ c \in Listed /\ ~body[c].pending /\ Goes(c)
  /\ \E corpse \in {body[c].stuff, 0} :
       /\ floor' = floor + corpse
       /\ body' = [body EXCEPT ![c].pending = TRUE, ![c].stuff = @ - corpse,
                              ![c].dirty = @ \/ corpse > 0]
  /\ UNCHANGED <<phase, turn, accepted, conn, disk, newest>>

-----------------------------------------------------------------------------
(* The sweep and the heartbeat *)

\* From one part of the pass to the next.
Advance ==
  /\ \/ phase = "input" /\ phase' = "commands" /\ turn' = accepted
     \/ phase = "commands" /\ turn = 0 /\ phase' = "sweep" /\ UNCHANGED turn
     \/ /\ phase = "sweep" /\ \A d \in Conns : ~Marked(d)
        /\ phase' = "heartbeat" /\ UNCHANGED turn
     \/ phase = "heartbeat" /\ phase' = "autosave" /\ UNCHANGED turn
     \/ phase = "autosave" /\ phase' = "extract" /\ UNCHANGED turn
     \/ /\ phase = "extract" /\ \A c \in Listed : ~body[c].pending
        /\ phase' \in {"input", "heartbeat"} /\ UNCHANGED turn   \* pulses missed
  /\ UNCHANGED <<accepted, conn, body, disk, world>>

\* Descriptors in CON_CLOSE and CON_DISCONNECT are closed, newest first.
Sweep(d) ==
  /\ phase = "sweep" /\ Marked(d)
  /\ \A k \in Conns : Marked(k) => k <= d
  /\ CloseSocket(d)
  /\ UNCHANGED <<phase, turn, accepted, disk, world>>

\* check_idle_passwords.
PasswordTimeout(d) ==
  /\ phase = "heartbeat" /\ conn[d].state \in {"name", "password"}
  /\ conn' = [conn EXCEPT ![d].state = "close"]
  /\ UNCHANGED <<phase, turn, accepted, body, disk, world>>

\* check_idling, called by point_update, for a body whose owner is silent: in
\* time it is saved and sent to the void, and later rented and extracted.  Those
\* who may switch are above idle_max_level, and one who dies in the same tick has
\* nothing left to store.
Idle(c) ==
  LET d == body[c].desc
  IN /\ "idle" \in May
     /\ phase = "heartbeat"
     /\ c \in Listed \cap Players /\ ~LeftBehind(c) /\ ~body[c].pending
     /\ CASE body[c].idle = 0 ->
               /\ body' = [body EXCEPT ![c].idle = 1]
               /\ UNCHANGED <<conn, disk>>
          [] body[c].idle = 1 ->
               /\ body' = [body EXCEPT ![c].idle = 2, ![c].dirty = FALSE]
               /\ disk' = CrashSaved(c, body, SavedRecord(c, body, disk))
               /\ UNCHANGED conn
          [] body[c].idle = 2 ->
               /\ Loses(c)
               /\ conn' = IF d = NoConn THEN conn
                          ELSE [conn EXCEPT ![d].state = "disconnect", ![d].char = NoBody]
               /\ body' = [body EXCEPT ![c] =
                             [Emptied(c) EXCEPT !.desc = NoConn, !.pending = TRUE]]
               /\ disk' = Stored(c, "rented", disk)
     /\ UNCHANGED <<phase, turn, accepted, world>>

\* Crash_save_all: whoever is playing and has had anything change hands.
Autosave(d) ==
  LET c == conn[d].char
  IN /\ phase = "autosave"
     /\ conn[d].state = "playing" /\ c \in Players /\ body[c].dirty
     /\ body[c].pending /\ disk.code = "rented" => "quitAtAutosave" \in May
     /\ disk' = CrashSaved(c, body, SavedRecord(c, body, disk))
     /\ body' = [body EXCEPT ![c].dirty = FALSE]
     /\ UNCHANGED <<phase, turn, accepted, conn, world>>

\* extract_pending_chars and extract_char_final.  Whoever has switched is put
\* back first; whoever drives the body is left at the menu, and everybody else
\* who is logging in to the same player is to be closed.
ExtractFinal(c) ==
  /\ phase = "extract" /\ c \in Listed /\ body[c].pending
  /\ LET away == {d \in Conns : Open(d) /\ conn[d].orig # NoBody
                                /\ (conn[d].orig = c \/ conn[d].char = c)}
         back == IF away = {} THEN [conn |-> conn, body |-> body]
                 ELSE Returned(CHOOSE d \in away : TRUE)
         owner == back.body[c].desc
         kept == SavedRecord(c, back.body, disk)
     IN /\ conn' = [d \in Conns |->
             IF d = owner THEN [back.conn[d] EXCEPT !.state = "menu"]
             ELSE IF owner # NoConn /\ Open(d) /\ back.conn[d].char \in Players
                  THEN [back.conn[d] EXCEPT !.state = "close"]
             ELSE back.conn[d]]
        /\ body' = [back.body EXCEPT ![c] =
             [@ EXCEPT !.listed = FALSE, !.pending = FALSE, !.stuff = 0,
                       !.alloc = owner # NoConn]]
        /\ disk' = IF c # Mob /\ kept.code = "crash"
                   THEN [kept EXCEPT !.code = "none", !.stuff = 0] ELSE kept
  /\ floor' = floor + body[c].stuff
  /\ UNCHANGED <<phase, turn, accepted, newest>>

-----------------------------------------------------------------------------

Init ==
  /\ phase = "input" /\ turn = 0 /\ accepted = 0
  /\ conn = [d \in Conns |-> Unmade]
  /\ body = [c \in Bodies |->
       IF c = Mob THEN [Unborn EXCEPT !.alloc = TRUE, !.listed = TRUE] ELSE Unborn]
  /\ disk = [rec |-> 0, code |-> "rented", stuff |-> 1]
  /\ floor = 0 /\ newest = 0

Command(d) ==
  \/ Silent(d) \/ GiveName(d) \/ WrongPassword(d) \/ Reconnect(d) \/ ToMenu(d)
  \/ EnterGame(d) \/ Goodbye(d) \/ Play(d) \/ Drop(d) \/ Get(d) \/ Quit(d)
  \/ Save(d) \/ Build(d) \/ FinishBuilding(d) \/ Switch(d) \/ Return(d)

Next ==
  \/ Accept \/ Advance
  \/ \E d \in Conns :
       Hangup(d) \/ Command(d) \/ Dc(d) \/ Sweep(d) \/ PasswordTimeout(d) \/ Autosave(d)
  \/ \E c \in Bodies : Purge(c) \/ Die(c) \/ Idle(c) \/ ExtractFinal(c)

Spec == Init /\ [][Next]_vars

-----------------------------------------------------------------------------
(* Properties *)

\* The range of every variable.
TypeOK ==
  /\ phase \in {"input", "commands", "sweep", "heartbeat", "autosave", "extract"}
  /\ turn \in 0..Last /\ accepted \in 0..Last
  /\ conn \in [Conns -> [state : {"none", "gone", "name", "password", "menu", "playing",
                                  "building", "close", "disconnect"},
                         char : Bodies \union {NoBody}, orig : Players \union {NoBody}]]
  /\ body \in [Bodies -> [alloc : BOOLEAN, listed : BOOLEAN, pending : BOOLEAN,
                          desc : Conns \union {NoConn}, idle : 0..2, dirty : BOOLEAN,
                          rec : 0..MaxRec, stuff : 0..1]]
  /\ disk \in [rec : 0..MaxRec, code : {"none", "crash", "rented"}, stuff : 0..1]
  /\ floor \in 0..1 /\ newest \in 0..MaxRec

\* Nobody on character_list, and nobody a descriptor points at, has been freed:
\* the loops over both lists read every one of them.
NothingFreedInUse ==
  /\ \A c \in Listed : body[c].alloc
  /\ \A d \in Conns : \A c \in {conn[d].char, conn[d].orig} \ {NoBody} : body[c].alloc

\* A body that believes a descriptor drives it is the body that descriptor drives,
\* and the other way round.
LinksAgree ==
  \A c \in Bodies, d \in Conns : body[c].alloc => (body[c].desc = d <=> conn[d].char = c)

\* The pointers between descriptors and bodies are sound, through every close, take-over,
\* switch and extraction of a pass.
PointersSound == NothingFreedInUse /\ LinksAgree

\* However many connections log in, there is one body of a player in the world, and
\* it is the only one with anything in its hands.
OneBody ==
  /\ Cardinality(Listed \cap Players) <= 1
  /\ \A c \in Players \ Listed : body[c].stuff = 0

\* Belongings are in one place: in somebody's hands, on the floor, or in a rent file
\* (a crash file is a copy of what is still in hand).
InRentFile == IF disk.code = "rented" THEN disk.stuff ELSE 0
Held == {c \in Bodies : body[c].stuff > 0}
BelongingsOnce == Cardinality(Held) + floor + InRentFile = 1

\* Somebody who is out of the world finds the record as play left it.
RecordKept == Listed \cap Players = {} => disk.rec = newest

\* Through every reconnection, usurpation, link loss and switch a player has one
\* stay in the world at a time, which begins with what the last one ended with.
Stay == INSTANCE PlayerStay WITH
  here <- Listed \cap Players # {},
  belongings <- CASE Held # {} -> "carried"
                  [] floor > 0 -> "left"
                  [] InRentFile > 0 -> "stored"
                  [] OTHER -> "lost",
  record <- newest,
  kept <- disk.rec
\* The descriptors implement PlayerStay.
IsStay == Stay!Spec
=============================================================================
