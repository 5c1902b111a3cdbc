----------------------------- MODULE Presence -------------------------------
(***************************************************************************)
(* One player's presence: the connections that log in as them, the bodies  *)
(* those logins load, the world those bodies stand in and the file they    *)
(* are saved to.  From internal/server (server.go, rent.go, listen.go,     *)
(* operator.go), internal/session (login.go, menu.go, session.go, the      *)
(* commands that end a stay), internal/game/live.go and the yaml store.    *)
(*                                                                         *)
(* Every connection has a goroutine; what it does between two waits (for a *)
(* line, for the world goroutine, for the disk) is one action.  A body is  *)
(* named after the connection whose login built it.  What matters of a     *)
(* record is how far play has taken it, of belongings how many copies of   *)
(* them there are.                                                         *)
(***************************************************************************)
EXTENDS Integers, FiniteSets, FiniteSetsExt, Functions

CONSTANTS
    Last,       \* connections are 1..Last, in the order they are accepted
    MaxRec,     \* bound: how far play takes the record
    Jobs,       \* bound: background writes in flight at once are 1..Jobs
    Many,       \* bound: copies of the belongings are counted up to Many
    May,        \* which of Behaviours an instance has
    Overlap,    \* which of Handlers others may start in the middle of
    None        \* no body, no connection

Conns  == 1..Last
Bodies == Conns

\* What the people about may do, besides logging in, playing and hanging up.
Behaviours == {
    "quit",         \* a player quits
    "again",        \*   and chooses 1 at the menu they come back to
    "rent",         \* a player rents at an inn
    "arrears",      \*   and cannot pay for it
    "trap",         \* a player walks into a death trap
    "purge",        \* a god purges the player
    "kick",         \* connections are closed from the server's side
    "menuHangup",   \* connections end at the menu they logged in to
    "guess",        \* wrong passwords are typed
    "autosave",     \* the sweep saves records
    "reap"}         \* the sweep removes bodies nobody came back for

\* What the server's goroutines have under way, one word for each handler.
Handlers == {"login", "enter", "command", "leave", "job", "sweep"}

ASSUME PresenceAssumption ==
    /\ Last \in Nat \ {0}
    /\ MaxRec \in Nat
    /\ Jobs \in Nat \ {0}
    /\ Many \in Nat \ {0, 1}
    /\ May \subseteq Behaviours
    /\ Overlap \subseteq Handlers
    /\ None \notin Int

VARIABLES
    \* --- each connection: its goroutine and its session.Session
    at,         \* where the goroutine is
    state,      \* s.state: "login", "menu" or "playing"
    char,       \* s.character
    flags,      \* which of s.closed, quit, rented, extracted, displaced are set
    local,      \* its handler's locals: what it read, the body it was given, quit
    \* --- the world and the bodies
    inWorld,    \* the bodies standing in a room
    byName,     \* the body Live.byName gives for the player
    client,     \* Character.Client
    carrying,   \* Character.Carrying and Equipment
    rec,        \* Character.Record
    parted,     \* history: copies the player has parted with
    \* --- the player's file
    file,       \* its record and its rent section
    \* --- the server's own goroutines
    job,        \* what background()'s goroutines are writing
    sweep,      \* RunAutosave: what it is doing, about which snapshot
    linkdead    \* its linkdeadSince

session == <<at, state, char, flags, local>>
rooms   == <<inWorld, byName>>
bodies  == <<client, carrying, rec, parted>>
world   == <<rooms, bodies>>
server  == <<job, sweep, linkdead>>
vars    == <<session, world, file, server>>

Codes == {"none", "crash", "rented"}
Idle  == [step |-> "none", body |-> None, rec |-> 0, items |-> 0, leaver |-> None]
NoLocals == [read |-> 0, body |-> None, quit |-> FALSE]
Rest  == [step |-> "none", body |-> None, rec |-> 0, linked |-> FALSE]

\* The places a goroutine can be, by handler.
Places ==
    [idle    |-> {"off", "prompt", "reading", "gone"},
     login   |-> {"tallying", "upgrading", "loaded", "adopting", "fresh"},
     enter   |-> {"entering", "loading", "forfeiting", "emptying", "restoring",
                  "marking", "entered"},
     command |-> {"doing"},
     leave   |-> {"ended", "saving", "writing", "crashing", "storing", "releasing"}]

TypeOK ==
    /\ at \in [Conns -> UNION {Places[h] : h \in DOMAIN Places}]
    /\ state \in [Conns -> {"login", "menu", "playing"}]
    /\ char \in [Conns -> Bodies \cup {None}]
    /\ flags \in [Conns -> SUBSET {"closed", "quit", "rented", "extracted", "displaced"}]
    /\ local \in [Conns -> [read : Nat, body : Bodies \cup {None}, quit : BOOLEAN]]
    /\ inWorld \subseteq Bodies
    /\ byName \in Bodies \cup {None}
    /\ client \in [Bodies -> Conns \cup {None}]
    /\ carrying \in [Bodies -> 0..Many]
    /\ rec \in [Bodies -> 0..MaxRec]
    /\ parted \in 0..Many
    /\ file \in [rec : 0..MaxRec, code : Codes, items : 0..Many]
    /\ file.code = "none" <=> file.items = 0
    /\ job \in [1..Jobs -> [step : {"none", "quitRecord", "quitCrash", "rentObjects",
                                    "rentSnapshot", "rentRecord", "rentClose"},
                            body : Bodies \cup {None}, rec : 0..MaxRec,
                            items : 0..Many, leaver : Conns \cup {None}]]
    /\ sweep \in [step : {"none", "swept", "judging", "reaping"}, body : Bodies \cup {None},
                  rec : 0..MaxRec, linked : BOOLEAN]
    /\ linkdead \subseteq Bodies

Init ==
    /\ at = [s \in Conns |-> "off"]
    /\ state = [s \in Conns |-> "login"]
    /\ char = [s \in Conns |-> None]
    /\ flags = [s \in Conns |-> {}]
    /\ local = [s \in Conns |-> NoLocals]
    /\ inWorld = {} /\ byName = None
    /\ client = [b \in Bodies |-> None]
    /\ carrying = [b \in Bodies |-> 0]
    /\ rec = [b \in Bodies |-> 0]
    /\ parted = 0
    /\ file \in {[rec |-> 0, code |-> c, items |-> 1] : c \in {"crash", "rented"}}
    /\ job = [j \in 1..Jobs |-> Idle]
    /\ sweep = Rest
    /\ linkdead = {}

-----------------------------------------------------------------------------
(* Helpers.                                                                *)

Registered == {s \in Conns : at[s] \notin {"off", "gone"}}

Is(s, flag) == flag \in flags[s]

Mark(ss, marks) ==
    flags' = [s \in Conns |-> IF s \in ss THEN flags[s] \cup marks ELSE flags[s]]

\* A handler's local is set; the locals go when it returns.
Read(s, n) == local' = [local EXCEPT ![s].read = n]
Forget(s) == local' = [local EXCEPT ![s].read = 0, ![s].body = None]

\* Copies are counted up to Many, the belongings duplicated.
Plus(m, n) == Min({m + n, Many})

\* background(): f starts on a goroutine of its own.
Begin(f) ==
    LET free == {j \in 1..Jobs : job[j] = Idle}
    IN  /\ free # {}
        /\ job' = [job EXCEPT ![Min(free)] = f]

\* A handler may start: nothing is under way that it may not interrupt.
Free(others) ==
    /\ \A t \in others : \A h \in DOMAIN Places :
          at[t] \in Places[h] => h \in Overlap \cup {"idle"}
    /\ "job" \in Overlap \/ \A j \in 1..Jobs : job[j] = Idle
    /\ "sweep" \in Overlap \/ sweep = Rest

Turn(s) == Free(Conns \ {s})

\* The connection may end of itself or be closed.
MayEnd(s) ==
    at[s] = "prompt" \/ state[s] = "playing" \/ Is(s, "extracted") \/ "menuHangup" \in May

Goto(s, place) == at' = [at EXCEPT ![s] = place]

\* Live.Enter and Live.Remove.  The index is by name: Remove deletes the entry
\* whichever body it is for.
WorldEnter(b) ==
    /\ inWorld' = inWorld \cup {b}
    /\ byName' = b

WorldRemove(b) ==
    /\ inWorld' = inWorld \ {b}
    /\ byName' = None

\* The store's operations.  Each rewrites the file under the store's lock and
\* keeps the half it is not about.
Save(r) == file' = [file EXCEPT !.rec = r]

SaveObjects(c, n) == file' = [file EXCEPT !.code = c, !.items = n]

DeleteObjects == SaveObjects("none", 0)

MarkCrashed ==
    file' = IF file.code = "none" THEN file ELSE [file EXCEPT !.code = "crash"]

\* Mutant of WriteCrashFile: an empty file is written, as the C does.
WriteCrashFileAnyway(n) == SaveObjects("crash", n)

\* writeCrashFile: nothing to store is a file to delete.
WriteCrashFile(n) == IF n = 0 THEN DeleteObjects ELSE SaveObjects("crash", n)

-----------------------------------------------------------------------------
(* Logging in.                                                             *)

\* serve registers the connection.
Connect(s) ==
    /\ at[s] = "off"
    /\ \A t \in 1..(s - 1) : at[t] # "off"
    /\ Goto(s, "prompt")
    /\ UNCHANGED <<state, char, flags, local, world, file, server>>

\* RecordBadPassword: the record is read, and written back with one more bad
\* password in it.
BadPassword(s) ==
    /\ "guess" \in May
    /\ at[s] = "prompt" /\ ~Is(s, "closed") /\ Turn(s)
    /\ Read(s, file.rec)
    /\ Goto(s, "tallying")
    /\ UNCHANGED <<state, char, flags, world, file, server>>

TallyBadPassword(s) ==
    /\ at[s] = "tallying"
    /\ Save(local[s].read)
    /\ Goto(s, "prompt")
    /\ Forget(s)
    /\ UNCHANGED <<state, char, flags, world, server>>

\* Authenticate reads the record a body is built from.  A legacy credential is
\* upgraded and written back first.
Authenticate(s) ==
    /\ at[s] = "prompt" /\ ~Is(s, "closed") /\ Turn(s)
    /\ rec' = [rec EXCEPT ![s] = file.rec]
    /\ \E place \in {"loaded", "upgrading"} : Goto(s, place)
    /\ UNCHANGED <<state, char, flags, local, rooms, client, carrying, parted, file, server>>

UpgradeCredential(s) ==
    /\ at[s] = "upgrading"
    /\ Save(rec[s])
    /\ Goto(s, "loaded")
    /\ UNCHANGED <<state, char, flags, local, world, server>>

\* A select ban or a wizlock turns them away with the password accepted.
Refuse(s) ==
    /\ at[s] = "loaded"
    /\ Mark({s}, {"closed"})
    /\ Goto(s, "ended")
    /\ UNCHANGED <<state, char, local, world, file, server>>

\* The connections DupeCheck(s) finds logged in as the player.
Others(s) == {o \in Registered \ {s} : char[o] # None}

\* Mutant of Donors: whatever state the connection is in.
DonorsAnyState(s) ==
    {o \in Others(s) : client[char[o]] = o /\ ~Is(o, "closed")}

\* The ones driving a body.
Donors(s) ==
    {o \in Others(s) :
        state[o] = "playing" /\ client[char[o]] = o /\ ~Is(o, "closed")}

\* Character.Client once DupeCheck's first pass has let go of the others'.
Freed(s) ==
    [b \in Bodies |->
        IF client[b] \in Others(s) /\ char[client[b]] = b THEN None ELSE client[b]]

\* The body DupeCheck(s) finds: the first donor's, or one left standing.
Existing(s) ==
    IF Donors(s) # {} THEN char[Min(Donors(s))]
    ELSE IF byName # None /\ Freed(s)[byName] = None THEN byName
    ELSE None

\* Mutant of DupeCheck: the others are closed and not marked as displaced.
DupeCheckUnmarked(s) ==
    /\ at[s] = "loaded"
    /\ Mark(Others(s), {"closed"})
    /\ local' = [local EXCEPT ![s].body = Existing(s)]
    /\ client' = [b \in Bodies |-> IF b = Existing(s) THEN s ELSE Freed(s)[b]]
    /\ Goto(s, IF Existing(s) = None THEN "fresh" ELSE "adopting")
    /\ UNCHANGED <<state, char, rooms, carrying, rec, parted, file, server>>

\* DupeCheck, all of it on the world goroutine.
DupeCheck(s) ==
    /\ at[s] = "loaded"
    /\ Mark(Others(s), {"displaced", "closed"})
    /\ local' = [local EXCEPT ![s].body = Existing(s)]
    /\ client' = [b \in Bodies |-> IF b = Existing(s) THEN s ELSE Freed(s)[b]]
    /\ Goto(s, IF Existing(s) = None THEN "fresh" ELSE "adopting")
    /\ UNCHANGED <<state, char, rooms, carrying, rec, parted, file, server>>

\* Back on its own goroutine, the session adopts what DupeCheck found ...
Adopt(s) ==
    /\ at[s] = "adopting"
    /\ char' = [char EXCEPT ![s] = local[s].body]
    /\ state' = [state EXCEPT ![s] = "playing"]
    /\ Goto(s, "reading")
    /\ Forget(s)
    /\ UNCHANGED <<flags, world, file, server>>

\* ... or goes to the message of the day and the menu with the body it loaded.
ToMenu(s) ==
    /\ at[s] = "fresh"
    /\ char' = [char EXCEPT ![s] = s]
    /\ state' = [state EXCEPT ![s] = "menu"]
    /\ Goto(s, "reading")
    /\ UNCHANGED <<flags, local, world, file, server>>

-----------------------------------------------------------------------------
(* Entering the world, menu choice 1.                                      *)

\* Enter, up to its first wait: the body's client is set off the world
\* goroutine.
ChooseEnter(s) ==
    /\ at[s] = "reading" /\ state[s] = "menu" /\ ~Is(s, "closed") /\ Turn(s)
    /\ "again" \in May \/ ~Is(s, "extracted")
    /\ client' = [client EXCEPT ![char[s]] = s]
    /\ Goto(s, "entering")
    /\ UNCHANGED <<state, char, flags, local, rooms, carrying, rec, parted, file, server>>

EnterRoom(s) ==
    /\ at[s] = "entering"
    /\ WorldEnter(char[s])
    /\ Goto(s, "loading")
    /\ UNCHANGED <<state, char, flags, local, bodies, file, server>>

\* loadObjects reads the rent section.  Rent that cannot be paid costs the lot.
LoadObjects(s) ==
    /\ at[s] = "loading"
    /\ Read(s, file.items)
    /\ \/ /\ file.code = "none"
          /\ Goto(s, "entered")
       \/ /\ file.code # "none"
          /\ Goto(s, "restoring")
       \/ /\ file.code = "rented" /\ "arrears" \in May
          /\ Goto(s, "forfeiting")
    /\ UNCHANGED <<state, char, flags, world, file, server>>

\* crashSave, with nothing loaded: its snapshot ...
Forfeit(s) ==
    /\ at[s] = "forfeiting"
    /\ parted' = Plus(parted, local[s].read)
    /\ Read(s, carrying[char[s]])
    /\ Goto(s, "emptying")
    /\ UNCHANGED <<state, char, flags, rooms, client, carrying, rec, file, server>>

\* ... and its write.
ForfeitWrite(s) ==
    /\ at[s] = "emptying"
    /\ WriteCrashFile(local[s].read)
    /\ Goto(s, "entered")
    /\ Forget(s)
    /\ UNCHANGED <<state, char, flags, world, server>>

\* restoreObjects, on the world goroutine ...
RestoreObjects(s) ==
    /\ at[s] = "restoring"
    /\ carrying' = [carrying EXCEPT ![char[s]] = Plus(@, local[s].read)]
    /\ Goto(s, "marking")
    /\ Forget(s)
    /\ UNCHANGED <<state, char, flags, rooms, client, rec, parted, file, server>>

\* ... and the file is turned into a crash file.
MarkRestored(s) ==
    /\ at[s] = "marking"
    /\ MarkCrashed
    /\ Goto(s, "entered")
    /\ UNCHANGED <<state, char, flags, local, world, server>>

\* enterWorld's tail.
Entered(s) ==
    /\ at[s] = "entered"
    /\ state' = [state EXCEPT ![s] = "playing"]
    /\ flags' = [flags EXCEPT ![s] = @ \ {"extracted"}]
    /\ Goto(s, "reading")
    /\ UNCHANGED <<char, local, world, file, server>>

-----------------------------------------------------------------------------
(* Playing.                                                                *)

\* A line is read.  It is run when the world goroutine comes to it, whatever
\* has happened to the connection by then.
TypeCommand(s) ==
    /\ at[s] = "reading" /\ state[s] = "playing" /\ ~Is(s, "closed") /\ Turn(s)
    /\ Goto(s, "doing")
    /\ UNCHANGED <<state, char, flags, local, world, file, server>>

\* Anything that gets the character on.
Play(s) ==
    /\ at[s] = "doing"
    /\ rec[char[s]] < MaxRec
    /\ rec' = [rec EXCEPT ![char[s]] = @ + 1]
    /\ Goto(s, "reading")
    /\ UNCHANGED <<state, char, flags, local, rooms, client, carrying, parted, file, server>>

\* Anything that does not, and every refusal.
Look(s) ==
    /\ at[s] = "doing"
    /\ Goto(s, "reading")
    /\ UNCHANGED <<state, char, flags, local, world, file, server>>

\* Mutant of Extract: what is written back is what was on disk.
ExtractStale(b, n) ==
    /\ Begin([step |-> "quitRecord", body |-> b, rec |-> file.rec, items |-> n, leaver |-> None])
    /\ WorldRemove(b)

\* ExtractCharacter with n copies in hand: the snapshots, the removal, and the
\* writing left to background().
Extract(b, n) ==
    /\ Begin([step |-> "quitRecord", body |-> b, rec |-> rec[b], items |-> n, leaver |-> None])
    /\ WorldRemove(b)

\* doQuit's last case: MarkQuit, Extract, ReturnToMenu.
Quit(s) ==
    /\ "quit" \in May
    /\ at[s] = "doing"
    /\ Extract(char[s], carrying[char[s]])
    /\ Mark({s}, {"quit", "extracted"})
    /\ state' = [state EXCEPT ![s] = "menu"]
    /\ Goto(s, "reading")
    /\ UNCHANGED <<char, local, bodies, file, sweep, linkdead>>

\* deathTrap: everything is left on the floor, and the menu goes to whoever is
\* connected to the body.
DeathTrap(s) ==
    /\ "trap" \in May
    /\ at[s] = "doing"
    /\ LET b == char[s]
       IN  /\ parted' = Plus(parted, carrying[b])
           /\ carrying' = [carrying EXCEPT ![b] = 0]
           /\ Extract(b, 0)
           /\ Mark({client[b]}, {"extracted"})
           /\ state' = [t \in Conns |-> IF t = client[b] THEN "menu" ELSE state[t]]
    /\ Goto(s, "reading")
    /\ UNCHANGED <<char, local, client, rec, file, sweep, linkdead>>

\* RentCharacter.  The receptionist turns away a character with nothing.
Rent(s) ==
    /\ "rent" \in May
    /\ at[s] = "doing"
    /\ LET b == char[s]
       IN  /\ carrying[b] > 0
           /\ Begin([step |-> "rentObjects", body |-> b, rec |-> 0,
                     items |-> carrying[b], leaver |-> client[b]])
           /\ carrying' = [carrying EXCEPT ![b] = 0]
           /\ Mark({client[b]}, {"quit", "rented"})
           /\ WorldRemove(b)
    /\ Goto(s, "reading")
    /\ UNCHANGED <<state, char, local, client, rec, parted, file, sweep, linkdead>>

\* purge, typed by a god.
Purge(b) ==
    /\ "purge" \in May
    /\ b \in inWorld
    /\ parted' = Plus(parted, carrying[b])
    /\ carrying' = [carrying EXCEPT ![b] = 0]
    /\ Mark({client[b]}, {"closed"})
    /\ WorldRemove(b)
    /\ UNCHANGED <<at, state, char, local, client, rec, file, server>>

\* Session.Close from elsewhere: `dc`, LoginGrace, an output queue overflowing.
Kick(s) ==
    /\ "kick" \in May
    /\ s \in Registered /\ ~Is(s, "closed")
    /\ MayEnd(s)
    /\ Mark({s}, {"closed"})
    /\ UNCHANGED <<at, state, char, local, world, file, server>>

-----------------------------------------------------------------------------
(* Leaving.                                                                *)

\* readLoop returns: the peer hung up, or the session has been closed.
ReadEnds(s) ==
    /\ at[s] \in {"prompt", "reading"}
    /\ Is(s, "closed") \/ MayEnd(s)
    /\ Turn(s)
    /\ Goto(s, "ended")
    /\ UNCHANGED <<state, char, flags, local, world, file, server>>

\* Serve's tail decides whether there is anything to leave.
LeaveNothing(s) ==
    /\ at[s] = "ended"
    /\ char[s] = None \/ Is(s, "displaced") \/ Is(s, "extracted")
    /\ Mark({s}, {"closed"})
    /\ Goto(s, "gone")
    /\ UNCHANGED <<state, char, local, world, file, server>>

Leave(s) ==
    /\ at[s] = "ended"
    /\ char[s] # None /\ ~Is(s, "displaced") /\ ~Is(s, "extracted")
    /\ local' = [local EXCEPT ![s].quit = Is(s, "quit")]
    /\ Goto(s, "saving")
    /\ UNCHANGED <<state, char, flags, world, file, server>>

\* Save: the snapshot on the world goroutine, the write off it.
LeaveSnapshot(s) ==
    /\ at[s] = "saving"
    /\ Read(s, rec[char[s]])
    /\ Goto(s, "writing")
    /\ UNCHANGED <<state, char, flags, world, file, server>>

\* Mutant of LeaveSave: somebody who rented is crash-saved as well.
LeaveSaveRented(s) ==
    /\ at[s] = "writing"
    /\ Save(local[s].read)
    /\ Goto(s, "crashing")
    /\ Forget(s)
    /\ UNCHANGED <<state, char, flags, world, server>>

LeaveSave(s) ==
    /\ at[s] = "writing"
    /\ Save(local[s].read)
    /\ Goto(s, IF Is(s, "rented") THEN "releasing" ELSE "crashing")
    /\ Forget(s)
    /\ UNCHANGED <<state, char, flags, world, server>>

\* crashSave, in the same two steps.
LeaveCrashFile(s) ==
    /\ at[s] = "crashing"
    /\ Read(s, carrying[char[s]])
    /\ Goto(s, "storing")
    /\ UNCHANGED <<state, char, flags, world, file, server>>

LeaveCrashSave(s) ==
    /\ at[s] = "storing"
    /\ WriteCrashFile(local[s].read)
    /\ Goto(s, "releasing")
    /\ Forget(s)
    /\ UNCHANGED <<state, char, flags, world, server>>

\* The last visit to the world goroutine; Serve then closes the session and
\* serve takes it off the registry.
LeaveWorld(s) ==
    /\ at[s] = "releasing"
    /\ client' = [client EXCEPT ![char[s]] = IF @ = s THEN None ELSE @]
    /\ IF local[s].quit THEN WorldRemove(char[s]) ELSE UNCHANGED rooms
    /\ Mark({s}, {"closed"})
    /\ Goto(s, "gone")
    /\ UNCHANGED <<state, char, local, carrying, rec, parted, file, server>>

-----------------------------------------------------------------------------
(* The server's own goroutines.                                            *)

JobStep(j, from, to) ==
    /\ job[j].step = from
    /\ job' = [job EXCEPT ![j] = IF to = "none" THEN Idle ELSE [@ EXCEPT !.step = to]]
    /\ UNCHANGED <<sweep, linkdead>>

\* What ExtractCharacter left to background().
QuitSave(j) ==
    /\ JobStep(j, "quitRecord", "quitCrash")
    /\ Save(job[j].rec)
    /\ UNCHANGED <<session, world>>

QuitCrashSave(j) ==
    /\ JobStep(j, "quitCrash", "none")
    /\ WriteCrashFile(job[j].items)
    /\ UNCHANGED <<session, world>>

\* What RentCharacter left to it.
RentSaveObjects(j) ==
    /\ JobStep(j, "rentObjects", "rentSnapshot")
    /\ SaveObjects("rented", job[j].items)
    /\ UNCHANGED <<session, world>>

RentSnapshot(j) ==
    /\ job[j].step = "rentSnapshot"
    /\ job' = [job EXCEPT ![j].step = "rentRecord", ![j].rec = rec[job[j].body]]
    /\ UNCHANGED <<session, world, file, sweep, linkdead>>

RentSave(j) ==
    /\ JobStep(j, "rentRecord", "rentClose")
    /\ Save(job[j].rec)
    /\ UNCHANGED <<session, world>>

RentClose(j) ==
    /\ JobStep(j, "rentClose", "none")
    /\ Mark({job[j].leaver}, {"closed"})
    /\ UNCHANGED <<at, state, char, local, world, file>>

\* RunAutosave's tick: snapshotPlayers.
SweepSnapshot ==
    /\ sweep.step = "none" /\ byName # None
    /\ Free(Conns)
    /\ sweep' = [step |-> "swept", body |-> byName, rec |-> rec[byName],
                 linked |-> client[byName] # None]
    /\ UNCHANGED <<session, world, file, job, linkdead>>

\* If this tick saves, the record goes to disk.
SweepSave ==
    /\ "autosave" \in May
    /\ sweep.step = "swept"
    /\ Save(sweep.rec)
    /\ sweep' = [sweep EXCEPT !.step = "judging"]
    /\ UNCHANGED <<session, world, job, linkdead>>

\* Then the link is looked at: as it was in the snapshot.  A body seen
\* linkdead a second time may have been so for linkdeadTimeout.
SweepJudge ==
    /\ sweep.step \in {"swept", "judging"}
    /\ \/ /\ sweep.linked
          /\ linkdead' = linkdead \ {sweep.body}
          /\ sweep' = Rest
       \/ /\ ~sweep.linked
          /\ linkdead' = linkdead \cup {sweep.body}
          /\ sweep' = Rest
       \/ /\ ~sweep.linked /\ sweep.body \in linkdead
          /\ "reap" \in May
          /\ linkdead' = linkdead \ {sweep.body}
          /\ sweep' = [sweep EXCEPT !.step = "reaping"]
    /\ UNCHANGED <<session, world, file, job>>

SweepReap ==
    /\ sweep.step = "reaping"
    /\ WorldRemove(sweep.body)
    /\ sweep' = Rest
    /\ UNCHANGED <<session, bodies, file, job, linkdead>>

Sweep == SweepSnapshot \/ SweepSave \/ SweepJudge \/ SweepReap

Background(j) ==
    \/ QuitSave(j) \/ QuitCrashSave(j)
    \/ RentSaveObjects(j) \/ RentSnapshot(j) \/ RentSave(j) \/ RentClose(j)

Login(s) ==
    \/ Connect(s) \/ BadPassword(s) \/ TallyBadPassword(s)
    \/ Authenticate(s) \/ UpgradeCredential(s) \/ Refuse(s)
    \/ DupeCheck(s) \/ Adopt(s) \/ ToMenu(s)

Enter(s) ==
    \/ ChooseEnter(s) \/ EnterRoom(s) \/ LoadObjects(s)
    \/ Forfeit(s) \/ ForfeitWrite(s)
    \/ RestoreObjects(s) \/ MarkRestored(s) \/ Entered(s)

Command(s) ==
    \/ TypeCommand(s) \/ Play(s) \/ Look(s)
    \/ Quit(s) \/ DeathTrap(s) \/ Rent(s)

Depart(s) ==
    \/ ReadEnds(s) \/ LeaveNothing(s) \/ Leave(s)
    \/ LeaveSnapshot(s) \/ LeaveSave(s) \/ LeaveCrashFile(s) \/ LeaveCrashSave(s)
    \/ LeaveWorld(s)

Next ==
    \/ Sweep
    \/ \E j \in 1..Jobs : Background(j)
    \/ \E b \in Bodies : Purge(b)
    \/ \E s \in Conns : Login(s) \/ Enter(s) \/ Command(s) \/ Depart(s) \/ Kick(s)

Spec == Init /\ [][Next]_vars

-----------------------------------------------------------------------------
(* Properties.                                                             *)

\* Nothing is in flight.
AtRest ==
    /\ \A s \in Conns : at[s] \in {"off", "gone"}
    /\ \A j \in 1..Jobs : job[j] = Idle
    /\ sweep = Rest

\* Somebody is at this connection playing: it has not been closed, had its body
\* taken away or been checked in at an inn.
InPlay(s) ==
    /\ at[s] = "reading" /\ state[s] = "playing"
    /\ flags[s] \cap {"closed", "displaced", "rented"} = {}

\* Copies of the belongings in the hands of bodies in the world.
Carried == SumFunction([b \in Bodies |-> IF b \in inWorld THEN carrying[b] ELSE 0])

\* DupeCheck's claim: a second body of the same name cannot be in the world at
\* once.
OneBody == Cardinality(inWorld) <= 1

\* The index knows who is in the world, which is what DupeCheck, the sweep and
\* every search by name go by.
IndexAgrees == inWorld = {byName} \ {None}

\* Two connections never have the same body but for one that has lost it: the
\* dupe check is what stands between a second login and two sockets driving one
\* character.
NoSharedBody ==
    \A s, t \in Registered : s # t /\ char[s] # None /\ char[s] = char[t] =>
        Is(s, "displaced") \/ Is(t, "displaced")

\* Whoever is playing hears what their body hears: no late teardown, dupe check
\* or removal takes the body's client from under them.
PlayingIsConnected == \A s \in Conns : InPlay(s) => client[char[s]] = s

\* One body is driven by one connection, and that connection is the one the body
\* answers to, whatever logins, takeovers, teardowns and sweeps come between.
DrivenOnce == NoSharedBody /\ PlayingIsConnected

\* Whoever is playing is in the world.
PlayingInWorld == \A s \in Conns : InPlay(s) => char[s] \in inWorld

\* As long as handlers come in turn, the index, the rooms and the connections have one
\* account of who is in the world (what ends it otherwise: LostByLateSteps).
WorldAgrees == IndexAgrees /\ PlayingInWorld

\* The body a connection has in the world as far as its goroutine can tell: one it
\* plays or has entered with, or is about to take over.
Claims(s) ==
    IF s \notin Registered \/ flags[s] \cap {"closed", "displaced", "rented"} # {} THEN None
    ELSE IF at[s] = "adopting" THEN local[s].body
    ELSE IF state[s] = "playing" \/ at[s] \in Places.enter \ {"entering"} THEN char[s]
    ELSE None

\* The rooms, the index by name and the connections give one account.
OneAccount == IndexAgrees /\ \A s \in Conns : Claims(s) \in inWorld \cup {None}

Goes(s, from, to) == at[s] \in from /\ at'[s] = to

\* Enter puts a body into a world in which another login's has got there first.
LateEntry(s) ==
    Goes(s, {"entering"}, "loading") /\ inWorld \notin {{}, {char[s]}}

\* A command or a teardown removes the body of a connection that has lost it since, or
\* that is gone from the world already: Remove takes whatever the index has.
LateRemoval(s) ==
    /\ Goes(s, {"doing"}, "reading") \/ Goes(s, {"releasing"}, "gone")
    /\ rooms' # rooms
    /\ client[char[s]] # s \/ char[s] \notin inWorld

\* DupeCheck finds a connection playing whose body has been checked in at an inn.
LateTakeOver(s) ==
    /\ Goes(s, {"loaded"}, "adopting")
    /\ \E o \in Conns : char[o] = local'[s].body /\ Is(o, "rented")

\* The sweep reaps a body that somebody has come back to, or that is gone.
LateReaping ==
    /\ sweep.step = "reaping" /\ rooms' # rooms
    /\ client[sweep.body] # None \/ sweep.body \notin inWorld

\* However handlers interleave, only these four steps end the one account of who is in
\* the world: each acts on what somebody else has changed since it was looked at.
LostByLateSteps ==
    [][OneAccount =>
          OneAccount' \/ LateReaping
          \/ \E s \in Conns : LateEntry(s) \/ LateRemoval(s) \/ LateTakeOver(s)]_vars

\* When all is quiet the file is as far on as any body has been: no save was
\* lost, and none was overwritten by an older one.
RecordKept == AtRest => \A b \in Bodies : rec[b] <= file.rec

\* The belongings are never in two places of the world, whatever was written to
\* the file and read back.
NoDuplication == Carried + parted <= 1

\* When all is quiet they are in the file or in the world, or were parted with.
BelongingsKept == AtRest => file.items + Carried + parted >= 1

\* Whatever order connections end, save and come back in, the belongings are
\* never doubled, and when all is quiet not lost.
BelongingsSound == NoDuplication /\ BelongingsKept

\* A player purged out of the world is not saved on the way out: of the bodies
\* that played, Leave writes those in the world and those checked in at an inn.
PurgedUnsaved ==
    \A s \in Conns : at[s] = "writing" /\ state[s] = "playing" =>
        char[s] \in inWorld \/ Is(s, "rented")
=============================================================================
