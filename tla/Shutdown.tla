------------------------------ MODULE Shutdown -------------------------------
(***************************************************************************)
(* The server going down around one player's connections: run() of         *)
(* cmd/dlmud/main.go after its select, with everything of Presence still   *)
(* under way.  A signal, or `shutdown` typed in the game, cancels the      *)
(* context of all the connections.  The world goroutine has a context of   *)
(* its own and is stopped last.                                            *)
(*                                                                         *)
(* What Engine proves of DoSync is used here as one step: a visit to the   *)
(* world happens at one moment, and none happens once the loop has         *)
(* stopped.  With its context cancelled a caller may give a visit up,      *)
(* whether or not the loop still makes it.                                 *)
(***************************************************************************)
EXTENDS Presence

CONSTANT Late   \* whether lines and connections already received are begun
                \* after the signal

ASSUME ShutdownAssumption == Late \in BOOLEAN

VARIABLES
    main,       \* run(): its step, the bodies it has yet to save, what it read
    calm        \* history: the signal cut no login, entry or command short

svars == <<vars, main, calm>>

Steps == {"up", "collecting", "saving", "writing", "collectingAgain", "crashing",
          "storing", "waiting", "stopping", "stopped", "exited"}

\* Types, those of Presence among them.
StopTypeOK ==
    /\ TypeOK
    /\ main \in [step : Steps, todo : SUBSET Bodies, read : Nat]
    /\ calm \in BOOLEAN

StopInit ==
    /\ Init
    /\ main = [step |-> "up", todo |-> {}, read |-> 0]
    /\ calm = TRUE

Up      == main.step = "up"
Running == main.step # "exited"

\* Mutant of Turning: the world is stopped before the writes are waited for.
TurningUntilSaved == main.step \notin {"waiting", "stopping", "stopped", "exited"}

\* The world goroutine runs tasks.
Turning == main.step \notin {"stopped", "exited"}

-----------------------------------------------------------------------------
(* The way down.                                                           *)

Go(step) == main' = [main EXCEPT !.step = step]

\* The signal, or `shutdown`: the connections' context is cancelled.
Signal ==
    /\ Up
    /\ Go("collecting")
    /\ calm' = \A s \in Conns : at[s] \in Places.idle \cup Places.leave
    /\ UNCHANGED vars

Main(from) == main.step = from /\ UNCHANGED <<session, world, server, calm>>

\* SaveEverything, and crashSaveAll in it, each ask who is in the world ...
Collect(from, to) ==
    /\ Main(from) /\ Turning
    /\ main' = [main EXCEPT !.step = to, !.todo = inWorld]
    /\ UNCHANGED file

CollectPlayers == Collect("collecting", "saving")

CollectAgain == Collect("collectingAgain", "crashing")

\* ... and for each of them take a snapshot in the world and write it outside.
SaveSnapshot ==
    /\ Main("saving") /\ Turning
    /\ \E b \in main.todo :
          main' = [step |-> "writing", todo |-> main.todo \ {b}, read |-> rec[b]]
    /\ UNCHANGED file

SaveWrite ==
    /\ Main("writing")
    /\ Save(main.read)
    /\ Go("saving")

CrashSnapshot ==
    /\ Main("crashing") /\ Turning
    /\ \E b \in main.todo :
          main' = [step |-> "storing", todo |-> main.todo \ {b}, read |-> carrying[b]]
    /\ UNCHANGED file

CrashWrite ==
    /\ Main("storing")
    /\ WriteCrashFile(main.read)
    /\ Go("crashing")

Saved ==
    /\ Main("saving") /\ main.todo = {}
    /\ Go("collectingAgain")
    /\ UNCHANGED file

CrashSaved ==
    /\ Main("crashing") /\ main.todo = {}
    /\ Go("waiting")
    /\ UNCHANGED file

\* Mutant of WaitForWrites: the world is stopped first.
WaitForNothing ==
    /\ Main("waiting")
    /\ Go("stopping")
    /\ UNCHANGED file

\* Everything background() was given has been written.
WaitForWrites ==
    /\ Main("waiting")
    /\ \A j \in 1..Jobs : job[j] = Idle
    /\ Go("stopping")
    /\ UNCHANGED file

\* The loop runs what it had accepted and stops ...
StopWorld ==
    /\ Main("stopping")
    /\ Go("stopped")
    /\ UNCHANGED file

\* ... and the process ends, whatever its other goroutines are doing.
Exit ==
    /\ Main("stopped")
    /\ Go("exited")
    /\ UNCHANGED file

Descend ==
    \/ CollectPlayers \/ SaveSnapshot \/ SaveWrite \/ Saved
    \/ CollectAgain \/ CrashSnapshot \/ CrashWrite \/ CrashSaved
    \/ WaitForWrites \/ StopWorld \/ Exit

-----------------------------------------------------------------------------
(* The connections meanwhile.                                              *)

\* serve's watcher of the context closes the connection.
CloseAtStop(s) ==
    /\ ~Up
    /\ s \in Registered /\ ~Is(s, "closed")
    /\ MayEnd(s)
    /\ Mark({s}, {"closed"})
    /\ UNCHANGED <<at, state, char, local, world, file, server>>

\* Enter fails: the session is closed, with the body in the room or not.
EnterGivesUp(s) ==
    /\ at[s] = "entering"
    /\ WorldEnter(char[s]) \/ UNCHANGED rooms
    /\ Mark({s}, {"closed"})
    /\ Goto(s, "reading")
    /\ UNCHANGED <<state, char, local, bodies, file, server>>

\* And so it does when the belongings cannot be handed over.
RestoreGivesUp(s) ==
    /\ at[s] = "restoring"
    /\ \/ carrying' = [carrying EXCEPT ![char[s]] = Plus(@, local[s].read)]
       \/ carrying' = carrying
    /\ Mark({s}, {"closed"})
    /\ Goto(s, "reading")
    /\ Forget(s)
    /\ UNCHANGED <<state, char, rooms, client, rec, parted, file, server>>

\* A crashSave that fails is only logged.
ForfeitGivesUp(s) ==
    /\ at[s] = "forfeiting"
    /\ parted' = Plus(parted, local[s].read)
    /\ Forget(s)
    /\ Goto(s, "entered")
    /\ UNCHANGED <<state, char, flags, rooms, client, carrying, rec, file, server>>

\* DupeCheck does not look at the error: nobody was found, although the visit
\* may have taken the body from whoever had it.
DupeGivesUp(s) ==
    /\ at[s] = "loaded"
    /\ \/ /\ Mark(Others(s), {"displaced", "closed"})
          /\ client' = [b \in Bodies |-> IF b = Existing(s) THEN s ELSE Freed(s)[b]]
       \/ UNCHANGED <<flags, client>>
    /\ Goto(s, "fresh")
    /\ UNCHANGED <<state, char, local, rooms, carrying, rec, parted, file, server>>

\* A command that was not begun ends the connection.
CommandGivesUp(s) ==
    /\ at[s] = "doing"
    /\ Goto(s, "ended")
    /\ UNCHANGED <<state, char, flags, local, world, file, server>>

SweepGivesUp ==
    /\ sweep.step = "reaping"
    /\ sweep' = Rest
    /\ UNCHANGED <<session, world, file, job, linkdead>>

GivesUp(s) ==
    \/ EnterGivesUp(s) \/ RestoreGivesUp(s) \/ ForfeitGivesUp(s)
    \/ DupeGivesUp(s) \/ CommandGivesUp(s)

\* What begins with a line or a connection that has come in ...
Begins(s) ==
    \/ Connect(s) \/ BadPassword(s) \/ Authenticate(s)
    \/ ChooseEnter(s) \/ TypeCommand(s)

\* ... what goes on without the world ...
GoesOn(s) ==
    \/ TallyBadPassword(s) \/ UpgradeCredential(s) \/ Refuse(s) \/ Adopt(s) \/ ToMenu(s)
    \/ LoadObjects(s) \/ ForfeitWrite(s) \/ MarkRestored(s) \/ Entered(s)
    \/ ReadEnds(s) \/ LeaveNothing(s) \/ Leave(s) \/ LeaveSave(s) \/ LeaveCrashSave(s)
    \/ Kick(s) \/ CloseAtStop(s)

\* ... and what needs it.
Visits(s) ==
    \/ DupeCheck(s) \/ EnterRoom(s) \/ Forfeit(s) \/ RestoreObjects(s)
    \/ Play(s) \/ Look(s) \/ Quit(s) \/ DeathTrap(s) \/ Rent(s)
    \/ LeaveSnapshot(s) \/ LeaveCrashFile(s) \/ LeaveWorld(s)

Connection(s) ==
    \/ (Up \/ Late) /\ Begins(s)
    \/ Running /\ GoesOn(s)
    \/ Turning /\ Visits(s)
    \/ ~Up /\ Running /\ GivesUp(s)

Write(j) ==
    \/ /\ Running
       /\ \/ QuitSave(j) \/ QuitCrashSave(j)
          \/ RentSaveObjects(j) \/ RentSave(j) \/ RentClose(j)
    \/ Turning /\ RentSnapshot(j)

Sweeps ==
    \/ (Up \/ Late) /\ SweepSnapshot
    \/ Running /\ (SweepSave \/ SweepJudge)
    \/ Turning /\ SweepReap
    \/ ~Up /\ Running /\ SweepGivesUp

Around ==
    /\ Sweeps \/ (\E j \in 1..Jobs : Write(j)) \/ (\E s \in Conns : Connection(s))
    /\ UNCHANGED <<main, calm>>

StopNext == Signal \/ Descend \/ Around

StopSpec == StopInit /\ [][StopNext]_svars

\* run() and the goroutines of background() keep being scheduled, and as long as
\* it turns the world goroutine comes to what they ask of it.
FairStopSpec ==
    /\ StopSpec
    /\ WF_svars(Descend)
    /\ \A j \in 1..Jobs : WF_svars(Write(j) /\ UNCHANGED <<main, calm>>)

-----------------------------------------------------------------------------
(* Properties.                                                             *)

\* The file has the record as far as play took it, and the belongings.
NothingLost ==
    main.step = "exited" =>
        /\ \A b \in Bodies : rec[b] <= file.rec
        /\ file.items + parted >= 1

\* Shutting down loses nothing that the player had when the signal came, played
\* on a connection, stood without one or had just checked in with the writes still
\* in flight (SaveEverything, WaitForWrites and teardowns in any order), unless
\* it came in the middle of a login, an entry or a command.
StopKeeps == calm => NothingLost

\* The process ends: nothing run() waits for needs a world that it has stopped.
StopEnds == (main.step = "collecting") ~> (main.step = "exited")
=============================================================================
