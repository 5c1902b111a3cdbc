# Disgracelands: TLA+ models of the server

The repository holds two servers. `internal/` and `cmd/` are a MUD server in Go,
under development, that ports the C server under
`reference/moderncserver/src/`, a CircleMUD derivative in long use and the
reference the port is compared with. Both are modelled, each where it is hard:

- **The Go server** gives the world to one goroutine; connections, background
  writes and periodic sweeps run on goroutines of their own and reach the world by
  sending it tasks. The rules of the game run inside single tasks. What is hard is
  what happens *between* tasks: a login that reads a file, visits the world, reads
  another file and visits the world again, while the same player's last connection
  is half-way through its teardown.
- **The C server** has one thread and no tasks. What is hard is what its linked
  structures mean while a loop walks them: descriptors and the bodies they drive
  over one pass of `game_loop`, the list of fighters while the fighters kill each
  other, a letter's chain of blocks when the server stops, a message under way
  when its board changes, objects and the weight of everything around them.

Paths below are relative to `src/`, and those of C files to
`src/reference/moderncserver/src/`.

| Module | What it is |
| --- | --- |
| `Engine.tla` | Go: the game loop, its task queue, its clock, its shutdown |
| `EngineProofs.tla` | its type correctness and all its safety properties, proved |
| `Presence.tla` | Go: one player's connections, bodies, belongings and file |
| `Shutdown.tla` | Go: the server going down around everything in `Presence` |
| `PresenceProofs.tla` | types, one connection for one body, and what ends the one account of the world, proved for any number of connections and any interleaving |
| `Mailboxes.tla` | what a mail system promises |
| `Mail.tla`, `MailProofs.tla` | C: the mail file, block by block; all its safety properties and that it implements `Mailboxes`, proved |
| `Boards.tla`, `BoardsProofs.tla` | C: bulletin boards and the line editor that writes on them; all its properties, proved |
| `PlayerStay.tla` | what a player is promised |
| `Descriptors.tla`, `DescriptorsProofs.tla` | C: connections, bodies and what is saved, over a pass of the loop; the properties of its passing run, and that it implements `PlayerStay`, proved |
| `Following.tla` | C: masters and followers |
| `Combat.tla`, `CombatProofs.tla` | C: fights, deaths and delayed extraction; `Combat` extends `Following` and is proved to implement it; all properties of both, proved |
| `ListFacts.tla` | facts on numbers and lists for the proofs that need them |
| `Objects.tla`, `ObjectsProofs.tla` | C: where objects are and what they weigh; all its properties, proved |
| `MC*.tla`, `MC*.cfg` | small instances |
| `PROJECT.json` | components, runs, mutants, the map from definitions to source lines, findings, hazards, theorems |

## 1. The system

### The Go server

**Game loop** (`internal/engine/engine.go`). State: the bounded channel
`e.tasks`, the pulse and missed-pulse counters, the periodic schedule.
Operations: `Do` (never blocks, `ErrBusy` on a full queue), `DoSync` (waits to
be accepted, then to have run, each wait ended by the caller's context), `Run`'s
select over cancellation, task and tick, `tick` (derive the pulse from elapsed
time, drain what was waiting, run what fell due), `runTask` (contains panics),
`drain`. Correct when accepted work runs once and in order, a `DoSync` that
returns nil has had its task run, shutdown drops nothing accepted, pulses track
real time through dropped ticks, periodic work due in a gap runs exactly once,
and one pulse is bounded although tasks queue tasks.

**Player presence** (`internal/server/server.go`, `rent.go`, `listen.go`,
`operator.go`, `internal/session/session.go`, `login.go`, `menu.go`,
`internal/game/live.go`). State: per connection a session (state, character, the
flags closed, quit, rented, extracted, displaced); the world's room occupants and
its index by name; per body its client, record and belongings; per player one
file with a record and a rent section. Operations: log in, dupe check, enter the
world and restore belongings, quit, rent, die in a trap, be purged, be closed,
lose the link, autosave, reap. Correct when a player has at most one body, one
connection drives it, it is where the index says it is, and neither the record
nor the belongings are lost, rolled back or doubled.

**Player store** (`internal/persist/player/yaml`, `internal/persist/atomicfile`).
One document per player, rewritten under the store's lock through a temporary
file and a rename; one atomic step in `Presence`.

**Start and shutdown** (`cmd/dlmud/main.go`). Boot reset and rent sweep before
the loop starts; on the way down the connections' context is cancelled, then
`SaveEverything`, `WaitForWrites`, the web server's shutdown and `stopWorld`
follow each other while the connections are still leaving. State: the step `run()`
has come to. Correct when nothing anybody had is lost with the process, and the
process ends.

The calls into the world (`engine.DoSync`, `engine.Do`) are the points at which
another handler of the same player can run. A body's `Client` is a callback that
the dupe check, `purge` and a teardown all change; the registry of connections
has a mutex, a session's flags are atomics, a player's file has the store's lock.
`Server.background` starts a goroutine per write, and two writes of one file have
no order between them but that lock.

### The C server

One thread: `game_loop` polls, closes broken connections, gives each descriptor
one command, closes what asked to be closed, runs the heartbeat (zones, mobiles,
combat, autosave) and last frees everybody marked for extraction.

**Connections and bodies** (`comm.c`, `interpreter.c`, `handler.c`, `objsave.c`).
State: the list of descriptors with their state, character and the character they
switched from; per character its descriptor, the flag of pending extraction; the
record and the rent file. Correct when pointers lead to each other and to nothing
freed, a player has one body, and what a stay ends with is what the next begins
with.

**Mail** (`mail.c`). A file of linked blocks, an index and a free list in memory.
Correct when each letter is received once and whole, whatever blocks are reused
and whenever the server is started again.

**Boards** (`boards.c`, `modify.c`). Per board an index of messages; one array of
texts for all boards; per descriptor a pointer to the text it writes, which a
descriptor keeps that is set to close or sent to the menu. Correct when no text serves
two messages and the message of somebody who plays is left alone.

**Following** (`utils.c`, `act.movement.c`, `spells.c`, `magic.c`). `master`
against the lists of followers. Correct when both agree and make no circle.

**Combat** (`fight.c`, `handler.c`). `combat_list`, `next_combat_list`,
`FIGHTING`, positions, the flag and the counter of pending extractions. Correct
when a round gives everybody due one turn, no corpse fights, and everybody dead is
extracted.

**Objects** (`handler.c`, `act.item.c`, and everything that calls them). Rooms',
characters' and containers' lists against each object's pointer back; weights kept
with contents in them; loads and numbers of items. Correct when each object is in
one place and weights are those of what is there.

They meet in `extract_char_final` (connections, followers, fights and objects all
end there) and in `make_corpse`. Only `Combat` composes with `Following`; the
others are modelled apart, with the calls that reach them as actions of their own.

**Everything else**: on-line creation, spells, shops, houses, zones, world
loading, formats and conversion, telnet and WebSocket I/O, credentials, bans,
configuration, logs, the parity harness, the other two copies of the C server.
`PROJECT.json` lists each with its reason.

### Hard behaviours

The full list, each at its line, is `hazards` in `PROJECT.json`. In short:

1. the order and the bounds of a queue, dropped ticks, gaps of any length, panics,
   a shutdown racing callers (`Engine`);
2. a second login meeting the first at any point of its life; a teardown, reap or
   waiting command that acts on what used to be true; whole-record writes from
   snapshots taken earlier (`Presence`);
3. hang-ups, take-overs, quits, deaths and an autosave in one pass of the loop
   (`Descriptors`);
4. a stop of the server between the writes of one operation, and memory that a
   restart has to rebuild (`Mail`, `Boards`);
5. a list that is walked while it is changed, and deaths that are carried out later
   (`Combat`);
6. structures kept in step by hand over many callers (`Following`, `Objects`).

## 2. The models

Every module's state is named after what it stands for, every action after the
function it translates; `map` in `PROJECT.json` gives the lines. `May`, `Overlap`
and `Stops` shape an instance: they say what the people about may do, which
handlers others may start in the middle of, and where the server may stop. The
code allows all of it. A property is checked where it holds, and section 4 says
what happens beyond.

### Engine

One behaviour of the loop with the callers around it. A task is named after the
call that submits it, so the callers need no program counter beyond `status`.
`queue` is `e.tasks`; `pc` and `running` are where `Run` is; `previous`,
`waiting` and `entry` are `tick`'s locals; `now` counts ticker intervals and
`tickReady` is the ticker's one-slot channel. `accepted`, `started`, `outcome`,
`taken`, `ran`, `runs`, `promised`, `pulseFrom` are history. Receiving a task and
its return are two actions, so callers and the clock interleave with a task that
is running; a panicking task ends with outcome `panicked` and still closes `done`.
`Spawned` tasks are submitted only while the loop is running something, as
`echoWizVis` does. Metrics and log lines are left out, and a task takes any time.

### Presence

One player, connections `1..Last` in the order they are accepted, each with its
goroutine's place `at`, its session state, character, flags and handler locals.
A body has the name of the connection whose login loaded it. Of a record only
how far play has taken it matters, of belongings how many copies there are. Each
action is what a goroutine does between two waits, so every `DoSync` and every
store operation is a step of its own:

| Code | Actions |
| --- | --- |
| `Server.serve`, `handlePassword`, `Authenticate`, `RecordBadPassword` | `Connect`, `Authenticate`, `UpgradeCredential`, `BadPassword`, `TallyBadPassword`, `Refuse` |
| `Server.DupeCheck` and its caller | `DupeCheck`, `Adopt`, `ToMenu` |
| `enterWorld`, `Server.Enter`, `loadObjects` | `ChooseEnter`, `EnterRoom`, `LoadObjects`, `Forfeit`, `ForfeitWrite`, `RestoreObjects`, `MarkRestored`, `Entered` |
| `Dispatcher.Do` and the commands | `TypeCommand`, `Play`, `Look`, `Quit`, `DeathTrap`, `Rent`, `Purge` |
| `Session.Close` from elsewhere (`dc`, the login timer, a full output queue) | `Kick` |
| `readLoop`'s end, `Serve`'s tail, `Server.Leave` | `ReadEnds`, `LeaveNothing`, `Leave`, `LeaveSnapshot`, `LeaveSave`, `LeaveCrashFile`, `LeaveCrashSave`, `LeaveWorld` |
| what `ExtractCharacter` and `RentCharacter` leave to `background` | `QuitSave`, `QuitCrashSave`, `RentSaveObjects`, `RentSnapshot`, `RentSave`, `RentClose` |
| `RunAutosave` | `SweepSnapshot`, `SweepSave`, `SweepJudge`, `SweepReap` |

`OneAccount` says that the rooms, the index and the connections agree on who is in the
world: it takes a connection at its word (`Claims`) from the task in which `DupeCheck`
or `Enter` gives it its body until it is closed, displaced or checked in. `LateEntry`,
`LateRemoval`, `LateTakeOver` and `LateReaping` are the steps that act on what has
changed since they looked.

With `Overlap = {}` every login, entry, command, teardown, background write and
sweep comes to its end before another starts; naming a handler lets everybody else
interleave with each of its steps. Left out: switched bodies (`DupeUnswitch`),
creating and deleting characters, `SetPassword`, `SaveAliases`,
houses, cryo-rent, store errors, deaths in combat, and followers dragged into a
death trap.

### Shutdown

`Shutdown` extends `Presence` with two variables: `main`, the step `run()` is at with
the bodies it has yet to save and what it read to write, and `calm` (history: when
the signal came, no login, entry or command was under way).

| Code | Actions |
| --- | --- |
| the signal, or `shutdown` typed in the game | `Signal` |
| `SaveEverything`, `crashSaveAll` | `CollectPlayers`, `SaveSnapshot`, `SaveWrite`, `Saved`, `CollectAgain`, `CrashSnapshot`, `CrashWrite`, `CrashSaved` |
| `WaitForWrites`, `stopWorld`, the return from `run` | `WaitForWrites`, `StopWorld`, `Exit` |
| `serve`'s watcher of its context | `CloseAtStop` |
| visits to the world whose context is cancelled | `EnterGivesUp`, `RestoreGivesUp`, `ForfeitGivesUp`, `DupeGivesUp`, `CommandGivesUp`, `SweepGivesUp` |

Every action of `Presence` but `Purge` goes on, sorted by what it needs: `Begins`
needs a line or a connection, `Visits` needs the world goroutine, `GoesOn` only the
process. A visit given up may have happened or not, since a `DoSync` that comes back
with an error says neither. `Late` says whether lines and connections received before
the signal are begun after it. `Engine` has the loop's own side of this (`drain`, a
caller that gives up); what it proves of `DoSync` is used here as one step. Left out:
the 30 seconds after which `WaitForWrites` gives up, the web server's `Shutdown` (it
does not wait for connections it has handed over), the saves of houses and of the
clock, and, because of finding 1, the closing of a session at its first menu.

### Mailboxes and Mail

`Mailboxes` knows letters and what has become of each: being posted, waiting,
received, or (where `Lossy`) lost. `Mail` is the file: `disk` is the blocks,
`index` and `free` the lists in memory, `noMail` the flag that turns the system
off, `call` the call under way with its locals; `letters` and `delivered` are
history. One action is one block written or read with its effect on memory:
`StoreHeader`, `StoreLink`, `StoreData` (`store_mail`), `TakeHeader`, `ReadBlock`
(`read_delete`), `HandOver` (the rest of `postmaster_receive_mail`), and `Restart`,
which stops the server in the calls `Stops` names and rebuilds the lists as
`scan_file` does. Texts are the letter and the piece a block holds, so a mixed-up
letter is told from a whole one.

### Boards

`storage` and `taken` are `msg_storage` and `msg_storage_taken`, `index` the
`msg_index` of each board, `file` what was saved, `str` the message a descriptor's
`d->str` points into. `WriteMessage` lists the message and opens the editor,
`WriteLine` and `EndMessage` are `string_add`, `RemoveMessage` is
`Board_remove_msg` with its test of other descriptors. `heard` has who has had a line
in this pass of the loop, which `EndPass` ends. What may happen to somebody who writes:
`ToMenu` (the body is extracted), `Hangup` (`close_socket` at once), `Restart`, and
`Close`, for everything that only sets `STATE(d)` (`perform_dupe_check`, `do_dc`,
purging, idling): until `EndPass` closes it the descriptor is `closing`, keeps `d->str`
and may have its line, whatever has become of the slot; an `@` of such a line ends the
message and saves nothing. `left` (history) has the messages whose authors stopped
playing in the middle of them. A text is the sequence of the messages its lines were
meant for.

### PlayerStay and Descriptors

`PlayerStay` is what a player is promised: one stay at a time, begun with the
record and the belongings the last one ended with. `Descriptors` is one player
with up to `Last` connections and a mobile to switch into. `phase` and `turn` are
where the pass of `game_loop` is: hang-ups, a command of each descriptor from the
newest to the oldest, the closing of those marked for it, the heartbeat with the
autosave, the extractions. `conn` has a descriptor's state, `character` and
`original`; `body` a character's descriptor, flags, record and belongings; `disk`
the record and the rent file; `floor` and `newest` are history. A command is one
action (`Command`), and so is a close, a death, an extraction, because nothing can
come between their lines in one thread; what may come between two of them within a
pass is what the model is for.

### Following, Combat

`Following` has `master`, `followers`, `charmed` and who is `listed`. Its actions
are the callers of `add_follower` and `stop_follower`, each with its own test for
circles. `Combat` extends it: `fight` has `combat_list` (`list`), `FIGHTING` (`on`),
`next_combat_list` (`next`), positions (dead, stunned or worse, better) and hit points
by their ranges, apart from each other because `do_bash` seats a victim that is down
and heals and blows put it back (`GetUp`, `Risen`), who is `due` a turn this round (history), and whether `set_fighting` would have dumped core;
`pending` and `marks` are the extraction flags and their counter. A `Turn` is one
iteration of `perform_violence` with every blow in it: `Strike` folds `damage` over
them, with `set_fighting` for both sides, `stop_follower` between a master and a
follower, a charmed victim's master being drawn in, death and `extract_char`.
`ExtractFinal` is one iteration of `extract_pending_chars`.

### Objects

`things.at` has the lists (`held` by rooms, characters and objects, `worn`,
`listed`) and the pointers back (`in_room`, `carried_by`, `worn_by`, `in_obj`) as
fields of their own; `things.mass` has the weights, loads and numbers of items,
kept by addition and subtraction as the code keeps them. The functions of
`handler.c` are operators from such a record to the next, and an action is a
caller that applies several: `Get`, `GetFrom`, `Put`, `Drop`, `DropGold`, `Give`,
`StealWorn`, `Wear`, `Remove`, `UseUp`, `Drink`, `Pour`, `Die` (`make_corpse`),
`Leave` (`extract_char_final`), `Decay` (`point_update`), `Animate`
(`mag_summons`), the commands of `reset_zone`, `Destroy` and `Edit`. `adrift`
(history) is what a zone's command leaves without a place: an `O` command with no
room, a `P` whose container is missing or is the new object itself, an `E` for an
occupied position. Positions, curses, locks, visibility and characters' rooms are
left out.

## 3. The runs

All runs check every reachable state of their instance; `combat` alone stops at
a constraint, named under Bounds.

| Run | Instance | Shows |
| --- | --- | --- |
| `engine_queue` | 3 tasks (one `DoSync`, one `Do`, one spawned), a queue of 2, 2 intervals | types; accepted work in order and once; `DoSync` nil means run; shutdown drops nothing; a pulse is bounded |
| `engine_clock` | 1 `DoSync`, a queue of 1, schedule (0, 2, 3), 7 intervals, under fairness | the pulse follows time, due work runs once per gap; accepted work runs, a `DoSync` comes back, a cancelled loop stops |
| `presence_orderly` | 3 connections, no overlap; quits, rents, arrears, traps, kicks, guesses, autosaves, reaping | index, rooms and connections agree; no record or belonging is lost or doubled |
| `presence_late` | 2 connections, everything in the middle of everything; quits, entering again, rents, purges, reaping | the one account of the world ends only in a late entry, removal, takeover or reaping; no two connections drive one body, and nobody's is silenced by another's teardown |
| `shutdown` | 2 connections, the signal at any point of their lives; quits, rents, arrears, traps, kicks, guesses, autosaves, reaping; under fairness | types; a calm shutdown loses no record and no belongings; the process ends |
| `mail` | 2 recipients, 3 letters of up to 3 blocks, a file of 5 blocks, stops between calls and while letters are handed over, under fairness | letters can be read, memory is what a restart finds, `Mail` implements `Mailboxes`, asking for mail ends |
| `boards` | 2 connections, 2 boards of 2 messages, 1 spare slot, 3 posts of up to 2 lines; hang-ups, authors sent to the menu or set to close, restarts | no slot serves two messages, an author who plays keeps the message, what was ended survives a restart |
| `descriptors` | 2 connections, records 0 and 1; drops, deaths, building, switching, `dc`, purges, idling, wrong passwords | pointers sound, one body, belongings in one place, `Descriptors` implements `PlayerStay` |
| `combat` | 3 characters, 2 rooms, 2 marks a pulse, 1 got up by a bash while nobody follows anybody | following sound in fights, the list of fighters exact and without corpses, every turn once, every death extracted |
| `objects` | 2 characters, 2 rooms; a bag, a flask, a fountain, coins, a corpse | types (nothing weighs less than nothing), one place each, weights add up |
| `presence_menu_hangup` | 2 connections, one may end at its first menu | finding 1 |
| `descriptors_unsaved` | 2 connections, bodies that go with unsaved changes | finding 2 |

**Bounds.** A queue of two with three tasks is the smallest in which the queue is
full, order can be wrong and a task can be queued during a drain that has others
left. Seven intervals cover gaps of zero to six pulses against entries every 2
and 3 pulses, and a common multiple. Three Go connections are needed for the
longest known stories: a stale one, a current one and the one whose dupe check is
misled by what the stale one did. `presence_late` has two, because all of their
interleavings are two million states; two are enough for each of the four late steps
(without any one of them in the property TLC finds it violated), and section 5 has the
property for any number. Five blocks are one letter of three and one of
two, so that the third letter lies in blocks of both. Two boards of two messages
and a spare slot let a board fill up while the array does not. Two connections
are enough for `shutdown`: somebody playing, and somebody whose teardown or
background write is still under way. Two descriptors
are a player and whoever takes over; `perform_dupe_check` walks any number in the
same way. Three characters are a fighter, a victim and a third that rescues, is
charmed or comes next on the list. One object of each kind reaches a flask in a
bag in a corpse in a room, three levels of weight. `MaxRec` tells an old record
from a new one, `Many` one copy of the belongings from several, `Jobs` lets one
background write be under way, `MaxMarks` a pulse with two deaths; `MaxRisen` is how
many may be on their feet without hit points at once, and how many deaths may have
been marked beside them. The constraint `Apart` stops `combat` at a state in which somebody
is so while anybody follows anybody; `MCCombatBash.cfg` has those states too.

**Symmetry** is declared for authors, fighters and the characters of `objects`,
model values that no definition tells apart. The runs that declare it check
invariants only.

**Fairness.** `engine_clock`: the loop's goroutine keeps being scheduled and the
tasks return (`WF` on `Run`): the Go scheduler is fair, and a task that never
returns is a bug in that task. Go's `select` picks at random among ready cases, so
a cancelled context is not passed over for ever (`SF` on `SelectDone`). A `DoSync`
whose `done` is closed returns (`WF` on `DoSyncReturn`). Nothing obliges a caller
to call, time to pass, or a context to be cancelled. `shutdown`: `run()` and the
goroutines of `background` keep being scheduled (`WF` on `Descend` and on each
`Write`), and the world goroutine comes to the visits they ask for, which is what
`engine_clock` shows of an accepted `DoSync`; a step of theirs that needs the world
is enabled only until the world stops. Nothing obliges a connection to move. `mail`: a call that has begun
goes on (`WF` on `Step`), because there is one thread and it waits for nothing.

**Deadlock** is checked in `combat` and `objects`. The others may stop: the loop
has stopped and time is up, the process has ended, every connection has come and gone, every letter or
message of the bound was written.

**Mutants.** Each property of a passing run has a mutant next to the definition
it mutates (a dropped guard, a stack for a queue, a missing drain, a swapped
order, a link read one too far, a container that alone becomes lighter); under the
run's own configuration TLC finds the property violated.

**Further instances.** These configurations belong to no run. They show what is
beyond the bounds under which a property holds; each but the first four finds the
property violated.

| Configuration | Property | What happens |
| --- | --- | --- |
| `MCEngineLive.cfg` | liveness | holds with two tasks, one of them spawned |
| `MCPresenceOverlap.cfg` | `NoSharedBody`, `PlayingIsConnected` | hold with three connections whose log-ins, entries, commands and teardowns all interleave (proved in section 5) |
| `MCPresenceTeardown.cfg` | `WorldAgrees`, `DrivenOnce` | hold with three connections, log-ins and commands in the middle of a lost link's teardown or a sweep, traps and purges |
| `MCCombatBash.cfg` | all of `combat` | hold where whoever a bash got up leads, follows and is charmed |
| `MCPresenceAgain.cfg` | `NoDuplication` | a player who quits and chooses 1 at the menu: `ExtractCharacter` stores what the body carries and leaves it in its hands, and entering again restores the file on top (`rent.go:125`) |
| `MCPresenceTwoLogins.cfg` | `OneBody` | a dupe check between another login's menu choice and its `Enter` task closes that session but finds no body; the entry goes on |
| `MCPresenceReap.cfg` | `PlayingInWorld` | `RunAutosave` removes a body its snapshot saw without a client, without looking again |
| `MCPresencePurge.cfg` | `PurgedUnsaved` | the closed session's `Leave` writes the record that the comment on `purge` says is not written |
| `MCShutdownEntering.cfg` | `NothingLost` | the signal comes between a player's entry and the return of their belongings: `crashSaveAll` sees empty hands and deletes the rent section, and the restoring is given up (`rent.go:126`) |
| `MCShutdownLate.cfg` | `StopKeeps` | the same with a line received before the signal and begun after it, although nothing was under way |
| `MCBoardsLeave.cfg` | `WriterKeepsMessage` | an author at the menu (the body is extracted with the editor open) or set to close has the editor still, and `Board_remove_msg` does not look there (`boards.c:390`): the message goes, and the next line into whatever has its slot by then |
| `MCDescriptorsAutosave.cfg` | `BelongingsOnce` | the autosave of the pass in which somebody quits writes an empty crash file over the rent file (`objsave.c:1168`; `objsave.c:1104` promises "Rent is free here.  Just quit, and your objects will be saved!") |
| `MCDescriptorsBuilder.cfg` | `NothingFreedInUse` | `dc` on somebody in an editor closes them as if they were at a menu, and frees a character still in the world |
| `MCDescriptorsLate.cfg` | `RecordKept` | a login reads the record at the name and is let in after the password, when the last body may have been saved since |
| `MCMail.cfg` with `Stops = {"storing"}` | `LettersReadable` | a stop inside `store_mail` leaves a header whose chain ends in a block that a restart takes for free |
| `MCObjectsFold.cfg` | `PlacedOnce` | `put 2 bag 2.bag`: `do_put` tests only the first bag against the container, `perform_put` takes the second from its carrier and `obj_to_obj` refuses to put it into itself; it is nowhere, which `obj_to_obj` logs as a system error |
| `MCObjectsEdit.cfg` | `WeightsAddUp` | `update_objects` gives every copy of an edited prototype its weight and liquid again, containers with contents and things in hand among them (`genobj.c:62` says "Copy game-time dependent variables over.") |

## 4. Findings

1. **Hanging up at the first menu empties the rent file** (`presence_menu_hangup`).
   `Serve` runs `Leave` for every session that is neither displaced nor extracted.
   One at its first menu is neither, its body carries nothing, and `crashSave`
   deletes the rent section. The comments above the test describe this very loss
   and the C's branch that avoids it, for displaced and extracted sessions.
2. **A change just before the link is lost may never be saved**
   (`descriptors_unsaved`). `save_char` does nothing for a character without a
   descriptor (`db.c:2206`), and `close_socket` unlinks the two before it saves. Who
   is extracted before anybody takes the body over (a quit whose connection fails in
   the same pass, idling without a link) keeps the record of the last save.
   `act.other.c:170` says "Char is saved before extracting.", `objsave.c:1142` "It
   saves."

**What each overlap breaks.** `MCPresence` under other values of `Overlap` and
`May` says where fixes of the Go server would have to start:

- a login interrupted between its steps breaks every property but
  `NoSharedBody` and `PlayingIsConnected`;
- an interrupted entry breaks `OneBody`, `IndexAgrees`, `RecordKept`,
  `NoDuplication` and `BelongingsKept`;
- a command that waits its turn (`Dispatcher.Do` sleeps out the character's lag
  between its two visits to the world) breaks `PlayingInWorld`, `RecordKept`,
  `BelongingsKept` and, with three connections, `OneBody`: the queued `quit` of a
  closed session takes a newer body's index entry, since `Live.Remove` deletes
  the name's entry whichever body it is for;
- an interrupted teardown breaks `IndexAgrees` (a rented session's late `Remove`),
  `RecordKept` and `BelongingsKept` (snapshots written late);
- an interrupted background write breaks `PlayingInWorld`, `RecordKept`,
  `NoDuplication` and `BelongingsKept`;
- an interrupted sweep breaks `PlayingInWorld` and `RecordKept`;
- a `purge` breaks `NoDuplication` without any overlap.

`NoSharedBody` and `PlayingIsConnected` survive all of them, for any number of
connections, and the shutdown too (section 5): `DupeCheck` being a single task is
what makes them hold.

So does, of the account of the world, everything but four steps, whatever overlaps
(`LostByLateSteps`, section 5). Each acts on what was so when somebody looked:

- *a late entry*: `Enter` puts a body into a world where another login's has got in
  since the dupe check (`MCPresenceTwoLogins`);
- *a late removal*: a command or a teardown takes out the body of a connection that has
  lost it since, or that is out already, and with it whatever the index has under the
  name;
- *a late takeover*: the dupe check takes its body from a connection that has rented
  and is not closed yet. Its test of donors (`server.go:668-669`) asks for the state and
  the client, not whether they have checked in, and renting leaves both as they were
  until `background` has written: the newcomer plays a body that stands nowhere;
- *a late reaping*: the sweep reaps a body somebody has come back to
  (`MCPresenceReap`).

A world in which none of the four comes late stays in one account: those are the places
to mend.

**A shutdown during an entry** takes the belongings away: `crashSaveAll` writes what
everybody in the world carries, and between `Enter`'s first visit and its last the
body is in the world with empty hands. `calm` in `StopKeeps` sets that aside.

**Smaller observations**, met while modelling:

- a board message whose author gives no headline keeps its slot of `msg_storage`
  until the next start;
- a board message ended by somebody who was set to close or sent to the menu while
  writing it is not saved by its `@` (`modify.c:210-218` cleans up for connections that
  play), but with the board's next change, or not at all;
- `Board_save_board` writes the board file in place, so a stop inside it loses the
  board; `Boards` lets a restart happen only around it;
- a spell that helps somebody who lies dead and is marked lets them be killed again in
  the same pulse: a second corpse. They are marked once but counted twice, and
  `extract_pending_chars` logs an error at its end; nobody is left unextracted;
- `do_bash` seats a victim that stays alive without looking at their hit points
  (`act.offensive.c:409`), so somebody stunned or dying may get onto `combat_list` and
  hit, until a blow or a heal looks at their hit points;
- `Crash_rentsave` extracts what it wrote without giving containers their weight
  back, so the load a body carries is off until the body goes; `Crash_crashsave`
  and `House_save` return early when a write fails, before weights are restored;
- the Go `ExtractObject` moves a destroyed container's contents to wherever it was,
  and says at `internal/game/carry.go:213` that the C does; the C's `extract_obj`
  destroys them (`handler.c:794`).

## 5. What is proved

All theorems hold for every value of the constants that satisfies the named
assumption of the module and, where a theorem has one, the premise it states.

### The game loop (`EngineProofs`, from `EngineAssumption`)

For every set of tasks, every queue capacity, every schedule and any length of time:

| Theorem | Property | Inductive invariant |
| --- | --- | --- |
| `TypeCorrect` | `TypeOK` | itself |
| `InOrder` | `AcceptedInOrder` | `QueueInv`: besides, a task in `accepted` belongs to a call past its send, so a call cannot be accepted twice |
| `PromisesKept` | `StopKeepsPromises` | `StopInv`: `promised` never exceeds what was accepted, and only a cancelled loop drains; at `stopped` the queue was empty |
| `SyncMeansRan` | `SyncReturnMeansRan` | itself, with types |
| `FollowsTime` | `PulseFollowsTime` | `ClockInv`: the upper bound needs the tick that is pending or just taken to be counted in |
| `AccountedFor` | `PulsesAccountedFor` | itself, with types |
| `CaughtUp` | `PeriodicCaughtUp` | `PeriodicInv`: while `tick` walks the schedule, entries before `entry` stand at this pulse and the others at the previous one |
| `PulseBounded` | `NeverStarved /\ PulseIsBounded` | `DrainInv`: what a pulse has run and what it still means to run fit within the queue it began with |

`MoveHead` and `AppendToTail` say what receiving and sending do to
`started \o queue`; `QueueSteps` and `ClockSteps` sort the actions of `Next` into
the few kinds each invariant can tell apart, so that a preservation proof has one
case per kind. `DueByMonotonic` is the arithmetic of the schedule.

`PulsesAccountedFor` is proved only: no run checks it besides.

### One connection, one body (`PresenceProofs`, from `PresenceAssumption`)

For any number of connections, background writes and saves, any `May` and any
`Overlap`:

- `TypeCorrect` (`TypeOK`, which is not inductive). `TypeInv` adds, per place of a
  goroutine, whether the session has a body and how large what it has read is: a
  teardown reads a record in one visit and writes it in a later step. Its parts
  (`SessionTypes`, `SessionSized`, `WorldTypes`, `FileTypes`, `ServerTypes`) are
  disturbed by different handlers, and each handler has one lemma.
- `OneConnectionDrives` (`DrivenOnce`, that is, `NoSharedBody` and
  `PlayingIsConnected`). `OwnInv` adds what the two rest on: a body is known to
  others only after its own login has been to the menu with it, so two logins never
  arrive at one body by building it; who is about to adopt a body is its client
  already, and everybody else who has it is displaced; who is displaced is closed; and
  a connection drives its body as long as none of closed, displaced or rented is set,
  in the middle of an entry or a command included. Most steps give nobody a body
  (`Plain`), and `PlainKeeps` settles all of them at once. The others are `DupeCheck`
  (`TakeOverOwn`), `Adopt`, `ToMenu`, `ChooseEnter` and `LeaveWorld`, whose
  condition on the client is what protects a newer connection.

`MinElement` is where well-founded induction enters: the donor of a dupe check is the
smallest connection of a set.

### What ends the one account of the world (`PresenceProofs`, from `PresenceAssumption`)

`TheAccountIsLostLate` (`LostByLateSteps`), under no premise: whatever `Overlap` and
`May` allow, in every step from a state in which the rooms, the index and the
connections agree they agree after it, or the step is one of the four of section 4.
It rests on `OwnInv` and on one more invariant, `Attends`: a connection that has ended
and not yet let go of its body is still the body's client, unless it is closed,
displaced or checked in. With both, whoever claims a body is its client (`ClaimHeld`),
so a removal of the body by its client, or a purge, which closes the client, takes it
from nobody else (`RemovalKeeps`). Most steps only let claims grow old (`ClaimFades`,
`GoingKeeps`, `StayingKeeps`); each of the others has its place in the lemma of its
handler (`DupeCheckLate`, `EnterLate`, `CommandLate`, `DepartLate`, `ServerLate`).

### Where handlers come in turn (`PresenceProofs`)

`WorldAgrees`, `RecordKept`, `BelongingsSound` and, in `Shutdown`, `StopKeeps` do not
hold of the server: they are checked, and hold, where handlers of one player come in
turn, as they do unless two of them fall within moments of each other. Nothing in the
code makes them. `PresenceProofs` has lemmas that say so for any number of connections,
with their proofs, and none of them is counted among the theorems:

| Lemma | Property | Premise |
| --- | --- | --- |
| `OneAccountOfTheWorld` | `WorldAgrees` | `Orderly`: log-ins, entries, commands and background writes are not interrupted; teardowns may be where nobody rents, sweeps where they reap nobody; nobody enters again over a connection that has quit |
| `NoSaveLost` | `RecordKept` | `Undisturbed`: `Orderly` with no overlap at all, and no `purge` |
| `BelongingsInOnePlace` | `BelongingsSound` | `Settled`: `Undisturbed`, and nobody hangs up at the first menu (finding 1) |
| `CalmStopLosesNothing` | `StopKeeps` | `Settled`, and no line begun after the signal (`MCShutdownLate`) |

What the premises leave out is what section 4 shows to break the properties. The
invariants are of use to whoever makes the server meet a premise:

- `WorldInv`. `Solo`: a handler that may not be interrupted is alone. `Marks`: what a
  session's flags say of how it ends. `Rooms`: at most one connection *holds* a body,
  which is more than having a character, since a login holds one between `DupeCheck`
  and `Adopt` or `ToMenu`; no body but the holder's is in the world, and not that one
  while the holder is out. `SweepSees`: what the sweep knows of a body is true as long
  as it matters.
- `RecInv`. `Kept`: a body is further than the file only while somebody plays it or
  its save has been left to `background()`. `Ahead`: the file is never further than a
  body that may still be saved, so no save takes it back. `JobsHold`, `SweepHolds`,
  `Fresh`: every copy of the record that a goroutine carries from one step to
  another is of that body.
- `ItemsInv`. `Stored`: until they are parted with, the belongings are in the file,
  whoever has a copy of them. `InHand`, `EmptyHanded`, `Staying`, `Counted`,
  `JobsCount`: who has them in hand, and that what has been read to be stored is what
  there is.
- `CalmInv`, for the way down: the three above, nobody is at anything but ending, and
  there is one body that anybody can still save (`Sole`).

`BelongingsSound` sums over all bodies (`Carried`), and the library has no fact about
the community modules' sums that a proof could cite without an operator parameter.
`SumOfOne` proves the one needed, a sum of one number that is not 0, from the
definition: two functions that satisfy the recursion agree, or there is a least set on
which they differ (`MinimalSet`).

### Through a shutdown (`PresenceProofs`, from `PresenceAssumption` and `ShutdownAssumption`)

`StopTypeCorrect` (`StopTypeOK`) and `StopOneConnectionDrives` (`DrivenOnce`), from
the same invariants and `MainInv`, which types `run()` and bounds what it has read.
The steps of `Presence` are covered by the lemmas above; new are the visits given up,
of which `DupeGivesUp` is the one that could go wrong: it may displace everybody and
take the body's client, and its own login goes on as if nobody had been found.

### Following (`CombatProofs`, from `FollowingAssumption`)

`FollowingKeepsBonds`: for any set of characters, `BondsSound` is an invariant. It
is inductive with the types (`FollowingInv`): links agree, nobody gone is linked,
the charmed have a master, and masters are acyclic. Acyclicity says that the only
set closed under `master` in which everybody has one is the empty set, so no
induction over chains is needed: what `circle_follow` sees going up from somebody
is the least set that holds them and is closed (`UpHolds`, `UpClosed`, `UpLeast`),
and a circle through a new link would lie in it.

### Fights (`CombatProofs`, from `FollowingAssumption` and `CombatAssumption`)

`CombatStepIsFollowing` takes each action of `Combat` to the action of `Following`
that it contains, or to none; hence `CombatImplementsFollowing`, and with the
invariant of `Following` `CombatKeepsBonds`: blows, deaths, rescues and
extractions never leave a follower without the master that lists them.

For any number of characters, `CombatTypes` (`TypeOK`), `FightersAreListed`
(`CombatListed`), `RoundsAreFair` (`RoundFair`) and `TheDeadArePending`
(`DeadArePending`), from one inductive invariant, `CombatInv`, together with that of
`Following` (a rebel's master is there to be hit because the charmed have masters and
nobody gone is one). It adds:

- in `Sound`, what a position says of the hit points (`Postures`): the dead lie dead,
  whoever is well is up, and whoever is down may be up, because a bash may have got
  them up (`GetUpSound`), but not dead; and that `next_combat_list`, if any, is on the
  list and what is due is the list from there on;
- in `FightInv`, that who fights is alive and on the list of characters, and so is their
  enemy (`AwakeIsAlive`: nobody can be up and dead, which is all that the tests before
  `set_fighting` look at); and that the dead are marked for extraction;
- in `Marked`, that the marks are finitely many and no more than were counted;
- outside a round, `next_combat_list` is NULL.

Each function of `fight.c` has a lemma on the state of the fights alone
(`StopFightingSound`, `SetFightingSound`, `EngageSound`), and each action chains them.
What stopping does to the round is in `SuccessorLeft` and, in `ListFacts`,
`RemovingOne`: without the successor of somebody who is next, or with somebody listed
twice, the rest of the round would be lost. `StopFoesSound` is the walk of
`extract_char_final` along the list, by induction on how far it has come (`UpTo`).

### Objects (`ObjectsProofs`, from `ObjectsAssumption`)

For any rooms, characters and objects, and any length of play:

| Theorem | Property | Premise: `May` is without |
| --- | --- | --- |
| `ObjectsArePlacedOnce` | `PlacedOnce` | `fold` (`MCObjectsFold`) |
| `ObjectsWeighWhatTheyAre`, `ObjectsTypes` | `WeightsAddUp`, `TypeOK` | also `edit` (`MCObjectsEdit`) |

The premises are needed: `MCObjectsFold.cfg` shows what `put 2 bag 2.bag` does, and
`MCObjectsEdit.cfg` what `update_objects` does to a container with contents.

The inductive invariant `Inv` says of the lists and the pointers together (`Fine`)
that they agree (`LinksAgree`), that no object has two places (`OnePlace`), that no
object is within itself (`NoCycle`: the only set of objects each of which lies in
another of the set is empty), that only objects in play are anywhere, that every
object in play is somewhere or is adrift, and that nobody wears a corpse; and, if
nothing is edited, that the weights are sums (`Weighs`): of every object in play,
of the load and the number of items of every character, while an object that is not
in play weighs nothing. A corpse is never adrift, and only flasks and fountains have
liquid in them, or what is read from a prototype would not weigh what it is.

Each function of `handler.c` has a lemma about places (`ToChar`, `FromObj` ...), one
about weights (`ToCharWeighs` ...) and one that joins the two (`RightToChar` ...);
each action has one that chains them. The hard ones for the places move many objects
at once: `HandOver` (everything somebody holds goes into the corpse), `extract_obj`
with all that is inside, and `Decay`, where the contents of a corpse go where the
corpse is, which must not be inside what is destroyed (`AroundOutside`).

For the weights, the hard step is the walk of `obj_to_obj` and `obj_from_obj` up the
containers. `Borne` is what it leaves: whatever is around the container is heavier
and so are its bearers, and *of what one list holds at most one object is around it*
(`OneChild`), or its holder's weight would be out by more than what was moved. The
container itself is not among its own contents, however deep (`NoLoop`), which is
where `NoCycle` comes in. That nothing weighs less than nothing does not follow step
by step, because what is subtracted has to be no more than there is: `NothingBelow`
gets it from the sums, by an innermost object that would (`Innermost`). It
is also what makes drinking right: the code takes off the lesser of the liquid and
the weight, and by `LiquidWeighs` that is the liquid.

None of this is an induction over data. A sum over a finite set is the value there of
the one function that goes up its subsets (`Sums`; `WeightIsSum` says that it is the
model's), and what holds of it is proved by a smallest subset that would not have it
(`MinimalSet`, from the least of the cardinalities). What is in an object and what it
is in are least closed sets (`Within`, `Around`).

### Boards (`BoardsProofs`, from `BoardsAssumption`)

For any number of authors, boards and messages, whatever becomes of their connections,
`BoardsKeepTypes` (`TypeOK`), `NoSlotServesTwo` (`SlotsHeldOnce`),
`AuthorsKeepTheirMessages` (`AuthorKeepsMessage`) and `EndedMessagesAreSaved`
(`EndedIsSaved`). What is not so of an author who has stopped playing is in the
properties: `left` has the messages such an author may write into whatever slot. The
inductive invariant `Inv` has, besides the first, second and fourth:

- `Listed` and `IdsOnce`: an entry knows its board and is listed at one position, so
  taking one out (`RemoveAt`) leaves no second one that holds the freed slot;
- `FreeLines`: in a slot that is not taken there is nothing but lines of those in
  `left`, or the next message to get it would begin with a player's;
- `Writers`: who writes does so on a message of their own that has not ended; if they
  play it is on its board, which is where the loop of `Board_remove_msg` over the
  descriptors looks for them, and if they do not it is in `left`;
- `FileSound`: what a start reads has each message once, with lines of its author or of
  those in `left`, so that loading it gives back an index with the same properties.

Each action has a lemma. At a start the boards take slots one after the other, and
`Before[b]` is how many the boards up to `b` hold. That boards get different ones
(`BeforeOrdered`, `LoadedApart`) and that the array is large enough for all
(`BeforeBounded`) are inductions over the boards, done with `UpTo` of `ListFacts`: a set that has 0
and with each number the next one has all of `0..n`, by the least number it would
lack (`MinElement`).

### The mail file (`MailProofs`, from `MailAssumption`)

For any players, any number of letters of any length and any size of the file:
`MailTypeCorrect` (`TypeOK`), `MailLettersReadable` (`LettersReadable`),
`MailMemoryIsFile` (`MemoryIsFile`) and `MailIsMailbox` (`IsMailbox`, the refinement),
each as

    ASSUME "storing" \notin Stops  PROVE  Spec => ...

The premise is needed: section 3 shows what a stop inside `store_mail` leaves behind.
Stops between calls and while a letter is handed over are allowed.

The inductive invariant `MailInv` never follows a link. It looks at what is in the
blocks, a block being `Live` until it is marked deleted:

- `BlocksInv`: each live block holds one part of one letter, in a block of the right
  kind, and no two live blocks hold the same part;
- `LinksInv`: its link leads to the live block with the next part, or nowhere from the
  last; only the last block `store_mail` has written may lead to a position popped
  and not written yet (`Reserved`);
- `FreeInv`, `IndexInv`: the free list is the deleted blocks, the index the headers,
  each once: so a popped position is in no letter (`Popping`), and
  `no_mail` is never set, because the header that is taken was one;
- `CallInv`: `store_mail` knows the block it goes back to, and the file has room for
  the rest of the letter; `read_delete` has the first parts in hand, in order, what is
  left of the letter has higher parts (`ReadCall`), and it reads no
  position that is not a block of the file, so the buffer it never initialises is never
  looked at;
- `DoneInv`: a letter handed over has no first part on file and is in nobody's hands.

Steps of `store_mail` add a block (`Adding`, `AddedFits`), steps of `read_delete` take the
lowest part that is left (`Deleting`, `TakingLinks`), and a restart finds what is in
memory (`ScanProperties`). That whoever follows the links comes across the parts in
order, and stops (`ChainIs`), is shown once, from the invariant; both `Scan` and
`Chain` are recursive functions, of which `ScanStart` and `FollowStart` show that they
exist, by going up from 0 (`UpTo`).

For the refinement, what has become of a letter depends only on its first block
(`FateIs`). `StoreHeader` is `Compose`; the `StoreData` of the last part is `Post`;
`HandOver` is `Receive`, because what is in hand is by then the whole text; a
`Restart` with a letter in hand is `Lose`; the rest stutters.

### Connections and bodies (`DescriptorsProofs`, from `DescriptorsAssumption`)

For any number of connections and any length of play. `May` names what may happen
besides logging in, playing and leaving; a premise says which of it may not, and for
each there is an instance in section 3 or a finding in section 4 that shows why:

| Theorem | Property | Premise: `May` is without |
| --- | --- | --- |
| `PointersStaySound` | `PointersSound` | `dcBuilder` (`MCDescriptorsBuilder`) |
| `DescriptorsTypes`, `OneBodyStays`, `BelongingsStayOnce` | `TypeOK`, `OneBody`, `BelongingsOnce` | also `quitAtAutosave` (`MCDescriptorsAutosave`) |
| `DescriptorsImplementStay` | `IsStay` | also `unsaved` (finding 2) and `lateLogin` (`MCDescriptorsLate`) |

Drops, deaths, the editor, switching, `dc`, purges, idling and wrong passwords are
all allowed. The invariant comes in three layers, each inductive given those before
it, and was checked by TLC for two connections with all of that, and for three with
drops, deaths, switching, purges and wrong passwords.

- `Links`: the pointers. `PointersSound` is not inductive: what a descriptor's state
  says of its `character` and `original` has to be known (`ConnSound`: a login owns
  its own body, allocated and not in the world; whoever plays has one in the world;
  one marked for disconnection is closed before the extractions), and that marks
  for extraction do not outlast the pass (`BodySound`). `OnePlayer` is what
  `perform_dupe_check` is for: at most one body of the player in the world, and none
  while a connection is at the menu, or the next to choose 1 would be a second.
- `Belongings`: where they are, for each combination of who is present and which
  file there is. A crash file exists only while somebody is there to carry what it
  copies; a rent file with somebody there means that they are marked, carry nothing,
  and have had their turn (or they would pick up something the file has not got).
- `Records`: whoever comes in next has the newest record. `Current` says so of
  the file and of what waiting logins have read. It may fail while somebody is there,
  and is true again when they are extracted, because `extract_char_final` saves them:
  provided they have a descriptor. So a marked body is `Driven` or its record is
  on file already.

Most actions change little: `RestatedKeepsLinks`, `QuietSteps` and `QuietRecords`
settle those at once. `Reconnect` and `ToMenu`, where any number of connections lose
their bodies in one step, first get a description of the state they lead to
(`CutOffIs`, `TargetsAre`, `ReconnectIs`), and extraction too (`BackIsSettled`,
`ExtractIs`: a switched player is back in their own body before the mobile goes).

`DescriptorsImplementStay` maps somebody's presence to `here`, what they hold, the
floor and the rent file to `belongings`, the newest record to `record` and the file's
to `kept`. `EnterGame` is `Arrive`, because by `Records` the record on file is the
newest; `Play` is `Play`; `Drop` and `Die` are `PutDown` when there is anything to put
down, `Get` is `PickUp`; the autosave, `save` and a wrong password are
`Keep`, or stutter; `Quit` and the rent that idling forces are `Store`; the extraction of the
player is `Depart`. Everything else stutters: by `WhereaboutsAre` the three places
are exclusive, so the mapping has no other step in it.

### Model-checked only

Liveness (of the loop, of asking for mail, of the process's end) is beyond the
prover. `WorldAgrees`, `RecordKept`, `BelongingsSound` and `StopKeeps` are what the
runs `presence_orderly` and `shutdown` say they are: proved under the premises of these
instances only. `RecordKept` of `Descriptors` is violated in its run. Every other
safety property of a run is a theorem; where one has a premise (objects, mail,
descriptors), TLC shows in a further instance of section 3 that it is needed.

## 6. Not modelled, and what is left

- **On-line creation** (`redit`, `medit`, `oedit`, `zedit`, `sedit`, `genolc`):
  renumbering of prototypes over every table that refers to them. Of all this only
  what `update_objects` does to weights is in `Objects`.
- **Spells, skills, shops, houses, zones' ages and queues, mobiles' programs, the
  clock and regeneration**: rolls, tables and prices, or single-threaded changes of
  one character, room or keeper.
- **World files, formats, conversion, telnet, WebSocket, text, colours, help, logs,
  configuration, credentials, bans, the parity harness**: parsing and printing,
  without state of their own that the game goes back to.
- **The Go server's stores, its start and its ports of the C rules**: the
  hazards without a property are here.
- **`reference/CircleMUD3-src`, `reference/WipeMud-src`**: the ancestors of
  `reference/moderncserver`, kept for comparison; the same functions over again.
- Within what is modelled: experience and the group flag, mobiles whose prototype is
  charmed, curses, locks, visibility and who may see what, store errors, switched
  bodies in `Presence`, the text of messages.

The map covers a small share of the repository's lines, and would with every
planned module: tables, parsers, printing and text are most of the rest, and the C
rules are there three times.

Next, the most important first:

1. `Presence` completed (switched bodies, `SaveAliases`, `SetPassword`, store
   errors), then a refinement of `PlayerStay` without overlap.
2. `Shutdown` with houses, the clock and the deadline of `WaitForWrites`.
3. `PlayerStore`: the document under its lock and `atomicfile.Write` step by step,
   with crashes and write errors; `StateStore`: mail, boards and houses of the Go
   server, whose snapshot and rename are apart.
4. `ZoneReset`: ages, the queue of zones, load limits, and a reload in between.
