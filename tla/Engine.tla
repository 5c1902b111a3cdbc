------------------------------ MODULE Engine --------------------------------
(***************************************************************************)
(* The game loop of internal/engine/engine.go: one goroutine owns the      *)
(* world, everything else reaches it through the bounded channel `tasks`.  *)
(*                                                                         *)
(* A task is named after the call that submits it, so each is submitted at *)
(* most once.  Real time is counted in ticker intervals.                   *)
(***************************************************************************)
EXTENDS Integers, Sequences, FiniteSets

CONSTANTS
    Tasks,       \* every task somebody may submit
    Sync,        \* the ones submitted through DoSync, the others through Do
    Spawned,     \* the ones submitted by code already running on the loop
    QueueDepth,  \* Options.QueueDepth, the channel's capacity
    Every,       \* Periodic.Every of each scheduled entry, in order
    MaxTime,     \* bound: how many ticker intervals a behaviour lasts
    None         \* no task

ASSUME EngineAssumption ==
    /\ Sync \subseteq Tasks
    /\ Spawned \subseteq Tasks \ Sync
    /\ QueueDepth \in Nat \ {0}
    /\ Every \in Seq(Nat)
    /\ MaxTime \in Nat
    /\ None \notin Tasks
    /\ None \notin DOMAIN Every
    /\ Tasks \cap DOMAIN Every = {}

VARIABLES
    \* --- the engine
    queue,      \* e.tasks
    pulse,      \* e.pulse
    missed,     \* e.missed
    tickReady,  \* the ticker's channel holds a tick
    pc,         \* where the loop goroutine is
    running,    \* the task, or the index of the periodic work, it is running
    previous,   \* tick's `previous`
    waiting,    \* tick's `waiting`, less what it has drained
    entry,      \* the entry of e.periodic tick has come to
    \* --- around it
    now,        \* intervals since the ticker was made
    stopping,   \* Run's context is cancelled
    status,     \* where each submitting call is
    gone,       \* DoSync calls whose own context is cancelled
    \* --- history
    accepted,   \* tasks in the order the channel took them
    started,    \* tasks in the order the loop started them
    outcome,    \* how each task ended
    taken,      \* ticks the loop has handled
    ran,        \* the pulse each periodic entry last ran on
    runs,       \* how often each periodic entry has run
    promised,   \* how many tasks had been accepted when Run was cancelled
    pulseFrom   \* how many tasks had been started when the pulse began

loop    == <<pulse, missed, previous, waiting, entry, taken, ran, runs, pulseFrom>>
clients == <<status, gone>>
history == <<accepted, started, outcome, promised>>
vars    == <<queue, pc, running, now, tickReady, stopping, loop, clients, history>>

Entries  == DOMAIN Every
Outcomes == {"none", "finished", "panicked"}

TypeOK ==
    /\ queue \in Seq(Tasks)
    /\ Len(queue) <= QueueDepth
    /\ pulse \in Nat /\ missed \in Nat /\ previous \in Nat /\ taken \in Nat
    /\ waiting \in Nat
    /\ entry \in 1..(Len(Every) + 1)
    /\ tickReady \in BOOLEAN /\ stopping \in BOOLEAN
    /\ pc \in {"select", "ticked", "draining", "periodic", "shutdown", "stopped"}
    /\ running \in Tasks \cup Entries \cup {None}
    /\ now \in Nat
    /\ status \in [Tasks -> {"idle", "queued", "busy", "returned", "cancelled"}]
    /\ gone \subseteq Sync
    /\ accepted \in Seq(Tasks) /\ started \in Seq(Tasks)
    /\ outcome \in [Tasks -> Outcomes]
    /\ ran \in [Entries -> Nat] /\ runs \in [Entries -> Nat]
    /\ promised \in Nat /\ pulseFrom \in Nat

Init ==
    /\ queue = <<>>
    /\ pulse = 0 /\ missed = 0 /\ previous = 0 /\ taken = 0
    /\ waiting = 0 /\ entry = 1
    /\ tickReady = FALSE /\ stopping = FALSE
    /\ pc = "select" /\ running = None
    /\ now = 0
    /\ status = [t \in Tasks |-> "idle"]
    /\ gone = {}
    /\ accepted = <<>> /\ started = <<>>
    /\ outcome = [t \in Tasks |-> "none"]
    /\ ran = [i \in Entries |-> 0] /\ runs = [i \in Entries |-> 0]
    /\ promised = 0 /\ pulseFrom = 0

-----------------------------------------------------------------------------
(* The callers.                                                            *)

\* Mutant of Send: one task too many fits.
SendOverDepth(t) ==
    /\ Len(queue) <= QueueDepth
    /\ queue' = Append(queue, t)
    /\ accepted' = Append(accepted, t)
    /\ status' = [status EXCEPT ![t] = "queued"]

\* The channel takes a task.
Send(t) ==
    /\ Len(queue) < QueueDepth
    /\ queue' = Append(queue, t)
    /\ accepted' = Append(accepted, t)
    /\ status' = [status EXCEPT ![t] = "queued"]

\* Do never blocks: a full queue is ErrBusy.  A spawned task is submitted by
\* whatever the loop is running, the others by any goroutine.
Do(t) ==
    /\ t \notin Sync
    /\ status[t] = "idle"
    /\ t \in Spawned => running # None
    /\ \/ Send(t)
       \/ /\ Len(queue) = QueueDepth
          /\ status' = [status EXCEPT ![t] = "busy"]
          /\ UNCHANGED <<queue, accepted>>
    /\ UNCHANGED <<pc, running, now, tickReady, stopping, loop, gone,
                   started, outcome, promised>>

\* DoSync blocks until the channel takes the task ...
DoSync(t) ==
    /\ t \in Sync
    /\ status[t] = "idle"
    /\ Send(t)
    /\ UNCHANGED <<pc, running, now, tickReady, stopping, loop, gone,
                   started, outcome, promised>>

\* Mutant of DoSyncReturn: `done` is not awaited.
DoSyncReturnAtOnce(t) ==
    /\ t \in Sync
    /\ status[t] = "queued"
    /\ status' = [status EXCEPT ![t] = "returned"]
    /\ UNCHANGED <<queue, pc, running, now, tickReady, stopping, loop, gone, history>>

\* ... and then until the task has closed `done`, which it does even when it
\* panics ...
DoSyncReturn(t) ==
    /\ t \in Sync
    /\ status[t] = "queued"
    /\ outcome[t] # "none"
    /\ status' = [status EXCEPT ![t] = "returned"]
    /\ UNCHANGED <<queue, pc, running, now, tickReady, stopping, loop, gone, history>>

\* ... unless the caller's context ends first.  A task already queued stays
\* queued.
DoSyncGiveUp(t) ==
    /\ t \in gone
    /\ status[t] \in {"idle", "queued"}
    /\ status' = [status EXCEPT ![t] = "cancelled"]
    /\ UNCHANGED <<queue, pc, running, now, tickReady, stopping, loop, gone, history>>

\* The context a DoSync was given is cancelled.
CallerCancelled(t) ==
    /\ t \in Sync \ gone
    /\ gone' = gone \cup {t}
    /\ UNCHANGED <<queue, pc, running, now, tickReady, stopping, loop, status, history>>

\* Run's own context is cancelled.
Cancel ==
    /\ ~stopping
    /\ stopping' = TRUE
    /\ promised' = Len(accepted)
    /\ UNCHANGED <<queue, pc, running, now, tickReady, loop, clients,
                   accepted, started, outcome>>

\* An interval passes.  The ticker's channel holds one tick: a second one is
\* dropped.
TimePasses ==
    /\ now < MaxTime
    /\ now' = now + 1
    /\ tickReady' = TRUE
    /\ UNCHANGED <<queue, pc, running, stopping, loop, clients, history>>

-----------------------------------------------------------------------------
(* The loop.                                                               *)

\* Mutant of Receive: the queue is a stack.
ReceiveNewest ==
    /\ queue # <<>>
    /\ running' = queue[Len(queue)]
    /\ started' = Append(started, queue[Len(queue)])
    /\ queue' = SubSeq(queue, 1, Len(queue) - 1)

\* A task is received from the channel and handed to runTask.
Receive ==
    /\ queue # <<>>
    /\ running' = Head(queue)
    /\ started' = Append(started, Head(queue))
    /\ queue' = Tail(queue)

\* Mutant of RunTask: a panic skips closing `done`.
RunTaskKeepsDone ==
    /\ running # None
    /\ running' = None
    /\ \/ /\ running \in Tasks
          /\ \E o \in {"finished", "none"} :
                outcome' = [outcome EXCEPT ![running] = o]
       \/ /\ running \in Entries
          /\ UNCHANGED outcome
    /\ UNCHANGED <<queue, pc, now, tickReady, stopping, loop, clients,
                   accepted, started, promised>>

\* Mutant of RunTask: nothing recovers from a panic, which ends the goroutine.
RunTaskUnrecovered ==
    /\ running # None
    /\ running' = None
    /\ \/ UNCHANGED pc
       \/ pc' = "dead"
    /\ UNCHANGED <<queue, now, tickReady, stopping, loop, clients, history>>

\* runTask returns: the task came to its end, or panicked and was contained.
RunTask ==
    /\ running # None
    /\ running' = None
    /\ \/ /\ running \in Tasks
          /\ \E o \in Outcomes \ {"none"} :
                outcome' = [outcome EXCEPT ![running] = o]
       \/ /\ running \in Entries
          /\ UNCHANGED outcome
    /\ UNCHANGED <<queue, pc, now, tickReady, stopping, loop, clients,
                   accepted, started, promised>>

\* Mutant of SelectDone: Run returns without draining.
SelectDoneNoDrain ==
    /\ pc = "select" /\ running = None
    /\ stopping
    /\ pc' = "stopped"
    /\ UNCHANGED <<queue, running, now, tickReady, stopping, loop, clients, history>>

\* Run's select, case <-ctx.Done().
SelectDone ==
    /\ pc = "select" /\ running = None
    /\ stopping
    /\ pc' = "shutdown"
    /\ UNCHANGED <<queue, running, now, tickReady, stopping, loop, clients, history>>

\* Run's select, case t := <-e.tasks.
SelectTask ==
    /\ pc = "select" /\ running = None
    /\ Receive
    /\ UNCHANGED <<pc, now, tickReady, stopping, loop, clients,
                   accepted, outcome, promised>>

\* Run's select, case <-ticker.C.  The time is read after the tick has been
\* received, in TickCount: an interval may end in between.
SelectTick ==
    /\ pc = "select" /\ running = None
    /\ tickReady
    /\ tickReady' = FALSE
    /\ pc' = "ticked"
    /\ UNCHANGED <<queue, running, now, stopping, loop, clients, history>>

\* What now.Sub(e.started)/e.interval may be: e.started is read a moment after
\* the ticker was made, so its intervals end a moment after the ticker's do.
Elapsed == {now - 1, now} \cap Nat

\* Mutant of NextPulse: received ticks are counted, not elapsed ones (#321).
NextPulseReceived(prev, elapsed) == prev + 1

\* The pulse count tick stores, from the one before and the elapsed time.
NextPulse(prev, elapsed) == IF elapsed > prev + 1 THEN elapsed ELSE prev + 1

\* The pulses that went by since prev with nobody to take them.
MissedBy(prev, elapsed) == NextPulse(prev, elapsed) - (prev + 1)

\* tick, up to the length of the queue it will drain.
TickCount ==
    /\ pc = "ticked"
    /\ \E elapsed \in Elapsed :
          /\ pulse' = NextPulse(pulse, elapsed)
          /\ missed' = missed + MissedBy(pulse, elapsed)
    /\ previous' = pulse
    /\ waiting' = Len(queue)
    /\ taken' = taken + 1
    /\ pulseFrom' = Len(started)
    /\ pc' = "draining"
    /\ UNCHANGED <<queue, running, now, tickReady, stopping, entry, ran, runs,
                   clients, history>>

\* Mutant of TickDrain: it drains until the queue is empty.
TickDrainUntilEmpty ==
    /\ pc = "draining" /\ running = None
    /\ Receive
    /\ waiting' = Len(queue) - 1
    /\ UNCHANGED <<pc, now, tickReady, stopping, pulse, missed, previous, entry,
                   taken, ran, runs, pulseFrom, clients, accepted, outcome, promised>>

\* tick's drain loop takes one of the tasks that were waiting.  Its default
\* case would need the queue to be shorter than `waiting`: see NeverStarved.
TickDrain ==
    /\ pc = "draining" /\ running = None
    /\ waiting > 0
    /\ Receive
    /\ waiting' = waiting - 1
    /\ UNCHANGED <<pc, now, tickReady, stopping, pulse, missed, previous, entry,
                   taken, ran, runs, pulseFrom, clients, accepted, outcome, promised>>

TickDrained ==
    /\ pc = "draining" /\ running = None
    /\ waiting = 0
    /\ pc' = "periodic"
    /\ entry' = 1
    /\ UNCHANGED <<queue, running, now, tickReady, stopping, pulse, missed, previous,
                   waiting, taken, ran, runs, pulseFrom, clients, history>>

\* How many times entry i has fallen due by pulse p.
DueBy(p, i) == p \div Every[i]

\* Mutant of Due: the test of the C heartbeat, on the pulse reached only.
DueOnThisPulse(i) == Every[i] # 0 /\ pulse % Every[i] = 0

\* tick's test on a periodic entry: it fell due since the last pulse.
Due(i) == Every[i] # 0 /\ DueBy(pulse, i) # DueBy(previous, i)

TickPeriodic ==
    /\ pc = "periodic" /\ running = None
    /\ entry <= Len(Every)
    /\ entry' = entry + 1
    /\ \/ /\ Due(entry)
          /\ running' = entry
          /\ ran' = [ran EXCEPT ![entry] = pulse]
          /\ runs' = [runs EXCEPT ![entry] = @ + 1]
       \/ /\ ~Due(entry)
          /\ UNCHANGED <<running, ran, runs>>
    /\ UNCHANGED <<queue, pc, now, tickReady, stopping, pulse, missed, previous,
                   waiting, taken, pulseFrom, clients, history>>

TickReturn ==
    /\ pc = "periodic" /\ running = None
    /\ entry > Len(Every)
    /\ pc' = "select"
    /\ UNCHANGED <<queue, running, now, tickReady, stopping, loop, clients, history>>

\* drain, after Run's context is cancelled: one task of the queue ...
ShutdownDrain ==
    /\ pc = "shutdown" /\ running = None
    /\ Receive
    /\ UNCHANGED <<pc, now, tickReady, stopping, loop, clients,
                   accepted, outcome, promised>>

\* ... and its default case, once the queue is empty.
ShutdownReturn ==
    /\ pc = "shutdown" /\ running = None
    /\ queue = <<>>
    /\ pc' = "stopped"
    /\ UNCHANGED <<queue, running, now, tickReady, stopping, loop, clients, history>>

Tick     == TickCount \/ TickDrain \/ TickDrained \/ TickPeriodic \/ TickReturn
Shutdown == SelectDone \/ ShutdownDrain \/ ShutdownReturn
Run      == RunTask \/ SelectTask \/ SelectTick \/ Tick \/ Shutdown

Next ==
    \/ Run
    \/ TimePasses
    \/ Cancel
    \/ \E t \in Tasks :
          \/ Do(t) \/ DoSync(t) \/ DoSyncReturn(t)
          \/ DoSyncGiveUp(t) \/ CallerCancelled(t)

Spec == Init /\ [][Next]_vars

(* The loop's goroutine keeps running and the tasks return.  Go's select   *)
(* chooses at random among the cases that are ready, so a cancelled        *)
(* context is not passed over for ever, and a DoSync that could return     *)
(* does.  Nothing obliges a caller to call, a context to be cancelled.     *)
Fairness ==
    /\ WF_vars(Run)
    /\ SF_vars(SelectDone)
    /\ \A t \in Tasks : WF_vars(DoSyncReturn(t))

FairSpec == Spec /\ Fairness

-----------------------------------------------------------------------------
(* Properties.                                                             *)

\* What the channel accepted is what has been started followed by what waits,
\* in the same order: nothing Do or DoSync accepted is lost, overtaken or
\* started twice.
AcceptedInOrder ==
    /\ accepted = started \o queue
    /\ \A i, j \in DOMAIN accepted : accepted[i] = accepted[j] => i = j

\* A DoSync that returned nil has had its task run.
SyncReturnMeansRan == \A t \in Tasks : status[t] = "returned" => outcome[t] # "none"

\* drain's promise: when the loop has stopped, everything accepted before it
\* was told to stop has been started.
StopKeepsPromises == pc = "stopped" => Len(started) >= promised

\* The pulse follows real time (#321): never more than one interval ahead of
\* the ticker, and never behind once the pending tick has been taken.
PulseFollowsTime ==
    /\ pulse <= now + 1
    /\ ~tickReady /\ pc # "ticked" => pulse >= now - 1

\* Every pulse is either a tick the loop took or is counted as missed.
PulsesAccountedFor == pulse = taken + missed

\* Between ticks no periodic entry has a due pulse it has not run for, however
\* many pulses were missed, and a gap never makes it run twice.
PeriodicCaughtUp ==
    \A i \in Entries : Every[i] # 0 =>
        /\ pc = "select" => DueBy(ran[i], i) = DueBy(pulse, i)
        /\ runs[i] <= DueBy(ran[i], i)

\* tick's drain never meets an empty queue, so its default case is dead code.
NeverStarved == pc = "draining" => waiting <= Len(queue)

\* One pulse runs no more tasks than the channel can hold, whatever those tasks
\* queue in their turn.
PulseIsBounded == pc = "draining" => Len(started) - pulseFrom <= QueueDepth

\* Work accepted while the loop has not stopped does run.
AcceptedRuns ==
    \A t \in Tasks :
        (\E i \in DOMAIN queue : queue[i] = t) /\ pc # "stopped" ~> outcome[t] # "none"

\* A DoSync waiting on its task comes back unless the loop was gone already.
SyncComesBack ==
    \A t \in Sync :
        status[t] = "queued" /\ pc # "stopped" ~> status[t] \in {"returned", "cancelled"}

\* A cancelled loop stops.
CancelStops == stopping ~> pc = "stopped"
=============================================================================
