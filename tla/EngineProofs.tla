---------------------------- MODULE EngineProofs ----------------------------
(***************************************************************************)
(* What Engine promises for every set of tasks, queue depth and schedule.  *)
(***************************************************************************)
EXTENDS Engine, TLAPS, SequenceTheorems

-----------------------------------------------------------------------------
(* Sequences.                                                              *)

\* Taking the head of what waits and putting it after what was started leaves
\* their concatenation as it was.
LEMMA MoveHead ==
    ASSUME NEW S, NEW s \in Seq(S), NEW q \in Seq(S), q # <<>>
    PROVE  /\ Append(s, Head(q)) \in Seq(S)
           /\ Tail(q) \in Seq(S)
           /\ Head(q) \in S
           /\ Len(Tail(q)) = Len(q) - 1
           /\ Len(Append(s, Head(q))) = Len(s) + 1
           /\ Append(s, Head(q)) \o Tail(q) = s \o q
<1>1. /\ Head(q) \in S /\ Tail(q) \in Seq(S)
      /\ Len(q) \in Nat \ {0} /\ Len(Tail(q)) = Len(q) - 1
  BY HeadTailProperties, EmptySeq, LenProperties
<1>2. /\ Append(s, Head(q)) \in Seq(S)
      /\ Len(Append(s, Head(q))) = Len(s) + 1
  BY <1>1, AppendProperties
<1>3. Append(s, Head(q)) \o Tail(q) = s \o q
  BY <1>1, <1>2
<1>4. QED
  BY <1>1, <1>2, <1>3

\* A task appended to what waits is appended to the whole.
LEMMA AppendToTail ==
    ASSUME NEW S, NEW s \in Seq(S), NEW q \in Seq(S), NEW x \in S
    PROVE  /\ Append(q, x) \in Seq(S)
           /\ Len(Append(q, x)) = Len(q) + 1
           /\ s \o Append(q, x) = Append(s \o q, x)
<1>1. /\ Append(q, x) \in Seq(S)
      /\ Len(Append(q, x)) = Len(q) + 1
  BY AppendProperties
<1>2. s \o Append(q, x) = Append(s \o q, x)
  BY <1>1
<1>3. QED
  BY <1>1, <1>2

-----------------------------------------------------------------------------
(* Type correctness.                                                       *)

\* Every variable keeps its type, and the channel never holds more than
\* QueueDepth tasks.
THEOREM TypeCorrect == Spec => []TypeOK
<1> USE EngineAssumption
<1>1. Init => TypeOK
  <2>1. Len(Every) \in Nat /\ <<>> \in Seq(Tasks) /\ Len(<<>>) = 0
    BY LenProperties, EmptySeq
  <2>2. ASSUME Init
        PROVE  /\ status \in [Tasks -> {"idle", "queued", "busy", "returned", "cancelled"}]
               /\ outcome \in [Tasks -> Outcomes]
               /\ ran \in [Entries -> Nat] /\ runs \in [Entries -> Nat]
    BY <2>2 DEF Init, Outcomes
  <2>3. ASSUME Init
        PROVE  /\ queue \in Seq(Tasks) /\ Len(queue) <= QueueDepth
               /\ accepted \in Seq(Tasks) /\ started \in Seq(Tasks)
    BY <2>1, <2>3 DEF Init
  <2>4. ASSUME Init
        PROVE  /\ tickReady \in BOOLEAN /\ stopping \in BOOLEAN
               /\ pc \in {"select", "ticked", "draining", "periodic", "shutdown", "stopped"}
               /\ running \in Tasks \cup Entries \cup {None}
               /\ gone \subseteq Sync
    BY <2>4 DEF Init
  <2>5. ASSUME Init
        PROVE  /\ pulse \in Nat /\ missed \in Nat /\ previous \in Nat /\ taken \in Nat
               /\ waiting \in Nat /\ entry \in 1..(Len(Every) + 1)
               /\ now \in Nat /\ promised \in Nat /\ pulseFrom \in Nat
    BY <2>1, <2>5 DEF Init
  <2>6. QED
    BY <2>2, <2>3, <2>4, <2>5 DEF TypeOK
<1>2. ASSUME TypeOK, [Next]_vars
      PROVE  TypeOK'
  <2> USE <1>2
  <2>1. CASE \E t \in Tasks : Do(t) \/ DoSync(t)
    <3>1. PICK t \in Tasks : Do(t) \/ DoSync(t)
      BY <2>1
    <3>2. /\ UNCHANGED <<pc, running, now, tickReady, stopping, loop, gone, started, outcome, promised>>
          /\ \/ Send(t)
             \/ UNCHANGED <<queue, accepted>> /\ status' = [status EXCEPT ![t] = "busy"]
      BY <3>1 DEF Do, DoSync
    <3>3. /\ queue' \in Seq(Tasks) /\ Len(queue') <= QueueDepth
          /\ accepted' \in Seq(Tasks)
          /\ status' \in [Tasks -> {"idle", "queued", "busy", "returned", "cancelled"}]
      <4>1. CASE Send(t)
        <5>1. /\ Append(queue, t) \in Seq(Tasks) /\ Len(Append(queue, t)) = Len(queue) + 1
              /\ Append(accepted, t) \in Seq(Tasks)
          BY AppendToTail DEF TypeOK
        <5>2. Len(queue) \in Nat
          BY LenProperties DEF TypeOK
        <5>3. QED
          BY <4>1, <5>1, <5>2 DEF Send, TypeOK
      <4>2. CASE UNCHANGED <<queue, accepted>> /\ status' = [status EXCEPT ![t] = "busy"]
        BY <4>2 DEF TypeOK
      <4>3. QED
        BY <3>2, <4>1, <4>2
    <3>4. QED
      BY <3>2, <3>3 DEF TypeOK, loop
  <2>2. CASE \E t \in Tasks : DoSyncReturn(t) \/ DoSyncGiveUp(t) \/ CallerCancelled(t)
    BY <2>2 DEF TypeOK, DoSyncReturn, DoSyncGiveUp, CallerCancelled, loop, history
  <2>3. CASE Cancel
    <3>1. Len(accepted) \in Nat
      BY LenProperties DEF TypeOK
    <3>2. QED
      BY <2>3, <3>1 DEF TypeOK, Cancel, loop, clients
  <2>4. CASE TimePasses
    BY <2>4 DEF TypeOK, TimePasses, loop, clients, history
  <2>5. CASE RunTask
    BY <2>5 DEF TypeOK, RunTask, loop, clients, Outcomes
  <2>6. CASE SelectDone \/ SelectTick \/ TickReturn \/ ShutdownReturn
    BY <2>6 DEF TypeOK, SelectDone, SelectTick, TickReturn, ShutdownReturn, loop, clients, history
  <2>7. CASE SelectTask \/ ShutdownDrain \/ TickDrain
    <3>1. Receive
      BY <2>7 DEF SelectTask, ShutdownDrain, TickDrain
    <3>2. /\ Append(started, Head(queue)) \in Seq(Tasks)
          /\ Tail(queue) \in Seq(Tasks) /\ Head(queue) \in Tasks
          /\ Len(Tail(queue)) = Len(queue) - 1 /\ Len(queue) \in Nat
      BY <3>1, MoveHead, LenProperties DEF TypeOK, Receive
    <3>3. /\ queue' \in Seq(Tasks) /\ Len(queue') <= QueueDepth
          /\ started' \in Seq(Tasks) /\ running' \in Tasks
      BY <3>1, <3>2 DEF TypeOK, Receive
    <3>4. waiting' \in Nat
      BY <2>7 DEF TypeOK, SelectTask, ShutdownDrain, TickDrain, loop
    <3>5. QED
      BY <2>7, <3>3, <3>4 DEF TypeOK, SelectTask, ShutdownDrain, TickDrain, loop, clients, history
  <2>8. CASE TickCount
    <3>1. PICK elapsed \in Elapsed : /\ pulse' = NextPulse(pulse, elapsed)
                                     /\ missed' = missed + MissedBy(pulse, elapsed)
      BY <2>8 DEF TickCount
    <3>2. pulse' \in Nat /\ missed' \in Nat
      BY <3>1 DEF TypeOK, NextPulse, MissedBy, Elapsed
    <3>3. Len(queue) \in Nat /\ Len(started) \in Nat
      BY LenProperties DEF TypeOK
    <3>4. QED
      BY <2>8, <3>2, <3>3, SMTT(20) DEF TypeOK, TickCount, clients, history
  <2>9. CASE TickDrained
    BY <2>9 DEF TypeOK, TickDrained, clients, history
  <2>10. CASE TickPeriodic
    <3>1. entry \in Entries /\ entry' \in 1..(Len(Every) + 1)
      BY <2>10, LenProperties DEF TypeOK, TickPeriodic, Entries
    <3>2. /\ running' \in Tasks \cup Entries \cup {None}
          /\ ran' \in [Entries -> Nat] /\ runs' \in [Entries -> Nat]
      <4>1. CASE UNCHANGED <<running, ran, runs>>
        BY <4>1 DEF TypeOK
      <4>2. CASE /\ running' = entry
                 /\ ran' = [ran EXCEPT ![entry] = pulse]
                 /\ runs' = [runs EXCEPT ![entry] = @ + 1]
        BY <3>1, <4>2, SMTT(20) DEF TypeOK
      <4>3. QED
        BY <2>10, <4>1, <4>2 DEF TickPeriodic
    <3>3. QED
      BY <2>10, <3>1, <3>2 DEF TypeOK, TickPeriodic, clients, history
  <2>11. CASE UNCHANGED vars
    BY <2>11 DEF TypeOK, vars, loop, clients, history
  <2>12. QED
    BY <2>1, <2>2, <2>3, <2>4, <2>5, <2>6, <2>7, <2>8, <2>9, <2>10, <2>11
       DEF Next, Run, Tick, Shutdown
<1>3. QED
  BY <1>1, <1>2, PTL DEF Spec

-----------------------------------------------------------------------------
(* Order of execution.                                                     *)

\* The three things a step can do to the queue: a call puts its task in it, the
\* loop takes the head, or neither.
LEMMA QueueSteps ==
    ASSUME TypeOK, [Next]_vars
    PROVE  \/ \E t \in Tasks : status[t] = "idle" /\ Send(t) /\ UNCHANGED <<started, pc>>
           \/ Receive /\ UNCHANGED <<accepted, status, pc>>
           \/ /\ UNCHANGED <<queue, accepted, started>>
              /\ \A t \in Tasks : status[t] # "idle" => status'[t] # "idle"
<1>1. CASE \E t \in Tasks : Do(t) \/ DoSync(t)
  BY <1>1 DEF Do, DoSync, TypeOK
<1>2. CASE \E t \in Tasks : DoSyncReturn(t) \/ DoSyncGiveUp(t) \/ CallerCancelled(t)
  BY <1>2 DEF DoSyncReturn, DoSyncGiveUp, CallerCancelled, TypeOK, history
<1>3. CASE Cancel \/ TimePasses \/ RunTask
  BY <1>3 DEF Cancel, TimePasses, RunTask, clients, history
<1>4. CASE SelectTask \/ TickDrain \/ ShutdownDrain
  BY <1>4 DEF SelectTask, TickDrain, ShutdownDrain, clients
<1>5. CASE SelectDone \/ SelectTick \/ TickCount \/ TickDrained \/ TickPeriodic
           \/ TickReturn \/ ShutdownReturn
  BY <1>5 DEF SelectDone, SelectTick, TickCount, TickDrained, TickPeriodic,
              TickReturn, ShutdownReturn, clients, history
<1>6. CASE UNCHANGED vars
  BY <1>6 DEF vars, clients, history
<1>7. QED
  BY <1>1, <1>2, <1>3, <1>4, <1>5, <1>6 DEF Next, Run, Tick, Shutdown

\* AcceptedInOrder is inductive once it is known that a task the channel took
\* belongs to a call that is past its send.
QueueInv ==
    /\ AcceptedInOrder
    /\ \A i \in DOMAIN accepted : status[accepted[i]] # "idle"

\* The loop starts the accepted tasks once each and in the order of their
\* acceptance, and those it has not started are still in the channel.
THEOREM InOrder == Spec => []AcceptedInOrder
<1>1. Init => QueueInv
  <2>1. <<>> \o <<>> = <<>> /\ DOMAIN <<>> = {}
    OBVIOUS
  <2>2. QED
    BY <2>1 DEF Init, QueueInv, AcceptedInOrder
<1>2. ASSUME TypeOK, QueueInv, [Next]_vars
      PROVE  QueueInv'
  <2> USE <1>2
  <2>1. CASE \E t \in Tasks : status[t] = "idle" /\ Send(t) /\ UNCHANGED <<started, pc>>
    <3>1. PICK t \in Tasks : status[t] = "idle" /\ Send(t) /\ UNCHANGED <<started, pc>>
      BY <2>1
    <3>2. accepted' = started' \o queue'
      BY <3>1, AppendToTail, SMTT(20) DEF Send, QueueInv, AcceptedInOrder, TypeOK
    <3>3. /\ accepted \in Seq(Tasks) /\ accepted' = Append(accepted, t)
          /\ status \in [Tasks -> {"idle", "queued", "busy", "returned", "cancelled"}]
          /\ status' = [status EXCEPT ![t] = "queued"]
      BY <3>1 DEF Send, TypeOK
    <3>4. /\ DOMAIN accepted = 1..Len(accepted) /\ Len(accepted) \in Nat
          /\ DOMAIN accepted' = 1..(Len(accepted) + 1)
          /\ \A i \in 1..Len(accepted) : accepted'[i] = accepted[i] /\ accepted[i] \in Tasks
          /\ accepted'[Len(accepted) + 1] = t
      BY <3>3, LenProperties, AppendProperties, ElementOfSeq
    <3>5. \A i \in 1..Len(accepted) : accepted[i] # t
      BY <3>1, <3>4 DEF QueueInv
    <3>6. \A i, j \in DOMAIN accepted' : accepted'[i] = accepted'[j] => i = j
      BY <3>4, <3>5, SMTT(20) DEF QueueInv, AcceptedInOrder
    <3>7. \A i \in DOMAIN accepted' : status'[accepted'[i]] # "idle"
      BY <3>1, <3>3, <3>4, <3>5 DEF QueueInv
    <3>8. QED
      BY <3>2, <3>6, <3>7 DEF QueueInv, AcceptedInOrder
  <2>2. CASE Receive /\ UNCHANGED <<accepted, status, pc>>
    BY <2>2, MoveHead, SMTT(20) DEF Receive, QueueInv, AcceptedInOrder, TypeOK
  <2>3. CASE /\ UNCHANGED <<queue, accepted, started>>
             /\ \A t \in Tasks : status[t] # "idle" => status'[t] # "idle"
    <3>1. \A i \in DOMAIN accepted : accepted[i] \in Tasks
      BY ElementOfSeq, LenProperties DEF TypeOK
    <3>2. QED
      BY <2>3, <3>1 DEF QueueInv, AcceptedInOrder
  <2>4. QED
    BY <2>1, <2>2, <2>3, QueueSteps
<1>3. QueueInv => AcceptedInOrder
  BY DEF QueueInv
<1>4. QED
  BY <1>1, <1>2, <1>3, TypeCorrect, PTL DEF Spec

\* What the loop was told before it was told to stop: the tasks counted by
\* `promised` are among the accepted ones, and only a cancelled loop drains.
StopInv ==
    /\ promised <= Len(accepted)
    /\ pc \in {"shutdown", "stopped"} => stopping
    /\ StopKeepsPromises

\* Engine.drain keeps its promise: a stopped loop has started every task that
\* was accepted before Run's context was cancelled.
THEOREM PromisesKept == Spec => []StopKeepsPromises
<1>1. Init => StopInv
  BY DEF Init, StopInv, StopKeepsPromises
<1>2. ASSUME TypeOK, TypeOK', AcceptedInOrder, StopInv, [Next]_vars
      PROVE  StopInv'
  <2> USE <1>2
  <2>1. /\ Len(accepted) \in Nat /\ Len(accepted') \in Nat
        /\ Len(started) \in Nat /\ Len(started') \in Nat
    BY LenProperties DEF TypeOK
  <2>2. Len(accepted') >= Len(accepted) /\ Len(started') >= Len(started)
    <3>1. CASE \E t \in Tasks : status[t] = "idle" /\ Send(t) /\ UNCHANGED <<started, pc>>
      BY <3>1, <2>1, AppendToTail DEF Send, TypeOK
    <3>2. CASE Receive /\ UNCHANGED <<accepted, status, pc>>
      BY <3>2, <2>1, MoveHead DEF Receive, TypeOK
    <3>3. QED
      BY <3>1, <3>2, <2>1, QueueSteps
  <2>3. CASE Cancel
    BY <2>1, <2>2, <2>3 DEF Cancel, StopInv, StopKeepsPromises
  <2>4. CASE ShutdownReturn
    <3>1. accepted = started
      BY <2>4, ConcatEmptySeq DEF AcceptedInOrder, ShutdownReturn, TypeOK
    <3>2. QED
      BY <2>1, <2>4, <3>1 DEF ShutdownReturn, StopInv, StopKeepsPromises, history
  <2>5. CASE SelectDone
    BY <2>5 DEF SelectDone, StopInv, StopKeepsPromises, history
  <2>6. CASE UNCHANGED <<promised, stopping>> /\ (pc' = pc \/ pc' \notin {"shutdown", "stopped"})
    <3>1. (pc \in {"shutdown", "stopped"} => stopping)'
      BY <2>6 DEF StopInv
    <3>2. promised \in Nat /\ promised' = promised
      BY <2>6 DEF TypeOK
    <3>3. promised' <= Len(accepted')
      BY <2>1, <2>2, <3>2 DEF StopInv
    <3>4. StopKeepsPromises'
      BY <2>1, <2>2, <2>6, <3>2 DEF StopInv, StopKeepsPromises
    <3>5. QED
      BY <3>1, <3>3, <3>4 DEF StopInv
  <2>7. ASSUME Next, ~Cancel, ~ShutdownReturn, ~SelectDone
        PROVE  UNCHANGED <<promised, stopping>> /\ (pc' = pc \/ pc' \notin {"shutdown", "stopped"})
    <3>1. CASE \E t \in Tasks : \/ Do(t) \/ DoSync(t) \/ DoSyncReturn(t)
                                \/ DoSyncGiveUp(t) \/ CallerCancelled(t)
      BY <3>1 DEF Do, DoSync, DoSyncReturn, DoSyncGiveUp, CallerCancelled, history
    <3>2. CASE TimePasses \/ RunTask \/ SelectTask \/ SelectTick \/ ShutdownDrain
      BY <3>2 DEF TimePasses, RunTask, SelectTask, SelectTick, ShutdownDrain, history
    <3>3. CASE Tick
      BY <3>3 DEF Tick, TickCount, TickDrain, TickDrained, TickPeriodic, TickReturn, history
    <3>4. QED
      BY <2>7, <3>1, <3>2, <3>3 DEF Next, Run, Shutdown
  <2>8. CASE UNCHANGED vars
    BY <2>6, <2>8 DEF vars, history
  <2>9. QED
    BY <2>3, <2>4, <2>5, <2>6, <2>7, <2>8
<1>3. StopInv => StopKeepsPromises
  BY DEF StopInv
<1>4. QED
  BY <1>1, <1>2, <1>3, TypeCorrect, InOrder, PTL DEF Spec

\* A DoSync that returned without an error has had its task run, to its end or
\* to a contained panic.
THEOREM SyncMeansRan == Spec => []SyncReturnMeansRan
<1>1. Init => SyncReturnMeansRan
  BY DEF Init, SyncReturnMeansRan
<1>2. ASSUME TypeOK, SyncReturnMeansRan, [Next]_vars
      PROVE  SyncReturnMeansRan'
  <2> USE <1>2
  <2>1. CASE \E t \in Tasks : Do(t) \/ DoSync(t) \/ DoSyncGiveUp(t)
    <3>1. PICK t \in Tasks : Do(t) \/ DoSync(t) \/ DoSyncGiveUp(t)
      BY <2>1
    <3>2. outcome' = outcome /\ \A u \in Tasks : status'[u] = "returned" => status[u] = "returned"
      BY <3>1 DEF Do, Send, DoSync, DoSyncGiveUp, TypeOK, history
    <3>3. QED
      BY <3>2 DEF SyncReturnMeansRan
  <2>2. CASE \E t \in Tasks : DoSyncReturn(t)
    BY <2>2 DEF DoSyncReturn, SyncReturnMeansRan, TypeOK, history
  <2>3. CASE RunTask
    <3>1. \A t \in Tasks : outcome[t] # "none" => outcome'[t] # "none"
      BY <2>3 DEF RunTask, TypeOK
    <3>2. QED
      BY <2>3, <3>1 DEF RunTask, SyncReturnMeansRan, clients
  <2>4. CASE UNCHANGED <<status, outcome>>
    BY <2>4 DEF SyncReturnMeansRan
  <2>5. ASSUME ~RunTask,
               ~\E t \in Tasks : Do(t) \/ DoSync(t) \/ DoSyncReturn(t) \/ DoSyncGiveUp(t)
        PROVE  UNCHANGED <<status, outcome>>
    <3>1. CASE Cancel \/ TimePasses \/ SelectTask \/ SelectTick
               \/ \E t \in Tasks : CallerCancelled(t)
      BY <3>1 DEF Cancel, TimePasses, SelectTask, SelectTick, CallerCancelled, clients, history
    <3>2. CASE Tick \/ Shutdown
      BY <3>2 DEF Tick, TickCount, TickDrain, TickDrained, TickPeriodic, TickReturn,
                  Shutdown, SelectDone, ShutdownDrain, ShutdownReturn, clients, history
    <3>3. CASE UNCHANGED vars
      BY <3>3 DEF vars, clients, history
    <3>4. QED
      BY <2>5, <3>1, <3>2, <3>3 DEF Next, Run
  <2>6. QED
    BY <2>1, <2>2, <2>3, <2>4, <2>5
<1>3. QED
  BY <1>1, <1>2, TypeCorrect, PTL DEF Spec

-----------------------------------------------------------------------------
(* The pulse against real time.                                            *)

\* The steps that concern the clock: an interval passes, the loop takes the
\* tick, reads the time, or does something else.
LEMMA ClockSteps ==
    ASSUME [Next]_vars
    PROVE  \/ TimePasses
           \/ SelectTick
           \/ TickCount
           \/ /\ UNCHANGED <<pulse, missed, taken, now, tickReady>>
              /\ pc = "ticked" => pc' = "ticked"
              /\ pc' = "ticked" => pc = "ticked"
<1>1. CASE \E t \in Tasks : \/ Do(t) \/ DoSync(t) \/ DoSyncReturn(t)
                            \/ DoSyncGiveUp(t) \/ CallerCancelled(t)
  BY <1>1 DEF Do, DoSync, DoSyncReturn, DoSyncGiveUp, CallerCancelled, loop
<1>2. CASE Cancel \/ RunTask \/ SelectTask \/ Shutdown
  BY <1>2 DEF Cancel, RunTask, SelectTask, Shutdown, SelectDone, ShutdownDrain,
              ShutdownReturn, loop
<1>3. CASE TickDrain \/ TickDrained \/ TickPeriodic \/ TickReturn
  BY <1>3 DEF TickDrain, TickDrained, TickPeriodic, TickReturn, loop
<1>4. CASE UNCHANGED vars
  BY <1>4 DEF vars, loop
<1>5. QED
  BY <1>1, <1>2, <1>3, <1>4 DEF Next, Run, Tick

\* A tick in the channel, and one received but not yet counted, are each a pulse
\* the count may still rise by: it is those that must be counted in for the
\* upper bound to be inductive.
Pending == (IF tickReady THEN 1 ELSE 0) + (IF pc = "ticked" THEN 1 ELSE 0)

ClockInv ==
    /\ pulse + Pending <= now + 1
    /\ ~tickReady /\ pc # "ticked" => pulse >= now - 1

\* The pulse count is never more than one interval ahead of real time, and
\* never behind it once the pending tick has been taken (#321).
THEOREM FollowsTime == Spec => []PulseFollowsTime
<1>1. Init => ClockInv
  BY DEF Init, ClockInv, Pending
<1>2. ASSUME TypeOK, ClockInv, [Next]_vars
      PROVE  ClockInv'
  <2> USE <1>2
  <2>1. CASE TimePasses
    BY <2>1 DEF TimePasses, ClockInv, Pending, TypeOK, loop
  <2>2. CASE SelectTick
    BY <2>2 DEF SelectTick, ClockInv, Pending, TypeOK, loop
  <2>3. CASE TickCount
    <3>1. PICK elapsed \in Elapsed : pulse' = NextPulse(pulse, elapsed)
      BY <2>3 DEF TickCount
    <3>2. elapsed \in Nat /\ now - 1 <= elapsed /\ elapsed <= now
      BY DEF Elapsed, TypeOK
    <3>3. QED
      BY <2>3, <3>1, <3>2 DEF TickCount, NextPulse, ClockInv, Pending, TypeOK
  <2>4. CASE /\ UNCHANGED <<pulse, missed, taken, now, tickReady>>
             /\ pc = "ticked" => pc' = "ticked"
             /\ pc' = "ticked" => pc = "ticked"
    <3>1. pc' = "ticked" <=> pc = "ticked"
      BY <2>4, Zenon
    <3>2. pulse' = pulse /\ now' = now /\ tickReady' = tickReady
      BY <2>4
    <3>3. Pending' = Pending
      BY <3>1, <3>2 DEF Pending
    <3>4. QED
      BY <3>1, <3>2, <3>3 DEF ClockInv
  <2>5. QED
    BY <2>1, <2>2, <2>3, <2>4, ClockSteps
<1>3. TypeOK /\ ClockInv => PulseFollowsTime
  BY DEF ClockInv, Pending, TypeOK, PulseFollowsTime
<1>4. QED
  BY <1>1, <1>2, <1>3, TypeCorrect, PTL DEF Spec

\* Every pulse is a tick the loop took or one it reports as missed.
THEOREM AccountedFor == Spec => []PulsesAccountedFor
<1>1. Init => PulsesAccountedFor
  BY DEF Init, PulsesAccountedFor
<1>2. ASSUME TypeOK, PulsesAccountedFor, [Next]_vars
      PROVE  PulsesAccountedFor'
  <2> USE <1>2
  <2>1. CASE TimePasses \/ SelectTick
    BY <2>1 DEF TimePasses, SelectTick, PulsesAccountedFor, loop
  <2>2. CASE TickCount
    <3>1. PICK elapsed \in Elapsed : /\ pulse' = NextPulse(pulse, elapsed)
                                     /\ missed' = missed + MissedBy(pulse, elapsed)
      BY <2>2 DEF TickCount
    <3>2. taken' = taken + 1 /\ elapsed \in Nat
      BY <2>2 DEF TickCount, Elapsed
    <3>3. QED
      BY <3>1, <3>2 DEF NextPulse, MissedBy, PulsesAccountedFor, TypeOK
  <2>3. CASE UNCHANGED <<pulse, missed, taken, now, tickReady>>
    BY <2>3 DEF PulsesAccountedFor
  <2>4. QED
    BY <2>1, <2>2, <2>3, ClockSteps
<1>3. QED
  BY <1>1, <1>2, TypeCorrect, PTL DEF Spec

-----------------------------------------------------------------------------
(* Periodic work.                                                          *)

\* A later pulse has seen an entry fall due at least as often.
LEMMA DueByMonotonic ==
    ASSUME NEW i \in Entries, Every[i] # 0, NEW p \in Nat, NEW q \in Nat, p <= q
    PROVE  DueBy(p, i) \in Nat /\ DueBy(q, i) \in Nat /\ DueBy(p, i) <= DueBy(q, i)
<1> DEFINE k == Every[i]
<1>1. k \in Nat \ {0}
  BY EngineAssumption, ElementOfSeq, LenProperties DEF Entries
<1> HIDE DEF k
<1>2. p \div k \in Nat /\ q \div k \in Nat /\ p \div k <= q \div k
  BY <1>1
<1>3. QED
  BY <1>2 DEF DueBy, k

\* Where entry i stands at a given point of the loop.
Standing(i, p) ==
    /\ runs[i] <= DueBy(ran[i], i)
    /\ DueBy(ran[i], i) = DueBy(p, i)

\* While tick walks the schedule the entries before `entry` have been brought up
\* to this pulse, the others still stand at the last one.
PeriodicInv ==
    /\ previous <= pulse
    /\ \A i \in Entries : Every[i] # 0 =>
          /\ pc = "draining" => Standing(i, previous)
          /\ pc = "periodic" => IF i < entry THEN Standing(i, pulse) ELSE Standing(i, previous)
          /\ pc \notin {"draining", "periodic"} => Standing(i, pulse)

\* Between ticks every entry has run for its last due pulse, and it has run no
\* more often than it fell due, whatever ticks were dropped.
THEOREM CaughtUp == Spec => []PeriodicCaughtUp
<1>1. Init => PeriodicInv
  <2>1. ASSUME Init, NEW i \in Entries, Every[i] # 0
        PROVE  Standing(i, pulse)
    <3>1. DueBy(0, i) \in Nat
      BY <2>1, DueByMonotonic
    <3>2. ran[i] = 0 /\ runs[i] = 0 /\ pulse = 0
      BY <2>1 DEF Init
    <3>3. QED
      BY <3>1, <3>2 DEF Standing
  <2>2. Init => previous <= pulse /\ pc \notin {"draining", "periodic"}
    BY DEF Init
  <2>3. QED
    BY <2>1, <2>2 DEF PeriodicInv
<1>2. ASSUME TypeOK, PeriodicInv, [Next]_vars
      PROVE  PeriodicInv'
  <2> USE <1>2
  <2>1. CASE TickCount
    <3>1. PICK elapsed \in Elapsed : pulse' = NextPulse(pulse, elapsed)
      BY <2>1 DEF TickCount
    <3>2. elapsed \in Nat
      BY DEF Elapsed
    <3>3. pulse' >= previous'
      BY <2>1, <3>1, <3>2 DEF TickCount, NextPulse, TypeOK
    <3>4. pc = "ticked" /\ pc' = "draining" /\ previous' = pulse /\ UNCHANGED <<ran, runs>>
      BY <2>1 DEF TickCount
    <3>5. QED
      BY <3>3, <3>4 DEF PeriodicInv, Standing, TypeOK
  <2>2. CASE TickDrained
    <3>1. /\ pc = "draining" /\ pc' = "periodic" /\ entry' = 1
          /\ UNCHANGED <<pulse, previous, ran, runs>>
      BY <2>2 DEF TickDrained
    <3>2. \A i \in Entries : ~(i < 1)
      BY EngineAssumption, LenProperties DEF Entries
    <3>3. QED
      BY <3>1, <3>2 DEF PeriodicInv, Standing
  <2>3. CASE TickPeriodic
    <3>1. /\ pc = "periodic" /\ pc' = "periodic" /\ entry' = entry + 1 /\ entry \in Entries
          /\ UNCHANGED <<pulse, previous>>
          /\ Entries \subseteq Nat /\ entry \in Nat /\ pulse \in Nat /\ previous \in Nat
          /\ ran \in [Entries -> Nat] /\ runs \in [Entries -> Nat]
      BY <2>3, EngineAssumption, LenProperties DEF TickPeriodic, TypeOK, Entries
    <3>2. ASSUME NEW i \in Entries, Every[i] # 0
          PROVE  IF i < entry' THEN Standing(i, pulse)' ELSE Standing(i, previous)'
      <4>1. CASE i # entry
        <5>1. ran'[i] = ran[i] /\ runs'[i] = runs[i]
          BY <2>3, <3>1, <4>1 DEF TickPeriodic
        <5>2. i < entry' <=> i < entry
          BY <3>1, <4>1
        <5>3. QED
          BY <3>1, <3>2, <5>1, <5>2 DEF PeriodicInv, Standing
      <4>2. CASE i = entry /\ Due(entry)
        <5>1. ran'[i] = pulse /\ runs'[i] = runs[i] + 1
          BY <2>3, <3>1, <4>2 DEF TickPeriodic
        <5>2. Standing(i, previous)
          BY <3>1, <3>2, <4>2 DEF PeriodicInv
        <5>3. DueBy(previous, i) # DueBy(pulse, i)
          BY <4>2 DEF Due
        <5>4. /\ DueBy(previous, i) \in Nat /\ DueBy(pulse, i) \in Nat
              /\ DueBy(previous, i) <= DueBy(pulse, i)
          BY <3>1, <3>2, DueByMonotonic DEF PeriodicInv
        <5>5. runs[i] + 1 <= DueBy(pulse, i)
          BY <3>1, <5>2, <5>3, <5>4 DEF Standing
        <5>6. i < entry'
          BY <3>1, <4>2
        <5>7. QED
          BY <3>1, <5>1, <5>5, <5>6 DEF Standing
      <4>3. CASE i = entry /\ ~Due(entry)
        <5>1. UNCHANGED <<ran, runs>>
          BY <2>3, <4>3 DEF TickPeriodic
        <5>2. Standing(i, previous) /\ DueBy(previous, i) = DueBy(pulse, i)
          BY <3>1, <3>2, <4>3 DEF PeriodicInv, Due
        <5>3. i < entry'
          BY <3>1, <4>3
        <5>4. QED
          BY <3>1, <5>1, <5>2, <5>3 DEF Standing
      <4>4. QED
        BY <4>1, <4>2, <4>3
    <3>3. QED
      BY <3>1, <3>2 DEF PeriodicInv
  <2>4. CASE TickReturn
    <3>1. /\ pc = "periodic" /\ pc' = "select"
          /\ UNCHANGED <<pulse, previous, ran, runs>>
      BY <2>4 DEF TickReturn, loop
    <3>2. \A i \in Entries : i < entry
      BY <2>4, EngineAssumption, LenProperties DEF TickReturn, Entries, TypeOK
    <3>3. QED
      BY <3>1, <3>2 DEF PeriodicInv, Standing
  <2>5. CASE /\ UNCHANGED <<pulse, previous, entry, ran, runs>>
             /\ \/ pc' = pc
                \/ {pc, pc'} \cap {"draining", "periodic"} = {}
    BY <2>5 DEF PeriodicInv, Standing
  <2>6. ASSUME [Next]_vars, ~TickCount, ~TickDrained, ~TickPeriodic, ~TickReturn
        PROVE  /\ UNCHANGED <<pulse, previous, entry, ran, runs>>
               /\ \/ pc' = pc
                  \/ {pc, pc'} \cap {"draining", "periodic"} = {}
    <3>1. CASE \E t \in Tasks : \/ Do(t) \/ DoSync(t) \/ DoSyncReturn(t)
                                \/ DoSyncGiveUp(t) \/ CallerCancelled(t)
      BY <3>1 DEF Do, DoSync, DoSyncReturn, DoSyncGiveUp, CallerCancelled, loop
    <3>2. CASE Cancel \/ TimePasses \/ RunTask \/ SelectTask \/ TickDrain \/ ShutdownDrain
      BY <3>2 DEF Cancel, TimePasses, RunTask, SelectTask, TickDrain, ShutdownDrain, loop
    <3>3. CASE SelectTick \/ SelectDone \/ ShutdownReturn
      BY <3>3 DEF SelectTick, SelectDone, ShutdownReturn, loop
    <3>4. CASE UNCHANGED vars
      BY <3>4 DEF vars, loop
    <3>5. QED
      BY <2>6, <3>1, <3>2, <3>3, <3>4 DEF Next, Run, Tick, Shutdown
  <2>7. QED
    BY <2>1, <2>2, <2>3, <2>4, <2>5, <2>6
<1>3. PeriodicInv /\ TypeOK => PeriodicCaughtUp
  BY DEF PeriodicInv, Standing, PeriodicCaughtUp, TypeOK
<1>4. QED
  BY <1>1, <1>2, <1>3, TypeCorrect, PTL DEF Spec

-----------------------------------------------------------------------------
(* How long a pulse can take.                                              *)

\* While tick drains, what it has run and what it still means to run are both
\* within what was queued when the pulse began.
DrainInv ==
    pc = "draining" =>
        /\ waiting <= Len(queue)
        /\ pulseFrom <= Len(started)
        /\ Len(started) - pulseFrom + waiting <= QueueDepth

\* tick's drain never finds the channel empty and never runs more than
\* QueueDepth tasks, even though the tasks it runs queue others.
THEOREM PulseBounded == Spec => [](NeverStarved /\ PulseIsBounded)
<1>1. Init => DrainInv
  BY DEF Init, DrainInv
<1>2. ASSUME TypeOK, TypeOK', DrainInv, [Next]_vars
      PROVE  DrainInv'
  <2> USE <1>2, EngineAssumption
  <2>1. /\ Len(queue) \in Nat /\ Len(queue') \in Nat
        /\ Len(started) \in Nat /\ Len(started') \in Nat
        /\ waiting \in Nat /\ pulseFrom \in Nat
    BY LenProperties DEF TypeOK
  <2>2. CASE TickCount
    BY <2>1, <2>2 DEF TickCount, DrainInv, TypeOK, history
  <2>3. CASE TickDrain
    <3>1. Len(queue') = Len(queue) - 1 /\ Len(started') = Len(started) + 1
      BY <2>3, MoveHead DEF TickDrain, Receive, TypeOK
    <3>2. QED
      BY <2>1, <2>3, <3>1 DEF TickDrain, DrainInv
  <2>4. CASE \E t \in Tasks : Do(t) \/ DoSync(t)
    <3>1. PICK t \in Tasks : Do(t) \/ DoSync(t)
      BY <2>4
    <3>2. (Send(t) \/ UNCHANGED queue) /\ UNCHANGED <<pc, started, waiting, pulseFrom>>
      BY <3>1 DEF Do, DoSync, loop
    <3>3. Len(queue') >= Len(queue)
      <4>1. Len(Append(queue, t)) = Len(queue) + 1
        BY AppendToTail DEF TypeOK
      <4>2. queue' = Append(queue, t) \/ queue' = queue
        BY <3>2 DEF Send
      <4>3. QED
        BY <2>1, <4>1, <4>2
    <3>4. QED
      BY <2>1, <3>2, <3>3 DEF DrainInv
  <2>5. CASE pc' # "draining" \/ UNCHANGED <<pc, queue, started, waiting, pulseFrom>>
    BY <2>5 DEF DrainInv
  <2>6. ASSUME [Next]_vars, ~TickCount, ~TickDrain, ~(\E t \in Tasks : Do(t) \/ DoSync(t))
        PROVE  pc' # "draining" \/ UNCHANGED <<pc, queue, started, waiting, pulseFrom>>
    <3>1. CASE \E t \in Tasks : \/ DoSyncReturn(t) \/ DoSyncGiveUp(t) \/ CallerCancelled(t)
      BY <3>1 DEF DoSyncReturn, DoSyncGiveUp, CallerCancelled, loop, history
    <3>2. CASE Cancel \/ TimePasses \/ RunTask
      BY <3>2 DEF Cancel, TimePasses, RunTask, loop, history
    <3>3. CASE SelectTask \/ SelectTick \/ Shutdown
      BY <3>3 DEF SelectTask, SelectTick, Shutdown, SelectDone, ShutdownDrain, ShutdownReturn
    <3>4. CASE TickDrained \/ TickPeriodic \/ TickReturn
      BY <3>4 DEF TickDrained, TickPeriodic, TickReturn
    <3>5. CASE UNCHANGED vars
      BY <3>5 DEF vars, loop, history
    <3>6. QED
      BY <2>6, <3>1, <3>2, <3>3, <3>4, <3>5 DEF Next, Run, Tick
  <2>7. QED
    BY <2>2, <2>3, <2>4, <2>5, <2>6
<1>3. DrainInv /\ TypeOK => NeverStarved /\ PulseIsBounded
  <2>1. TypeOK => Len(started) \in Nat /\ waiting \in Nat /\ pulseFrom \in Nat
    BY LenProperties DEF TypeOK
  <2>2. QED
    BY <2>1, EngineAssumption DEF DrainInv, NeverStarved, PulseIsBounded
<1>4. QED
  BY <1>1, <1>2, <1>3, TypeCorrect, PTL DEF Spec
=============================================================================
