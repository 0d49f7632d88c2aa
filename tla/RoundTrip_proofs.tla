--------------------------- MODULE RoundTrip_proofs ---------------------------
(***************************************************************************)
(* For every source, with and without a subscription: the loop's table holds *)
(* exactly the round trips under way, and the generator only ends itself as  *)
(* idle when every message was answered or its publish failed.               *)
(*                                                                          *)
(* The second fact joins three threads: the loop's cached idle time, the     *)
(* exact table, and main, which asks for the idle timeout only when the      *)
(* whole source is published.  For the same reason a cancelled generator     *)
(* always has something that ends it, and one whose messages are all         *)
(* answered has its timer running.                                           *)
(***************************************************************************)
EXTENDS RoundTrip, TLAPS

\* The cached idle time is only set when the table is empty; a timer runs only
\* under a configured timeout, and in the select only in an idle period.
IdleIsCurrent ==
    /\ idleTime => currentOps = {}
    /\ timerOn => timeoutSet
    /\ loop = "select" /\ timerOn => idleTime

\* An answer is only handled for a message that was given to Publish.
AnswersFollow == \A i \in Items : answer[i] # "none" => Answerable(i)

\* The idle timeout is configured only when the source is published: no error,
\* nothing in the publisher's hands, nothing left unless main was cancelled.
SourceIsPublished ==
    /\ timeoutSet => main \in {"wait", "stop"}
    /\ main \in {"setTimeout", "wait", "stop"} =>
          ~failing /\ \A i \in Items : item[i] \notin {"start", "publish"}
    /\ main # "source" /\ ~failing /\ ~cancelled =>
          \A i \in Items : item[i] # "waiting"
    /\ \A i \in Items : item[i] = "refused" => cancelled

IInv ==
    TypeOK /\ OutstandingIsExact /\ IdleIsCurrent /\ AnswersFollow /\ SourceIsPublished

\* Initially nothing is published, nothing is answered and the table is empty.
LEMMA InitIInv == Init => IInv
<1> SUFFICES ASSUME Init PROVE IInv
    OBVIOUS
<1>1. TypeOK
    BY SubscriptionAssumption
       DEF Init, StatsInit, TypeOK, StatsTypeOK, ItemStates, AnswerStates
<1>2. OutstandingIsExact
    BY DEF Init, StatsInit, OutstandingIsExact, Outstanding
<1>3. IdleIsCurrent /\ AnswersFollow /\ SourceIsPublished
    BY DEF Init, StatsInit, IdleIsCurrent, AnswersFollow, SourceIsPublished
<1> QED
    BY <1>1, <1>2, <1>3 DEF IInv

\* The loop's own branches leave the table alone and keep timer and idle time
\* in agreement.
LEMMA LoopKeepsIInv ==
    ASSUME IInv, Loop
    PROVE  IInv'
<1>1. /\ UNCHANGED <<mainVars, item, answer, subscribed, currentOps, closed,
                     timeoutSet, idleTime>>
      /\ cancelled' \in BOOLEAN
      /\ cancelled => cancelled'
      /\ loop' \in {"head", "select", "gone"}
      /\ timerOn' \in BOOLEAN
    BY DEF Loop, LoopStep, LoopEnds, LoopWaits, LoopIdleOver, SelectDone,
           SelectLog, SelectTimer, IInv, TypeOK, StatsTypeOK
<1>2. IdleIsCurrent'
    BY DEF Loop, LoopStep, LoopEnds, LoopWaits, LoopIdleOver, SelectDone,
           SelectLog, SelectTimer, IInv, TypeOK, StatsTypeOK, IdleIsCurrent
<1>3. TypeOK'
    BY <1>1 DEF IInv, TypeOK, StatsTypeOK, mainVars
<1>4. OutstandingIsExact' /\ AnswersFollow'
    BY <1>1 DEF IInv, OutstandingIsExact, Outstanding, Answered, AnswersFollow,
                Answerable
<1>5. SourceIsPublished'
    BY <1>1 DEF IInv, SourceIsPublished, mainVars
<1> QED
    BY <1>2, <1>3, <1>4, <1>5 DEF IInv

\* The publisher's steps: a message enters the table before it is published and
\* leaves it when its failure was reported.
LEMMA ItemStepKeepsIInv ==
    ASSUME IInv, NEW i \in Items, ItemStep(i)
    PROVE  IInv'
<1> USE DEF IInv, TypeOK, StatsTypeOK, ItemStates, AnswerStates, Goes, statsVars,
            loopVars, mainVars, IdleIsCurrent, AnswersFollow, Answerable,
            SourceIsPublished
<1>1. CASE Dispatch(i)
    <2>1. OutstandingIsExact'
        BY <1>1 DEF Dispatch, OutstandingIsExact, Outstanding, Answered
    <2> QED
        BY <1>1, <2>1 DEF Dispatch
<1>2. CASE StartTask(i)
    <2>1. currentOps' = currentOps \cup {i}
        BY <1>2 DEF StartTask, ReceiveStart, Receive
    <2>2. Outstanding(i)' /\ \A j \in Items \ {i} : Outstanding(j)' <=> Outstanding(j)
        BY <1>2 DEF StartTask, Outstanding, Answered
    <2>3. OutstandingIsExact'
        BY <2>1, <2>2 DEF OutstandingIsExact
    <2> QED
        BY <1>2, <2>3 DEF StartTask, ReceiveStart, Receive
<1>3. CASE Publish(i) \/ PublishReturns(i)
    <2>1. OutstandingIsExact'
        BY <1>3 DEF Publish, PublishReturns, OutstandingIsExact, Outstanding, Answered
    <2> QED
        BY <1>3, <2>1 DEF Publish, PublishReturns
<1>4. CASE CancelTask(i)
    <2>1. currentOps' = currentOps \ {i}
        BY <1>4 DEF CancelTask, ReceiveCancel, Receive
    <2>2. ~Outstanding(i)' /\ \A j \in Items \ {i} : Outstanding(j)' <=> Outstanding(j)
        BY <1>4 DEF CancelTask, Outstanding, Answered
    <2>3. OutstandingIsExact'
        BY <2>1, <2>2 DEF OutstandingIsExact
    <2> QED
        BY <1>4, <2>3 DEF CancelTask, ReceiveCancel, Receive
<1> QED
    BY <1>1, <1>2, <1>3, <1>4 DEF ItemStep

\* The handlers' steps: the first answer of a message takes it out of the table,
\* one that comes again finds nothing to take out.
LEMMA AnswerStepKeepsIInv ==
    ASSUME IInv, NEW i \in Items, AnswerStep(i)
    PROVE  IInv'
<1> USE DEF IInv, TypeOK, StatsTypeOK, AnswerStates, Answers, statsVars,
            loopVars, mainVars, IdleIsCurrent, AnswersFollow, Answerable,
            SourceIsPublished
<1>1. CASE Deliver(i) \/ Redeliver(i)
    <2>1. OutstandingIsExact'
        BY <1>1 DEF Deliver, Redeliver, OutstandingIsExact, Outstanding, Answered
    <2> QED
        BY <1>1, <2>1 DEF Deliver, Redeliver
<1>2. CASE DoneTask(i)
    <2>1. currentOps' = currentOps \ {i}
        BY <1>2 DEF DoneTask, ReceiveDone, Receive
    <2>2. ~Outstanding(i)' /\ \A j \in Items \ {i} : Outstanding(j)' <=> Outstanding(j)
        BY <1>2 DEF DoneTask, Outstanding, Answered
    <2>3. OutstandingIsExact'
        BY <2>1, <2>2 DEF OutstandingIsExact
    <2> QED
        BY <1>2, <2>3 DEF DoneTask, ReceiveDone, Receive
<1> QED
    BY <1>1, <1>2 DEF AnswerStep

\* main, the signals and the end of the process leave messages, answers and
\* table alone; what they change is main's own progress and the context.
LEMMA MainStepKeepsIInv ==
    ASSUME IInv, MainStep \/ SubscriptionFails
    PROVE  IInv'
<1> USE DEF IInv, TypeOK, StatsTypeOK, statsVars, loopVars, mainVars, IdleIsCurrent,
            SourceIsPublished, ProcessEnds
<1>1. /\ UNCHANGED <<item, answer, currentOps>>
      /\ IdleIsCurrent'
    BY DEF MainStep, SourceEnds, DrainReturns, SetStatsIdleTimeout, ReceiveTimeout,
           Receive, WaitReturns, StopReturns, SendPanics, Signal, ForcedExit,
           SubscriptionFails
<1>2. OutstandingIsExact' /\ AnswersFollow'
    BY <1>1 DEF OutstandingIsExact, Outstanding, Answered, AnswersFollow, Answerable
<1>3. TypeOK'
    <2>1. CASE SourceEnds
        BY <2>1 DEF SourceEnds
    <2>2. CASE DrainReturns
        BY <2>2 DEF DrainReturns
    <2>3. CASE SetStatsIdleTimeout \/ WaitReturns
        BY <2>3 DEF SetStatsIdleTimeout, ReceiveTimeout, Receive, WaitReturns
    <2>4. CASE Signal
        BY <2>4 DEF Signal
    <2>5. CASE StopReturns \/ SendPanics \/ ForcedExit
        <3>1. /\ process' \in {"exit0", "exit1", "panicked"}
              /\ UNCHANGED <<statsVars, main, forced, failing, item, answer, subscribed>>
            BY <2>5 DEF StopReturns, SendPanics, ForcedExit
        <3> QED
            BY <3>1
    <2>6. CASE SubscriptionFails
        BY <2>6 DEF SubscriptionFails
    <2> QED
        BY <2>1, <2>2, <2>3, <2>4, <2>5, <2>6 DEF MainStep
<1>4. SourceIsPublished'
    <2>1. CASE SourceEnds
        BY <2>1 DEF SourceEnds
    <2>2. CASE DrainReturns
        BY <2>2 DEF DrainReturns
    <2>3. CASE SetStatsIdleTimeout \/ WaitReturns
        BY <2>3 DEF SetStatsIdleTimeout, ReceiveTimeout, Receive, WaitReturns
    <2>4. CASE StopReturns \/ SendPanics \/ Signal \/ ForcedExit \/ SubscriptionFails
        BY <2>4 DEF StopReturns, SendPanics, Signal, ForcedExit, SubscriptionFails
    <2> QED
        BY <2>1, <2>2, <2>3, <2>4 DEF MainStep
<1> QED
    BY <1>1, <1>2, <1>3, <1>4

\* Every step of the program keeps the invariant.
LEMMA NextKeepsIInv == IInv /\ [Next]_vars => IInv'
<1> SUFFICES ASSUME IInv, [Next]_vars PROVE IInv'
    OBVIOUS
<1>1. CASE MainStep \/ SubscriptionFails
    BY <1>1, MainStepKeepsIInv
<1>2. CASE Loop
    BY <1>2, LoopKeepsIInv
<1>3. ASSUME NEW i \in Items, ItemStep(i) \/ AnswerStep(i)
      PROVE  IInv'
    BY <1>3, ItemStepKeepsIInv, AnswerStepKeepsIInv
<1>4. CASE UNCHANGED vars
    BY <1>4 DEF vars, statsVars, loopVars, mainVars, IInv, TypeOK, StatsTypeOK,
                OutstandingIsExact, Outstanding, Answered, IdleIsCurrent,
                AnswersFollow, Answerable, SourceIsPublished
<1> QED
    BY <1>1, <1>2, <1>3, <1>4 DEF Next

\* The generator's state keeps its shape (test/pubsub.go).
THEOREM RoundTripTypes == Spec => []TypeOK
<1>1. IInv => TypeOK
    BY DEF IInv
<1> QED
    BY <1>1, InitIInv, NextKeepsIInv, PTL DEF Spec

\* The statistics table holds exactly the round trips under way, for any number
\* of messages and any order of results and answers (test/pubsub.go: StartTask,
\* CancelTask and DoneTask under one srcId).
THEOREM TableIsExactlyTheOutstanding == Spec => []OutstandingIsExact
<1>1. IInv => OutstandingIsExact
    BY DEF IInv
<1> QED
    BY <1>1, InitIInv, NextKeepsIInv, PTL DEF Spec

\* The generator ends itself as idle only after every message was answered or
\* its publish failed ("no more outstanding requests", test/pubsub.go:97).
THEOREM IdleEndsACompleteTest == Spec => IdleMeansAllReceived
<1>1. ASSUME IInv, [Next]_vars
      PROVE  [CancelsWhenIdle =>
                 \A i \in Items : Answered(i) \/ item[i] = "failed"]_vars
    <2> SUFFICES ASSUME CancelsWhenIdle, NEW i \in Items
                 PROVE  Answered(i) \/ item[i] = "failed"
        OBVIOUS
    <2>1. idleTime /\ timeoutSet /\ ~cancelled
        BY <1>1 DEF CancelsWhenIdle, IdleExpires, LoopIdleOver, SelectTimer,
                    IInv, IdleIsCurrent
    <2>2. currentOps = {}
        BY <1>1, <2>1 DEF IInv, IdleIsCurrent
    <2>3. item[i] \in {"sent", "cancel", "failed", "confirmed"}
        BY <1>1, <2>1 DEF IInv, SourceIsPublished, TypeOK, ItemStates
    <2> QED
        BY <1>1, <2>2, <2>3 DEF IInv, OutstandingIsExact, Outstanding
<1> QED
    BY <1>1, InitIInv, NextKeepsIInv, PTL DEF Spec, IdleMeansAllReceived

-----------------------------------------------------------------------------
(* What a cancelled generator can rely on.                                  *)

\* main waits for the context only: at its last two places it ends by itself.
Leaving == main \in {"wait", "stop"}

\* The idle timeout is set when main goes to wait; before that only a signal
\* cancels, and the signal starts the countdown of the forced exit.
EndInSight ==
    /\ timeoutSet \/ timerOn => Leaving
    /\ cancelled => forced \/ Leaving
    /\ closed => Leaving
    /\ loop = "gone" => forced \/ Leaving

\* Every step keeps it so.
LEMMA NextKeepsEnd == ASSUME EndInSight, [Next]_vars PROVE EndInSight'
<1> USE DEF EndInSight, Leaving
<1>1. ASSUME NEW how, ProcessEnds(how) PROVE EndInSight'
    BY <1>1 DEF ProcessEnds, statsVars, loopVars
<1>2. CASE Loop
    <2> USE <1>2 DEF Loop, mainVars
    <2>1. CASE LoopWaits
        BY <2>1, Zenon DEF LoopWaits
    <2>2. CASE LoopEnds
        BY <2>2 DEF LoopEnds
    <2>3. CASE SelectDone
        BY <2>3 DEF SelectDone
    <2>4. CASE SelectLog
        BY <2>4 DEF SelectLog
    <2>5. CASE LoopIdleOver \/ SelectTimer
        BY <2>5 DEF LoopIdleOver, SelectTimer
    <2> QED
        BY <2>1, <2>2, <2>3, <2>4, <2>5 DEF LoopStep
<1>3. CASE \/ SourceEnds \/ DrainReturns \/ StopReturns \/ SendPanics \/ ForcedExit
    BY <1>1, <1>3 DEF SourceEnds, DrainReturns, StopReturns, SendPanics, ForcedExit,
        statsVars, loopVars
<1>4. CASE SetStatsIdleTimeout \/ WaitReturns \/ Signal
    BY <1>1, <1>4 DEF SetStatsIdleTimeout, ReceiveTimeout, Receive, WaitReturns, Signal,
        loopVars
<1>5. ASSUME NEW i \in Items, StartTask(i) \/ CancelTask(i) \/ DoneTask(i)
      PROVE  EndInSight'
    BY <1>5 DEF StartTask, CancelTask, DoneTask, ReceiveStart, ReceiveCancel, ReceiveDone,
        Receive, mainVars
<1>6. ASSUME NEW i \in Items,
             \/ Dispatch(i) \/ Publish(i) \/ PublishReturns(i)
             \/ Deliver(i) \/ Redeliver(i)
      PROVE  EndInSight'
    BY <1>6 DEF Dispatch, Publish, PublishReturns, Deliver, Redeliver, mainVars, statsVars,
        loopVars
<1>7. CASE SubscriptionFails \/ UNCHANGED vars
    BY <1>7 DEF SubscriptionFails, vars, mainVars, statsVars, loopVars
<1> QED
    BY <1>2, <1>3, <1>4, <1>5, <1>6, <1>7 DEF Next, MainStep, ItemStep, AnswerStep

\* A generator that is cancelled, or whose statistics goroutine is gone, always
\* has something that ends it: the countdown of a signal, or main itself, which
\* has nothing left to wait for but that goroutine.  A cancel by the idle
\* timeout never comes while main still publishes, where the blocked workers
\* would hold it for ever.  (CancelledEnds follows under the fairness TLC
\* checks it with.)
THEOREM CancelHasAnEnd ==
    Spec => [](cancelled \/ closed \/ loop = "gone" => forced \/ main \in {"wait", "stop"})
<1>1. Init => EndInSight
    BY DEF Init, StatsInit, EndInSight
<1>2. EndInSight /\ [Next]_vars => EndInSight'
    BY NextKeepsEnd
<1>3. EndInSight =>
        (cancelled \/ closed \/ loop = "gone" => forced \/ main \in {"wait", "stop"})
    BY DEF EndInSight, Leaving
<1> QED
    BY <1>1, <1>2, <1>3, PTL DEF Spec

-----------------------------------------------------------------------------
(* What the end of a complete test rests on.                                *)

\* While main waits the idle timeout is set, an empty table is known to be idle,
\* an idle loop that waits has its timer running, and only a cancelled context
\* ends the loop.
TimerIsArmed ==
    /\ main \in {"wait", "stop"} => timeoutSet
    /\ timeoutSet /\ currentOps = {} => idleTime
    /\ timeoutSet /\ idleTime /\ loop = "select" => timerOn \/ cancelled
    /\ closed \/ loop = "gone" => cancelled

\* Every step of the generator keeps its timer armed.
LEMMA NextKeepsTimer == ASSUME TimerIsArmed, [Next]_vars PROVE TimerIsArmed'
<1> USE DEF TimerIsArmed
<1>1. CASE Loop
    <2> USE <1>1 DEF Loop, mainVars
    <2>1. CASE LoopWaits
        <3>1. /\ UNCHANGED <<main, timeoutSet, currentOps, idleTime, closed, cancelled>>
              /\ loop = "head" /\ loop' = "select"
              /\ timeoutSet /\ idleTime => timerOn'
            BY <2>1, Zenon DEF LoopWaits
        <3> QED
            BY <3>1
    <2>2. CASE LoopEnds
        BY <2>2 DEF LoopEnds
    <2>3. CASE SelectDone
        BY <2>3 DEF SelectDone
    <2>4. CASE SelectLog
        BY <2>4 DEF SelectLog
    <2>5. CASE LoopIdleOver \/ SelectTimer
        BY <2>5 DEF LoopIdleOver, SelectTimer
    <2> QED
        BY <2>1, <2>2, <2>3, <2>4, <2>5 DEF LoopStep
<1>2. CASE \/ SourceEnds \/ DrainReturns \/ StopReturns \/ SendPanics \/ ForcedExit
           \/ WaitReturns \/ Signal
    BY <1>2 DEF SourceEnds, DrainReturns, StopReturns, SendPanics, ForcedExit,
        WaitReturns, Signal, ProcessEnds, statsVars, loopVars
<1>3. CASE SetStatsIdleTimeout
    BY <1>3 DEF SetStatsIdleTimeout, ReceiveTimeout, Receive
<1>4. ASSUME NEW i \in Items, StartTask(i) \/ CancelTask(i) \/ DoneTask(i)
      PROVE  TimerIsArmed'
    <2>1. /\ UNCHANGED <<main, timeoutSet, closed, cancelled>>
          /\ loop' = "head"
          /\ currentOps' = {} => idleTime'
        BY <1>4 DEF StartTask, CancelTask, DoneTask, ReceiveStart, ReceiveCancel,
            ReceiveDone, Receive, mainVars
    <2> QED
        BY <2>1
<1>5. ASSUME NEW i \in Items,
             \/ Dispatch(i) \/ Publish(i) \/ PublishReturns(i)
             \/ Deliver(i) \/ Redeliver(i)
      PROVE  TimerIsArmed'
    BY <1>5 DEF Dispatch, Publish, PublishReturns, Deliver, Redeliver, mainVars, statsVars,
        loopVars
<1>6. CASE SubscriptionFails \/ UNCHANGED vars
    BY <1>6 DEF SubscriptionFails, vars, mainVars, statsVars, loopVars
<1> QED
    BY <1>1, <1>2, <1>3, <1>4, <1>5, <1>6 DEF Next, MainStep, ItemStep, AnswerStep

\* When the last outstanding request is answered, or its publish has failed, the
\* generator that waits is not forgotten: the loop is on its way to its select,
\* or is there with the idle timer running (test/pubsub.go:97, "Cancel as soon as
\* we are idle (no more outstanding requests"; stats.go: the end of each event
\* and the head of the loop).
THEOREM CompleteTestIsArmed ==
    Spec => [](main = "wait" /\ ~cancelled /\ (\A i \in Items : ~Outstanding(i)) =>
                   loop = "head" \/ (loop = "select" /\ timerOn))
<1>1. Init => IInv /\ TimerIsArmed
    BY InitIInv DEF Init, StatsInit, TimerIsArmed
<1>2. IInv /\ TimerIsArmed /\ [Next]_vars => (IInv /\ TimerIsArmed)'
    BY NextKeepsIInv, NextKeepsTimer
<1>3. IInv /\ TimerIsArmed =>
        (main = "wait" /\ ~cancelled /\ (\A i \in Items : ~Outstanding(i)) =>
             loop = "head" \/ (loop = "select" /\ timerOn))
    BY DEF IInv, TypeOK, StatsTypeOK, OutstandingIsExact, TimerIsArmed
<1> QED
    BY <1>1, <1>2, <1>3, PTL DEF Spec

\* A round trip with a step of its own ahead that main has no part in.
TripGoesOn(i) ==
    \/ item[i] \in {"sent", "cancel"}
    \/ item[i] = "confirmed" /\ answer[i] \in {"none", "first"}

\* An outstanding message of a generator that waits is with the server, with a
\* goroutine that waits for its publish, or with a handler that reports it;
\* none is stuck between the source and the publish (parallel.go: ApplyParallel
\* returns only when every operation has; test/pubsub.go: the wait follows it).
THEOREM OutstandingGoesOn ==
    Spec => [](main = "wait" => \A i \in Items : Outstanding(i) => TripGoesOn(i))
<1>1. IInv => (main = "wait" => \A i \in Items : Outstanding(i) => TripGoesOn(i))
    BY DEF IInv, TypeOK, ItemStates, AnswerStates, SourceIsPublished, Outstanding,
           Answered, TripGoesOn
<1> QED
    BY <1>1, InitIInv, NextKeepsIInv, PTL DEF Spec
=============================================================================
