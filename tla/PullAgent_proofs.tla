--------------------------- MODULE PullAgent_proofs ---------------------------
(***************************************************************************)
(* For every set of requests, slots and runs: the pull worker keeps the      *)
(* promise of an at-least-once queue, never sends on a closed channel and    *)
(* never keeps a ghost task; and, with the single slot the Job template      *)
(* configures, its idle timeout never cancels a running task.  Without an     *)
(* idle timeout a cancelled worker always has its forced exit coming; with    *)
(* one a worker without tasks always has its timer running.                  *)
(***************************************************************************)
EXTENDS PullAgent, TLAPS

\* A handler that was given a request still holds it.
HandlersHoldRequests ==
    \A s \in Slots : handler[s] # "free" => message[s] \in Messages

Shape == TypeOK /\ HandlersHoldRequests

\* Process and subscription start in states of the declared shape.
LEMMA InitShape == Init => Shape
<1> SUFFICES ASSUME Init PROVE Shape
    OBVIOUS
<1>1. StatsTypeOK({TaskId(m) : m \in Messages})
    BY DEF Init, StatsInit, StatsTypeOK
<1>2. /\ request \in [Messages -> RequestStates]
      /\ published \subseteq Messages
    BY DEF Init, RequestStates
<1>3. /\ process \in ProcessStates
      /\ main \in MainStates
      /\ forced \in BOOLEAN
    BY DEF Init, ProcessStates, MainStates
<1>5. runs \in 1..MaxRuns
    BY PullAssumption, SMT DEF Init
<1>4. /\ handler \in [Slots -> HandlerStates]
      /\ message \in [Slots -> Messages \cup {NoMessage}]
      /\ HandlersHoldRequests
    BY DEF Init, HandlerStates, HandlersHoldRequests
<1> QED
    BY <1>1, <1>2, <1>3, <1>4, <1>5 DEF Shape, TypeOK

\* A process that ends leaves a state of the declared shape behind.
LEMMA EndKeepsShape ==
    ASSUME Shape, NEW how \in ProcessStates, ProcessEnds(how)
    PROVE  Shape'
    BY DEF ProcessEnds, StatsFresh, Shape, TypeOK, StatsTypeOK, brokerVars,
           HandlersHoldRequests, RequestStates, MainStates, HandlerStates

\* The loop's own branches keep its variables in their types and touch nothing
\* else.
LEMMA LoopFrame ==
    ASSUME Shape, Loop
    PROVE  /\ Shape'
           /\ UNCHANGED <<brokerVars, mainVars, handlerVars, closed, currentOps,
                          idleTime, timeoutSet>>
<1>1. /\ UNCHANGED <<brokerVars, mainVars, handlerVars, closed, currentOps,
                     idleTime, timeoutSet>>
      /\ cancelled' \in BOOLEAN
      /\ loop' \in {"head", "select", "gone"}
      /\ timerOn' \in BOOLEAN
    BY DEF Loop, LoopStep, LoopEnds, LoopWaits, LoopIdleOver, SelectDone,
           SelectLog, SelectTimer, Shape, TypeOK, StatsTypeOK
<1> QED
    BY <1>1 DEF Shape, TypeOK, StatsTypeOK, HandlersHoldRequests, brokerVars,
                mainVars, handlerVars

\* A handler's step, as long as its process lives: only its own slot moves, and
\* it keeps its request until it is free again.
LEMMA HandlerKeepsShape ==
    ASSUME Shape, NEW s \in Slots,
           HandlerStep(s) \/ \E m \in Messages : Deliver(s, m)
    PROVE  Shape'
<1> USE DEF Shape, TypeOK, StatsTypeOK, HandlersHoldRequests, HandlerStates,
            RequestStates, Goes, mainVars, brokerVars, statsVars, loopVars
<1>1. CASE StartTask(s)
    BY <1>1 DEF StartTask, ReceiveStart, Receive, TaskId
<1>2. CASE InvokeReturns(s)
    BY <1>2 DEF InvokeReturns
<1>3. CASE DoneTask(s)
    BY <1>3 DEF DoneTask, ReceiveDone, Receive, TaskId
<1>4. CASE Reply(s)
    <2>1. CASE ProcessEnds("crashed")
        BY <2>1, EndKeepsShape DEF ProcessStates
    <2>2. CASE Goes(s, "reply", "publishing")
               /\ UNCHANGED <<statsVars, brokerVars, mainVars, message>>
        BY <2>2
    <2> QED
        BY <1>4, <2>1, <2>2 DEF Reply
<1>5. CASE PublishReturns(s)
    BY <1>5 DEF PublishReturns
<1>6. CASE Ack(s) \/ Nack(s)
    BY <1>6 DEF Ack, Nack, Settles
<1>7. ASSUME NEW m \in Messages, Deliver(s, m)
      PROVE  Shape'
    BY <1>7 DEF Deliver
<1> QED
    BY <1>1, <1>2, <1>3, <1>4, <1>5, <1>6, <1>7 DEF HandlerStep

\* Every step keeps the shape.
LEMMA NextKeepsShape == Shape /\ [Next]_vars => Shape'
<1> SUFFICES ASSUME Shape, [Next]_vars PROVE Shape'
    OBVIOUS
<1> USE DEF ProcessStates
<1>1. CASE Connect
    BY <1>1 DEF Connect, Shape, TypeOK, StatsTypeOK, HandlersHoldRequests,
                MainStates, statsVars, loopVars, brokerVars, handlerVars
<1>2. CASE ConnectFails
    BY <1>2, EndKeepsShape DEF ConnectFails
<1>3. CASE SetStatsIdleTimeout
    BY <1>3 DEF SetStatsIdleTimeout, ReceiveTimeout, Receive, Shape, TypeOK,
                StatsTypeOK, HandlersHoldRequests, MainStates, brokerVars, handlerVars
<1>4. CASE ReceiveFails
    BY <1>4 DEF ReceiveFails, Shape, TypeOK, StatsTypeOK, HandlersHoldRequests,
                MainStates, statsVars, loopVars, brokerVars, handlerVars
<1>5. CASE ReceiveReturns
    <2>1. CASE ProcessEnds("exit1")
        BY <2>1, EndKeepsShape
    <2>2. CASE /\ main' = "stop"
               /\ closed' = TRUE
               /\ UNCHANGED <<cancelled, loopVars, brokerVars, process, forced,
                              runs, handlerVars>>
        BY <2>2 DEF Shape, TypeOK, StatsTypeOK, HandlersHoldRequests, MainStates,
                    loopVars, brokerVars, handlerVars
    <2> QED
        BY <1>5, <2>1, <2>2 DEF ReceiveReturns
<1>6. CASE StopReturns
    BY <1>6, EndKeepsShape DEF StopReturns
<1>7. CASE Signal
    <2>1. CASE ProcessEnds("exit1")
        BY <2>1, EndKeepsShape
    <2>2. CASE /\ cancelled' = TRUE
               /\ forced' = TRUE
               /\ UNCHANGED <<closed, loopVars, brokerVars, process, main, runs,
                              handlerVars>>
        BY <2>2 DEF Shape, TypeOK, StatsTypeOK, HandlersHoldRequests,
                    loopVars, brokerVars, handlerVars
    <2> QED
        BY <1>7, <2>1, <2>2 DEF Signal
<1>8. CASE ForcedExit \/ Crash
    BY <1>8, EndKeepsShape DEF ForcedExit, Crash
<1>9. CASE Restart
    BY <1>9, PullAssumption
    DEF Restart, Shape, TypeOK, StatsTypeOK, HandlersHoldRequests, statsVars,
        loopVars, brokerVars, handlerVars
<1>10. CASE Loop
    BY <1>10, LoopFrame
<1>11. ASSUME NEW s \in Slots, HandlerStep(s) \/ \E m \in Messages : Deliver(s, m)
       PROVE  Shape'
    BY <1>11, HandlerKeepsShape
<1>12. ASSUME NEW m \in Messages, LeaseExpires(m)
       PROVE  Shape'
    BY <1>12 DEF LeaseExpires, Shape, TypeOK, StatsTypeOK, HandlersHoldRequests,
                 RequestStates, statsVars, loopVars, mainVars, handlerVars
<1>13. CASE UNCHANGED vars
    BY <1>13 DEF vars, Shape, TypeOK, StatsTypeOK, HandlersHoldRequests,
                 statsVars, loopVars, brokerVars, mainVars, handlerVars
<1> QED
    BY <1>1, <1>2, <1>3, <1>4, <1>5, <1>6, <1>7, <1>8, <1>9, <1>10, <1>11, <1>12,
       <1>13 DEF Next, MainStep

\* The state of the worker and of its subscription keeps its shape.
THEOREM TypeCorrect == Spec => []TypeOK
<1>1. Shape => TypeOK
    BY DEF Shape
<1> QED
    BY <1>1, InitShape, NextKeepsShape, PTL DEF Spec

-----------------------------------------------------------------------------
(* At least once.                                                           *)

\* The promise with the one fact it rests on: the handler that is about to
\* acknowledge has seen the result of its publish.
AnswersFirst ==
    /\ AckedIsPublished
    /\ \A s \in Slots : handler[s] = "ack" => message[s] \in published

\* A step of the queue that may do nothing.
QueueStep == [Promise!Next]_<<published, Settled>>

\* Steps that leave subscription and topic alone and bring no handler to its
\* acknowledgement keep the promise, and the queue sees nothing.
LEMMA QuietKeepsPromise ==
    ASSUME AnswersFirst, UNCHANGED brokerVars,
           \A s \in Slots : handler'[s] = "ack" => handler[s] = "ack" /\ message'[s] = message[s]
    PROVE  AnswersFirst' /\ QueueStep
    BY DEF AnswersFirst, AckedIsPublished, brokerVars, QueueStep, Settled

\* A process that ends takes no answer and no acknowledgement back.
LEMMA EndKeepsPromise ==
    ASSUME AnswersFirst, NEW how, ProcessEnds(how)
    PROVE  AnswersFirst' /\ QueueStep
<1>1. /\ UNCHANGED brokerVars
      /\ \A s \in Slots : handler'[s] # "ack"
    BY DEF ProcessEnds
<1> QED
    BY <1>1, QuietKeepsPromise

\* A handler publishes before it acknowledges, and only its acknowledgement
\* settles a request.
LEMMA HandlerKeepsPromise ==
    ASSUME Shape, AnswersFirst, NEW s \in Slots, HandlerStep(s)
    PROVE  AnswersFirst' /\ QueueStep
<1> USE DEF Shape, TypeOK, HandlersHoldRequests
<1>1. CASE StartTask(s) \/ InvokeReturns(s) \/ DoneTask(s)
    <2>1. /\ UNCHANGED <<brokerVars, message>>
          /\ \A t \in Slots : handler'[t] = "ack" => handler[t] = "ack"
        BY <1>1 DEF StartTask, InvokeReturns, DoneTask, Goes
    <2> QED
        BY <2>1, QuietKeepsPromise
<1>2. CASE Reply(s)
    <2>1. CASE ProcessEnds("crashed")
        BY <2>1, EndKeepsPromise
    <2>2. CASE Goes(s, "reply", "publishing")
               /\ UNCHANGED <<statsVars, brokerVars, mainVars, message>>
        <3>1. \A t \in Slots : handler'[t] = "ack" => handler[t] = "ack"
            BY <2>2 DEF Goes
        <3> QED
            BY <2>2, <3>1, QuietKeepsPromise
    <2> QED
        BY <1>2, <2>1, <2>2 DEF Reply
<1>3. CASE PublishReturns(s)
    <2>1. /\ message[s] \in Messages
          /\ UNCHANGED <<request, message>>
          /\ published' = published \/ published' = published \cup {message[s]}
        BY <1>3 DEF PublishReturns, Goes
    <2>2. handler'[s] = "ack" => published' = published \cup {message[s]}
        BY <1>3 DEF PublishReturns, Goes
    <2>3. \A t \in Slots \ {s} : handler'[t] = handler[t]
        BY <1>3 DEF PublishReturns, Goes
    <2>4. AnswersFirst'
        BY <2>1, <2>2, <2>3 DEF AnswersFirst, AckedIsPublished
    <2>5. Settled' = Settled
        BY <2>1 DEF Settled
    <2> QED
        BY <2>1, <2>4, <2>5 DEF QueueStep, Promise!Next, Promise!Answer
<1>4. CASE Ack(s) \/ Nack(s)
    <2> DEFINE m == message[s]
    <2>1. /\ m \in Messages
          /\ published' = published
          /\ handler'[s] = "free"
          /\ \A t \in Slots \ {s} : handler'[t] = handler[t] /\ message'[t] = message[t]
        BY <1>4 DEF Ack, Nack, Settles, Goes
    <2>2. \A n \in Messages \ {m} : request'[n] = request[n]
        BY <1>4 DEF Ack, Nack, Settles
    <2>3. request[m] = "acked" => request'[m] = "acked"
        BY <2>1, <1>4 DEF Ack, Nack, Settles
    <2>4. request'[m] = "acked" /\ request[m] # "acked" => m \in published
        BY <2>1, <1>4 DEF Ack, Nack, Settles, AnswersFirst, Goes
    <2>5. AnswersFirst'
        BY <2>1, <2>2, <2>4 DEF AnswersFirst, AckedIsPublished
    <2>6. CASE request'[m] = "acked"
        <3>1. m \in published
            BY <2>1, <2>4, <2>6 DEF AnswersFirst, AckedIsPublished
        <3>2. Settled' = Settled \cup {m}
            BY <2>1, <2>2, <2>6 DEF Settled
        <3> QED
            BY <2>1, <2>5, <3>1, <3>2 DEF QueueStep, Promise!Next, Promise!Settle
    <2>7. CASE request'[m] # "acked"
        <3>1. Settled' = Settled
            BY <2>1, <2>2, <2>3, <2>7 DEF Settled
        <3> QED
            BY <2>1, <2>5, <3>1 DEF QueueStep
    <2> QED
        BY <2>6, <2>7
<1> QED
    BY <1>1, <1>2, <1>3, <1>4 DEF HandlerStep

\* Every step keeps acknowledgements behind answers and is, seen from the
\* queue, an answer, the settling of an answered request, or nothing.
LEMMA NextKeepsPromise ==
    ASSUME Shape, AnswersFirst, [Next]_vars
    PROVE  AnswersFirst' /\ QueueStep
<1>1. CASE \/ Connect \/ SetStatsIdleTimeout \/ ReceiveFails \/ Restart \/ Loop
           \/ UNCHANGED vars
    <2>1. UNCHANGED <<brokerVars, handlerVars>>
        BY <1>1 DEF Connect, SetStatsIdleTimeout, ReceiveFails, Restart, Loop, vars
    <2> QED
        BY <2>1, QuietKeepsPromise DEF handlerVars
<1>2. CASE ConnectFails \/ ForcedExit \/ Crash \/ StopReturns
    BY <1>2, EndKeepsPromise DEF ConnectFails, ForcedExit, Crash, StopReturns
<1>3. CASE ReceiveReturns \/ Signal
    <2>1. ProcessEnds("exit1") \/ UNCHANGED <<brokerVars, handlerVars>>
        BY <1>3 DEF ReceiveReturns, Signal
    <2> QED
        BY <2>1, EndKeepsPromise, QuietKeepsPromise DEF handlerVars
<1>4. ASSUME NEW s \in Slots, HandlerStep(s)
      PROVE  AnswersFirst' /\ QueueStep
    BY <1>4, HandlerKeepsPromise
<1>5. ASSUME NEW s \in Slots, NEW m \in Messages, Deliver(s, m)
      PROVE  AnswersFirst' /\ QueueStep
    <2>1. /\ published' = published
          /\ \A t \in Slots : handler'[t] = "ack" =>
                 handler[t] = "ack" /\ message'[t] = message[t]
        BY <1>5 DEF Deliver, Goes, Shape, TypeOK
    <2>2. \A n \in Messages : request'[n] = "acked" <=> request[n] = "acked"
        BY <1>5 DEF Deliver, Shape, TypeOK
    <2> QED
        BY <2>1, <2>2 DEF AnswersFirst, AckedIsPublished, QueueStep, Settled
<1>6. ASSUME NEW m \in Messages, LeaseExpires(m)
      PROVE  AnswersFirst' /\ QueueStep
    <2>1. UNCHANGED <<published, handler, message>>
        BY <1>6 DEF LeaseExpires, handlerVars
    <2>2. \A n \in Messages : request'[n] = "acked" <=> request[n] = "acked"
        BY <1>6 DEF LeaseExpires, Shape, TypeOK
    <2> QED
        BY <2>1, <2>2 DEF AnswersFirst, AckedIsPublished, QueueStep, Settled
<1> QED
    BY <1>1, <1>2, <1>3, <1>4, <1>5, <1>6 DEF Next, MainStep

\* At first nothing is answered and nothing acknowledged.
LEMMA InitPromise == Init => AnswersFirst /\ Promise!Init
    BY DEF Init, AnswersFirst, AckedIsPublished, Promise!Init, Settled

\* A request that was acknowledged has an answer in the response topic.
THEOREM AtLeastOnceAnswer == Spec => []AckedIsPublished
<1>1. Shape /\ AnswersFirst /\ [Next]_vars => (Shape /\ AnswersFirst)'
    BY NextKeepsShape, NextKeepsPromise
<1>2. AnswersFirst => AckedIsPublished
    BY DEF AnswersFirst
<1> QED
    BY <1>1, <1>2, InitShape, InitPromise, PTL DEF Spec

\* The pull worker implements the at-least-once queue.
THEOREM ImplementsPromise == Spec => KeepsPromise
<1>1. Shape /\ AnswersFirst /\ [Next]_vars => (Shape /\ AnswersFirst)'
    BY NextKeepsShape, NextKeepsPromise
<1>2. Shape /\ AnswersFirst /\ [Next]_vars => [Promise!Next]_<<published, Settled>>
    BY NextKeepsPromise DEF QueueStep
<1> QED
    BY <1>1, <1>2, InitShape, InitPromise, PTL DEF Spec, KeepsPromise, Promise!Spec

-----------------------------------------------------------------------------
(* The table of running tasks and the idle detector.                        *)

\* The cached idle time and a timer that can still be read agree with the table.
IdleIsCurrent ==
    /\ idleTime => currentOps = {}
    /\ loop = "select" /\ timerOn => idleTime

\* The channel is closed when every handler is done and no other can start.
ClosedIsQuiet == closed => main = "stop" /\ \A s \in Slots : handler[s] = "free"

TableInv == NoGhostTask /\ IdleIsCurrent /\ ClosedIsQuiet

\* With one slot the table is complete as well: a running task is in it.
NoMissedTask == (\E s \in Slots : Working(s)) => currentOps # {}

\* A new process starts with an empty table.
LEMMA EndKeepsTable ==
    ASSUME NEW how, ProcessEnds(how)
    PROVE  TableInv' /\ NoMissedTask'
    BY DEF ProcessEnds, StatsFresh, TableInv, NoGhostTask, IdleIsCurrent,
           ClosedIsQuiet, NoMissedTask, Working

\* A step that leaves the table and the working handlers alone keeps both.
LEMMA QuietKeepsTable ==
    ASSUME TableInv, UNCHANGED currentOps, IdleIsCurrent', ClosedIsQuiet',
           \A s \in Slots : Working(s)' <=> Working(s)
    PROVE  TableInv' /\ (NoMissedTask => NoMissedTask')
    BY DEF TableInv, NoGhostTask, NoMissedTask

\* All tasks are reported under one id.  A start therefore leaves exactly that
\* id in the table with the starting handler working, and an end empties it.
LEMMA HandlerKeepsTable ==
    ASSUME Shape, TableInv, NEW s \in Slots,
           HandlerStep(s) \/ \E m \in Messages : Deliver(s, m)
    PROVE  /\ TableInv'
           /\ (\A t \in Slots : t = s) /\ NoMissedTask => NoMissedTask'
<1> USE DEF Shape, TypeOK, StatsTypeOK, TaskId
<1>1. CASE StartTask(s)
    <2>1. /\ Working(s)'
          /\ currentOps' = currentOps \cup {""}
          /\ idleTime' = (currentOps' = {})
          /\ loop' = "head"
          /\ closed' = FALSE
        BY <1>1 DEF StartTask, ReceiveStart, Receive, Goes, Working
    <2> QED
        BY <2>1 DEF TableInv, NoGhostTask, IdleIsCurrent, ClosedIsQuiet, NoMissedTask
<1>2. CASE DoneTask(s)
    <2>1. /\ ~Working(s)'
          /\ currentOps' = {}
          /\ idleTime' = TRUE
          /\ loop' = "head"
          /\ closed' = FALSE
        BY <1>2 DEF DoneTask, ReceiveDone, Receive, Goes, Working
    <2> QED
        BY <2>1 DEF TableInv, NoGhostTask, IdleIsCurrent, ClosedIsQuiet, NoMissedTask
<1>3. CASE Reply(s) /\ ProcessEnds("crashed")
    BY <1>3, EndKeepsTable
<1>4. CASE \/ InvokeReturns(s) \/ PublishReturns(s) \/ Ack(s) \/ Nack(s)
           \/ Goes(s, "reply", "publishing")
              /\ UNCHANGED <<statsVars, brokerVars, mainVars, message>>
           \/ \E m \in Messages : Deliver(s, m)
    <2>1. /\ UNCHANGED statsVars
          /\ UNCHANGED mainVars
        BY <1>4 DEF InvokeReturns, PublishReturns, Ack, Nack, Settles, Deliver
    <2>2. \A t \in Slots : Working(t)' <=> Working(t)
        BY <1>4 DEF InvokeReturns, PublishReturns, Ack, Nack, Settles, Deliver,
                    Goes, Working
    <2>3. \/ handler[s] # "free"
          \/ main = "receive"
        BY <1>4 DEF InvokeReturns, PublishReturns, Ack, Nack, Settles, Deliver, Goes
    <2>4. ClosedIsQuiet'
        BY <2>1, <2>3 DEF TableInv, ClosedIsQuiet, statsVars, mainVars
    <2> QED
        BY <2>1, <2>2, <2>4, QuietKeepsTable
        DEF statsVars, loopVars, TableInv, IdleIsCurrent
<1> QED
    BY <1>1, <1>2, <1>3, <1>4 DEF HandlerStep, Reply

\* Every step keeps the table free of ghosts and, with at most one slot, free
\* of gaps.
LEMMA NextKeepsTable ==
    ASSUME Shape, TableInv, [Next]_vars
    PROVE  /\ TableInv'
           /\ (\A s, t \in Slots : s = t) /\ NoMissedTask => NoMissedTask'
<1>1. CASE \/ Connect \/ ReceiveFails \/ Restart \/ UNCHANGED vars
           \/ \E m \in Messages : LeaseExpires(m)
    <2>1. /\ UNCHANGED <<statsVars, handler>>
          /\ main = "stop" => main' = "stop"
        BY <1>1 DEF Connect, ReceiveFails, Restart, LeaseExpires, vars,
                    handlerVars, mainVars
    <2> QED
        BY <2>1, QuietKeepsTable
        DEF Working, TableInv, IdleIsCurrent, ClosedIsQuiet, statsVars, loopVars
<1>2. CASE ConnectFails \/ ForcedExit \/ Crash \/ StopReturns
    BY <1>2, EndKeepsTable DEF ConnectFails, ForcedExit, Crash, StopReturns
<1>3. CASE SetStatsIdleTimeout
    <2>1. /\ UNCHANGED <<currentOps, handler>>
          /\ idleTime' = (currentOps' = {})
          /\ loop' = "head"
          /\ closed' = FALSE
        BY <1>3 DEF SetStatsIdleTimeout, ReceiveTimeout, Receive, handlerVars,
                    Shape, TypeOK, StatsTypeOK
    <2> QED
        BY <2>1, QuietKeepsTable DEF Working, IdleIsCurrent, ClosedIsQuiet
<1>4. CASE ReceiveReturns
    <2>1. CASE ProcessEnds("exit1")
        BY <2>1, EndKeepsTable
    <2>2. CASE main' = "stop" /\ UNCHANGED <<cancelled, loopVars, brokerVars,
                    process, forced, runs, handlerVars>>
        BY <2>2, <1>4, QuietKeepsTable
        DEF ReceiveReturns, Working, TableInv, IdleIsCurrent, ClosedIsQuiet,
            loopVars, handlerVars
    <2> QED
        BY <1>4, <2>1, <2>2 DEF ReceiveReturns
<1>5. CASE Signal
    <2>1. CASE ProcessEnds("exit1")
        BY <2>1, EndKeepsTable
    <2>2. CASE UNCHANGED <<closed, loopVars, brokerVars, process, main, runs,
                           handlerVars>>
        BY <2>2, QuietKeepsTable
        DEF Working, TableInv, IdleIsCurrent, ClosedIsQuiet, loopVars, handlerVars
    <2> QED
        BY <1>5, <2>1, <2>2 DEF Signal
<1>6. CASE Loop
    <2>1. loop' = "select" /\ timerOn' => idleTime'
        BY <1>6 DEF Loop, LoopStep, LoopEnds, LoopWaits, LoopIdleOver, SelectDone,
                    SelectLog, SelectTimer, TableInv, IdleIsCurrent
    <2> QED
        BY <2>1, <1>6, LoopFrame, QuietKeepsTable
        DEF Working, TableInv, IdleIsCurrent, ClosedIsQuiet, mainVars, handlerVars
<1>7. ASSUME NEW s \in Slots, HandlerStep(s) \/ \E m \in Messages : Deliver(s, m)
      PROVE  /\ TableInv'
             /\ (\A u, t \in Slots : u = t) /\ NoMissedTask => NoMissedTask'
    BY <1>7, HandlerKeepsTable
<1> QED
    BY <1>1, <1>2, <1>3, <1>4, <1>5, <1>6, <1>7 DEF Next, MainStep

\* At first the table is empty and nobody works.
LEMMA InitTable == Init => TableInv /\ NoMissedTask
    BY DEF Init, StatsInit, TableInv, NoGhostTask, IdleIsCurrent, ClosedIsQuiet,
           NoMissedTask, Working

\* The loop never counts a task that nobody runs, for any number of slots.
THEOREM NoGhosts == Spec => []NoGhostTask
<1>1. Shape /\ TableInv /\ [Next]_vars => (Shape /\ TableInv)'
    BY NextKeepsShape, NextKeepsTable
<1>2. TableInv => NoGhostTask
    BY DEF TableInv
<1> QED
    BY <1>1, <1>2, InitShape, InitTable, PTL DEF Spec

\* Stop never closes the channel under a sender, which would panic.
THEOREM StopIsSafe == Spec => []NobodySendsAfterStop
<1>1. Shape /\ TableInv /\ [Next]_vars => (Shape /\ TableInv)'
    BY NextKeepsShape, NextKeepsTable
<1>2. TableInv => NobodySendsAfterStop
    BY DEF TableInv, ClosedIsQuiet, NobodySendsAfterStop, Sending
<1> QED
    BY <1>1, <1>2, InitShape, InitTable, PTL DEF Spec

\* With one outstanding message, which is what the Job template configures, the
\* idle timeout never cancels a running task.
THEOREM OneSlotIdle ==
    ASSUME \A s, t \in Slots : s = t
    PROVE  Spec => IdleMeansNoTask
<1> DEFINE OneInv == Shape /\ TableInv /\ NoMissedTask
<1>1. OneInv /\ [Next]_vars => OneInv'
    BY NextKeepsShape, NextKeepsTable
<1>2. OneInv /\ [Next]_vars =>
         [CancelsWhenIdle => \A s \in Slots : ~Working(s)]_vars
    <2> SUFFICES ASSUME OneInv, CancelsWhenIdle
                 PROVE  \A s \in Slots : ~Working(s)
        OBVIOUS
    <2>1. idleTime
        BY DEF CancelsWhenIdle, IdleExpires, LoopIdleOver, SelectTimer, TableInv,
               IdleIsCurrent
    <2> QED
        BY <2>1 DEF TableInv, IdleIsCurrent, NoMissedTask
<1>3. Init => OneInv
    BY InitShape, InitTable
<1> QED
    BY <1>1, <1>2, <1>3, PTL DEF Spec, IdleMeansNoTask

-----------------------------------------------------------------------------
(* What can leave a handler behind.                                         *)

\* Without an idle timeout only a signal cancels the program, and the signal
\* starts the countdown of the forced exit.
LoopLives ==
    /\ ~timeoutSet /\ ~timerOn
    /\ main # "setTimeout"
    /\ cancelled => forced
    /\ main = "stop" \/ closed \/ loop = "gone" => forced

\* Every step of a worker that has none keeps it so.
LEMMA NextKeepsLoop ==
    ASSUME ~IdleTimeout, Shape, LoopLives, [Next]_vars
    PROVE  LoopLives'
<1>1. ASSUME NEW how, ProcessEnds(how) PROVE LoopLives'
    BY <1>1 DEF ProcessEnds, StatsFresh, LoopLives
<1>2. CASE Loop
    <2> USE <1>2 DEF Loop, mainVars, LoopLives
    <2>1. CASE LoopWaits
        BY <2>1, Zenon DEF LoopWaits
    <2>2. CASE LoopEnds
        BY <2>2 DEF LoopEnds
    <2>3. CASE SelectDone
        BY <2>3 DEF SelectDone
    <2>4. CASE SelectLog
        BY <2>4 DEF SelectLog
    <2>5. CASE LoopIdleOver \/ SelectTimer
        BY <2>5 DEF LoopIdleOver, SelectTimer
    <2> QED
        BY <2>1, <2>2, <2>3, <2>4, <2>5 DEF LoopStep
<1>3. CASE MainStep \/ Signal \/ ForcedExit \/ Crash \/ Restart
    BY <1>1, <1>3 DEF MainStep, Connect, ConnectFails, SetStatsIdleTimeout, ReceiveFails,
        ReceiveReturns, StopReturns, Signal, ForcedExit, Crash, Restart, statsVars,
        loopVars, LoopLives
<1>4. ASSUME NEW s \in Slots, StartTask(s) \/ DoneTask(s) PROVE LoopLives'
    BY <1>4 DEF StartTask, DoneTask, ReceiveStart, ReceiveDone, Receive, mainVars, LoopLives
<1>5. ASSUME NEW s \in Slots, Reply(s) PROVE LoopLives'
    BY <1>1, <1>5 DEF Reply, statsVars, loopVars, mainVars, LoopLives
<1>6. ASSUME NEW s \in Slots,
             \/ InvokeReturns(s) \/ PublishReturns(s) \/ Ack(s) \/ Nack(s)
             \/ \E m \in Messages : Deliver(s, m)
      PROVE  LoopLives'
    BY <1>6 DEF InvokeReturns, PublishReturns, Ack, Nack, Settles, Deliver, statsVars,
        loopVars, mainVars, LoopLives
<1>7. CASE (\E m \in Messages : LeaseExpires(m)) \/ UNCHANGED vars
    BY <1>7 DEF LeaseExpires, vars, statsVars, loopVars, mainVars, LoopLives
<1> QED
    BY <1>2, <1>3, <1>4, <1>5, <1>6, <1>7 DEF Next, HandlerStep

\* A worker without an idle timeout is never cancelled, and never loses the
\* goroutine its handlers report to, without the countdown of the forced exit:
\* what CancelledAgentStops misses is the idle timeout's own cancel, which
\* starts none (stats.go: cfg.cancel; main.go: the countdown is the signal
\* handler's).
THEOREM OnlyTheIdleTimeoutHangs ==
    ASSUME ~IdleTimeout
    PROVE  Spec => [](cancelled \/ loop = "gone" => forced)
<1>1. Init => Shape /\ LoopLives
    BY InitShape DEF Init, StatsInit, LoopLives
<1>2. Shape /\ LoopLives /\ [Next]_vars => (Shape /\ LoopLives)'
    BY NextKeepsShape, NextKeepsLoop
<1>3. LoopLives => (cancelled \/ loop = "gone" => forced)
    BY DEF LoopLives
<1> QED
    BY <1>1, <1>2, <1>3, PTL DEF Spec

-----------------------------------------------------------------------------
(* What the end of an idle worker rests on.                                 *)

\* The idle timeout is set before Receive starts.  From then on the cached idle
\* time is never missing, an idle loop that waits has its timer running, and
\* only a cancelled context ends the loop.
TimerIsArmed ==
    /\ main \notin {"connect", "setTimeout"} => timeoutSet
    /\ timeoutSet /\ currentOps = {} => idleTime
    /\ timeoutSet /\ idleTime /\ loop = "select" => timerOn \/ cancelled
    /\ closed \/ loop = "gone" => cancelled

\* Every step of a worker with an idle timeout keeps its timer armed.
LEMMA NextKeepsTimer ==
    ASSUME IdleTimeout, TimerIsArmed, [Next]_vars
    PROVE  TimerIsArmed'
<1>1. ASSUME NEW how, ProcessEnds(how) PROVE TimerIsArmed'
    BY <1>1 DEF ProcessEnds, StatsFresh, TimerIsArmed
<1>2. CASE Loop
    <2> USE <1>2 DEF Loop, mainVars, TimerIsArmed
    <2>1. CASE LoopWaits
        <3>1. /\ UNCHANGED <<main, timeoutSet, currentOps, idleTime, closed, cancelled>>
              /\ loop = "head" /\ loop' = "select"
              /\ timeoutSet /\ idleTime => timerOn'
            BY <2>1, Zenon DEF LoopWaits
        <3> QED
            BY <3>1
    <2>2. CASE LoopEnds
        BY <2>2 DEF LoopEnds
    <2>3. CASE SelectDone
        BY <2>3 DEF SelectDone
    <2>4. CASE SelectLog
        BY <2>4 DEF SelectLog
    <2>5. CASE LoopIdleOver \/ SelectTimer
        BY <2>5 DEF LoopIdleOver, SelectTimer
    <2> QED
        BY <2>1, <2>2, <2>3, <2>4, <2>5 DEF LoopStep
<1>3. CASE SetStatsIdleTimeout
    BY <1>3 DEF SetStatsIdleTimeout, ReceiveTimeout, Receive, TimerIsArmed
<1>4. CASE \/ Connect \/ ConnectFails \/ ReceiveFails \/ ReceiveReturns \/ StopReturns
           \/ Signal \/ ForcedExit \/ Crash \/ Restart
    BY <1>1, <1>4 DEF Connect, ConnectFails, ReceiveFails, ReceiveReturns, StopReturns,
        Signal, ForcedExit, Crash, Restart, statsVars, loopVars, TimerIsArmed
<1>5. ASSUME NEW s \in Slots, StartTask(s) \/ DoneTask(s) PROVE TimerIsArmed'
    <2>1. /\ UNCHANGED <<main, timeoutSet, closed, cancelled>>
          /\ loop' = "head"
          /\ currentOps' = {} => idleTime'
        BY <1>5 DEF StartTask, DoneTask, ReceiveStart, ReceiveDone, Receive, mainVars
    <2> QED
        BY <2>1 DEF TimerIsArmed
<1>6. ASSUME NEW s \in Slots, Reply(s) PROVE TimerIsArmed'
    BY <1>1, <1>6 DEF Reply, statsVars, loopVars, mainVars, TimerIsArmed
<1>7. ASSUME NEW s \in Slots,
             \/ InvokeReturns(s) \/ PublishReturns(s) \/ Ack(s) \/ Nack(s)
             \/ \E m \in Messages : Deliver(s, m)
      PROVE  TimerIsArmed'
    BY <1>7 DEF InvokeReturns, PublishReturns, Ack, Nack, Settles, Deliver, statsVars,
        loopVars, mainVars, TimerIsArmed
<1>8. CASE (\E m \in Messages : LeaseExpires(m)) \/ UNCHANGED vars
    BY <1>8 DEF LeaseExpires, vars, statsVars, loopVars, mainVars, TimerIsArmed
<1> QED
    BY <1>2, <1>3, <1>4, <1>5, <1>6, <1>7, <1>8 DEF Next, MainStep, HandlerStep

\* A worker with an idle timeout whose handlers all rest is never missed by its
\* idle detector: the loop is on its way to its select, or is there with the
\* timer running, or the program is cancelled already.  Three things could break
\* it: a task left in the table, an idle time that is cleared and not taken
\* again, a timer that is stopped and not started again (stats.go: the head of
\* the loop and the end of each event).
THEOREM IdleAgentIsArmed ==
    ASSUME IdleTimeout
    PROVE  Spec => [](main = "receive" /\ ~cancelled /\ (\A s \in Slots : ~Working(s)) =>
                          loop = "head" \/ (loop = "select" /\ timerOn))
<1> DEFINE Inv == Shape /\ TableInv /\ TimerIsArmed
<1>1. Init => Inv
    BY InitShape, InitTable DEF Init, StatsInit, TimerIsArmed
<1>2. Inv /\ [Next]_vars => Inv'
    BY NextKeepsShape, NextKeepsTable, NextKeepsTimer
<1>3. Inv => (main = "receive" /\ ~cancelled /\ (\A s \in Slots : ~Working(s)) =>
                  loop = "head" \/ (loop = "select" /\ timerOn))
    BY DEF Shape, TypeOK, StatsTypeOK, TableInv, NoGhostTask, TimerIsArmed
<1> QED
    BY <1>1, <1>2, <1>3, PTL DEF Spec

\* How many steps a handler is from having settled its message.
StepsLeft ==
    [h \in HandlerStates |->
        CASE h = "start"              -> 6
          [] h = "invoke"             -> 5
          [] h \in {"done", "doneErr"} -> 4
          [] h = "reply"              -> 3
          [] h = "publishing"         -> 2
          [] h \in {"ack", "nack"}     -> 1
          [] OTHER                    -> 0]

\* A slot keeps its message where it is, comes closer to having settled it, or
\* is free and takes one from a Receive that was not cancelled.
SlotMoves(s) ==
    \/ handler'[s] = handler[s] /\ (handler[s] = "free" \/ message'[s] = message[s])
    \/ /\ StepsLeft[handler'[s]] < StepsLeft[handler[s]]
       /\ handler'[s] = "free" \/ message'[s] = message[s]
    \/ /\ handler[s] = "free" /\ handler'[s] \in {"start", "nack"}
       /\ main = "receive" /\ ~cancelled

\* Whatever step the worker takes, each of its slots moves that way.
LEMMA NextMovesSlot ==
    ASSUME Shape, [Next]_vars, NEW s \in Slots
    PROVE  SlotMoves(s)
<1>0. /\ handler \in [Slots -> HandlerStates]
      /\ message \in [Slots -> Messages \cup {NoMessage}]
    BY DEF Shape, TypeOK
<1>1. ASSUME NEW how, ProcessEnds(how) PROVE SlotMoves(s)
    BY <1>0, <1>1 DEF ProcessEnds, SlotMoves, StepsLeft, HandlerStates
<1>2. ASSUME UNCHANGED handlerVars PROVE SlotMoves(s)
    BY <1>2 DEF handlerVars, SlotMoves
<1>3. CASE MainStep \/ Signal \/ ForcedExit \/ Crash \/ Restart \/ Loop \/ UNCHANGED vars
           \/ \E m \in Messages : LeaseExpires(m)
    BY <1>1, <1>2, <1>3 DEF MainStep, Connect, ConnectFails, SetStatsIdleTimeout,
        ReceiveFails, ReceiveReturns, StopReturns, Signal, ForcedExit, Crash, Restart,
        Loop, LeaseExpires, vars
<1>4. ASSUME NEW t \in Slots, NEW m \in Messages, Deliver(t, m) PROVE SlotMoves(s)
    BY <1>0, <1>4 DEF Deliver, Goes, SlotMoves
<1>5. ASSUME NEW t \in Slots, HandlerStep(t) PROVE SlotMoves(s)
    <2>1. ASSUME NEW from \in HandlerStates, NEW to \in HandlerStates, Goes(t, from, to),
                 message' = message, StepsLeft[to] < StepsLeft[from]
          PROVE  SlotMoves(s)
        BY <1>0, <2>1 DEF Goes, SlotMoves
    <2>2. CASE StartTask(t) \/ InvokeReturns(t) \/ DoneTask(t) \/ PublishReturns(t)
        BY <2>1, <2>2 DEF StartTask, InvokeReturns, DoneTask, PublishReturns, StepsLeft,
            HandlerStates
    <2>3. CASE Reply(t)
        BY <1>1, <2>1, <2>3 DEF Reply, StepsLeft, HandlerStates
    <2>4. CASE Ack(t) \/ Nack(t)
        BY <1>0, <2>4 DEF Ack, Nack, Settles, Goes, SlotMoves, StepsLeft, HandlerStates
    <2> QED
        BY <1>5, <2>2, <2>3, <2>4 DEF HandlerStep
<1> QED
    BY <1>3, <1>4, <1>5 DEF Next

\* A handler never goes back: it reports its task, publishes and settles in at
\* most six steps, it has the one message until it is free again, and after a
\* cancel no slot starts over (pubsub.go: handleMessage and the callback).
\* What HandlersSettle adds is that each of those steps is taken.
THEOREM HandlersRunOut == Spec => [][\A s \in Slots : SlotMoves(s)]_vars
<1>1. Shape /\ [Next]_vars => [\A s \in Slots : SlotMoves(s)]_vars
    BY NextMovesSlot
<1> QED
    BY <1>1, InitShape, NextKeepsShape, PTL DEF Spec
=============================================================================
