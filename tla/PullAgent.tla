------------------------------ MODULE PullAgent ------------------------------
(***************************************************************************)
(* The Pub/Sub pull worker of the HTC agent: `agent serve pubsub-pull`.     *)
(*                                                                          *)
(* One process: main connects to the gRPC backend, configures the idle      *)
(* timeout and stays in sub.Receive; the Pub/Sub client runs one handler    *)
(* per outstanding message; every handler brackets the gRPC call with the    *)
(* two blocking sends of StatsLoop, publishes the answer and acknowledges    *)
(* the request when the answer is published.  An idle timeout or a signal    *)
(* cancels the context everything runs under.                               *)
(*                                                                          *)
(* Around it: the subscription (external), which hands a request out again   *)
(* after a nack or when its lease expires, and the restart of a process that *)
(* ended or was killed.                                                      *)
(***************************************************************************)
EXTENDS StatsLoop, Naturals

CONSTANTS
    Messages,      \* the requests in the subscription
    NoAttributes,  \* those of them that carry no attributes at all
    Slots,         \* one per outstanding message: --maxoutstandingmessages
    IdleTimeout,   \* --idleTimeout was given
    NoMessage,     \* a free slot
    MaxRuns        \* bound on the number of times the process is started

ASSUME PullAssumption ==
    /\ NoAttributes \subseteq Messages
    /\ IdleTimeout \in BOOLEAN
    /\ NoMessage \notin Messages
    /\ MaxRuns \in Nat \ {0}

VARIABLES
    request,    \* request[m]: in the subscription, leased out, or acknowledged
    published,  \* the requests whose answer is in the response topic
    process,    \* the agent process: running, or how it ended
    main,       \* where main is
    forced,     \* the forced exit after a signal is counting down
    handler,    \* handler[s]: where the handler in slot s is
    message,    \* message[s]: the request the handler in slot s works on
    runs        \* how often the process was started

brokerVars == <<request, published>>
mainVars == <<process, main, forced, runs>>
handlerVars == <<handler, message>>
vars == <<statsVars, brokerVars, mainVars, handlerVars>>

RequestStates == {"pending", "leased", "acked"}
ProcessStates == {"running", "exit0", "exit1", "crashed"}
MainStates == {"connect", "setTimeout", "receive", "receiveFailed", "stop"}
HandlerStates == {"free", "start", "invoke", "done", "doneErr", "reply",
                  "publishing", "ack", "nack"}

\* protoio/backend.go looks the id up in the context it captured when the
\* invoker was built and under another key than the handlers store it with, so
\* every task is reported under the empty id.
TaskId(m) == ""

TypeOK ==
    /\ StatsTypeOK({TaskId(m) : m \in Messages})
    /\ request \in [Messages -> RequestStates]
    /\ published \subseteq Messages
    /\ process \in ProcessStates
    /\ main \in MainStates
    /\ forced \in BOOLEAN
    /\ handler \in [Slots -> HandlerStates]
    /\ message \in [Slots -> Messages \cup {NoMessage}]
    /\ runs \in 1..MaxRuns

Init ==
    /\ StatsInit
    /\ request = [m \in Messages |-> "pending"]
    /\ published = {}
    /\ process = "running"
    /\ main = "connect"
    /\ forced = FALSE
    /\ handler = [s \in Slots |-> "free"]
    /\ message = [s \in Slots |-> NoMessage]
    /\ runs = 1

\* The process is gone and everything in its memory with it.  What it leased
\* stays leased until the lease expires.
ProcessEnds(how) ==
    /\ StatsFresh
    /\ process' = how
    /\ main' = "connect"
    /\ forced' = FALSE
    /\ handler' = [s \in Slots |-> "free"]
    /\ message' = [s \in Slots |-> NoMessage]
    /\ UNCHANGED <<brokerVars, runs>>

Goes(s, from, to) ==
    /\ process = "running"
    /\ handler[s] = from
    /\ handler' = [handler EXCEPT ![s] = to]

-----------------------------------------------------------------------------
(* main: setup, Receive, Stop.                                              *)

\* GetInvoker returned: the backend answered within --timeout.
Connect ==
    /\ process = "running"
    /\ main = "connect"
    /\ main' = IF IdleTimeout THEN "setTimeout" ELSE "receive"
    /\ UNCHANGED <<statsVars, brokerVars, process, forced, runs, handlerVars>>

\* Starting the telemetry, connecting or looking up the descriptor failed.
ConnectFails ==
    /\ process = "running"
    /\ main = "connect"
    /\ ProcessEnds("exit1")

SetStatsIdleTimeout ==
    /\ process = "running"
    /\ main = "setTimeout"
    /\ ReceiveTimeout
    /\ main' = "receive"
    /\ UNCHANGED <<brokerVars, process, forced, runs, handlerVars>>

\* A fatal service error: Receive hands out nothing more, waits for the
\* handlers and returns the error.
ReceiveFails ==
    /\ process = "running"
    /\ main = "receive"
    /\ ~cancelled
    /\ main' = "receiveFailed"
    /\ UNCHANGED <<statsVars, brokerVars, process, forced, runs, handlerVars>>

\* Mutant: Receive's return does not wait for the handlers.
ReceiveReturnsEarly ==
    /\ process = "running"
    /\ \/ /\ main = "receiveFailed"
          /\ ProcessEnds("exit1")
       \/ /\ main = "receive"
          /\ cancelled
          /\ main' = "stop"
          /\ closed' = TRUE
          /\ UNCHANGED <<cancelled, loopVars, brokerVars, process, forced, runs,
                         handlerVars>>

\* Receive returns when its context is cancelled (or it failed) and every
\* handler has settled its message.
ReceiveReturns ==
    /\ process = "running"
    /\ \A s \in Slots : handler[s] = "free"
    /\ \/ /\ main = "receiveFailed"
          /\ ProcessEnds("exit1")
       \/ /\ main = "receive"
          /\ cancelled
          /\ main' = "stop"
          /\ closed' = TRUE
          /\ UNCHANGED <<cancelled, loopVars, brokerVars, process, forced, runs,
                         handlerVars>>

\* Stop has closed the channel and waits for the statistics goroutine; then
\* main exits with status 0.
StopReturns ==
    /\ process = "running"
    /\ main = "stop"
    /\ loop = "gone"
    /\ ProcessEnds("exit0")

\* An interrupt or SIGTERM: the first one cancels the context and starts the
\* 15 second countdown, one that finds it cancelled exits at once.
Signal ==
    /\ process = "running"
    /\ \/ /\ cancelled
          /\ ProcessEnds("exit1")
       \/ /\ ~cancelled
          /\ cancelled' = TRUE
          /\ forced' = TRUE
          /\ UNCHANGED <<closed, loopVars, brokerVars, process, main, runs,
                         handlerVars>>

ForcedExit ==
    /\ process = "running"
    /\ forced
    /\ ProcessEnds("exit1")

\* The process is killed without a word: spot capacity, out of memory.
Crash ==
    /\ process = "running"
    /\ ProcessEnds("crashed")

\* The pod is replaced, or the next Job starts.
Restart ==
    /\ process # "running"
    /\ runs < MaxRuns
    /\ process' = "running"
    /\ runs' = runs + 1
    /\ UNCHANGED <<statsVars, brokerVars, main, forced, handlerVars>>

Loop ==
    /\ process = "running"
    /\ LoopStep
    /\ UNCHANGED <<brokerVars, mainVars, handlerVars>>

-----------------------------------------------------------------------------
(* The subscription (external).                                             *)

\* A lease ends: its holder was too slow or is gone.
LeaseExpires(m) ==
    /\ request[m] = "leased"
    /\ request' = [request EXCEPT ![m] = "pending"]
    /\ UNCHANGED <<statsVars, published, mainVars, handlerVars>>

\* A request is handed to a handler.  One that cannot be decoded goes straight
\* to its nack, without a task.
Deliver(s, m) ==
    /\ main = "receive"
    /\ ~cancelled
    /\ request[m] = "pending"
    /\ \/ Goes(s, "free", "start")
       \/ Goes(s, "free", "nack")
    /\ message' = [message EXCEPT ![s] = m]
    /\ request' = [request EXCEPT ![m] = "leased"]
    /\ UNCHANGED <<statsVars, published, mainVars>>

-----------------------------------------------------------------------------
(* The handler: handleMessage and the callback around it.                   *)

StartTask(s) ==
    /\ Goes(s, "start", "invoke")
    /\ ReceiveStart(TaskId(message[s]))
    /\ UNCHANGED <<brokerVars, mainVars, message>>

\* Mutant: a failed call returns before DoneTask.
InvokeReturnsEarly(s) ==
    /\ \/ Goes(s, "invoke", "done")
       \/ Goes(s, "invoke", "nack")
    /\ UNCHANGED <<statsVars, brokerVars, mainVars, message>>

\* The gRPC call returns.  A failure, a cancelled context and an answer that
\* cannot be encoded are all reported after DoneTask.
InvokeReturns(s) ==
    /\ \/ Goes(s, "invoke", "done")
       \/ Goes(s, "invoke", "doneErr")
    /\ UNCHANGED <<statsVars, brokerVars, mainVars, message>>

DoneTask(s) ==
    /\ \/ Goes(s, "done", "reply")
       \/ Goes(s, "doneErr", "nack")
    /\ ReceiveDone(TaskId(message[s]))
    /\ UNCHANGED <<brokerVars, mainVars, message>>

\* The answer reuses the request's attributes.  Without attributes the map is
\* nil, and the assignment of the host name panics.
Reply(s) ==
    /\ handler[s] = "reply"
    /\ \/ /\ message[s] \notin NoAttributes
          /\ Goes(s, "reply", "publishing")
          /\ UNCHANGED <<statsVars, brokerVars, mainVars, message>>
       \/ /\ process = "running"
          /\ message[s] \in NoAttributes
          /\ ProcessEnds("crashed")

\* Mutant: the request is acknowledged whatever the publish reports.
PublishErrorIgnored(s) ==
    /\ Goes(s, "publishing", "ack")
    /\ published' \in {published, published \cup {message[s]}}
    /\ UNCHANGED <<statsVars, request, mainVars, message>>

\* The publish result is ready.  A publish that reports an error may have
\* reached the topic all the same.
PublishReturns(s) ==
    /\ \/ /\ Goes(s, "publishing", "ack")
          /\ published' = published \cup {message[s]}
       \/ /\ Goes(s, "publishing", "nack")
          /\ published' \in {published, published \cup {message[s]}}
    /\ UNCHANGED <<statsVars, request, mainVars, message>>

\* The answer to a request ends its lease.  An acknowledgement may be lost, and
\* one for a lease that has expired may or may not still count.
Settles(s, from, outcome) ==
    /\ Goes(s, from, "free")
    /\ message' = [message EXCEPT ![s] = NoMessage]
    /\ \/ UNCHANGED request
       \/ request' = [request EXCEPT ![message[s]] = IF @ = "acked" THEN @ ELSE outcome]
    /\ UNCHANGED <<statsVars, published, mainVars>>

\* Mutant: the error path acknowledges.
NackAcks(s) == Settles(s, "nack", "acked")

Ack(s) == Settles(s, "ack", "acked")
Nack(s) == Settles(s, "nack", "pending")

HandlerStep(s) ==
    \/ StartTask(s) \/ InvokeReturns(s) \/ DoneTask(s) \/ Reply(s)
    \/ PublishReturns(s) \/ Ack(s) \/ Nack(s)

MainStep ==
    \/ Connect \/ ConnectFails \/ SetStatsIdleTimeout
    \/ ReceiveFails \/ ReceiveReturns \/ StopReturns

Next ==
    \/ MainStep \/ Loop
    \/ Signal \/ ForcedExit \/ Crash \/ Restart
    \/ \E s \in Slots :
          \/ HandlerStep(s)
          \/ \E m \in Messages : Deliver(s, m)
    \/ \E m \in Messages : LeaseExpires(m)

Spec == Init /\ [][Next]_vars

\* Go schedules every goroutine that can run, the 15 second timer runs out, and
\* the select of the loop chooses at random, so a ready event is not passed
\* over for ever.  The backend is assumed to answer; nothing is assumed of
\* deliveries, signals, crashes, failures or restarts.
Fairness ==
    /\ WF_vars(Connect) /\ WF_vars(ReceiveReturns) /\ WF_vars(StopReturns)
    /\ SF_vars(SetStatsIdleTimeout)
    /\ WF_vars(ForcedExit)
    /\ WF_vars(Loop)
    /\ WF_vars(IdleExpires /\ Loop)
    /\ \A s \in Slots :
          /\ SF_vars(StartTask(s)) /\ SF_vars(DoneTask(s))
          /\ WF_vars(InvokeReturns(s) \/ Reply(s) \/ PublishReturns(s)
                        \/ Ack(s) \/ Nack(s))

FairSpec == Spec /\ Fairness

-----------------------------------------------------------------------------
\* A handler between the two rendezvous of its task.
Working(s) == handler[s] \in {"invoke", "done", "doneErr"}

\* A goroutine blocked in a send on statsChannel.
Sending(s) == handler[s] \in {"start", "done", "doneErr"}

\* The requests the subscription will not hand out again.
Settled == {m \in Messages : request[m] = "acked"}

Promise == INSTANCE AtLeastOnce WITH
    Requests <- Messages,
    answered <- published,
    settled <- Settled

\* The worker keeps the promise of an at-least-once queue: a request is only
\* taken out of the subscription after an answer to it is in the response topic
\* (pubsub.go: "Publish and ack when done").
KeepsPromise == Promise!Spec

\* No acknowledged request is without an answer, through nacks, expired leases,
\* publishes that fail halfway, panics, kills and restarts.
AckedIsPublished == \A m \in Messages : request[m] = "acked" => m \in published

\* The table of running tasks never holds a task nobody runs: an entry left
\* behind by a failed call would keep the agent alive for ever.
NoGhostTask == currentOps # {} => \E s \in Slots : Working(s)

\* The idle timeout never cancels the program while a handler is between
\* StartTask and DoneTask ("shutdown after no activity for this time period").
IdleMeansNoTask ==
    [][CancelsWhenIdle => \A s \in Slots : ~Working(s)]_vars

\* Stop closes statsChannel only when nobody is blocked in a send, which would
\* panic (stats.go: Stop; main.go calls it when Receive has returned).
NobodySendsAfterStop ==
    closed => main = "stop" /\ \A s \in Slots : ~Sending(s)

\* A worker with an idle timeout whose subscription is drained ends by itself.
DrainedAgentStops ==
    (\A m \in Messages : request[m] = "acked") ~> process # "running"

\* A request in a handler's hands does not stay there: it is acknowledged,
\* nacked, or its process ends and the lease can expire.  After a signal the
\* forced exit sees to it.  An idle timeout has no forced exit, see
\* CancelledAgentStops.
HandlersSettle ==
    \A s \in Slots :
        handler[s] # "free" ~> (handler[s] = "free" \/ (cancelled /\ ~forced))

\* A program that was cancelled ends ("Timeout when there's no more work from
\* Pub/Sub -- stop everything", agent_job.templ).
CancelledAgentStops == cancelled ~> process # "running"
=============================================================================
