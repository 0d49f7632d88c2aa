------------------------------ MODULE HttpAgent ------------------------------
(***************************************************************************)
(* The two HTTP front ends of the HTC agent: `agent serve pubsub-push` and   *)
(* `agent serve rdf`.                                                       *)
(*                                                                          *)
(* push: Pub/Sub posts a message; the handler calls the gRPC backend,        *)
(* publishes the answer and returns 200, or 400 for everything that fails.   *)
(* rdf: BigQuery posts a batch of calls; the handler makes them one after    *)
(* the other and returns their replies.  A failed call ends the loop, and the *)
(* response is a 200 all the same: with an error message, and null for every  *)
(* reply that was not filled in.  Only a body it cannot read gets a 400.      *)
(*                                                                          *)
(* Go runs one handler per request and recovers a panic in it: the           *)
(* connection is cut and the process goes on.  Both commands report their    *)
(* tasks to StatsLoop and neither sets an idle timeout.  They end            *)
(* differently: nothing stops the push listener but the forced exit; the rdf *)
(* listener returns as soon as its shutdown BEGINS, and main closes the      *)
(* statistics channel and exits while handlers may still be at work.         *)
(***************************************************************************)
EXTENDS StatsLoop, Naturals

CONSTANTS
    Messages,   \* the requests of the caller, Pub/Sub or BigQuery
    Odd,        \* push: without attributes; rdf: a call may lack its argument
    Calls,      \* rdf: Calls[m] is the number of calls in the batch m
    Slots,      \* connections, one handler at a time on each
    NoMessage,  \* a free slot
    MaxRuns     \* bound on the number of times the process is started

ASSUME HttpAssumption ==
    /\ Odd \subseteq Messages
    /\ Calls \in [Messages -> Nat]
    /\ NoMessage \notin Messages
    /\ MaxRuns \in Nat \ {0}

VARIABLES
    command,   \* the command that was started: push or rdf
    request,   \* request[m]: pending, sent to a handler, settled by a 200, or
               \* faulted: rdf, a 200 that carries an error message
    answered,  \* push: the answer is published; rdf: every call was answered
    process,   \* the agent process: running, or how it ended
    main,      \* where main is
    forced,    \* the forced exit after a signal is counting down
    runs,      \* how often the process was started
    handler,   \* handler[s]: where the handler of slot s is
    message,   \* message[s]: the request the handler of slot s works on
    caller,    \* caller[s]: the other end of the connection still waits
    call,      \* call[s]: rdf, the call the loop is at
    replies    \* replies[s]: rdf, the calls whose reply is filled in

callerVars == <<command, request, answered>>
mainVars == <<process, main, forced, runs>>
batchVars == <<message, call, replies>>
handlerVars == <<handler, caller, batchVars>>
vars == <<statsVars, callerVars, mainVars, handlerVars>>

Commands == {"push", "rdf"}
RequestStates == {"pending", "sent", "settled", "faulted"}
ProcessStates == {"running", "exit0", "exit1", "crashed"}
MainStates == {"connect", "serve", "closing", "stop"}
HandlerStates == {"free", "call", "start", "invoke", "done", "doneErr", "reply",
                  "publishing", "ok", "error", "refused"}

\* Both commands report every task under the empty id, see PullAgent.
TaskId == ""

TypeOK ==
    /\ StatsTypeOK({TaskId})
    /\ command \in Commands
    /\ request \in [Messages -> RequestStates]
    /\ answered \subseteq Messages
    /\ process \in ProcessStates
    /\ main \in MainStates
    /\ forced \in BOOLEAN
    /\ runs \in 1..MaxRuns
    /\ handler \in [Slots -> HandlerStates]
    /\ message \in [Slots -> Messages \cup {NoMessage}]
    /\ caller \in [Slots -> BOOLEAN]
    /\ call \in [Slots -> Nat]
    /\ replies \in [Slots -> SUBSET Nat]

Init ==
    /\ StatsInit
    /\ command \in Commands
    /\ request = [m \in Messages |-> "pending"]
    /\ answered = {}
    /\ process = "running"
    /\ main = "connect"
    /\ forced = FALSE
    /\ runs = 1
    /\ handler = [s \in Slots |-> "free"]
    /\ message = [s \in Slots |-> NoMessage]
    /\ caller = [s \in Slots |-> FALSE]
    /\ call = [s \in Slots |-> 0]
    /\ replies = [s \in Slots |-> {}]

\* The process is gone and its connections are cut: the caller has no answer
\* and may send the request again.
ProcessEnds(how) ==
    /\ StatsFresh
    /\ process' = how
    /\ main' = "connect"
    /\ forced' = FALSE
    /\ handler' = [s \in Slots |-> "free"]
    /\ message' = [s \in Slots |-> NoMessage]
    /\ caller' = [s \in Slots |-> FALSE]
    /\ call' = [s \in Slots |-> 0]
    /\ replies' = [s \in Slots |-> {}]
    /\ request' = [m \in Messages |-> IF request[m] = "sent" THEN "pending" ELSE request[m]]
    /\ UNCHANGED <<command, answered, runs>>

Goes(s, from, to) ==
    /\ process = "running"
    /\ handler[s] = from
    /\ handler' = [handler EXCEPT ![s] = to]

-----------------------------------------------------------------------------
(* main: setup, listen, stop.                                               *)

\* PersistentPreRunE started the telemetry, GetInvoker found the backend.
Connect ==
    /\ process = "running"
    /\ main = "connect"
    /\ main' = "serve"
    /\ UNCHANGED <<statsVars, callerVars, process, forced, runs, handlerVars>>

\* Telemetry, backend or publishing client failed, or the listener did.
ServeFails ==
    /\ process = "running"
    /\ main \in {"connect", "serve"}
    /\ ProcessEnds("exit1")

\* The goroutine behind the rdf server sees the context done and calls
\* Shutdown, which closes the listener before it waits for the handlers.
Shutdown ==
    /\ process = "running"
    /\ command = "rdf"
    /\ main = "serve"
    /\ cancelled
    /\ main' = "closing"
    /\ UNCHANGED <<statsVars, callerVars, process, forced, runs, handlerVars>>

\* ListenAndServe returns ErrServerClosed at once, without the handlers; main
\* goes on to Stop.
ListenReturns ==
    /\ process = "running"
    /\ main = "closing"
    /\ main' = "stop"
    /\ closed' = TRUE
    /\ UNCHANGED <<cancelled, loopVars, callerVars, process, forced, runs, handlerVars>>

\* Stop waits for the statistics goroutine only; then main exits.
StopReturns ==
    /\ process = "running"
    /\ main = "stop"
    /\ loop = "gone"
    /\ ProcessEnds("exit0")

\* Mutant: the signal handler does not start the 15 second countdown.
SignalWithoutCountdown ==
    /\ process = "running"
    /\ \/ /\ cancelled
          /\ ProcessEnds("exit1")
       \/ /\ ~cancelled
          /\ cancelled' = TRUE
          /\ UNCHANGED <<forced, closed, loopVars, callerVars, process, main, runs,
                         handlerVars>>

\* The first interrupt or SIGTERM cancels the context and starts the countdown,
\* one that finds it cancelled exits at once.
Signal ==
    /\ process = "running"
    /\ \/ /\ cancelled
          /\ ProcessEnds("exit1")
       \/ /\ ~cancelled
          /\ cancelled' = TRUE
          /\ forced' = TRUE
          /\ UNCHANGED <<closed, loopVars, callerVars, process, main, runs,
                         handlerVars>>

ForcedExit ==
    /\ process = "running"
    /\ forced
    /\ ProcessEnds("exit1")

\* The process is killed without a word.
Crash ==
    /\ process = "running"
    /\ ProcessEnds("crashed")

Restart ==
    /\ process # "running"
    /\ runs < MaxRuns
    /\ process' = "running"
    /\ runs' = runs + 1
    /\ UNCHANGED <<statsVars, callerVars, main, forced, handlerVars>>

Loop ==
    /\ process = "running"
    /\ LoopStep
    /\ UNCHANGED <<callerVars, mainVars, handlerVars>>

-----------------------------------------------------------------------------
(* The caller (external): Pub/Sub or BigQuery at the end of a connection.   *)

\* The caller posts a request.  A body that cannot be read or is no JSON is
\* answered with 400 before anything else happens.
Arrive(s, m) ==
    /\ main = "serve"
    /\ request[m] = "pending"
    /\ \/ Goes(s, "free", "call")
       \/ Goes(s, "free", "refused")
    /\ request' = [request EXCEPT ![m] = "sent"]
    /\ message' = [message EXCEPT ![s] = m]
    /\ caller' = [caller EXCEPT ![s] = TRUE]
    /\ call' = [call EXCEPT ![s] = 1]
    /\ replies' = [replies EXCEPT ![s] = {}]
    /\ UNCHANGED <<statsVars, command, answered, mainVars>>

\* The caller's deadline passes, or its connection breaks.  The handler does
\* not hear of it: it works under the program's context, not the request's.
CallerGivesUp(s) ==
    /\ caller[s]
    /\ caller' = [caller EXCEPT ![s] = FALSE]
    /\ request' = [request EXCEPT ![message[s]] = "pending"]
    /\ UNCHANGED <<statsVars, command, answered, mainVars, handler, batchVars>>

\* The connection ends; a caller that still waits on it learns the outcome.
Hangup(s, outcome) ==
    /\ message' = [message EXCEPT ![s] = NoMessage]
    /\ caller' = [caller EXCEPT ![s] = FALSE]
    /\ call' = [call EXCEPT ![s] = 0]
    /\ replies' = [replies EXCEPT ![s] = {}]
    /\ request' = IF caller[s] THEN [request EXCEPT ![message[s]] = outcome] ELSE request
    /\ UNCHANGED <<statsVars, command, answered, mainVars>>

-----------------------------------------------------------------------------
(* The handler.                                                             *)

\* The loop over the calls is through, at once when there are none, and the
\* batch is answered if no reply is missing; or a call of it carries no
\* argument: the index into it panics and the connection is cut.
BatchEnds(s) ==
    /\ command = "rdf"
    /\ handler[s] = "call"
    /\ \/ /\ call[s] > Calls[message[s]]
          /\ Goes(s, "call", "ok")
          /\ answered' = IF 1..Calls[message[s]] \subseteq replies[s]
                         THEN answered \cup {message[s]} ELSE answered
          /\ UNCHANGED <<statsVars, command, request, mainVars, caller, batchVars>>
       \/ /\ call[s] <= Calls[message[s]]
          /\ message[s] \in Odd
          /\ Goes(s, "call", "free")
          /\ Hangup(s, "pending")

\* The invoker decodes the argument before it starts a task.
Decode(s) ==
    /\ handler[s] = "call"
    /\ command = "rdf" => call[s] <= Calls[message[s]]
    /\ \/ Goes(s, "call", "start")
       \/ Goes(s, "call", "error")
    /\ UNCHANGED <<statsVars, callerVars, mainVars, caller, batchVars>>

StartTask(s) ==
    /\ Goes(s, "start", "invoke")
    /\ ReceiveStart(TaskId)
    /\ UNCHANGED <<callerVars, mainVars, caller, batchVars>>

\* Mutant: a panic while the backend is called is recovered by the server, and
\* the task is never reported as done.
InvokePanics(s) ==
    \/ /\ \/ Goes(s, "invoke", "done")
          \/ Goes(s, "invoke", "doneErr")
       /\ UNCHANGED <<statsVars, callerVars, mainVars, caller, batchVars>>
    \/ /\ Goes(s, "invoke", "free")
       /\ Hangup(s, "pending")

\* The gRPC call returns.
InvokeReturns(s) ==
    /\ \/ Goes(s, "invoke", "done")
       \/ Goes(s, "invoke", "doneErr")
    /\ UNCHANGED <<statsVars, callerVars, mainVars, caller, batchVars>>

\* The reply of the current call is filled in, and the loop goes to the next.
FillReply(s) ==
    /\ replies' = [replies EXCEPT ![s] = @ \cup {call[s]}]
    /\ call' = [call EXCEPT ![s] = @ + 1]
    /\ UNCHANGED <<callerVars, message>>

\* Mutant: the loop over the calls goes on after one of them failed.
DoneTaskContinues(s) ==
    /\ ReceiveDone(TaskId)
    /\ UNCHANGED <<mainVars, caller>>
    /\ \/ /\ Goes(s, "doneErr", IF command = "rdf" THEN "call" ELSE "error")
          /\ call' = [call EXCEPT ![s] = @ + 1]
          /\ UNCHANGED <<callerVars, message, replies>>
       \/ /\ command = "push"
          /\ Goes(s, "done", "reply")
          /\ UNCHANGED <<callerVars, batchVars>>
       \/ /\ command = "rdf"
          /\ Goes(s, "done", "call")
          /\ FillReply(s)

\* The task is reported as done.  A failed call ends the request with an error
\* and, in a batch, the loop.
DoneTask(s) ==
    /\ ReceiveDone(TaskId)
    /\ UNCHANGED <<mainVars, caller>>
    /\ \/ /\ Goes(s, "doneErr", "error")
          /\ UNCHANGED <<callerVars, batchVars>>
       \/ /\ command = "push"
          /\ Goes(s, "done", "reply")
          /\ UNCHANGED <<callerVars, batchVars>>
       \/ /\ command = "rdf"
          /\ Goes(s, "done", "call")
          /\ FillReply(s)

\* push: the answer takes over the request's attributes.  Without attributes
\* the map is nil, and the assignment of the host name panics.
Reply(s) ==
    \/ /\ message[s] \notin Odd
       /\ Goes(s, "reply", "publishing")
       /\ UNCHANGED <<statsVars, callerVars, mainVars, caller, batchVars>>
    \/ /\ message[s] \in Odd
       /\ Goes(s, "reply", "free")
       /\ Hangup(s, "pending")

\* Mutant: the handler returns 200 without looking at the publish result.
PublishUnread(s) ==
    /\ Goes(s, "publishing", "ok")
    /\ answered' \in {answered, answered \cup {message[s]}}
    /\ UNCHANGED <<statsVars, command, request, mainVars, caller, batchVars>>

\* A publish that reports an error may have reached the topic all the same.
PublishReturns(s) ==
    /\ \/ /\ Goes(s, "publishing", "ok")
          /\ answered' = answered \cup {message[s]}
       \/ /\ Goes(s, "publishing", "error")
          /\ answered' \in {answered, answered \cup {message[s]}}
    /\ UNCHANGED <<statsVars, command, request, mainVars, caller, batchVars>>

\* The response is written, and may be lost on its way.  push: 200, or 400 for
\* an error.  rdf: 200 either way, which only the error message tells apart.  A
\* caller that reads it may take the batch for done or send it again.
Respond(s) ==
    \/ /\ Goes(s, "ok", "free")
       /\ \E outcome \in {"settled", "pending"} : Hangup(s, outcome)
    \/ /\ Goes(s, "error", "free")
       /\ \E outcome \in {"pending"} \cup (IF command = "rdf" THEN {"faulted"} ELSE {}) :
             Hangup(s, outcome)
    \/ /\ Goes(s, "refused", "free")
       /\ Hangup(s, "pending")

\* A goroutine in a send on statsChannel.
Sending(s) == handler[s] \in {"start", "done", "doneErr"}

\* rdf, after Stop: a send on the closed channel panics; the server recovers
\* the panic and cuts the connection.
SendPanics(s) ==
    /\ closed
    /\ Sending(s)
    /\ Goes(s, handler[s], "free")
    /\ Hangup(s, "pending")

\* The steps of a handler that wait for nobody.
HandlerMoves(s) ==
    \/ BatchEnds(s) \/ Decode(s) \/ InvokeReturns(s) \/ Reply(s)
    \/ PublishReturns(s) \/ Respond(s) \/ SendPanics(s)

HandlerStep(s) == StartTask(s) \/ DoneTask(s) \/ HandlerMoves(s)

MainStep ==
    \/ Connect \/ ServeFails \/ Shutdown \/ ListenReturns \/ StopReturns
    \/ Signal \/ ForcedExit \/ Crash \/ Restart

Next ==
    \/ MainStep \/ Loop
    \/ \E s \in Slots :
          \/ HandlerStep(s) \/ CallerGivesUp(s)
          \/ \E m \in Messages : Arrive(s, m)

Spec == Init /\ [][Next]_vars

\* Go schedules every goroutine that can run, the countdown runs out and a
\* select chooses at random among what is ready.  The backend and the topic are
\* assumed to answer; nothing is assumed of the caller, signals or failures.
Fairness ==
    /\ WF_vars(Connect \/ Shutdown \/ ListenReturns \/ StopReturns)
    /\ WF_vars(ForcedExit) /\ WF_vars(Loop)
    /\ \A s \in Slots : SF_vars(HandlerStep(s))

FairSpec == Spec /\ Fairness

-----------------------------------------------------------------------------
Working(s) == handler[s] \in {"invoke", "done", "doneErr"}

Settled == {m \in Messages : request[m] = "settled"}

Promise == INSTANCE AtLeastOnce WITH
    Requests <- Messages,
    settled <- Settled

\* A caller that gets a 200 without an error message can drop its request:
\* push has published the answer (pubsub_push.go: "Ack the message" after "Wait
\* for publishing to finish"), rdf has a reply to every call of the batch.  This
\* holds although callers give up and send a request again that a handler still
\* works on.  A 200 alone says this of push only: a faulted batch had one too.
KeepsPromise == Promise!Spec

\* The rdf response and the loop agree: without an error message it carries
\* every reply, with one exactly the replies of the calls before the one that
\* failed, and null for that one and the rest.
RepliesMatch ==
    command = "rdf" => \A s \in Slots :
        /\ handler[s] = "ok" => replies[s] = 1..Calls[message[s]]
        /\ handler[s] = "error" =>
              /\ replies[s] = 1..(call[s] - 1)
              /\ call[s] <= Calls[message[s]]

\* Panics are recovered, so a task one of them left in the table would stay
\* there for the life of the server.  While the channel is open none does.
NoGhostTask == ~closed /\ currentOps # {} => \E s \in Slots : Working(s)

\* Every request that got a handler is done with: answered, cut off, or ended
\* with its process.  push relies on the forced exit, because its handlers
\* block for ever in StartTask once the loop has gone.
RequestsSettle == \A s \in Slots : handler[s] # "free" ~> handler[s] = "free"
=============================================================================
