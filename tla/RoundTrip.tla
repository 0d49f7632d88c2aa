------------------------------ MODULE RoundTrip ------------------------------
(***************************************************************************)
(* The round-trip generator of the HTC agent: `agent test pubsub <topic>    *)
(* [subscription]` (agent/src/test/pubsub.go).                              *)
(*                                                                          *)
(* main publishes every message of a source through ApplyParallel, each     *)
(* under an id of its own; the subscription's handlers report the answers.  *)
(* A task of StatsLoop is one round trip: StartTask before the publish,     *)
(* DoneTask when the answer arrives, CancelTask when the publish failed.    *)
(* When everything is published main sets an idle timeout of 0 and waits    *)
(* for the loop to cancel the context.                                      *)
(*                                                                          *)
(* The publishing goroutines and the subscription's handlers are NOT waited  *)
(* for when the program stops.                                              *)
(***************************************************************************)
EXTENDS StatsLoop

CONSTANTS
    Items,            \* the messages of the source; also their srcIds
    WithSubscription  \* the second argument was given

ASSUME SubscriptionAssumption == WithSubscription \in BOOLEAN

VARIABLES
    process,     \* running, or how it ended
    main,        \* where main is
    forced,      \* the forced exit after a signal is counting down
    failing,     \* the source or an operation on it returned an error
    item,        \* item[i]: how far the publisher got with message i
    answer,      \* answer[i]: what the subscription's handlers did with its answer
    subscribed   \* sub.Receive is running

mainVars == <<process, main, forced, failing>>
vars == <<statsVars, mainVars, item, answer, subscribed>>

ItemStates == {"waiting", "refused", "start", "publish", "sent", "cancel",
               "failed", "confirmed"}
AnswerStates == {"none", "first", "received", "again"}

TypeOK ==
    /\ StatsTypeOK(Items)
    /\ process \in {"running", "exit0", "exit1", "panicked"}
    /\ main \in {"source", "drain", "setTimeout", "wait", "stop"}
    /\ forced \in BOOLEAN
    /\ failing \in BOOLEAN
    /\ item \in [Items -> ItemStates]
    /\ answer \in [Items -> AnswerStates]
    /\ subscribed \in BOOLEAN

Init ==
    /\ StatsInit
    /\ process = "running"
    /\ main = "source"
    /\ forced = FALSE
    /\ failing = FALSE
    /\ item = [i \in Items |-> "waiting"]
    /\ answer = [i \in Items |-> "none"]
    /\ subscribed = WithSubscription

ProcessEnds(how) ==
    /\ process' = how
    /\ UNCHANGED <<statsVars, main, forced, failing, item, answer, subscribed>>

Goes(i, from, to) ==
    /\ process = "running"
    /\ item[i] = from
    /\ item' = [item EXCEPT ![i] = to]

Answers(i, from, to) ==
    /\ process = "running"
    /\ answer[i] = from
    /\ answer' = [answer EXCEPT ![i] = to]

-----------------------------------------------------------------------------
(* The publisher: the operation ApplyParallel runs for every message.       *)

\* A worker takes the next message; under a cancelled context it only returns
\* the context's error.
Dispatch(i) ==
    /\ main = "source"
    /\ \/ ~cancelled /\ Goes(i, "waiting", "start") /\ UNCHANGED failing
       \/ cancelled /\ Goes(i, "waiting", "refused") /\ failing' = TRUE
    /\ UNCHANGED <<statsVars, process, main, forced, answer, subscribed>>

StartTask(i) ==
    /\ Goes(i, "start", "publish")
    /\ ReceiveStart(i)
    /\ UNCHANGED <<mainVars, answer, subscribed>>

\* Publish has queued the message, after waiting for the flow control; the
\* goroutine that waits for the result is on its own from here.
Publish(i) ==
    /\ Goes(i, "publish", "sent")
    /\ UNCHANGED <<statsVars, mainVars, answer, subscribed>>

\* Mutant: a failed publish is logged and its task stays in the table.
PublishReturnsLogged(i) ==
    /\ \/ Goes(i, "sent", "confirmed")
       \/ Goes(i, "sent", "failed")
    /\ UNCHANGED <<statsVars, mainVars, answer, subscribed>>

\* res.Get: the publish succeeded or failed, or the context was cancelled.
PublishReturns(i) ==
    /\ \/ Goes(i, "sent", "confirmed")
       \/ Goes(i, "sent", "cancel")
    /\ UNCHANGED <<statsVars, mainVars, answer, subscribed>>

CancelTask(i) ==
    /\ Goes(i, "cancel", "failed")
    /\ ReceiveCancel(i)
    /\ UNCHANGED <<mainVars, answer, subscribed>>

-----------------------------------------------------------------------------
(* The subscription's handlers.                                             *)

\* Mutant: the message is published before its task is started.
AnswerableEarly(i) ==
    item[i] \in {"start", "publish", "sent", "cancel", "failed", "confirmed"}

\* An answer can exist once the message was given to Publish, also when the
\* publish went on to report an error.
Answerable(i) == item[i] \in {"sent", "cancel", "failed", "confirmed"}

\* An answer is handed to a handler, which acknowledges it.
Deliver(i) ==
    /\ subscribed
    /\ ~cancelled
    /\ Answerable(i)
    /\ Answers(i, "none", "first")
    /\ UNCHANGED <<statsVars, mainVars, item, subscribed>>

\* The acknowledgement was lost, or the server answered twice.
Redeliver(i) ==
    /\ subscribed
    /\ ~cancelled
    /\ Answers(i, "received", "again")
    /\ UNCHANGED <<statsVars, mainVars, item, subscribed>>

DoneTask(i) ==
    /\ \/ Answers(i, "first", "received")
       \/ Answers(i, "again", "received")
    /\ ReceiveDone(i)
    /\ UNCHANGED <<mainVars, item, subscribed>>

\* Receive returns an error; the program only logs it.
SubscriptionFails ==
    /\ process = "running"
    /\ subscribed
    /\ subscribed' = FALSE
    /\ UNCHANGED <<statsVars, mainVars, item, answer>>

-----------------------------------------------------------------------------
(* main.                                                                    *)

\* The loop of ApplyParallel ends: no message is left, the sequence yields an
\* error, a worker's error was received, or --loop or --rate found the context
\* cancelled and ended the sequence without one.
SourceEnds ==
    /\ process = "running"
    /\ main = "source"
    /\ main' = "drain"
    /\ \/ failing' = TRUE
       \/ /\ cancelled \/ \A i \in Items : item[i] # "waiting"
          /\ UNCHANGED failing
    /\ UNCHANGED <<statsVars, process, forced, item, answer, subscribed>>

\* Mutant: the workers are not waited for.
DrainReturnsEarly ==
    /\ process = "running"
    /\ main = "drain"
    /\ \/ failing /\ ProcessEnds("exit1")
       \/ /\ ~failing
          /\ main' = "setTimeout"
          /\ UNCHANGED <<statsVars, process, forced, failing, item, answer, subscribed>>

\* ApplyParallel returns when no worker is left.  An error ends the program
\* without Stop.
DrainReturns ==
    /\ process = "running"
    /\ main = "drain"
    /\ \A i \in Items : item[i] \notin {"start", "publish"}
    /\ \/ failing /\ ProcessEnds("exit1")
       \/ /\ ~failing
          /\ main' = "setTimeout"
          /\ UNCHANGED <<statsVars, process, forced, failing, item, answer, subscribed>>

SetStatsIdleTimeout ==
    /\ process = "running"
    /\ main = "setTimeout"
    /\ ReceiveTimeout
    /\ main' = "wait"
    /\ UNCHANGED <<process, forced, failing, item, answer, subscribed>>

\* <-c.Context().Done(), "All sent messages received", and Stop closes the
\* channel without waiting for the goroutines that may still send.
WaitReturns ==
    /\ process = "running"
    /\ main = "wait"
    /\ cancelled
    /\ main' = "stop"
    /\ closed' = TRUE
    /\ UNCHANGED <<cancelled, loopVars, process, forced, failing, item, answer, subscribed>>

StopReturns ==
    /\ main = "stop"
    /\ process = "running"
    /\ loop = "gone"
    /\ ProcessEnds("exit0")

\* A goroutine blocked in a send on statsChannel.
Sending(i) == item[i] \in {"start", "cancel"} \/ answer[i] \in {"first", "again"}

\* A send on the closed channel panics, also one that was blocked already.
SendPanics ==
    /\ process = "running"
    /\ closed
    /\ \E i \in Items : Sending(i)
    /\ ProcessEnds("panicked")

\* Mutant: the first signal cancels and no forced exit follows.
SignalOnlyCancels ==
    /\ process = "running"
    /\ \/ cancelled /\ ProcessEnds("exit1")
       \/ /\ ~cancelled
          /\ cancelled' = TRUE
          /\ UNCHANGED <<closed, loopVars, mainVars, item, answer, subscribed>>

\* The first signal cancels and starts the countdown of the forced exit, one
\* that finds the context cancelled exits at once.
Signal ==
    /\ process = "running"
    /\ \/ cancelled /\ ProcessEnds("exit1")
       \/ /\ ~cancelled
          /\ cancelled' = TRUE
          /\ forced' = TRUE
          /\ UNCHANGED <<closed, loopVars, process, main, failing, item, answer,
                         subscribed>>

ForcedExit ==
    /\ process = "running"
    /\ forced
    /\ ProcessEnds("exit1")

Loop ==
    /\ process = "running"
    /\ LoopStep
    /\ UNCHANGED <<mainVars, item, answer, subscribed>>

MainStep ==
    \/ SourceEnds \/ DrainReturns \/ SetStatsIdleTimeout
    \/ WaitReturns \/ StopReturns \/ SendPanics
    \/ Signal \/ ForcedExit

ItemStep(i) ==
    \/ Dispatch(i) \/ StartTask(i) \/ Publish(i)
    \/ PublishReturns(i) \/ CancelTask(i)

AnswerStep(i) == Deliver(i) \/ Redeliver(i) \/ DoneTask(i)

Next ==
    \/ MainStep \/ Loop \/ SubscriptionFails
    \/ \E i \in Items : ItemStep(i) \/ AnswerStep(i)

Spec == Init /\ [][Next]_vars

\* Go runs every goroutine that can run and its select takes a ready event in
\* the end.  Of the outside, publishes are assumed to return and the server to
\* answer every message once; signals and failures need not happen.
Fairness ==
    /\ WF_vars(SourceEnds) /\ WF_vars(DrainReturns)
    /\ WF_vars(WaitReturns) /\ WF_vars(StopReturns)
    /\ WF_vars(ForcedExit)
    /\ SF_vars(SetStatsIdleTimeout)
    /\ WF_vars(Loop)
    /\ WF_vars(IdleExpires /\ Loop)
    /\ \A i \in Items :
          /\ WF_vars(Dispatch(i)) /\ WF_vars(Publish(i)) /\ WF_vars(PublishReturns(i))
          /\ WF_vars(Deliver(i))
          /\ SF_vars(StartTask(i)) /\ SF_vars(CancelTask(i)) /\ SF_vars(DoneTask(i))

FairSpec == Spec /\ Fairness

-----------------------------------------------------------------------------
Answered(i) == answer[i] \in {"received", "again"}

\* A round trip that is under way: the message was handed to the publisher and
\* neither its answer nor the failure of its publish was reported.
Outstanding(i) ==
    item[i] \in {"publish", "sent", "cancel", "confirmed"} /\ ~Answered(i)

\* The loop's table holds exactly the round trips under way, although answers
\* overtake publish results, arrive twice, or arrive for a publish that failed.
OutstandingIsExact == currentOps = {i \in Items : Outstanding(i)}

\* The generator ends itself as idle only after the whole source was published
\* and every message was answered or its publish failed (pubsub.go:97, "Cancel
\* as soon as we are idle (no more outstanding requests"; :102, "All sent
\* messages received").
IdleMeansAllReceived ==
    [][CancelsWhenIdle => \A i \in Items : Answered(i) \/ item[i] = "failed"]_vars

\* With every message answered the generator ends, unless its subscription
\* failed, which the program only logs, or there is none.
EndsWhenAnswered == [](subscribed) => <>(process # "running")

\* A cancelled generator ends, whatever its goroutines are blocked in.
CancelledEnds == cancelled ~> process # "running"
=============================================================================
