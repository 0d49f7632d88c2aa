------------------------------ MODULE StatsLoop ------------------------------
(***************************************************************************)
(* The statistics goroutine of the HTC agent (agent/src/stats/stats.go).    *)
(*                                                                          *)
(* One goroutine owns the table of running tasks and reads an UNBUFFERED    *)
(* channel: StartTask, DoneTask, CancelTask and SetStatsIdleTimeout are     *)
(* blocking sends.  The same goroutine is the agent's idle detector: when   *)
(* the table has been empty for the idle timeout it cancels the context     *)
(* the whole program runs under.                                            *)
(*                                                                          *)
(* This module is the fragment the agent's commands share: the loop's       *)
(* state and one action per branch of its select.  A rendezvous on the      *)
(* channel is one step of two goroutines; the sender's half is added by     *)
(* the module that extends this one (PullAgent, RoundTrip).                 *)
(*                                                                          *)
(* Time is abstracted: a running timer may fire at any later moment, so the *)
(* model covers every idle timeout and every duration of a task.            *)
(***************************************************************************)
EXTENDS FiniteSets

VARIABLES
    cancelled,   \* the root context has been cancelled
    closed,      \* Stop has closed statsChannel
    loop,        \* where the goroutine is: head of the loop, in select, gone
    timeoutSet,  \* timeout >= 0: an idle timeout was configured
    idleTime,    \* ~idleTime.IsZero(): the loop believes nothing runs
    timerOn,     \* timeoutTimer is running (or has fired and was not read)
    currentOps   \* ids of the tasks the loop believes to be running

loopVars == <<loop, timeoutSet, idleTime, timerOn, currentOps>>
statsVars == <<cancelled, closed, loopVars>>

StatsTypeOK(Ids) ==
    /\ cancelled \in BOOLEAN
    /\ closed \in BOOLEAN
    /\ loop \in {"head", "select", "gone"}
    /\ timeoutSet \in BOOLEAN
    /\ idleTime \in BOOLEAN
    /\ timerOn \in BOOLEAN
    /\ currentOps \subseteq Ids

StatsInit ==
    /\ cancelled = FALSE
    /\ closed = FALSE
    /\ loop = "head"
    /\ timeoutSet = FALSE
    /\ idleTime = FALSE
    /\ timerOn = FALSE
    /\ currentOps = {}

\* The loop's state in a process that has just been started again.
StatsFresh ==
    /\ cancelled' = FALSE
    /\ closed' = FALSE
    /\ loop' = "head"
    /\ timeoutSet' = FALSE
    /\ idleTime' = FALSE
    /\ timerOn' = FALSE
    /\ currentOps' = {}

-----------------------------------------------------------------------------
(* The head of the loop: the loop condition and the timer's management.     *)

\* for ctxt.Err() == nil: a cancelled context ends the loop.
LoopEnds ==
    /\ loop = "head"
    /\ cancelled
    /\ loop' = "gone"
    /\ UNCHANGED <<cancelled, closed, timeoutSet, idleTime, timerOn, currentOps>>

\* Mutant: the branch for running tasks forgets timeoutTimer.Stop().
LoopWaitsTimerKept ==
    /\ loop = "head"
    /\ ~cancelled
    /\ loop' = "select"
    /\ timerOn' = (timerOn \/ (idleTime /\ timeoutSet))
    /\ UNCHANGED <<cancelled, closed, timeoutSet, idleTime, currentOps>>

\* Something runs: the timer is stopped.  Idle without a configured timeout:
\* the timer is left alone.  Idle with time left: the timer is restarted.
LoopWaits ==
    /\ loop = "head"
    /\ ~cancelled
    /\ loop' = "select"
    /\ timerOn' = (idleTime /\ (timeoutSet \/ timerOn))
    /\ UNCHANGED <<cancelled, closed, timeoutSet, idleTime, currentOps>>

\* timerLimit <= 0: the idle period is over already.  cancel() does not leave
\* the iteration, the goroutine still goes to its select.
LoopIdleOver ==
    /\ loop = "head"
    /\ ~cancelled
    /\ idleTime /\ timeoutSet
    /\ cancelled' = TRUE
    /\ loop' = "select"
    /\ UNCHANGED <<closed, timeoutSet, idleTime, timerOn, currentOps>>

(* The branches of the select.                                              *)

\* case <-ctxt.Done(), and the read of a closed statsChannel.
SelectDone ==
    /\ loop = "select"
    /\ cancelled \/ closed
    /\ loop' = "gone"
    /\ UNCHANGED <<cancelled, closed, timeoutSet, idleTime, timerOn, currentOps>>

\* case <-time.After(...): statistics are logged and the window is reset.
SelectLog ==
    /\ loop = "select"
    /\ loop' = "head"
    /\ UNCHANGED <<cancelled, closed, timeoutSet, idleTime, timerOn, currentOps>>

\* case <-timeoutTimer.C: the idle timeout has passed.
SelectTimer ==
    /\ loop = "select"
    /\ timerOn
    /\ timerOn' = FALSE
    /\ cancelled' = TRUE
    /\ loop' = "head"
    /\ UNCHANGED <<closed, timeoutSet, idleTime, currentOps>>

\* Mutant: idleTime is cleared when a task runs and never taken again.
ReceiveNeverIdle(ops) ==
    /\ loop = "select"
    /\ ~closed
    /\ loop' = "head"
    /\ currentOps' = ops
    /\ idleTime' = (idleTime /\ ops = {})
    /\ UNCHANGED <<cancelled, closed, timerOn>>

\* What every event does after its own effect: the idle time is taken when the
\* table became empty and cleared when it is not empty.
Receive(ops) ==
    /\ loop = "select"
    /\ ~closed
    /\ loop' = "head"
    /\ currentOps' = ops
    /\ idleTime' = (ops = {})
    /\ UNCHANGED <<cancelled, closed, timerOn>>

\* Mutant: CancelOp counts the cancelled task and leaves it in the table.
ReceiveCancelKeeps(id) == Receive(currentOps) /\ UNCHANGED timeoutSet

\* The loop's half of StartTask(id), DoneTask(id) and CancelTask(id).  An id
\* that is already in the table is overwritten, an unknown one is ignored.
ReceiveStart(id) == Receive(currentOps \cup {id}) /\ UNCHANGED timeoutSet
ReceiveDone(id) == Receive(currentOps \ {id}) /\ UNCHANGED timeoutSet
ReceiveCancel(id) == Receive(currentOps \ {id}) /\ UNCHANGED timeoutSet

\* Mutant: the break after the idle timeout is stored leaves the loop.
ReceiveTimeoutBreaks ==
    /\ loop = "select"
    /\ ~closed
    /\ loop' = "gone"
    /\ timeoutSet' = TRUE
    /\ UNCHANGED <<cancelled, closed, idleTime, timerOn, currentOps>>

\* The loop's half of SetStatsIdleTimeout.
ReceiveTimeout == Receive(currentOps) /\ timeoutSet' = TRUE

LoopStep ==
    \/ LoopEnds \/ LoopWaits \/ LoopIdleOver
    \/ SelectDone \/ SelectLog \/ SelectTimer

\* The loop finds the idle period over, at its head or in its select.
IdleExpires == LoopIdleOver \/ SelectTimer

\* The step that cancels the program because it was idle.
CancelsWhenIdle == ~cancelled /\ cancelled' /\ IdleExpires
=============================================================================
