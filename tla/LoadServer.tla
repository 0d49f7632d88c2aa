----------------------------- MODULE LoadServer -----------------------------
(***************************************************************************)
(* The simulated workload of the HTC infrastructure: `loadtest serve`        *)
(* (htc-infra/loadtest), the gRPC server the agent's worker calls.           *)
(*                                                                          *)
(* Every call takes one of --workers slots (workCounter: a counter under a   *)
(* sync.Cond), runs its initialization if the process has not run that one   *)
(* last, does its work and frees the slot.  A signalled waiter has to take   *)
(* the lock again and may find that a newcomer was faster.  Work may fail,   *)
(* and may end the whole process, which is then started again.  The call's   *)
(* context is never looked at: a caller that gives up changes nothing.       *)
(***************************************************************************)
EXTENDS Naturals, Sequences, FiniteSets

CONSTANTS
    Calls,       \* calls that may be going on at the same time
    InitIds,     \* ids of initializations a task may ask for
    NoInit,      \* task.Init is nil
    Unset,       \* initialId of a new process, -1
    MaxWorkers,  \* --workers
    MaxArrivals  \* bound on the number of calls that come in

ASSUME ServerAssumption ==
    /\ IsFiniteSet(Calls)
    /\ NoInit \notin InitIds /\ Unset \notin InitIds
    /\ MaxWorkers \in Nat \ {0}
    /\ MaxArrivals \in Nat

VARIABLES
    call,            \* call[c]: where the goroutine of call c is
    initOf,          \* initOf[c]: the initialization its task asks for
    currentWorkers,  \* the counter
    waiters,         \* the calls in workerLock.Wait, in the order they came
    initialId,       \* the initialization that succeeded last
    initialized,     \* history: those that succeeded in this process
    arrivals         \* number of calls so far

vars == <<call, initOf, currentWorkers, waiters, initialId, initialized, arrivals>>

CallStates == {"idle", "acquire", "wait", "init", "initWork", "task", "release"}
Requests == InitIds \cup {NoInit}

TypeOK ==
    /\ call \in [Calls -> CallStates]
    /\ initOf \in [Calls -> Requests]
    /\ currentWorkers \in 0..MaxWorkers
    /\ waiters \in Seq(Calls)
    /\ initialId \in InitIds \cup {Unset}
    /\ initialized \subseteq InitIds
    /\ arrivals \in 0..MaxArrivals

Init ==
    /\ call = [c \in Calls |-> "idle"]
    /\ initOf = [c \in Calls |-> NoInit]
    /\ currentWorkers = 0
    /\ waiters = <<>>
    /\ initialId = Unset
    /\ initialized = {}
    /\ arrivals = 0

Goes(c, from, to) == call[c] = from /\ call' = [call EXCEPT ![c] = to]

\* RunLibrary is called.
Arrive(c, i) ==
    /\ arrivals < MaxArrivals
    /\ arrivals' = arrivals + 1
    /\ Goes(c, "idle", "acquire")
    /\ initOf' = [initOf EXCEPT ![c] = i]
    /\ UNCHANGED <<currentWorkers, waiters, initialId, initialized>>

\* Acquire, from taking the lock to giving it up, in Unlock or in Wait.
Acquire(c) ==
    /\ \/ /\ currentWorkers < MaxWorkers
          /\ Goes(c, "acquire", "init")
          /\ currentWorkers' = currentWorkers + 1
          /\ UNCHANGED waiters
       \/ /\ currentWorkers >= MaxWorkers
          /\ Goes(c, "acquire", "wait")
          /\ waiters' = Append(waiters, c)
          /\ UNCHANGED currentWorkers
    /\ UNCHANGED <<initOf, initialId, initialized, arrivals>>

\* Mutant: initialMu is not held while the initialization runs.
NoMutex == TRUE

\* initialMu is held from the test of initialId to the end of the work.
MutexFree == \A c \in Calls : call[c] # "initWork"

\* initialize: nothing to do, done already, or to be done now.
Initialize(c) ==
    /\ \/ initOf[c] = NoInit /\ Goes(c, "init", "task")
       \/ MutexFree /\ initOf[c] = initialId /\ Goes(c, "init", "task")
       \/ MutexFree /\ initOf[c] \notin {NoInit, initialId} /\ Goes(c, "init", "initWork")
    /\ UNCHANGED <<initOf, currentWorkers, waiters, initialId, initialized, arrivals>>

\* Mutant: the id is stored although the initialization failed.
InitFailureStored(c) ==
    /\ initialId' = initOf[c]
    /\ \/ /\ Goes(c, "initWork", "task")
          /\ initialized' = initialized \cup {initOf[c]}
       \/ /\ Goes(c, "initWork", "release")
          /\ UNCHANGED initialized
    /\ UNCHANGED <<initOf, currentWorkers, waiters, arrivals>>

\* The work of an initialization returns: the id is stored, or the error ends
\* the call and the id stays what it was.
InitEnds(c) ==
    /\ \/ /\ Goes(c, "initWork", "task")
          /\ initialId' = initOf[c]
          /\ initialized' = initialized \cup {initOf[c]}
       \/ /\ Goes(c, "initWork", "release")
          /\ UNCHANGED <<initialId, initialized>>
    /\ UNCHANGED <<initOf, currentWorkers, waiters, arrivals>>

\* Mutant: the slot is not freed when the task's work fails.
TaskErrorLeaks(c) ==
    /\ Goes(c, "task", "release") \/ Goes(c, "task", "idle")
    /\ UNCHANGED <<initOf, currentWorkers, waiters, initialId, initialized, arrivals>>

\* Reading, computing, writing and the payload: done, or an error from any.
TaskEnds(c) ==
    /\ Goes(c, "task", "release")
    /\ UNCHANGED <<initOf, currentWorkers, waiters, initialId, initialized, arrivals>>

\* Mutants: the signal is only sent when the last worker leaves; it is not
\* sent at all.
ReleaseSignalsLast(c) ==
    /\ call[c] = "release"
    /\ currentWorkers' = currentWorkers - 1
    /\ \/ /\ waiters = <<>> \/ currentWorkers' > 0
          /\ call' = [call EXCEPT ![c] = "idle"]
          /\ UNCHANGED waiters
       \/ /\ waiters # <<>> /\ currentWorkers' = 0
          /\ call' = [call EXCEPT ![c] = "idle", ![Head(waiters)] = "acquire"]
          /\ waiters' = Tail(waiters)
    /\ UNCHANGED <<initOf, initialId, initialized, arrivals>>

ReleaseNoSignal(c) ==
    /\ Goes(c, "release", "idle")
    /\ currentWorkers' = currentWorkers - 1
    /\ UNCHANGED <<initOf, waiters, initialId, initialized, arrivals>>

\* Release: the longest waiter is signalled and goes for the lock again.
Release(c) ==
    /\ call[c] = "release"
    /\ currentWorkers' = currentWorkers - 1
    /\ \/ /\ waiters = <<>>
          /\ call' = [call EXCEPT ![c] = "idle"]
          /\ UNCHANGED waiters
       \/ /\ waiters # <<>>
          /\ call' = [call EXCEPT ![c] = "idle", ![Head(waiters)] = "acquire"]
          /\ waiters' = Tail(waiters)
    /\ UNCHANGED <<initOf, initialId, initialized, arrivals>>

\* simulateWork exits the process with status 100 (or it is killed while it
\* works); every call fails and a new process is started.
Crash ==
    /\ \E c \in Calls : call[c] \in {"initWork", "task"}
    /\ call' = [c \in Calls |-> "idle"]
    /\ initOf' = [c \in Calls |-> NoInit]
    /\ currentWorkers' = 0
    /\ waiters' = <<>>
    /\ initialId' = Unset
    /\ initialized' = {}
    /\ UNCHANGED arrivals

CallStep(c) ==
    Acquire(c) \/ Initialize(c) \/ InitEnds(c) \/ TaskEnds(c) \/ Release(c)

Next ==
    \/ \E c \in Calls :
          \/ CallStep(c)
          \/ \E i \in Requests : Arrive(c, i)
    \/ Crash

Spec == Init /\ [][Next]_vars

\* Every goroutine that can run is run, and work returns.  Nothing favours a
\* waiter over newcomers.
FairSpec == Spec /\ \A c \in Calls : WF_vars(CallStep(c))

-----------------------------------------------------------------------------
Holders == {c \in Calls : call[c] \in {"init", "initWork", "task", "release"}}

\* The counter is the number of calls that hold a slot, and never exceeds
\* --workers (main.go: "Limit the number of workers that can run").
SlotsAreExact ==
    /\ currentWorkers = Cardinality(Holders)
    /\ currentWorkers <= MaxWorkers

\* No wakeup is lost: when calls wait, every free slot has a call on its way to
\* it (utils.go: "Will let another worker proceed if one is blocked").
NoLostWakeup ==
    waiters # <<>> =>
        Cardinality({c \in Calls : call[c] = "acquire"}) >= MaxWorkers - currentWorkers

\* A task's work only runs after its initialization succeeded in this process,
\* although other calls initialize, fail and crash in between.
InitBeforeTask ==
    \A c \in Calls : call[c] = "task" /\ initOf[c] # NoInit => initOf[c] \in initialized

\* An initialization is done again only after another one was done in between:
\* calls that wait for one do not do it again ("Only run once per thread",
\* simulator.go).  It is less than request.proto asks for ("do it only once for
\* the same id!"): the process remembers the last id only, so calls of two ids
\* that take turns initialize each time.
InitIsNotRepeated ==
    [][\A c \in Calls : call[c] = "initWork" /\ call'[c] = "task" => initOf[c] # initialId]_vars

\* Every call returns, once calls stop coming in: the counter and the mutex
\* leave nobody waiting for ever.
CallsReturn == \A c \in Calls : call[c] # "idle" ~> call[c] = "idle"
=============================================================================
