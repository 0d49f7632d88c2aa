# A formal model of the enterprise application blueprint's programs

The repository is a Terraform blueprint with a few real programs in it. Terraform
and YAML are declarative; the programs are not, and they are where order, failure
and concurrency decide whether the result is right. This directory models those
programs in TLA+, checks the models with TLC on small instances and proves the
facts that matter for every instance with TLAPS.

- [1. The system](#1-the-system)
- [2. Modules and how they correspond to the code](#2-modules-and-how-they-correspond-to-the-code)
- [3. Runs: what is checked, with which bounds](#3-runs-what-is-checked-with-which-bounds)
- [4. Fairness](#4-fairness)
- [5. Proofs](#5-proofs)
- [6. Where code and documents disagree](#6-where-code-and-documents-disagree)
- [7. What is not modelled](#7-what-is-not-modelled)
- [8. Plan](#8-plan)
- [9. Running it](#9-running-it)

## 1. The system

### The HTC agent (`modules/htc-infra/agent/src`)

A Go program with several commands that sit between Pub/Sub, BigQuery or files and
a gRPC service that does the work. It runs as a Kubernetes Job or Deployment.

| part | state | operations | hard behaviour |
|---|---|---|---|
| statistics loop (`stats/stats.go`, `stats_accum.go`) | table of running tasks, cached idle time, idle timer, one goroutine behind an unbuffered channel | StartTask, DoneTask, CancelTask, SetStatsIdleTimeout, Stop | the loop is also the idle detector that cancels the whole program; every operation is a blocking send to a goroutine that may be gone |
| pull worker (`serve/pubsub.go`, `protoio/backend.go`, `main.go`) | leases, one goroutine per outstanding message, context, forced exit | receive, call, publish, acknowledge, signal, restart | answer before acknowledgement; idle timeout against a running task; shutdown against handlers that still send |
| round-trip generator (`test/pubsub.go`, `test/source.go`) | table of outstanding round trips | publish, receive, drain, wait | answers that overtake publish results, come twice, or never; end of the test decided by the idle detector |
| bounded pool (`stats/throttle.go`) | count of goroutines, unbuffered result channel, error | pull, dispatch, receive, drain | bound, first error, nobody left on the channel |
| push and RDF front ends (`serve/pubsub_push.go`, `serve/bigquery_rdf.go`) | one goroutine per connection, context, forced exit | request, call or calls, publish, answer code, shutdown | panics that net/http recovers, callers that give up and repeat, `Shutdown` that lets `main` go on under working handlers |
| batch commands (`serve/file.go`, `test/grpc.go`, `protoio/io.go`) | position in the input, writer | read, call, write, close, exit | which of the errors reaches the exit status |

The commands share the statistics loop by calls that block, the context by
cancellation, and Pub/Sub by messages.

### The load test (`modules/htc-infra/loadtest`)

The gRPC service the agent calls in the blueprint's tests. State: a counter of
workers under a condition variable, the id of the initialization that was done last
under a mutex. Operations: acquire a slot, initialize, work, release; the work may
fail or end the process. Hard: wakeups, the double test of the id, what survives a
crash.

The same binary makes the data and the tasks of the test (`gentasks`, `writedata`) and
does the work without a server (`readdata`, `load`): batch commands like the agent's,
two of them on a pool of the same algorithm with shared counters. Hard: partial files,
errors in a deferred `Close`, statistics of operations that failed.

### The deployment helper (`helpers/eab-deployer`)

A command line program that deploys an example in stages and records its steps in a
file, so that it can be killed and run again.

| part | state | operations | hard behaviour |
|---|---|---|---|
| steps (`steps/steps.go`) | map of statuses under a lock, the JSON file | RunStep, RunDestroyStep, ResetStep, Complete/Fail/Destroy | what is recorded against what is done, kills between the two, saves that fail before or after the file is truncated, goroutines that save one file |
| stages (`stages/*.go`, `main.go`) | copied code, infrastructure, cached source trees, service repositories | copy, apply, destroy, prepare, push, wait | one goroutine per service sharing a cache; one of them failing or panicking |
| pipeline wait (`gcp/gcp.go`) | what the last poll said | wait for the build, retry it, find the release, wait for and promote rollouts | everything polled goes on by itself; retries, timeouts, order of promotion |

### What makes these parts correct

- No request is acknowledged before its answer is in the response topic.
- The idle detector never ends a program that is at work, and ends one that is not.
- A program that is told to stop stops, without a panic and without leaving a
  goroutine blocked.
- An HTTP request is answered with a 200 without an error message only when its answers
  are there, whatever panicked, gave up or was shut down.
- A batch command that exits with success has done all of its input.
- Pool and server keep to their number of workers, lose no error and no wakeup.
- A step recorded as completed is done; a success that is reported is there; no
  outcome is lost among goroutines, and none without an error.
- A release that is reported as finished is rolled out on the targets that were found for
  it, and retries are bounded.

`PROJECT.json` lists each hazard at its line with the properties that cover it, or
the reason why none does.

## 2. Modules and how they correspond to the code

`map` in `PROJECT.json` gives the lines of each definition; this is the overview.

**`StatsLoop`** is the fragment the agent's commands share: the goroutine
`showStats` with one action for every branch of its select. A rendezvous on the
unbuffered channel is one step of two goroutines: `Receive` is the loop's half, and
a module that extends `StatsLoop` adds the sender's. `loop = "gone"` means that the
goroutine has returned; from then on no send is possible. There is no clock: a
running timer may fire at any later moment, so every idle timeout and every duration
of a task is covered. Histograms and rates are only logged and are left out.

**`PullAgent`** (extends `StatsLoop`) is one process of `serve pubsub-pull` with
its subscription and its restarts. `main` walks through connecting, setting the
timeout, `Receive` and `Stop`; `handler[s]` is the goroutine in slot `s` of
`--maxoutstandingmessages`, from `StartTask` over the call, `DoneTask`, the reply
and the publish to the acknowledgement. `TaskId` is the constant empty id, because
that is what the code reports (section 6). `ProcessEnds` clears everything in
memory; leases stay until they expire. The subscription is external: it hands a
request out again after a nack or an expired lease, and an acknowledgement may be
lost. A request without attributes makes `handleMessage` assign into a nil map,
which ends the process.

**`AtLeastOnce`** is the promise: a request is settled only after it was answered.
`PullAgent` and `HttpAgent` implement it under the mapping in `Promise`.

**`HttpAgent`** (extends `StatsLoop`) is one process of `serve pubsub-push` or
`serve bigquery-rdf`, with its callers and its restarts. `handler[s]` is the goroutine
of a connection: it reads the request, makes one call (push) or one call after the other
(rdf, `call[s]` and `replies[s]`), publishes or fills the response, and writes the
answer. push answers a failure with 400; rdf answers a batch whose loop ended at a
failed call with 200 and an error message, with null for the replies it lacks, and only a
body it cannot read with 400 (`refused`). So `request[m]` has two states for a 200:
`settled` without an error message and `faulted` with one; a caller may take either for
the end of the request, or send a faulted one again. A batch may be empty. `caller[s]` tells whether the other end still listens: a caller gives up
when its deadline passes and may send the request again. A panic in a handler ends the
connection and not the process, because net/http recovers it. The two commands end
differently: rdf calls `Shutdown`, at which `ListenAndServe` returns at once and `main`
goes on to `Stop` while handlers work; push has no shutdown at all, and only the forced
exit ends it. Pub/Sub and BigQuery are external: they send a request, take an answer
or give up.

**`RoundTrip`** (extends `StatsLoop`) is `test pubsub`: `item[i]` follows a message
through the publisher and the goroutine that waits for its result, `answer[i]`
follows its answer through the receiver. The two run independently, so an answer may
come before the result of the publish. `SubscriptionFails` covers a subscription
that fails as well as one that was never given. Neither goroutine is waited for at
the end: `SendPanics` is what Go does when one of them sends on the channel `Stop`
closed. The pool under `Dispatch` is not repeated here: a message in state `start`
is a worker of it, and `ApplyParallel` shows that the pool drains.

**`ApplyParallel`** is the pool, with the order in which goroutines come to the
unbuffered channel in `sent`. The same algorithm, over a buffered channel, is in
`loadtest/utils.go:49-89`.

**`Batches`** (extends `ApplyParallel`) is a process of one of six batch commands:
`grpc`, `readdata` and `writedata` call the pool with a source, a unit of work and
statistics; `file`, `load` and `gentasks` work line by line into a writer. A file is
read or written in `Chunks` pieces, so an item can fail half done. `dropped` is a
history variable: an error was logged, printed or ignored where the code does so, and
the exit status does not know of it. Signals and the forced exit belong to the agent's
two commands; the load test handles none. Throttle appears as what it does to the
sequence (it may end it at cancellation), not as a rate.

**`LoadServer`** is `loadtest serve`. `call[c]` is a call's goroutine; `waiters` is
the condition variable's queue. `Acquire` is what happens between taking the lock
and giving it up, in `Unlock` or in `Wait`; a signalled call goes back to `acquire`
and may find a newcomer in its slot. `MutexFree` is `initialMu`. A process that
exits in `simulateWork` is started again with an empty memory.

**`Deployer`** is the helper over several invocations. `run[n]` is the goroutine of
step `n`; `Skip`, `BodyBegins`, `Record`, `RecordFails`, `Saved` and `SaveFails` are
`RunStep` and its relatives. A save that succeeds is two steps, open with truncation
(`Record`) and write (`Saved`), with a kill possible in between. One that fails does so
at open (`RecordFails`: memory has the new status, the file stays whole, or absent, as it
was) or after it (`SaveFails`: the file is torn). An error of `Close` after all was
written is counted as the latter. `OnDisk` is what can be read; `Start` loads it, or
fails, which it may do on any file. `unsaved` is a history variable: the steps an open
failed for since a save last succeeded. The bodies act on `dir`, `infra`, `deployed`, the cache (`clone`,
`patched`) and the service repositories (`pushed`); what git, terraform and gcloud
answer is free. `undoing`, `treeCut` and `applyLost` are history variables: they name
the three situations the code does not recover from (section 6: an unfinished destroy,
a kill while the shared tree is made, a terraform apply that left nothing in the file,
because of a kill or of an open that failed, and no outcome of which was written since),
and each invariant excludes exactly the one that concerns it.

**`StepRecord`** is what `Deployer` promises with its file: one record of statuses
that changes one status at a time, in which a completed step is not completed again and
only what was recorded is destroyed, with a copy that is kept for the next invocation. An
update is kept, or it is not and the copy stays what it was; `Forget` is the end of an
invocation, after which the record is the copy. It starts afresh only when there is
nothing left to undo. The mapping in `Register` reads memory and file of a running
invocation, and the file between two; a record is broken when an invocation ended with a
torn file.

**`PipelineWait`** is the helper's wait for one service: polls on one side, and
Cloud Build and Cloud Deploy, which go on by themselves, on the other. `order` is
what `FindRelease` finds: any order of any of the targets, because it comes from ranging
over the map `targetArtifacts` of the release as it is read at that moment. With none
the wait is over and reports success. A gcloud
command that fails ends the wait (`aborted`), as `runCmd` fails the run. A delivery
pipeline with at least one target is assumed: the caller waits for a release only if
Terraform's outputs name targets for the service (`apply.go:177`). That is another list
than the release's own, so it does not exclude an empty `order`.

The `MC*` modules only name model values and sets for the configurations.
Definitions whose comment says "Mutant" are not part of a specification: each is a
definition of the model with a plausible bug, listed under `mutants`, and replacing
the original by it makes TLC find the named property violated.

## 3. Runs: what is checked, with which bounds

| run | instance | properties |
|---|---|---|
| `PullAgentTwoSlots` | 2 requests, one without attributes; 2 slots; 2 processes | `AckedIsPublished`, `KeepsPromise` (refinement of `AtLeastOnce`), `NoGhostTask`, `NobodySendsAfterStop` |
| `PullAgentJob` | 2 requests; 1 slot, as in the Job template; 2 processes | `IdleMeansNoTask`, `DrainedAgentStops`, `HandlersSettle` |
| `RoundTrip` | 2 messages, with a subscription | `OutstandingIsExact`, `IdleMeansAllReceived`, `EndsWhenAnswered`, `CancelledEnds` |
| `LoadServer` | 3 concurrent calls, 2 workers, 2 initializations, 5 arrivals | `SlotsAreExact`, `NoLostWakeup`, `InitBeforeTask`, `InitIsNotRepeated`, `CallsReturn` |
| `HttpAgent` | push and rdf; 2 requests: one that may make the handler panic, as a batch of 2 calls, and one empty as a batch; 2 connections; 2 processes | `RepliesMatch`, `KeepsPromise`, `NoGhostTask`, `RequestsSettle` |
| `Batches` | 3 workers, up to 5 items or lines, files of 2 pieces | `PoolIsBounded`, `NothingLeftBehind`, `NoErrorLost`, `FirstErrorWins`, `FewStartsAfterFailure`, `SuccessIsComplete`, `StatisticsExact`, `CommandEnds` |
| `Deployer` | 2 services, 1 example, 3 invocations of any kind | `CompletedIsDone`, `SuccessIsDeployed`, `DestroyLeavesNothing`, `FileIsMemory`, `PushedIsWhole`, `NeverStuck`, `OutcomesAreRecorded`, `IsOneRecord` (refinement of `StepRecord`) |
| `PipelineWait` | 3 stages, 2 attempts at a build, 1 retry of a rollout | `OkIsRolledOut`, `PromotedAfterSuccess`, `NoBuildBesidesOwn`, `WaitEnds` |
| `PullAgentIdleTwo`, `PullAgentHang`, `DeployerDestroy`, `PipelineStages` | as above | one property each, violated: section 6 |

No run checks a type invariant: every module with variables of its own has it as a
theorem (section 5), and a run would add nothing to that.

Why the bounds are enough for the cases that matter:

- *Two requests and two slots* are the least in which tasks overlap under one id, a
  request is handed out twice at the same time, and one handler shuts down while
  another works. *Two processes* give one crash and one recovery, which is all a
  lease can tell apart.
- *Two messages* in `RoundTrip` allow an empty table between them, which is the
  moment a wrong idle timeout would end the test.
- *Three calls on two workers* give a waiter, a newcomer that is faster than it, and
  two calls that meet in `initialize` with equal or different ids. *Five arrivals*
  let a slot, an id and a call be reused after a crash.
- *Two connections and a batch of two* let one handler work while the other panics,
  is given up or is shut down, a request be repeated while its first handler works,
  and a batch fail or panic after its first reply. *Two processes* give a kill and a restart.
- *Three workers and five items* fill the pool, refill it after a good result and
  leave items unstarted after a failure at the limit. *Two pieces* distinguish a file
  that is untouched, half done and done.
- *Two services* share the cache and the steps file. *Three invocations* are the
  shortest way from a kill over a destroy to the deploy that would believe a stale
  record.
- *Three stages* distinguish the first, a middle and the last target. They can
  be found in any order, all, some or none of them. The code's limits (5, 50, 3, 3) are replaced by 1, 2, 2 and 1: every loop still goes round and
  still runs out.

Deadlock is not checked because every program here ends; that nobody is stuck is
stated as `NeverStuck`, `CommandEnds`, `RequestsSettle`, `CallsReturn`, `WaitEnds`, `CancelledEnds`,
`HandlersSettle` and `DrainedAgentStops` instead.

Symmetry is used for the slots (`PullAgentTwoSlots`) and the services (`Deployer`),
which no definition tells apart, and only in runs without liveness properties.

## 4. Fairness

Go runs every goroutine that can run: weak fairness of each goroutine's step. A
select with several ready branches takes one at random, so a branch that is ready
again and again is taken: strong fairness of the rendezvous of `StartTask`,
`DoneTask`, `CancelTask` and `SetStatsIdleTimeout`, whose partner is in the select
only now and then, and weak fairness of `IdleExpires /\ Loop`, the timer's branch.
The forced exit's countdown runs out. Of the outside, `PullAgent` and `LoadServer`
assume that a call returns, well or badly (`--timeout` in the agent, bounded work in
the server); `RoundTrip` that publishes return and that each message is answered once;
`Batches` that the work on an item or a line returns as long as the context is not
cancelled, because after that a call may hang in the statistics loop and only the forced
exit ends the command; `HttpAgent` that calls and publishes return, and again strong
fairness of a handler's step, whose partner in the loop is there now and then;
`PipelineWait` that gcloud returns. Nothing is
assumed of deliveries, signals, crashes, lease expiries, restarts, builds and
rollouts: they may happen or not.

In `LoadServer` nothing favours a waiter over newcomers; that every call returns
depends on the bound on arrivals, and under an endless stream of calls the code does
not promise it.

## 5. Proofs

TLAPS checks the following for every value of the constants, from the named
assumptions in the modules and nothing else. Each is proved in three steps: a
strengthening `IInv` holds initially, every action keeps it, and it implies the
property.

- **`PullAgent_proofs`**: type correctness; `AckedIsPublished`; the refinement of
  `AtLeastOnce` (`ImplementsPromise`); `NoGhostTask`; `NobodySendsAfterStop`; and
  `IdleMeansNoTask` for one slot (`OneSlotIdle`). The strengthening for the first
  relates each handler's state to the topic: a handler that is about to acknowledge
  has published. For the shutdown it is that `Stop` is only reached when all slots are
  free. For the idle detector it is that the cached idle time is only set over an
  empty table and that a timer only runs in an idle period; with one slot the table is
  empty exactly when the handler does not work. With two slots the theorem is false,
  which is what `PullAgentIdleTwo` shows. `OnlyTheIdleTimeoutHangs` does the same for
  `PullAgentHang`: without an idle timeout a worker that is cancelled, or whose loop is
  gone, always has its forced exit coming, so the idle timeout's own cancel is the cause.
  `IdleAgentIsArmed`: with an idle timeout, a worker whose handlers all rest has its loop on
  the way to the select or in it with the timer running; it follows from the empty table
  and from `TimerIsArmed`, that an empty table has its idle time taken and a select in an
  idle period its timer started. `HandlersRunOut`: a handler keeps its one message and is
  at most six steps from having settled it, none of which goes back.
- **`RoundTrip_proofs`**: types, `OutstandingIsExact`, `IdleMeansAllReceived`. The
  last joins the loop's cached idle time, the exact table, and `main`, which asks for
  the timeout only when everything is published. `CancelHasAnEnd` uses that again: the
  loop is never gone under a publisher that would block on it, unless the forced exit is
  coming. `CompleteTestIsArmed` is the same as `IdleAgentIsArmed` for a generator that has
  all its answers, and `OutstandingGoesOn` says where the ones it lacks are: with the
  server, a publish or a handler, never in front of their publish.
- **`LoadServer_proofs`**: types, `SlotsAreExact`, `NoLostWakeup`, `InitBeforeTask`,
  `InitIsNotRepeated`. The argument is about cardinalities of sets of calls;
  `NoLostWakeup` needs that the queue holds waiting calls only, each once. With the queue
  whole as well (every waiting call is in it), `SomeCallGoesOn`: calls never all wait.
  `CallsRunOut` counts the steps ahead of the calls, at most seven each: a call that is
  woken and finds its slot taken waits again, but somebody has then gone on by more steps
  than it fell back.
- **`HttpAgent_proofs`**: types, `RepliesMatch`, the refinement of `AtLeastOnce`
  (`HttpImplementsPromise`) and `NoGhostTask`, for any number of requests, connections,
  calls in a batch and restarts. The strengthening says what each point of a handler
  has behind it: the replies filled so far are the calls before the current one, a
  handler about to write a 200 without an error message has published, or has every
  reply, and, while the channel is open, a
  task is in the table only when a handler is between `StartTask` and `DoneTask`, where
  only a send on the closed channel panics. `HandlersAreCounted`: a handler has at most
  `StepsLeft` steps, each uses one up, nothing adds to them before it is through, and the
  loop it may wait for is only gone when the forced exit is coming.
- **`ApplyParallel_proofs`**: `PoolIsBounded`, `NothingLeftBehind`, `NoErrorLost`,
  `FirstErrorWins`, `FewStartsAfterFailure`. Items running and on the channel are counted
  against the caller's count; the first failure's place on the channel bounds what starts
  after it. `EveryCallEnds`: a number falls with every step, and until the call has
  returned somebody can take one.
- **`Batches_proofs`**: every behaviour of a batch command is, on the pool's variables, a
  behaviour of `ApplyParallel` (`BatchesUseThePool`), so the pool's five invariants hold inside
  each command (`PoolInBatches`); types; `SuccessIsComplete` (`SuccessMeansComplete`); and
  `StatisticsExact` (`StatisticsAreExact`).
  The strengthening of `SuccessIsComplete` says that a file item that ended without failure
  has moved all of its pieces, that the pool returns without an error only if the sequence
  was through and no item failed, and that a line command has handed one line to the writer
  for each it has finished, unless it dropped an error or is going to report one. That of
  `StatisticsExact` compares the counter of bytes with the cardinality of the set of pairs
  of an item that is over and a piece it moved, so that no sum has to be unfolded.
  `CommandsRunOut` carries `EveryCallEnds` over to the commands: with the pool's steps, the
  pieces still to be moved and the lines still to be read every step uses something up,
  and a command without an exit status always has a step it can take.
- **`Deployer_proofs`**: types, `FileIsMemory`, `OutcomesAreRecorded`, `PushedIsWhole`, the
  refinement of `StepRecord` (`ImplementsOneRecord`) and `SomeStepIsOpen`, for any number of
  services, examples, invocations and kills; `CompletedIsDone`, `SuccessIsDeployed` and
  `DestroyLeavesNothing` (`DestroyIsComplete`) under the named assumption
  `Examples = {Default}`, without which the first two are false (section 6).
  `RecordInv`: one goroutine is between the change in memory and
  the end of the save, what it writes is still what memory holds, and what can be read from
  the file differs from memory in the steps of `unsaved` only, each of which returned an error. `InUse`: a step is
  worked on only as its status asks for, and nobody but its goroutine changes that, so a
  completed step is not completed again and only a recorded one is destroyed. `TreeInv`:
  services work only after the infrastructure stage, one of them at a time makes a tree, that
  tree is partial only meanwhile, and who is about to copy has a whole one. `RecordTruthful`:
  file, memory and the bodies that have just succeeded tell what is there, which needs
  `RecordInv`, because a body that undoes its own step must know that a readable file
  does not still call it completed. `InfraKept`: as long as there is infrastructure, and no
  apply left it unrecorded (`applyLost`), the record holds a status of the apply step at which
  a destroy does not skip it. `InPlace` says where every goroutine can be, from which
  `SomeStepIsOpen` finds the one that can go on. `InvocationsRunOut` bounds how often: a
  finite set of pairs of a name and a number, at most nine for each name, loses an element
  with every step but the start of an invocation. It assumes that the set of services is
  finite, which the keys of a map read from a file are; no other theorem about the helper
  needs that.
- **`PipelineWait_proofs`**: types, `OkIsRolledOut`, `PromotedAfterSuccess`,
  `NoBuildBesidesOwn`, for pipelines of every length and every bound. The helper acts on
  statuses it read some steps ago, so the argument is that the statuses it acts on are
  final: an ended build stays as it is, and a rollout that succeeded is never started
  again, because the keys of a map have each target once (`OrdersAreApart`), so
  no later promotion or retry meets it.
  `EveryLoopIsCounted`: every step of the helper lowers a triple of numbers in the
  lexicographic order, which is well-founded, and the cloud cannot raise it.
  `StagesInOrderOfTheKeys`: when the keys come as the first stages in their order
  (`KeysInOrder`) the property that `PipelineStages` refutes holds, so the keys of the map
  are all that is wrong.

Only model-checked, because the backends used here cannot reason about fairness and
ENABLED:

| property | what is proved of it |
|---|---|
| `WaitEnds` | `EveryLoopIsCounted`: no loop is endless |
| `CommandEnds` | `CommandsRunOut`, and `EveryCallEnds` for the pool: no deadlock, no endless loop |
| `RequestsSettle` | `HandlersAreCounted`: the steps are bounded, and the one thing that can be missing brings the forced exit |
| `CancelledEnds` | `CancelHasAnEnd`: something that ends the generator is always there |
| `EndsWhenAnswered` | `CompleteTestIsArmed`, `OutstandingGoesOn`: the idle timer runs when all is answered, and what is not answered can be |
| `CallsReturn` | `SomeCallGoesOn`, `CallsRunOut`: never everybody waits, and the steps of the calls are bounded |
| `HandlersSettle` | `HandlersRunOut`: the steps are bounded; `OnlyTheIdleTimeoutHangs`: cancelled without a forced exit only by the idle timeout |
| `DrainedAgentStops` | `IdleAgentIsArmed`: the idle timer runs when the handlers rest |
| `NeverStuck` | `SomeStepIsOpen`: the same with the guards of the actions in place of ENABLED; `InvocationsRunOut` bounds the steps |

For each, what is left to TLC is that a step that can be taken is taken, under the
fairness of section 4.

## 6. Where code and documents disagree

Each is a run that ends in a violation of one property.

- `PullAgentIdleTwo`: the invoker looks for the request's id in the wrong context, all
  tasks share the empty id, and with more than one outstanding message the idle
  timeout cancels the program under a running task. The Job template uses one
  outstanding message, for which the property is proved.
- `PullAgentHang`: after the idle timeout the loop is gone, and a handler that was just
  given a request blocks in `StartTask` for ever; nothing starts the forced exit.
- `DeployerDestroy`: a deploy killed in its first `terraform apply` leaves
  infrastructure and no record; `-destroy` skips it and reports success. The same happens
  without a kill when the steps file cannot be opened for the outcome of that apply
  (`steps.go:117`): the file stays the older, readable record, with the copied code only.
- `PipelineStages`: targets are promoted in the order of a Go map.

Three more the models contain and the properties name, without a run of their own:

- `loadtest/request.proto:55` asks for an initialization "(do it only once for the same
  id!)". `simulator.go:107` compares with the last id only, so calls whose ids take turns
  (i1, i2, i1) initialize again in one process. The run `LoadServer` has two ids and reaches
  this. `InitIsNotRepeated` says what the code does keep: never again unless another
  initialization was done in between, whoever waits, fails or crashes.
- `gcp.go:312` says that `WaitReleaseSuccess` "waits for the current release in a repo to
  finish". It waits for the keys of `targetArtifacts` as they are when the release is found
  (`gcp.go:348-363`): with none it reports success at once, with some of the targets it
  reports success when those are rolled out. That the service has targets at all is checked
  on Terraform's outputs (`apply.go:177`). `OkIsRolledOut` is about the targets found.
- `gcp.go:279` triggers a new build for one that failed. At the first attempt
  `GetLastBuildStatus` may find a build that still runs (its status is not `SUCCESS`), and
  if its log looks retryable another is started beside it. `NoBuildBesidesOwn` is about the
  builds the wait has started itself.

Situations the models contain and no text of the repository speaks about, so that no
run is made of them:

- The rdf server answers a failed batch with status 200 (`bigquery_rdf.go:110-123`): the
  error message is in the body, the replies have the length of the batch, with null from the
  failed call on. A caller that goes by the status, or by the replies alone, takes it for a
  success. `KeepsPromise` and `RepliesMatch` speak of a 200 without an error message
  (`settled`); a `faulted` request may end unanswered.
- A save that fails when the file is opened leaves the record of an earlier save: the
  invocation goes on and ends with an error, and the next one takes the older record for the
  last, so steps that were done are done again, and a destroy may skip (see
  `DeployerDestroy`). `FileIsMemory` and `OutcomesAreRecorded` name those steps (`unsaved`),
  and in `StepRecord` they are updates that were not kept.
- A torn steps file ends every later invocation until it is removed by hand.
- An unfinished destroy leaves the service steps recorded as completed (`undoing`).
- A kill in a terraform apply, or a file that cannot be opened after it, leaves
  infrastructure that no record tells of until the step is run again (`applyLost`);
  `DeployerDestroy` is its shortest form.
- A kill while the shared tree is made leaves a partial tree that is taken for a whole
  one (`treeCut`).
- One steps file serves every `-example`: steps recorded for one are skipped for another.
- A failed subscription of the generator is only logged. An interrupt of the generator
  makes `Stop` close the channel under goroutines that still send on it, which panics
  (`SendPanics`), where an orderly end would have exited; the exit status differs.
- After a signal the rdf server's `main` may close the channel and exit under handlers
  whose callers wait (`SendPanics`, recovered by net/http); the push server only ends by
  its forced exit. Neither loses an answer a caller was promised (`KeepsPromise`).
- `serve file` ranges over its messages without their errors: an input that cannot be read
  or decoded further ends the loop, one empty request is sent, and the exit status is 0.
  `gentasks` ends its file early when it cannot make a task, and prints an error of `Close`,
  with exit status 0; `load` does so for a line it cannot write. In the model each sets
  `dropped`, and `SuccessIsComplete` says that there is no other such place.
- The agent's `ReadLines` drops a last line without a newline (`Readable`).
- A server with `--workers 0` answers nobody, and an initialization with the id -1 is
  never done.

## 7. What is not modelled

- `Throttle`'s rate: it draws waiting times at random against a clock, and what it
  promises is a number of items per second.
- Conversions between JSON and protobuf, names and contents of files, logged histograms:
  data the properties do not tell apart. A conversion is a step that may fail.
- The cloud clients beyond the points where they fail: wrappers of libraries.
- The helper's parsing and validation of its input, `-validate`, `-list_steps` and its
  prompts: they change nothing and decide only whether the program goes on.
- `build/tf-wrapper.sh`, the integration tests and scripts, example workloads, Terraform and
  Cloud Build files: sequential scripts without state of their own, test code, or
  declarative configuration.

`components` in `PROJECT.json` gives the reason for each. In the modelled parts the
payloads, paths and messages are abstracted; a request is a model value.

## 8. Plan

1. Done: `StatsLoop`, `PullAgent`, `RoundTrip`, `ApplyParallel`, `LoadServer`,
   `Deployer`, `PipelineWait`, `HttpAgent`, `Batches`, their runs, and the proofs of
   section 5.
2. Agent and load server composed: a call given up by the agent goes on in the server
   and keeps its slot there.
3. A steps file for each example in `Deployer`, should the code get one.

## 9. Running it

    tlc -workers 2 -config PullAgentJob.cfg MCPullAgent.tla
    tlapm PullAgent_proofs.tla

`PROJECT.json` names the module of each configuration. All passing runs together take
a few minutes; `HttpAgent` and `RoundTrip` are the longest.
