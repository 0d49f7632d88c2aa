------------------------------- MODULE Batches -------------------------------
(***************************************************************************)
(* The batch commands of the agent and of the load test: a process that      *)
(* works off one input and exits.                                           *)
(*                                                                          *)
(* On the pool (ApplyParallel):                                             *)
(*   grpc       agent `test grpc`: call the backend once per line            *)
(*   readdata   loadtest: read every file below a directory                  *)
(*   writedata  loadtest: write a number of files                            *)
(* One line at a time:                                                      *)
(*   file       agent `serve file`: lines in, calls, lines out               *)
(*   load       loadtest: run the task in each line, results to stdout       *)
(*   gentasks   loadtest: make a number of tasks and write them as lines     *)
(*                                                                          *)
(* The exit status is all a job's controller sees of them.  The question is  *)
(* what a success means: which failures reach it and which are only logged.  *)
(***************************************************************************)
EXTENDS ApplyParallel

CONSTANT Chunks   \* pieces a file is read or written in

ASSUME ChunksAssumption == Chunks \in Nat \ {0}

VARIABLES
    command,     \* the command of this process
    total,       \* items of the input: lines, files, or tasks to make
    terminated,  \* the last line of the input ends with a newline
    cancelled,   \* agent: a signal cancelled the context
    stage,       \* where the command is; "pool" while ApplyParallel runs
    exit,        \* the exit status
    moved,       \* moved[i]: pieces of file i that were read or written
    ops,         \* ApplyParallelWithStats: operations that were counted
    work,        \* ApplyParallelWithStats: pieces that were counted
    pos,         \* lines read or tasks made so far
    unread,      \* file: reading failed, and the message at hand is nil
    out,         \* lines handed to the writer
    stored,      \* lines that are in the output when the command ends
    failure,     \* an error the command is going to report
    dropped      \* a failure was logged, printed or ignored: it is not reported

inputVars == <<command, total, terminated>>
poolVars == <<moved, ops, work>>
lineVars == <<pos, unread, out, stored, failure, dropped>>
batchVars == <<vars, inputVars, poolVars, lineVars, cancelled, stage, exit>>

PoolCommands == {"grpc", "readdata", "writedata"}
LineCommands == {"file", "load", "gentasks"}
AgentCommands == {"grpc", "file"}
Stages == {"setup", "pool", "pull", "work", "write", "close", "end"}

BatchTypeOK ==
    /\ TypeOK
    /\ command \in PoolCommands \cup LineCommands
    /\ total \in 0..MaxItems
    /\ terminated \in BOOLEAN
    /\ cancelled \in BOOLEAN
    /\ stage \in Stages
    /\ exit \in {"none", "ok", "error"}
    /\ moved \in [Items -> 0..Chunks]
    /\ ops \in Nat
    /\ work \in Nat
    /\ pos \in 0..MaxItems
    /\ unread \in BOOLEAN
    /\ out \in 0..(MaxItems + 1)
    /\ stored \in 0..(MaxItems + 1)
    /\ failure \in BOOLEAN
    /\ dropped \in BOOLEAN

BatchInit ==
    /\ Init
    /\ command \in PoolCommands \cup LineCommands
    /\ total \in 0..MaxItems
    /\ terminated \in BOOLEAN
    /\ command \notin AgentCommands => terminated
    /\ cancelled = FALSE
    /\ stage = "setup"
    /\ exit = "none"
    /\ moved = [i \in Items |-> 0]
    /\ ops = 0
    /\ work = 0
    /\ pos = 0
    /\ unread = FALSE
    /\ out = 0
    /\ stored = 0
    /\ failure = FALSE
    /\ dropped = FALSE

\* The items a command gets to see: the agent's ReadLines returns at the end of
\* the file and drops what it has read of a last line without a newline.
Readable == IF terminated \/ total = 0 THEN total ELSE total - 1

Goes(from, to) == stage = from /\ stage' = to

\* The command returns, with its error or without.
Exits(error) ==
    /\ stage' = "end"
    /\ exit' = IF error THEN "error" ELSE "ok"

\* What comes before the first item: connect to the backend, walk through the
\* directory, make the output's directory, create the output.
Setup ==
    /\ stage = "setup"
    /\ \/ stage' = (IF command \in PoolCommands THEN "pool" ELSE "pull") /\ UNCHANGED exit
       \/ command # "load" /\ Exits(TRUE)
    /\ UNCHANGED <<vars, inputVars, poolVars, lineVars, cancelled>>

\* An interrupt cancels the agent's context; the load test does not handle it.
Signal ==
    /\ command \in AgentCommands
    /\ exit = "none"
    /\ cancelled' = TRUE
    /\ UNCHANGED <<vars, inputVars, poolVars, lineVars, stage, exit>>

\* 15 seconds after the first signal, or at the second one, the agent is gone.
ForcedExit ==
    /\ cancelled
    /\ exit = "none"
    /\ Exits(TRUE)
    /\ UNCHANGED <<vars, inputVars, poolVars, lineVars, cancelled>>

-----------------------------------------------------------------------------
(* On the pool.                                                             *)

\* A step of ApplyParallel's caller that touches nothing else.
CallerOnly == UNCHANGED <<inputVars, poolVars, lineVars, cancelled, stage, exit>>

SourceYields ==
    /\ stage = "pool"
    /\ started < Readable
    /\ ~cancelled
    /\ PullBelowLimit \/ PullAtLimit
    /\ CallerOnly

\* The agent's sequences yield errors: the source cannot be read, a line is no
\* message.
SourceFails ==
    /\ stage = "pool"
    /\ command = "grpc"
    /\ PullError
    /\ CallerOnly

\* The sequence is through.  The agent's also end, without an error, when the
\* context is cancelled: in ReadLines, in the loop over the source, in Throttle.
SourceEnds ==
    /\ stage = "pool"
    /\ started = Readable \/ cancelled
    /\ PullEnd
    /\ CallerOnly

CallerGoesOn ==
    /\ stage = "pool"
    /\ LimitGood \/ LimitError \/ Drain
    /\ CallerOnly

\* ReadBytes and WriteBytes work in pieces.
ItemMoves(i) ==
    /\ stage = "pool"
    /\ command # "grpc"
    /\ i \in running
    /\ moved[i] < Chunks
    /\ moved' = [moved EXCEPT ![i] = @ + 1]
    /\ UNCHANGED <<vars, inputVars, lineVars, ops, work, cancelled, stage, exit>>

\* What ApplyParallelWithStats adds to its counters, a failed item's part too.
Count(i) ==
    IF command = "grpc" THEN UNCHANGED <<ops, work>>
                        ELSE ops' = ops + 1 /\ work' = work + moved[i]

\* Mutant: an item that fails is not counted.
ItemEndsUncounted(i) ==
    /\ stage = "pool"
    /\ Finish(i)
    /\ command = "grpc" \/ moved[i] = Chunks \/ i \in failed'
    /\ IF i \in failed' THEN UNCHANGED <<ops, work>> ELSE Count(i)
    /\ UNCHANGED <<inputVars, lineVars, moved, cancelled, stage, exit>>

\* The work on an item returns: without an error only when the file is through
\* and closed; with one after any piece, or from Close.
ItemEnds(i) ==
    /\ stage = "pool"
    /\ Finish(i)
    /\ command = "grpc" \/ moved[i] = Chunks \/ i \in failed'
    /\ Count(i)
    /\ UNCHANGED <<inputVars, lineVars, moved, cancelled, stage, exit>>

\* The statistics are logged, and ApplyParallel's error is the command's.
PoolReturns ==
    /\ stage = "pool"
    /\ Return
    /\ Exits(err # NoError)
    /\ UNCHANGED <<inputVars, poolVars, lineVars, cancelled>>

PoolCaller == SourceYields \/ SourceFails \/ SourceEnds \/ CallerGoesOn \/ PoolReturns

-----------------------------------------------------------------------------
(* One line at a time.                                                      *)

\* A step of a line command.
LineOnly == UNCHANGED <<vars, inputVars, poolVars, cancelled>>

\* The next line, or the next task.  Reading stops when the context is cancelled.
NextLine ==
    /\ pos < Readable
    /\ ~unread
    /\ ~cancelled
    /\ pos' = pos + 1
    /\ Goes("pull", "work")
    /\ UNCHANGED <<exit, unread, out, stored, failure, dropped>>
    /\ LineOnly

\* The input cannot be opened, read or decoded.  load returns the error.  file
\* ranges over the messages alone: it drops the error, which ends the sequence,
\* and goes on with the nil message that came with it.
ReadFails ==
    /\ \/ /\ command = "load"
          /\ stage = "pull"
          /\ Exits(TRUE)
          /\ UNCHANGED <<unread, dropped>>
       \/ /\ command = "file"
          /\ ~unread
          /\ Goes("pull", "work")
          /\ unread' = TRUE
          /\ dropped' = TRUE
          /\ UNCHANGED exit
    /\ UNCHANGED <<pos, out, stored, failure>>
    /\ LineOnly

\* The input is through.  WriteLines looks at the context once more.
LinesEnd ==
    /\ pos = Readable \/ cancelled \/ unread
    /\ Goes("pull", "close")
    /\ failure' = cancelled
    /\ UNCHANGED <<exit, pos, unread, out, stored, dropped>>
    /\ LineOnly

\* The call, the task or the encoding succeeds.  It may on a nil message: gRPC
\* sends an empty request.  WriteLines looks at the context before it writes.
WorkSucceeds ==
    /\ stage = "work"
    /\ stage' = IF cancelled THEN "close" ELSE "write"
    /\ failure' = cancelled
    /\ UNCHANGED <<exit, pos, unread, out, stored, dropped>>
    /\ LineOnly

\* The work fails.  file and load report it; gentasks logs that it could not
\* make a task, its generator ends, and the file goes on to its end.
WorkFails ==
    /\ Goes("work", "close")
    /\ failure' = (command # "gentasks")
    /\ dropped' = (dropped \/ command = "gentasks")
    /\ UNCHANGED <<exit, pos, unread, out, stored>>
    /\ LineOnly

WriteSucceeds ==
    /\ Goes("write", "pull")
    /\ out' = out + 1
    /\ UNCHANGED <<exit, pos, unread, stored, failure, dropped>>
    /\ LineOnly

\* A line cannot be written.  load prints a warning and goes on.
WriteFails ==
    /\ IF command = "load"
       THEN Goes("write", "pull") /\ dropped' = TRUE /\ UNCHANGED failure
       ELSE Goes("write", "close") /\ failure' = TRUE /\ UNCHANGED dropped
    /\ UNCHANGED <<exit, pos, unread, out, stored>>
    /\ LineOnly

\* Mutant: file's deferred Close drops its error.
CloseErrorDropped ==
    /\ stage = "close"
    /\ \/ stored' = out /\ Exits(failure) /\ UNCHANGED dropped
       \/ /\ stored' \in 0..out
          /\ Exits(failure)
          /\ dropped' = (dropped \/ command = "gentasks")
    /\ UNCHANGED <<pos, unread, out, failure>>
    /\ LineOnly

\* The deferred Close writes out what is buffered or creates the object, after
\* an error too.  When it fails, file reports it and gentasks prints it.  load
\* writes to stdout and closes nothing.
Close ==
    /\ stage = "close"
    /\ \/ stored' = out /\ Exits(failure) /\ UNCHANGED dropped
       \/ /\ command # "load"
          /\ stored' \in 0..out
          /\ Exits(failure \/ command = "file")
          /\ dropped' = (dropped \/ command = "gentasks")
    /\ UNCHANGED <<pos, unread, out, failure>>
    /\ LineOnly

LineStep ==
    \/ NextLine \/ ReadFails \/ LinesEnd \/ WorkSucceeds \/ WorkFails
    \/ WriteSucceeds \/ WriteFails \/ Close

BatchNext ==
    \/ Setup \/ Signal \/ ForcedExit \/ PoolCaller
    \/ \E i \in Items : ItemMoves(i) \/ ItemEnds(i)
    \/ LineStep

BatchSpec == BatchInit /\ [][BatchNext]_batchVars

\* The process is scheduled, the work on an item or a line returns, and the
\* countdown runs out.  Once the context is cancelled a call may hang: the agent
\* reports it to a statistics loop that has gone (StatsLoop).
FairBatchSpec ==
    /\ BatchSpec
    /\ WF_batchVars(Setup \/ PoolCaller \/ ((cancelled => stage # "work") /\ LineStep))
    /\ \A i \in Items : WF_batchVars(~cancelled /\ (ItemMoves(i) \/ ItemEnds(i)))
    /\ WF_batchVars(ForcedExit)

-----------------------------------------------------------------------------
\* Unless a failure was dropped, success is complete: every file is read or
\* written to its end, every call of a test that was not interrupted has
\* succeeded, and the output holds a line for every line of the input, whatever
\* failed, was cancelled or was closed badly on the way.
SuccessIsComplete ==
    exit = "ok" /\ ~dropped =>
        /\ command \in {"readdata", "writedata"} => \A i \in 1..total : moved[i] = Chunks
        /\ command = "grpc" /\ ~cancelled => started = Readable /\ failed = {}
        /\ command \in LineCommands => stored = Readable

\* The pieces of the files of S that were read or written.
PiecesOf(S) == {p \in S \X (1..Chunks) : p[2] <= moved[p[1]]}

\* The statistics that are logged after the pool has returned count every
\* operation once and every piece that was moved, those of failed items and of
\* items that ended after the first error too (utils.go: "returns the portion
\* of work done as well as error").
StatisticsExact ==
    command \in {"readdata", "writedata"} /\ main = "returned" =>
        /\ ops = started
        /\ work = Cardinality(PiecesOf(Items))

\* A batch command ends: no error, full pool or failed line leaves it waiting.
CommandEnds == <>(exit # "none")
=============================================================================
