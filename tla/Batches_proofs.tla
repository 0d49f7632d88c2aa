--------------------------- MODULE Batches_proofs ---------------------------
(***************************************************************************)
(* For every limit of workers, every length of the input and every size of  *)
(* its files: a batch command drives the pool as ApplyParallel allows, so   *)
(* what is proved of the pool holds in every command, and a success is      *)
(* complete unless a failure was dropped.                                   *)
(*                                                                          *)
(* The argument has two halves.  On the pool, an item that ended without an *)
(* error has moved all its pieces, and a sequence that ended without one    *)
(* has yielded all its items.  Line by line, what was handed to the writer  *)
(* keeps up with what was read, until something fails.  Both halves run     *)
(* down: the pool's steps, the pieces and the lines are counted together.   *)
(***************************************************************************)
EXTENDS Batches, ApplyParallel_proofs

\* Which stages a command goes through, and when it has an exit status.
Staged ==
    /\ stage = "pool" => command \in PoolCommands
    /\ stage \in {"pull", "work", "write", "close"} => command \in LineCommands
    /\ (stage # "end") <=> (exit = "none")
    /\ cancelled \/ ~terminated => command \in AgentCommands

\* An item whose work is over and did not fail is through.
ItemsComplete ==
    command \in {"readdata", "writedata"} =>
        \A i \in 1..started : moved[i] = Chunks \/ i \in running \/ i \in failed

\* A sequence that ended without an error is through or was cancelled.
SourceComplete ==
    /\ main \in {"drain", "returned"} /\ err = NoError => started = Readable \/ cancelled
    /\ command \in PoolCommands /\ exit = "ok" => main = "returned" /\ err = NoError

\* The extra line a nil message may have written.
Extra == IF unread THEN 1 ELSE 0

\* Lines written keep up with lines read.
LinesComplete ==
    /\ unread => dropped
    /\ stage \in {"setup", "pull", "close"} => out <= pos + Extra
    /\ stage \in {"work", "write"} => out + 1 <= pos + Extra
    /\ ~dropped =>
        /\ stage \in {"setup", "pull"} => out = pos
        /\ stage \in {"work", "write"} => out + 1 = pos
        /\ stage = "close" => failure \/ out = Readable
        /\ command \in LineCommands /\ exit = "ok" => stored = Readable

BInv ==
    /\ IInv
    /\ BatchTypeOK
    /\ Staged
    /\ ItemsComplete
    /\ SourceComplete
    /\ LinesComplete

\* The lines that can be read are no more than there are.
LEMMA ReadableType == BatchTypeOK => Readable \in 0..MaxItems
    BY PoolAssumption DEF BatchTypeOK, Readable

\* Initially nothing has been done.
LEMMA InitBInv == BatchInit => BInv
<1> SUFFICES ASSUME BatchInit PROVE BInv
    OBVIOUS
<1> USE PoolAssumption, ChunksAssumption DEF BatchInit
<1>1. IInv
    BY InitIInv
<1>2. BatchTypeOK
    <2>1. TypeOK
        BY <1>1 DEF IInv, Shape
    <2>2. moved \in [Items -> 0..Chunks]
        OBVIOUS
    <2>3. /\ total \in 0..MaxItems
          /\ pos \in 0..MaxItems
          /\ out \in 0..(MaxItems + 1)
          /\ stored \in 0..(MaxItems + 1)
          /\ ops \in Nat
          /\ work \in Nat
        OBVIOUS
    <2>4. /\ terminated \in BOOLEAN
          /\ cancelled \in BOOLEAN
          /\ unread \in BOOLEAN
          /\ failure \in BOOLEAN
          /\ dropped \in BOOLEAN
          /\ stage \in Stages
          /\ exit \in {"none", "ok", "error"}
        BY Zenon DEF Stages
    <2> QED
        BY <2>1, <2>2, <2>3, <2>4, Zenon DEF BatchTypeOK
<1>3. Staged
    BY DEF Staged, PoolCommands, LineCommands
<1>4. ItemsComplete /\ SourceComplete
    BY DEF ItemsComplete, SourceComplete, Init
<1>5. LinesComplete
    BY DEF LinesComplete, Extra
<1> QED
    BY <1>1, <1>2, <1>3, <1>4, <1>5 DEF BInv

\* Every step of a command is a step of the pool or leaves it alone.
LEMMA StepIsPoolStep == [BatchNext]_batchVars => [Next]_vars
    BY DEF BatchNext, batchVars, Setup, Signal, ForcedExit, PoolCaller,
           SourceYields, SourceFails, SourceEnds, CallerGoesOn, PoolReturns,
           ItemMoves, ItemEnds, LineStep, NextLine, ReadFails, LinesEnd,
           WorkSucceeds, WorkFails, WriteSucceeds, WriteFails, Close, LineOnly,
           Next, Caller

-----------------------------------------------------------------------------
\* Setting up, and an exit that reports an error.
LEMMA SetupKeeps == BInv /\ (Setup \/ Signal \/ ForcedExit) => BInv'
<1> SUFFICES ASSUME BInv, Setup \/ Signal \/ ForcedExit PROVE BInv'
    OBVIOUS
<1> USE DEF BInv
<1>1. UNCHANGED <<vars, inputVars, poolVars, lineVars>>
    BY DEF Setup, Signal, ForcedExit
<1>2. IInv'
    BY NextKeepsIInv, <1>1
<1>3. BatchTypeOK'
    BY <1>1, <1>2
    DEF BatchTypeOK, IInv, Shape, Setup, Signal, ForcedExit, Exits, Stages,
        inputVars, poolVars, lineVars
<1>4. Staged'
    BY <1>1 DEF Staged, BatchTypeOK, Setup, Signal, ForcedExit, Exits, inputVars,
        PoolCommands, LineCommands, Stages
<1>5. ItemsComplete'
    BY <1>1 DEF ItemsComplete, vars, inputVars, poolVars
<1>6. SourceComplete'
    BY <1>1
    DEF SourceComplete, Staged, Readable, vars, inputVars, Setup, Signal, ForcedExit, Exits
<1>7. LinesComplete'
    BY <1>1
    DEF LinesComplete, Staged, Extra, Readable, inputVars, lineVars, Setup, Signal,
        ForcedExit, Exits
<1> QED
    BY <1>2, <1>3, <1>4, <1>5, <1>6, <1>7

\* The caller of the pool goes on.
LEMMA CallerKeeps == BInv /\ PoolCaller => BInv'
<1> SUFFICES ASSUME BInv, PoolCaller PROVE BInv'
    OBVIOUS
<1> USE DEF BInv
<1>1. /\ stage = "pool"
      /\ Caller
      /\ UNCHANGED <<inputVars, poolVars, lineVars, cancelled>>
    BY DEF PoolCaller, SourceYields, SourceFails, SourceEnds, CallerGoesOn, PoolReturns,
           CallerOnly, Caller
<1>2. IInv'
    BY NextKeepsIInv, <1>1 DEF Next
<1>3. \/ UNCHANGED <<stage, exit>>
      \/ /\ stage' = "end"
         /\ exit' = IF err # NoError THEN "error" ELSE "ok"
         /\ main' = "returned"
         /\ err' = err
    BY DEF PoolCaller, SourceYields, SourceFails, SourceEnds, CallerGoesOn, PoolReturns,
           CallerOnly, Return, Exits
<1>4. BatchTypeOK'
    BY <1>1, <1>2, <1>3
    DEF BatchTypeOK, IInv, Shape, Stages, inputVars, poolVars, lineVars
<1>5. Staged'
    BY <1>1, <1>3 DEF Staged, inputVars
<1>6. ItemsComplete'
    <2>1. failed' = failed
        BY <1>1 DEF Caller, PullBelowLimit, PullAtLimit, PullError, PullEnd, LimitGood,
               LimitError, Drain, Return, Receive
    <2>2. \/ started' = started /\ running' = running
          \/ started' = started + 1 /\ running' = running \cup {started + 1}
        BY <1>1 DEF Caller, PullBelowLimit, PullAtLimit, PullError, PullEnd, LimitGood,
               LimitError, Drain, Return, Dispatch
    <2>3. started \in Nat
        BY PoolAssumption DEF BatchTypeOK, TypeOK
    <2> QED
        BY <2>1, <2>2, <2>3, <1>1 DEF ItemsComplete, inputVars, poolVars
<1>7. SourceComplete'
    <2>1. main' \in {"drain", "returned"} /\ err' = NoError => started' = Readable \/ cancelled
        <3>1. CASE SourceEnds
            BY <3>1 DEF SourceEnds, PullEnd
        <3>2. CASE Drain \/ Return
            BY <3>2 DEF Drain, Return, SourceComplete
        <3>3. CASE LimitError
            <4>1. Oldest \in Items
                BY <3>3, ReceiveOldest DEF LimitError, IInv
            <4> QED
                BY <3>3, <4>1 DEF LimitError, Items, NoError
        <3>4. CASE PullError
            BY <3>4, PoolAssumption DEF PullError, SeqError, NoError
        <3>5. CASE PullBelowLimit \/ PullAtLimit \/ LimitGood
            BY <3>5 DEF PullBelowLimit, PullAtLimit, LimitGood
        <3> QED
            BY <3>1, <3>2, <3>3, <3>4, <3>5
            DEF PoolCaller, SourceYields, SourceFails, CallerGoesOn, PoolReturns
    <2>2. UNCHANGED <<Readable, cancelled, command>>
        BY <1>1 DEF Readable, inputVars
    <2>3. exit' = "ok" => main' = "returned" /\ err' = NoError
        BY <1>1, <1>3 DEF Staged
    <2> QED
        BY <2>1, <2>2, <2>3 DEF SourceComplete
<1>8. LinesComplete'
    <2>1. command \notin LineCommands
        BY <1>1 DEF Staged, PoolCommands, LineCommands
    <2> QED
        BY <1>1, <1>3, <2>1 DEF LinesComplete, Extra, inputVars, lineVars
<1> QED
    BY <1>2, <1>4, <1>5, <1>6, <1>7, <1>8

\* A file moves on by a piece, or an item's work returns.
LEMMA ItemKeeps ==
    ASSUME BInv, NEW i \in Items, ItemMoves(i) \/ ItemEnds(i)
    PROVE  BInv'
<1> USE PoolAssumption, ChunksAssumption DEF BInv
<1>1. /\ stage = "pool"
      /\ UNCHANGED <<inputVars, lineVars, cancelled, stage, exit>>
      /\ i \in running
    BY DEF ItemMoves, ItemEnds, Finish
<1>2. IInv'
    BY NextKeepsIInv DEF ItemMoves, ItemEnds, Next
<1>3. /\ UNCHANGED <<main, started, err>>
      /\ moved' \in [Items -> 0..Chunks]
      /\ \A j \in Items \ {i} :
            /\ moved'[j] = moved[j]
            /\ (j \in running) <=> (j \in running')
            /\ (j \in failed) <=> (j \in failed')
      /\ command \in {"readdata", "writedata"} =>
            moved'[i] = Chunks \/ i \in running' \/ i \in failed'
    BY DEF ItemMoves, ItemEnds, Finish, vars, BatchTypeOK
<1>4. ops' \in Nat /\ work' \in Nat
    BY DEF ItemMoves, ItemEnds, Count, BatchTypeOK
<1>5. BatchTypeOK'
    BY <1>1, <1>2, <1>3, <1>4 DEF BatchTypeOK, IInv, Shape, inputVars, lineVars
<1>6. Staged'
    BY <1>1 DEF Staged, inputVars
<1>7. ItemsComplete'
    <2>1. 1..started \subseteq Items
        BY DEF BatchTypeOK, TypeOK, Items
    <2> QED
        BY <1>1, <1>3, <2>1 DEF ItemsComplete, inputVars
<1>8. SourceComplete'
    BY <1>1, <1>3 DEF SourceComplete, Readable, inputVars
<1>9. LinesComplete'
    BY <1>1 DEF LinesComplete, Extra, Readable, inputVars, lineVars
<1> QED
    BY <1>2, <1>5, <1>6, <1>7, <1>8, <1>9

\* A line is read, worked on, written, or the output is closed.
LEMMA LineKeeps == BInv /\ LineStep => BInv'
<1> SUFFICES ASSUME BInv, LineStep PROVE BInv'
    OBVIOUS
<1> USE PoolAssumption DEF BInv
<1>1. UNCHANGED <<vars, inputVars, poolVars, cancelled>>
    BY DEF LineStep, NextLine, ReadFails, LinesEnd, WorkSucceeds, WorkFails,
           WriteSucceeds, WriteFails, Close, LineOnly
<1>2. stage \in {"pull", "work", "write", "close"} /\ command \in LineCommands /\ exit = "none"
    BY DEF LineStep, NextLine, ReadFails, LinesEnd, WorkSucceeds, WorkFails,
           WriteSucceeds, WriteFails, Close, Goes, Staged
<1>3. IInv'
    BY NextKeepsIInv, <1>1
<1>4. UNCHANGED <<Readable, command, terminated>>
    BY <1>1 DEF Readable, inputVars
<1>5. Readable \in 0..MaxItems
    BY ReadableType
<1> DEFINE LineTypes ==
        /\ stage \in Stages
        /\ exit \in {"none", "ok", "error"}
        /\ pos \in 0..MaxItems
        /\ unread \in BOOLEAN
        /\ out \in 0..(MaxItems + 1)
        /\ stored \in 0..(MaxItems + 1)
        /\ failure \in BOOLEAN
        /\ dropped \in BOOLEAN
<1> DEFINE Statused == (stage # "end") <=> (exit = "none")
<1>6. LineTypes /\ cancelled \in BOOLEAN
    BY DEF BatchTypeOK
<1>7. (LineTypes /\ Statused /\ LinesComplete)'
    <2> USE <1>2, <1>4, <1>5, <1>6 DEF LinesComplete, Extra, Goes, Stages
    <2>1. CASE NextLine
        BY <2>1 DEF NextLine
    <2>2. CASE ReadFails
        <3>1. (unread \in BOOLEAN /\ failure \in BOOLEAN /\ dropped \in BOOLEAN)'
            BY <2>2, Zenon DEF ReadFails, Exits
        <3>2. (unread => dropped)'
            <4>1. unread => dropped
                BY Zenon
            <4>2. \/ unread' = unread /\ dropped' = dropped
                  \/ dropped' = TRUE
                BY <2>2, Zenon DEF ReadFails
            <4> QED
                BY <4>1, <4>2, Zenon
        <3>3. (stage \in Stages /\ exit \in {"none", "ok", "error"} /\ Statused)'
            BY <2>2 DEF ReadFails, Exits
        <3>4. (/\ pos \in 0..MaxItems
               /\ out \in 0..(MaxItems + 1)
               /\ stored \in 0..(MaxItems + 1)
               /\ stage \in {"setup", "pull", "close"} => out <= pos + Extra
               /\ stage \in {"work", "write"} => out + 1 <= pos + Extra)'
            BY <2>2 DEF ReadFails, Exits
        <3>5. (~dropped =>
                 /\ stage \in {"setup", "pull"} => out = pos
                 /\ stage \in {"work", "write"} => out + 1 = pos
                 /\ stage = "close" => failure \/ out = Readable
                 /\ command \in LineCommands /\ exit = "ok" => stored = Readable)'
            BY <2>2 DEF ReadFails, Exits
        <3> QED
            BY <3>1, <3>2, <3>3, <3>4, <3>5
    <2>3. CASE LinesEnd
        BY <2>3 DEF LinesEnd
    <2>4. CASE WorkSucceeds
        BY <2>4 DEF WorkSucceeds
    <2>5. CASE WorkFails
        <3>1. (unread \in BOOLEAN /\ failure \in BOOLEAN /\ dropped \in BOOLEAN)'
            BY <2>5, Zenon DEF WorkFails
        <3>2. (unread => dropped)'
            BY <2>5, Zenon DEF WorkFails
        <3>3. (stage \in Stages /\ exit \in {"none", "ok", "error"} /\ Statused)'
            BY <2>5 DEF WorkFails
        <3>4. (/\ pos \in 0..MaxItems
               /\ out \in 0..(MaxItems + 1)
               /\ stored \in 0..(MaxItems + 1)
               /\ stage \in {"setup", "pull", "close"} => out <= pos + Extra
               /\ stage \in {"work", "write"} => out + 1 <= pos + Extra)'
            BY <2>5 DEF WorkFails
        <3>5. (~dropped =>
                 /\ stage \in {"setup", "pull"} => out = pos
                 /\ stage \in {"work", "write"} => out + 1 = pos
                 /\ stage = "close" => failure \/ out = Readable
                 /\ command \in LineCommands /\ exit = "ok" => stored = Readable)'
            BY <2>5 DEF WorkFails
        <3> QED
            BY <3>1, <3>2, <3>3, <3>4, <3>5
    <2>6. CASE WriteSucceeds
        BY <2>6 DEF WriteSucceeds
    <2>7. CASE WriteFails
        <3>1. (unread \in BOOLEAN /\ failure \in BOOLEAN /\ dropped \in BOOLEAN)'
            BY <2>7, Zenon DEF WriteFails
        <3>2. (unread => dropped)'
            BY <2>7, Zenon DEF WriteFails
        <3>3. (stage \in Stages /\ exit \in {"none", "ok", "error"} /\ Statused)'
            BY <2>7 DEF WriteFails
        <3>4. (/\ pos \in 0..MaxItems
               /\ out \in 0..(MaxItems + 1)
               /\ stored \in 0..(MaxItems + 1)
               /\ stage \in {"setup", "pull", "close"} => out <= pos + Extra
               /\ stage \in {"work", "write"} => out + 1 <= pos + Extra)'
            BY <2>7 DEF WriteFails
        <3>5. (~dropped =>
                 /\ stage \in {"setup", "pull"} => out = pos
                 /\ stage \in {"work", "write"} => out + 1 = pos
                 /\ stage = "close" => failure \/ out = Readable
                 /\ command \in LineCommands /\ exit = "ok" => stored = Readable)'
            BY <2>7 DEF WriteFails
        <3> QED
            BY <3>1, <3>2, <3>3, <3>4, <3>5
    <2>8. CASE Close
        <3>1. (unread \in BOOLEAN /\ failure \in BOOLEAN /\ dropped \in BOOLEAN)'
            BY <2>8, Zenon DEF Close, Exits
        <3>2. (unread => dropped)'
            <4>1. unread => dropped
                BY Zenon
            <4>2. unread' = unread
                BY <2>8 DEF Close
            <4>3. dropped' = dropped \/ dropped' = (dropped \/ command = "gentasks")
                BY <2>8, Zenon DEF Close
            <4> QED
                BY <4>1, <4>2, <4>3, Zenon
        <3>3. (stage \in Stages /\ exit \in {"none", "ok", "error"} /\ Statused)'
            BY <2>8 DEF Close, Exits
        <3>4. (/\ pos \in 0..MaxItems
               /\ out \in 0..(MaxItems + 1)
               /\ stored \in 0..(MaxItems + 1)
               /\ stage \in {"setup", "pull", "close"} => out <= pos + Extra
               /\ stage \in {"work", "write"} => out + 1 <= pos + Extra)'
            BY <2>8 DEF Close, Exits
        <3>5. (~dropped =>
                 /\ stage \in {"setup", "pull"} => out = pos
                 /\ stage \in {"work", "write"} => out + 1 = pos
                 /\ stage = "close" => failure \/ out = Readable
                 /\ command \in LineCommands /\ exit = "ok" => stored = Readable)'
            <4>1. stage = "close" /\ stage' = "end"
                BY <2>8 DEF Close, Exits
            <4>2. ASSUME ~dropped', exit' = "ok"
                  PROVE  stored' = out /\ ~failure /\ ~dropped
                <5>1. command = "file" \/ command = "load" \/ command = "gentasks"
                    BY <1>2 DEF LineCommands
                <5>2. \/ stored' = out /\ Exits(failure) /\ UNCHANGED dropped
                      \/ /\ command # "load"
                         /\ Exits(failure \/ command = "file")
                         /\ dropped' = (dropped \/ command = "gentasks")
                    BY <2>8, Zenon DEF Close
                <5>3. CASE stored' = out /\ Exits(failure) /\ UNCHANGED dropped
                    <6>1. ~failure
                        BY <4>2, <5>3 DEF Exits
                    <6> QED
                        BY <4>2, <5>3, <6>1, Zenon
                <5>4. CASE /\ command # "load"
                           /\ Exits(failure \/ command = "file")
                           /\ dropped' = (dropped \/ command = "gentasks")
                    <6>1. command # "gentasks"
                        BY <4>2, <5>4, Zenon
                    <6>2. exit' = "error"
                        BY <5>1, <5>4, <6>1, Zenon DEF Exits
                    <6> QED
                        BY <4>2, <6>2
                <5> QED
                    BY <5>2, <5>3, <5>4
            <4>3. ~dropped' /\ exit' = "ok" => stored' = Readable
                BY <4>1, <4>2
            <4> QED
                BY <4>1, <4>3
        <3> QED
            BY <3>1, <3>2, <3>3, <3>4, <3>5
    <2> QED
        BY <2>1, <2>2, <2>3, <2>4, <2>5, <2>6, <2>7, <2>8 DEF LineStep
<1>8. BatchTypeOK'
    BY <1>1, <1>3, <1>7 DEF BatchTypeOK, IInv, Shape, inputVars, poolVars
<1>9. Staged'
    <2>1. stage' # "pool"
        BY <1>2 DEF LineStep, NextLine, ReadFails, LinesEnd, WorkSucceeds, WorkFails,
               WriteSucceeds, WriteFails, Close, Goes, Exits
    <2> QED
        BY <1>1, <1>2, <1>4, <1>7, <2>1 DEF Staged
<1>10. ItemsComplete'
    BY <1>1 DEF ItemsComplete, vars, inputVars, poolVars
<1>11. SourceComplete'
    BY <1>1, <1>2, <1>4 DEF SourceComplete, vars, PoolCommands, LineCommands
<1> QED
    BY <1>3, <1>7, <1>8, <1>9, <1>10, <1>11

\* Every step of a command keeps what the pool and the line loops have done.
LEMMA BatchKeepsBInv == BInv /\ [BatchNext]_batchVars => BInv'
<1> SUFFICES ASSUME BInv, [BatchNext]_batchVars PROVE BInv'
    OBVIOUS
<1>1. CASE UNCHANGED batchVars
    <2>1. IInv'
        BY <1>1, NextKeepsIInv DEF BInv, batchVars
    <2> QED
        BY <1>1, <2>1
        DEF BInv, BatchTypeOK, IInv, Shape, Staged, ItemsComplete, SourceComplete,
            LinesComplete, Extra, Readable, batchVars, vars, inputVars, poolVars, lineVars
<1> QED
    BY <1>1, SetupKeeps, CallerKeeps, ItemKeeps, LineKeeps DEF BatchNext

-----------------------------------------------------------------------------
(* The statistics.  A result that came to the channel has been counted with *)
(* its pieces; what is still running or was never started has not.          *)

\* The items that were started and whose work has returned.
Over == (1..started) \ running

Tallied ==
    command \in {"readdata", "writedata"} =>
        /\ ops = Len(sent)
        /\ work = Cardinality(PiecesOf(Over))
        /\ \A i \in Items : i > started => moved[i] = 0

\* The pieces of finitely many items are finitely many.
LEMMA PiecesAreFinite ==
    ASSUME NEW S \in SUBSET Items
    PROVE  IsFiniteSet(PiecesOf(S)) /\ Cardinality(PiecesOf(S)) \in Nat
<1> USE PoolAssumption, ChunksAssumption
<1>1. IsFiniteSet(S)
    <2>1. IsFiniteSet(Items)
        BY FS_Interval DEF Items
    <2> QED
        BY <2>1, FS_Subset
<1>2. IsFiniteSet(1..Chunks)
    BY FS_Interval
<1>3. IsFiniteSet(S \X (1..Chunks))
    BY <1>1, <1>2, FS_Product
<1>4. PiecesOf(S) \subseteq S \X (1..Chunks)
    BY DEF PiecesOf
<1> QED
    BY <1>3, <1>4, FS_Subset, FS_CardinalityType

\* One more item adds the pieces it has moved.
LEMMA OneMoreItem ==
    ASSUME NEW S \in SUBSET Items, NEW i \in Items \ S, moved \in [Items -> 0..Chunks]
    PROVE  Cardinality(PiecesOf(S \cup {i})) = Cardinality(PiecesOf(S)) + moved[i]
<1> USE ChunksAssumption
<1> DEFINE T == {i} \X (1..moved[i])
<1>1. moved[i] \in Nat /\ moved[i] <= Chunks
    OBVIOUS
<1>2. IsFiniteSet(T) /\ Cardinality(T) = moved[i]
    <2>1. IsFiniteSet({i}) /\ Cardinality({i}) = 1
        BY FS_Singleton
    <2>2. IsFiniteSet(1..moved[i]) /\ Cardinality(1..moved[i]) = moved[i]
        BY <1>1, FS_Interval
    <2>3. IsFiniteSet(T) /\ Cardinality(T) = Cardinality({i}) * Cardinality(1..moved[i])
        BY <2>1, <2>2, FS_Product
    <2> QED
        BY <1>1, <2>1, <2>2, <2>3
<1>3. PiecesOf(S \cup {i}) = PiecesOf(S) \cup T
    BY <1>1 DEF PiecesOf
<1>4. PiecesOf(S) \cap T = {}
    BY DEF PiecesOf
<1>5. IsFiniteSet(PiecesOf(S)) /\ Cardinality(PiecesOf(S)) \in Nat
    BY PiecesAreFinite
<1>6. Cardinality(PiecesOf(S) \cup T)
        = Cardinality(PiecesOf(S)) + Cardinality(T) - Cardinality(PiecesOf(S) \cap T)
    BY <1>2, <1>5, FS_Union
<1>7. Cardinality(PiecesOf(S) \cap T) = 0
    BY <1>4, FS_EmptySet
<1> QED
    <2>1. Cardinality(PiecesOf(S \cup {i})) = Cardinality(PiecesOf(S)) + moved[i] - 0
        BY <1>2, <1>3, <1>6, <1>7, Zenon
    <2> QED
        BY <1>1, <1>5, <2>1

\* Before the first item both counts are zero.
LEMMA InitTallied == BatchInit => Tallied
<1> SUFFICES ASSUME BatchInit PROVE Tallied
    OBVIOUS
<1>1. Over = {} /\ ops = Len(sent)
    BY DEF BatchInit, Init, Over
<1>2. PiecesOf({}) = {}
    BY DEF PiecesOf
<1> QED
    BY <1>1, <1>2, FS_EmptySet DEF BatchInit, Tallied

\* The caller starts items and receives results: what is over stays the same.
LEMMA CallerKeepsTallied == BInv /\ Tallied /\ PoolCaller => Tallied'
<1> SUFFICES ASSUME BInv, Tallied, PoolCaller PROVE Tallied'
    OBVIOUS
<1>1. UNCHANGED <<inputVars, poolVars>> /\ Caller
    BY DEF PoolCaller, SourceYields, SourceFails, SourceEnds, CallerGoesOn, PoolReturns,
           CallerOnly, Caller
<1>2. sent' = sent
    BY <1>1 DEF Caller, PullBelowLimit, PullAtLimit, PullError, PullEnd, LimitGood,
           LimitError, Drain, Return, Receive
<1>3. \/ started' = started /\ running' = running
      \/ started' = started + 1 /\ running' = running \cup {started + 1}
    BY <1>1 DEF Caller, PullBelowLimit, PullAtLimit, PullError, PullEnd, LimitGood,
           LimitError, Drain, Return, Dispatch
<1>4. started \in Nat
    BY PoolAssumption DEF BInv, BatchTypeOK, TypeOK
<1>5. Over' = Over
    BY <1>3, <1>4 DEF Over
<1>6. PiecesOf(Over)' = PiecesOf(Over)
    BY <1>1, <1>5 DEF PiecesOf, poolVars
<1>7. \A i \in Items : i > started' => i > started
    BY <1>3, <1>4 DEF Items
<1> QED
    BY <1>1, <1>2, <1>6, <1>7 DEF Tallied, inputVars, poolVars

\* A piece is moved by an item that is running.
LEMMA MoveKeepsTallied ==
    ASSUME BInv, Tallied, NEW i \in Items, ItemMoves(i)
    PROVE  Tallied'
<1>1. i \in running /\ i <= started
    BY DEF ItemMoves, BInv, IInv, Shape
<1>2. Over \in SUBSET Items /\ Over' = Over /\ i \notin Over
    <2>1. 1..started \subseteq Items
        BY PoolAssumption DEF BInv, BatchTypeOK, TypeOK, Items
    <2> QED
        BY <1>1, <2>1 DEF ItemMoves, vars, Over
<1>3. \A j \in Items \ {i} : moved'[j] = moved[j]
    BY DEF ItemMoves, BInv, BatchTypeOK
<1>4. PiecesOf(Over)' = PiecesOf(Over)
    <2>1. \A j \in Over : moved'[j] = moved[j]
        BY <1>2, <1>3
    <2> QED
        BY <1>2, <2>1 DEF PiecesOf
<1>5. UNCHANGED <<vars, inputVars, ops, work>>
    BY DEF ItemMoves
<1>6. \A j \in Items : j > started' => moved'[j] = 0 \/ command \notin {"readdata", "writedata"}
    BY <1>1, <1>3, <1>5, PoolAssumption DEF Tallied, vars, Items, BInv, BatchTypeOK, TypeOK
<1> QED
    BY <1>4, <1>5, <1>6 DEF Tallied, vars, inputVars

\* The work on an item returns and is counted with its pieces.
LEMMA EndKeepsTallied ==
    ASSUME BInv, Tallied, NEW i \in Items, ItemEnds(i)
    PROVE  Tallied'
<1> USE PoolAssumption
<1>1. /\ i \in running
      /\ running' = running \ {i}
      /\ sent' = Append(sent, i)
      /\ UNCHANGED <<inputVars, moved, started>>
      /\ Count(i)
    BY DEF ItemEnds, Finish
<1>2. running \subseteq 1..started /\ 1..started \subseteq Items /\ sent \in Seq(Items)
    BY DEF BInv, IInv, Shape, BatchTypeOK, TypeOK, Items
<1>3. Over \in SUBSET Items /\ i \notin Over /\ Over' = Over \cup {i}
    BY <1>1, <1>2 DEF Over
<1>4. PiecesOf(Over)' = PiecesOf(Over \cup {i})
    BY <1>1, <1>3 DEF PiecesOf
<1>5. moved \in [Items -> 0..Chunks]
    BY DEF BInv, BatchTypeOK
<1>6. Cardinality(PiecesOf(Over \cup {i})) = Cardinality(PiecesOf(Over)) + moved[i]
    BY <1>3, <1>5, OneMoreItem
<1>7. Len(sent') = Len(sent) + 1
    BY <1>1, <1>2
<1>8. command = command'
    BY <1>1 DEF inputVars
<1> QED
    <2> SUFFICES ASSUME command \in {"readdata", "writedata"}
                 PROVE  /\ ops' = Len(sent')
                        /\ work' = Cardinality(PiecesOf(Over)')
                        /\ \A j \in Items : j > started' => moved'[j] = 0
        BY <1>8 DEF Tallied
    <2>1. ops' = ops + 1 /\ work' = work + moved[i]
        BY <1>1 DEF Count
    <2> QED
        BY <1>1, <1>4, <1>6, <1>7, <2>1 DEF Tallied

\* Every step of the command keeps the counts in step with the items.
LEMMA StepKeepsTallied == BInv /\ Tallied /\ [BatchNext]_batchVars => Tallied'
<1> SUFFICES ASSUME BInv, Tallied, [BatchNext]_batchVars PROVE Tallied'
    OBVIOUS
<1>1. CASE UNCHANGED <<vars, inputVars, poolVars>>
    BY <1>1 DEF Tallied, Over, PiecesOf, vars, inputVars, poolVars
<1>2. CASE Setup \/ Signal \/ ForcedExit
    BY <1>1, <1>2 DEF Setup, Signal, ForcedExit
<1>3. CASE LineStep
    <2>1. UNCHANGED <<vars, inputVars, poolVars>>
        BY <1>3 DEF LineStep, NextLine, ReadFails, LinesEnd, WorkSucceeds, WorkFails,
               WriteSucceeds, WriteFails, Close, LineOnly
    <2> QED
        BY <1>1, <2>1
<1>4. CASE UNCHANGED batchVars
    BY <1>1, <1>4 DEF batchVars
<1> QED
    BY <1>2, <1>3, <1>4, CallerKeepsTallied, MoveKeepsTallied, EndKeepsTallied DEF BatchNext

-----------------------------------------------------------------------------
\* A batch command uses the pool as ApplyParallel specifies it (source.go:97,
\* utils.go:114: the only calls).
THEOREM BatchesUseThePool == BatchSpec => Spec
<1>1. BatchInit => Init
    BY DEF BatchInit
<1> QED
    BY <1>1, StepIsPoolStep, PTL DEF BatchSpec, Spec

\* Type correctness of the batch commands.
THEOREM BatchTypes == BatchSpec => []BatchTypeOK
<1>1. BInv => BatchTypeOK
    BY DEF BInv
<1> QED
    BY <1>1, InitBInv, BatchKeepsBInv, PTL DEF BatchSpec

\* In every batch command the pool is bounded, leaves nothing behind, loses no
\* error, returns the first one and stops starting items after a failure.
THEOREM PoolInBatches ==
    BatchSpec => [](/\ PoolIsBounded /\ NothingLeftBehind /\ NoErrorLost
                    /\ FirstErrorWins /\ FewStartsAfterFailure)
    BY BatchesUseThePool, PoolBound, CleanReturn, ErrorsAreReported, ReturnsFirstError,
       StopsAfterFailure, PTL

\* Unless a failure was dropped, a batch command that reports success is
\* complete: all files, all calls, all lines.
THEOREM SuccessMeansComplete == BatchSpec => []SuccessIsComplete
<1>1. BInv /\ NoErrorLost /\ NothingLeftBehind => SuccessIsComplete
    <2> SUFFICES ASSUME BInv, NoErrorLost, NothingLeftBehind, exit = "ok", ~dropped
                 PROVE  /\ command \in {"readdata", "writedata"} =>
                               \A i \in 1..total : moved[i] = Chunks
                        /\ command = "grpc" /\ ~cancelled =>
                               started = Readable /\ failed = {}
                        /\ command \in LineCommands => stored = Readable
        BY DEF SuccessIsComplete
    <2>1. CASE command \in PoolCommands
        <3>1. main = "returned" /\ err = NoError /\ failed = {}
            BY <2>1 DEF BInv, SourceComplete, NoErrorLost
        <3>2. started = Readable \/ cancelled
            BY <3>1 DEF BInv, SourceComplete
        <3>3. running = {}
            <4>1. Cardinality(running) \in Nat /\ Len(sent) \in Nat /\ received \in 0..Len(sent)
                BY FS_CardinalityType DEF BInv, IInv, Shape, TypeOK
            <4>2. Cardinality(running) = 0
                BY <3>1, <4>1 DEF NothingLeftBehind, Alive
            <4> QED
                BY <4>2, FS_EmptySet DEF BInv, IInv, Shape
        <3>4. command \in {"readdata", "writedata"} => started = total
            BY <3>2 DEF BInv, Staged, Readable, AgentCommands
        <3> QED
            BY <2>1, <3>1, <3>2, <3>3, <3>4
            DEF BInv, ItemsComplete, PoolCommands, LineCommands
    <2>2. CASE command \in LineCommands
        BY <2>2 DEF BInv, LinesComplete, LineCommands
    <2> QED
        BY <2>1, <2>2 DEF BInv, BatchTypeOK
<1>2. BatchSpec => []BInv
    BY InitBInv, BatchKeepsBInv, PTL DEF BatchSpec
<1> QED
    BY <1>1, <1>2, PoolInBatches, PTL

\* The statistics the load test logs are exact: every operation that was started
\* is counted once and every piece that was moved, whatever failed on the way.
THEOREM StatisticsAreExact == BatchSpec => []StatisticsExact
<1>1. BInv /\ Tallied /\ NothingLeftBehind => StatisticsExact
    <2> SUFFICES ASSUME BInv, Tallied, NothingLeftBehind, main = "returned",
                        command \in {"readdata", "writedata"}
                 PROVE  ops = started /\ work = Cardinality(PiecesOf(Items))
        BY DEF StatisticsExact
    <2>1. /\ IsFiniteSet(running) /\ Cardinality(running) \in Nat
          /\ Len(sent) \in Nat
          /\ received \in 0..Len(sent)
          /\ started \in 0..MaxItems
        BY FS_CardinalityType DEF BInv, IInv, Shape, TypeOK
    <2>2. Cardinality(running) = 0 /\ Len(sent) = started
        BY <2>1 DEF NothingLeftBehind, Alive, BInv, IInv, Counts
    <2>3. Over = 1..started /\ Over \subseteq Items
        <3>1. running = {}
            BY <2>1, <2>2, FS_EmptySet
        <3> QED
            BY <2>1, <3>1, PoolAssumption DEF Over, Items
    <2>4. PiecesOf(Over) = PiecesOf(Items)
        <3>1. \A i \in Items : i \in Over \/ moved[i] = 0
            BY <2>1, <2>3, PoolAssumption DEF Tallied, Items
        <3>2. \A i \in Items, k \in 1..Chunks : k <= moved[i] => i \in Over
            BY <3>1, ChunksAssumption
        <3> QED
            BY <2>3, <3>2 DEF PiecesOf
    <2> QED
        BY <2>2, <2>4 DEF Tallied
<1>2. BatchSpec => [](BInv /\ Tallied)
    BY InitBInv, BatchKeepsBInv, InitTallied, StepKeepsTallied, PTL DEF BatchSpec
<1> QED
    BY <1>1, <1>2, PoolInBatches, PTL

-----------------------------------------------------------------------------
(* A command comes to an end.                                               *)

\* What is read is no more than there is, and while the command is on the pool its
\* call of the pool has not returned.
InsideInput ==
    /\ pos <= Readable
    /\ started <= Readable
    /\ main = "limit" => started < Readable
    /\ stage \in {"setup", "pool"} => main # "returned"

\* Every step keeps the command inside its input.
LEMMA StepInsideInput ==
    ASSUME BInv, InsideInput, [BatchNext]_batchVars PROVE InsideInput'
<1>0. /\ pos \in Nat /\ started \in Nat /\ Readable \in Nat
      /\ (UNCHANGED inputVars => Readable' = Readable)
    BY ReadableType, PoolAssumption DEF BInv, BatchTypeOK, IInv, Shape, TypeOK, inputVars,
        Readable
<1>1. ASSUME UNCHANGED <<pos, started, main, inputVars>>,
             stage' = "pool" => stage \in {"setup", "pool"},
             stage' = "setup" => stage = "setup"
      PROVE  InsideInput'
    BY <1>0, <1>1 DEF InsideInput
<1>2. CASE Setup \/ Signal \/ ForcedExit
    BY <1>1, <1>2 DEF Setup, Signal, ForcedExit, Exits, vars, lineVars
<1>3. CASE PoolCaller
    <2>1. UNCHANGED <<pos, inputVars>> /\ stage = "pool"
        BY <1>3 DEF PoolCaller, SourceYields, SourceFails, SourceEnds, CallerGoesOn,
            PoolReturns, CallerOnly, lineVars
    <2>2. CASE SourceYields
        BY <1>0, <2>1, <2>2 DEF SourceYields, PullBelowLimit, PullAtLimit, Dispatch, InsideInput
    <2>3. CASE SourceFails \/ SourceEnds
        BY <1>0, <2>1, <2>3 DEF SourceFails, SourceEnds, PullError, PullEnd, InsideInput
    <2>4. CASE CallerGoesOn
        BY <1>0, <2>1, <2>4 DEF CallerGoesOn, LimitGood, LimitError, Drain, Dispatch, InsideInput
    <2>5. CASE PoolReturns
        BY <1>0, <2>1, <2>5 DEF PoolReturns, Return, Exits, InsideInput
    <2> QED
        BY <1>3, <2>2, <2>3, <2>4, <2>5 DEF PoolCaller
<1>4. ASSUME NEW i \in Items, ItemMoves(i) \/ ItemEnds(i) PROVE InsideInput'
    BY <1>1, <1>4 DEF ItemMoves, ItemEnds, Finish, vars, lineVars
<1>5. CASE LineStep
    <2>1. CASE NextLine
        BY <1>0, <2>1 DEF NextLine, Goes, LineOnly, vars, InsideInput
    <2>2. CASE LineStep /\ ~NextLine
        BY <1>1, <2>2 DEF LineStep, ReadFails, LinesEnd, WorkSucceeds, WorkFails,
            WriteSucceeds, WriteFails, Close, Goes, Exits, LineOnly, vars
    <2> QED
        BY <1>5, <2>1, <2>2
<1>6. CASE UNCHANGED batchVars
    BY <1>1, <1>6 DEF batchVars, vars, lineVars
<1> QED
    BY <1>2, <1>3, <1>4, <1>5, <1>6 DEF BatchNext

\* The pieces that no item has moved yet.
Unmoved == {p \in Items \X (1..Chunks) : p[2] > moved[p[1]]}
PiecesLeft == Cardinality(Unmoved)

\* The lines that are left, with the nil message a failed read may add, and the
\* steps each of them and the command around them still have.
Rounds == (MaxItems - pos) + (IF unread THEN 0 ELSE 1)
LineLeft ==
    CASE stage = "setup" -> 3 * Rounds + 3
      [] stage = "pull"  -> 3 * Rounds + 2
      [] stage = "work"  -> 3 * Rounds + 4
      [] stage = "write" -> 3 * Rounds + 3
      [] stage \in {"pool", "close"} -> 1
      [] OTHER -> 0

\* The first signal is a step of its own.
SignalLeft == IF cancelled THEN 0 ELSE 1

\* All that is left of the command: the pool's steps, pieces, lines, the signal.
CommandLeft == StepsLeft + PiecesLeft + LineLeft + SignalLeft

\* The pieces that are left are finitely many.
LEMMA UnmovedIsFinite == IsFiniteSet(Unmoved) /\ PiecesLeft \in Nat
<1>1. IsFiniteSet(Items) /\ IsFiniteSet(1..Chunks)
    BY FS_Interval, PoolAssumption, ChunksAssumption DEF Items
<1>2. IsFiniteSet(Items \X (1..Chunks))
    BY <1>1, FS_Product
<1>3. Unmoved \subseteq Items \X (1..Chunks)
    BY DEF Unmoved
<1> QED
    BY <1>2, <1>3, FS_Subset, FS_CardinalityType DEF PiecesLeft

\* What is left is always a number.
LEMMA CommandLeftType ==
    BInv => /\ StepsLeft \in Nat /\ PiecesLeft \in Nat
            /\ LineLeft \in Nat /\ SignalLeft \in Nat
<1> SUFFICES ASSUME BInv PROVE LineLeft \in Nat /\ SignalLeft \in Nat
    BY StepsLeftType, UnmovedIsFinite DEF BInv
<1>1. Rounds \in Nat
    BY PoolAssumption DEF BInv, BatchTypeOK, Rounds
<1> QED
    BY <1>1 DEF LineLeft, SignalLeft

\* The same of the next state.
LEMMA CommandLeftTypeNext ==
    BInv' => (/\ StepsLeft \in Nat /\ PiecesLeft \in Nat
              /\ LineLeft \in Nat /\ SignalLeft \in Nat)'
    BY CommandLeftType, PTL

\* A sum falls when no summand rises and one falls.
LEMMA SumFalls ==
    ASSUME NEW a \in Nat, NEW b \in Nat, NEW c \in Nat, NEW d \in Nat,
           NEW e \in Nat, NEW f \in Nat, NEW g \in Nat, NEW h \in Nat,
           e <= a, f <= b, g <= c, h <= d,
           e < a \/ f < b \/ g < c \/ h < d
    PROVE  e + f + g + h < a + b + c + d
    OBVIOUS

\* Every step uses something up and gives nothing back.
LEMMA CommandRunsDown ==
    ASSUME BInv, BInv', BatchNext, ~UNCHANGED batchVars
    PROVE  CommandLeft' < CommandLeft
<1>0. /\ StepsLeft \in Nat /\ PiecesLeft \in Nat /\ LineLeft \in Nat /\ SignalLeft \in Nat
      /\ StepsLeft' \in Nat /\ PiecesLeft' \in Nat /\ LineLeft' \in Nat /\ SignalLeft' \in Nat
    BY CommandLeftType, CommandLeftTypeNext
<1> DEFINE Less ==
        /\ StepsLeft' <= StepsLeft /\ PiecesLeft' <= PiecesLeft
        /\ LineLeft' <= LineLeft /\ SignalLeft' <= SignalLeft
        /\ \/ StepsLeft' < StepsLeft \/ PiecesLeft' < PiecesLeft
           \/ LineLeft' < LineLeft \/ SignalLeft' < SignalLeft
<1>1. SUFFICES Less
    <2>1. CommandLeft = StepsLeft + PiecesLeft + LineLeft + SignalLeft
        BY DEF CommandLeft
    <2>2. CommandLeft' = StepsLeft' + PiecesLeft' + LineLeft' + SignalLeft'
        BY DEF CommandLeft
    <2>3. ASSUME Less
          PROVE  StepsLeft' + PiecesLeft' + LineLeft' + SignalLeft'
                    < StepsLeft + PiecesLeft + LineLeft + SignalLeft
        BY <1>0, <2>3, SumFalls
    <2> QED
        BY <1>1, <2>1, <2>2, <2>3
<1>2. ASSUME UNCHANGED vars PROVE StepsLeft' = StepsLeft
    BY <1>2 DEF vars, StepsLeft, Phase
<1>3. ASSUME UNCHANGED moved PROVE PiecesLeft' = PiecesLeft
    BY <1>3 DEF PiecesLeft, Unmoved
<1>4. ASSUME UNCHANGED <<stage, pos, unread>> PROVE LineLeft' = LineLeft
    BY <1>4 DEF LineLeft, Rounds
<1>5. ASSUME UNCHANGED cancelled PROVE SignalLeft' = SignalLeft
    BY <1>5 DEF SignalLeft
<1>6. /\ Rounds \in Nat /\ pos \in Nat /\ unread \in BOOLEAN /\ MaxItems \in Nat
      /\ stage \in Stages
    BY PoolAssumption DEF BInv, BatchTypeOK, Rounds
<1>7. CASE Setup
    <2>1. UNCHANGED <<vars, moved, cancelled, pos, unread>> /\ stage = "setup"
          /\ stage' \in {"pool", "pull", "end"}
        BY <1>7 DEF Setup, Exits, poolVars, lineVars
    <2>2. Rounds' = Rounds
        BY <2>1 DEF Rounds
    <2>3. LineLeft' < LineLeft
        BY <1>6, <2>1, <2>2 DEF LineLeft
    <2> QED
        BY <1>0, <1>2, <1>3, <1>5, <2>1, <2>3
<1>8. CASE Signal
    <2>1. UNCHANGED <<vars, moved, stage, pos, unread>> /\ cancelled' = TRUE
        BY <1>8 DEF Signal, poolVars, lineVars
    <2>2. ~cancelled
        BY <1>8 DEF Signal, batchVars, BInv, BatchTypeOK
    <2>3. SignalLeft' < SignalLeft
        BY <2>1, <2>2 DEF SignalLeft
    <2> QED
        BY <1>0, <1>2, <1>3, <1>4, <2>1, <2>3
<1>9. CASE ForcedExit
    <2>1. UNCHANGED <<vars, moved, cancelled>> /\ stage # "end" /\ stage' = "end"
        BY <1>9 DEF ForcedExit, Exits, poolVars, BInv, Staged
    <2>2. LineLeft' = 0 /\ LineLeft > 0
        BY <1>6, <2>1 DEF LineLeft, Stages
    <2> QED
        BY <1>0, <1>2, <1>3, <1>5, <2>1, <2>2
<1>10. CASE PoolCaller
    <2>1. UNCHANGED <<moved, cancelled, pos, unread>> /\ stage = "pool"
          /\ stage' \in {"pool", "end"}
        BY <1>10 DEF PoolCaller, SourceYields, SourceFails, SourceEnds, CallerGoesOn,
            PoolReturns, CallerOnly, Exits, poolVars, lineVars
    <2>2. Next
        BY <1>10 DEF PoolCaller, SourceYields, SourceFails, SourceEnds, CallerGoesOn,
            PoolReturns, Next, Caller
    <2>3. StepsLeft' < StepsLeft
        BY <2>2, StepsRunDown DEF BInv
    <2>4. LineLeft' <= LineLeft
        BY <2>1 DEF LineLeft
    <2> QED
        BY <1>0, <1>3, <1>5, <2>1, <2>3, <2>4
<1>11. ASSUME NEW i \in Items, ItemMoves(i) PROVE Less
    <2>1. /\ UNCHANGED <<vars, cancelled, stage, pos, unread>>
          /\ moved' = [moved EXCEPT ![i] = @ + 1]
          /\ moved[i] < Chunks
          /\ moved \in [Items -> 0..Chunks]
        BY <1>11 DEF ItemMoves, lineVars, BInv, BatchTypeOK
    <2>2. Chunks \in Nat /\ moved[i] \in Nat
        BY <2>1, ChunksAssumption
    <2>3. \A p \in Items \X (1..Chunks) : p[2] > moved'[p[1]] => p[2] > moved[p[1]]
        <3> SUFFICES ASSUME NEW j \in Items, NEW k \in 1..Chunks, k > moved'[j]
                     PROVE  k > moved[j]
            OBVIOUS
        <3>1. moved[j] \in Nat /\ moved'[j] \in {moved[j], moved[j] + 1} /\ k \in Nat
            BY <2>1, <2>2, ChunksAssumption
        <3> QED
            BY <3>1
    <2>4. /\ <<i, moved[i] + 1>> \in Unmoved
          /\ <<i, moved[i] + 1>> \notin Unmoved'
        <3>1. moved[i] + 1 \in 1..Chunks /\ moved[i] + 1 > moved[i]
            BY <2>1, <2>2
        <3>2. ~(moved[i] + 1 > moved'[i])
            BY <2>1, <2>2
        <3> QED
            BY <3>1, <3>2 DEF Unmoved
    <2>5. Unmoved' \subseteq Unmoved
        BY <2>3 DEF Unmoved
    <2>6. /\ PiecesLeft' <= PiecesLeft
          /\ PiecesLeft = PiecesLeft' => Unmoved = Unmoved'
        BY <2>5, UnmovedIsFinite, FS_Subset DEF PiecesLeft
    <2>7. PiecesLeft' < PiecesLeft
        BY <1>0, <2>4, <2>6
    <2> QED
        BY <1>0, <1>2, <1>4, <1>5, <2>1, <2>7
<1>12. ASSUME NEW i \in Items, ItemEnds(i) PROVE Less
    <2>1. UNCHANGED <<moved, cancelled, stage, pos, unread>> /\ Finish(i)
        BY <1>12 DEF ItemEnds, lineVars
    <2>2. StepsLeft' < StepsLeft
        BY <2>1, StepsRunDown DEF BInv, Next
    <2> QED
        BY <1>0, <1>3, <1>4, <1>5, <2>1, <2>2
<1>13. CASE LineStep
    <2>1. UNCHANGED <<vars, moved, cancelled>>
        BY <1>13 DEF LineStep, NextLine, ReadFails, LinesEnd, WorkSucceeds, WorkFails,
            WriteSucceeds, WriteFails, Close, LineOnly, poolVars
    <2>2. \/ /\ stage = "pull" /\ stage' = "work"
             /\ \/ pos' = pos + 1 /\ unread' = unread
                \/ pos' = pos /\ ~unread /\ unread'
          \/ /\ UNCHANGED <<pos, unread>>
             /\ \/ stage = "pull" /\ stage' \in {"close", "end"}
                \/ stage = "work" /\ stage' \in {"write", "close"}
                \/ stage = "write" /\ stage' \in {"pull", "close"}
                \/ stage = "close" /\ stage' = "end"
        <3>1. CASE NextLine \/ ReadFails \/ LinesEnd
            BY <3>1 DEF NextLine, ReadFails, LinesEnd, Goes, Exits
        <3>2. CASE WorkSucceeds \/ WorkFails
            BY <3>2 DEF WorkSucceeds, WorkFails, Goes
        <3>3. CASE WriteSucceeds \/ WriteFails \/ Close
            BY <3>3 DEF WriteSucceeds, WriteFails, Close, Goes, Exits
        <3> QED
            BY <1>13, <3>1, <3>2, <3>3 DEF LineStep
    <2>3. LineLeft' < LineLeft
        <3>1. CASE /\ stage = "pull" /\ stage' = "work"
                   /\ \/ pos' = pos + 1 /\ unread' = unread
                      \/ pos' = pos /\ ~unread /\ unread'
            <4>1. Rounds' = Rounds - 1
                BY <1>6, <3>1 DEF Rounds
            <4> QED
                BY <1>6, <3>1, <4>1 DEF LineLeft
        <3>2. CASE /\ UNCHANGED <<pos, unread>>
                   /\ \/ stage = "pull" /\ stage' \in {"close", "end"}
                      \/ stage = "work" /\ stage' \in {"write", "close"}
                      \/ stage = "write" /\ stage' \in {"pull", "close"}
                      \/ stage = "close" /\ stage' = "end"
            <4>1. Rounds' = Rounds
                BY <3>2 DEF Rounds
            <4> QED
                BY <1>6, <3>2, <4>1 DEF LineLeft
        <3> QED
            BY <2>2, <3>1, <3>2
    <2> QED
        BY <1>0, <1>2, <1>3, <1>5, <2>1, <2>3
<1> QED
    BY <1>7, <1>8, <1>9, <1>10, <1>11, <1>12, <1>13 DEF BatchNext

\* The guards of the steps that wait for nobody, a hanging call aside: the
\* command sets up, pulls, receives, returns; an item's work ends; a line is
\* read, worked on, written; the output is closed.
CommandGoesOn ==
    \/ stage = "setup"
    \/ stage = "pool" /\ main = "pull" /\ started < Readable /\ ~cancelled
    \/ stage = "pool" /\ main = "pull" /\ (started = Readable \/ cancelled)
    \/ stage = "pool" /\ main \in {"limit", "drain"} /\ received < Len(sent)
    \/ stage = "pool" /\ main = "drain" /\ working = 0
    \/ stage = "pool" /\ running # {}
    \/ stage = "pull" /\ pos < Readable /\ ~unread /\ ~cancelled
    \/ stage = "pull" /\ (pos = Readable \/ cancelled \/ unread)
    \/ stage \in {"work", "write", "close"}

\* A command that has not exited can go on.
LEMMA CommandIsOpen == BInv /\ InsideInput /\ exit = "none" => CommandGoesOn
<1> SUFFICES ASSUME BInv, InsideInput, exit = "none" PROVE CommandGoesOn
    OBVIOUS
<1>1. stage \in Stages \ {"end"}
    BY DEF BInv, BatchTypeOK, Staged
<1>2. /\ pos \in Nat /\ started \in Nat /\ Readable \in Nat
    BY ReadableType, PoolAssumption DEF BInv, BatchTypeOK, IInv, Shape, TypeOK
<1>3. CASE stage = "pool"
    <2>1. SomebodyGoesOn
        BY <1>3, NobodyWaitsInVain DEF BInv, InsideInput
    <2> QED
        BY <1>2, <1>3, <2>1 DEF SomebodyGoesOn, CommandGoesOn, InsideInput
<1>4. CASE stage = "pull"
    BY <1>2, <1>4 DEF CommandGoesOn, InsideInput
<1> QED
    BY <1>1, <1>3, <1>4 DEF Stages, CommandGoesOn

\* Every batch command ends, for every input, limit and size of the files: it has
\* at most CommandLeft steps, whatever fails, is cancelled or is written in pieces
\* on the way, and until it has an exit status it can take one, the pool's callers
\* and goroutines never all waiting for each other (source.go, utils.go: the calls of
\* ApplyParallel; io.go: ReadLines, WriteLines; throttle.go).  CommandEnds adds that
\* what can be done is done.
THEOREM CommandsRunOut ==
    BatchSpec => /\ [](CommandLeft \in Nat)
                 /\ [][CommandLeft' < CommandLeft]_batchVars
                 /\ [](exit = "none" => CommandGoesOn)
<1>1. BatchInit => BInv /\ InsideInput
    <2>1. BatchInit => InsideInput
        <3> SUFFICES ASSUME BatchInit PROVE InsideInput
            OBVIOUS
        <3>1. Readable \in Nat
            BY InitBInv, ReadableType DEF BInv
        <3> QED
            BY <3>1 DEF BatchInit, Init, InsideInput
    <2> QED
        BY <2>1, InitBInv
<1>2. BInv /\ InsideInput /\ [BatchNext]_batchVars => (BInv /\ InsideInput)'
    BY BatchKeepsBInv, StepInsideInput
<1>3. BInv => CommandLeft \in Nat
    BY CommandLeftType DEF CommandLeft
<1>4. BInv /\ BInv' /\ [BatchNext]_batchVars => [CommandLeft' < CommandLeft]_batchVars
    BY CommandRunsDown
<1> QED
    BY <1>1, <1>2, <1>3, <1>4, CommandIsOpen, PTL DEF BatchSpec
=============================================================================
