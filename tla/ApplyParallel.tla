---------------------------- MODULE ApplyParallel ----------------------------
(***************************************************************************)
(* stats.ApplyParallel (agent/src/stats/throttle.go): the pool every command *)
(* of the agent that works on a sequence runs on.  The load test has a copy *)
(* (loadtest/utils.go) with a buffered channel: there a result waits in the *)
(* buffer instead of its goroutine.                                         *)
(*                                                                          *)
(* The caller pulls items from the sequence and starts one goroutine per     *)
(* item; at most `Workers` of them are alive.  A goroutine sends the result  *)
(* of its work on an UNBUFFERED channel and is blocked until the caller      *)
(* receives it: while the pool is full, and at the end, in the drain loop.   *)
(* A result that is never received is a goroutine that never ends.           *)
(*                                                                          *)
(* Go serves blocked senders first come, first served; `sent` is the order   *)
(* in which the goroutines came to the channel.                              *)
(***************************************************************************)
EXTENDS Naturals, Sequences, FiniteSets

CONSTANTS
    Workers,   \* limit of goroutines; a limit <= 0 is replaced by NumCPU
    MaxItems   \* bound on the length of the sequence

ASSUME PoolAssumption ==
    /\ Workers \in Nat \ {0}
    /\ MaxItems \in Nat

Items == 1..MaxItems
NoError == 0
SeqError == MaxItems + 1    \* an error the sequence itself yielded
Errors == 0..SeqError       \* an item stands for the error of its work

VARIABLES
    main,      \* the caller: pulling, waiting at the limit, draining, returned
    started,   \* items given to a goroutine so far
    working,   \* the caller's count of goroutines
    running,   \* items whose work is going on
    sent,      \* items whose goroutine came to the channel, in that order
    received,  \* how many of them were received
    failed,    \* items whose work returned an error
    err,       \* what the call is going to return
    atFailure  \* history: `started` when the first failed result was sent

vars == <<main, started, working, running, sent, received, failed, err, atFailure>>

TypeOK ==
    /\ main \in {"pull", "limit", "drain", "returned"}
    /\ started \in 0..MaxItems
    /\ working \in 0..Workers
    /\ running \subseteq Items
    /\ sent \in Seq(Items)
    /\ received \in 0..Len(sent)
    /\ failed \subseteq Items
    /\ err \in Errors
    /\ atFailure \in 0..MaxItems

Init ==
    /\ main = "pull"
    /\ started = 0
    /\ working = 0
    /\ running = {}
    /\ sent = <<>>
    /\ received = 0
    /\ failed = {}
    /\ err = NoError
    /\ atFailure = 0

\* go func() { ... }() for the next item.
Dispatch ==
    /\ started' = started + 1
    /\ running' = running \cup {started + 1}

\* Mutant: the new goroutine is not counted.
PullUncounted ==
    /\ main = "pull"
    /\ started < MaxItems
    /\ working < Workers
    /\ Dispatch
    /\ UNCHANGED <<main, working, sent, received, failed, err, atFailure>>

\* The sequence yields an item while the pool has room.
PullBelowLimit ==
    /\ main = "pull"
    /\ started < MaxItems
    /\ working < Workers
    /\ working' = working + 1
    /\ Dispatch
    /\ UNCHANGED <<main, sent, received, failed, err, atFailure>>

\* The sequence yields an item while the pool is full: a result comes first.
PullAtLimit ==
    /\ main = "pull"
    /\ started < MaxItems
    /\ working = Workers
    /\ main' = "limit"
    /\ UNCHANGED <<started, working, running, sent, received, failed, err, atFailure>>

\* The sequence yields an error and the loop ends.
PullError ==
    /\ main = "pull"
    /\ err' = SeqError
    /\ main' = "drain"
    /\ UNCHANGED <<started, working, running, sent, received, failed, atFailure>>

\* The sequence ends.
PullEnd ==
    /\ main = "pull"
    /\ main' = "drain"
    /\ UNCHANGED <<started, working, running, sent, received, failed, err, atFailure>>

\* The work of an item returns and its goroutine comes to the channel.
Finish(i) ==
    /\ i \in running
    /\ running' = running \ {i}
    /\ sent' = Append(sent, i)
    /\ \/ UNCHANGED <<failed, atFailure>>
       \/ /\ failed' = failed \cup {i}
          /\ atFailure' = IF failed = {} THEN started ELSE atFailure
    /\ UNCHANGED <<main, started, working, received, err>>

\* The result the caller receives next.
Oldest == sent[received + 1]

\* <-err_ch: the sender that has waited longest is served.
Receive ==
    /\ received < Len(sent)
    /\ received' = received + 1
    /\ UNCHANGED <<sent, failed, atFailure>>

\* At the limit a good result makes room for the pending item, without the
\* count being touched.
LimitGood ==
    /\ main = "limit"
    /\ Receive
    /\ Oldest \notin failed
    /\ Dispatch
    /\ main' = "pull"
    /\ UNCHANGED <<working, err>>

\* Mutant: the error is kept and the loop goes on.
LimitErrorGoesOn ==
    /\ main = "limit"
    /\ Receive
    /\ Oldest \in failed
    /\ Dispatch
    /\ err' = Oldest
    /\ main' = "pull"
    /\ UNCHANGED working

\* Mutant: the goroutine that failed stays in the count.
LimitErrorUncounted ==
    /\ main = "limit"
    /\ Receive
    /\ Oldest \in failed
    /\ err' = Oldest
    /\ main' = "drain"
    /\ UNCHANGED <<started, running, working>>

\* At the limit an error ends the loop and the pending item is dropped.
LimitError ==
    /\ main = "limit"
    /\ Receive
    /\ Oldest \in failed
    /\ working' = working - 1
    /\ err' = Oldest
    /\ main' = "drain"
    /\ UNCHANGED <<started, running>>

\* Mutants of the drain loop: errors are ignored; the last one is kept.
DrainIgnores ==
    /\ main = "drain"
    /\ working > 0
    /\ Receive
    /\ working' = working - 1
    /\ UNCHANGED <<main, started, running, err>>

DrainKeepsLast ==
    /\ main = "drain"
    /\ working > 0
    /\ Receive
    /\ working' = working - 1
    /\ err' = IF Oldest \in failed THEN Oldest ELSE err
    /\ UNCHANGED <<main, started, running>>

\* for working > 0: every goroutine is waited for, the first error is kept.
Drain ==
    /\ main = "drain"
    /\ working > 0
    /\ Receive
    /\ working' = working - 1
    /\ err' = IF err = NoError /\ Oldest \in failed THEN Oldest ELSE err
    /\ UNCHANGED <<main, started, running>>

\* Mutant: an error returns at once.
ReturnEarly ==
    /\ main = "drain"
    /\ working = 0 \/ err # NoError
    /\ main' = "returned"
    /\ UNCHANGED <<started, working, running, sent, received, failed, err, atFailure>>

Return ==
    /\ main = "drain"
    /\ working = 0
    /\ main' = "returned"
    /\ UNCHANGED <<started, working, running, sent, received, failed, err, atFailure>>

Caller ==
    \/ PullBelowLimit \/ PullAtLimit \/ PullError \/ PullEnd
    \/ LimitGood \/ LimitError \/ Drain \/ Return

Next == Caller \/ \E i \in Items : Finish(i)

Spec == Init /\ [][Next]_vars

-----------------------------------------------------------------------------
\* Goroutines that were started and whose result was not received.
Alive == Cardinality(running) + (Len(sent) - received)

\* The pool never has more than Workers goroutines, the ones blocked on the
\* channel included (throttle.go: "with a pool of parallel workers").
PoolIsBounded == Alive <= Workers

\* When the call returns every goroutine has ended: none is left blocked on the
\* channel nobody reads any more ("once the workers are all finished").
NothingLeftBehind == main = "returned" => Alive = 0

\* No error is lost: if the call returns none, every piece of work that was
\* started has succeeded ("If there are no errors nil is returned").
NoErrorLost == main = "returned" /\ err = NoError => failed = {}

\* What is returned is an error of the sequence or the first error any piece of
\* work came to the channel with ("the first non-nil error is returned").
FirstErrorWins ==
    main = "returned" /\ err \in Items =>
        \E k \in 1..Len(sent) :
            /\ sent[k] = err
            /\ err \in failed
            /\ \A j \in 1..(k - 1) : sent[j] \notin failed

\* The first error stops the processing of new work, up to the room the pool
\* has: after the first failure fewer than Workers items are still started.
FewStartsAfterFailure == failed # {} => started - atFailure < Workers
=============================================================================
