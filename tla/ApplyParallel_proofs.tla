------------------------ MODULE ApplyParallel_proofs ------------------------
(***************************************************************************)
(* For every limit of workers and every length of the sequence: the pool is *)
(* bounded, the call leaves no goroutine behind, loses no error, returns    *)
(* the first one, and starts fewer than Workers items after a failure.      *)
(*                                                                          *)
(* The argument is one of counting.  Every item that was started is running *)
(* or on the channel, and the caller's count is the number of started items *)
(* whose result it has not received.  A second count, of the steps that are *)
(* left, falls with every step until the call returns.                      *)
(***************************************************************************)
EXTENDS ApplyParallel, FiniteSetTheorems, TLAPS

\* Items are started in order, and one item is never both running and sent.
Shape ==
    /\ TypeOK
    /\ IsFiniteSet(running)
    /\ running \subseteq 1..started
    /\ \A k \in 1..Len(sent) : sent[k] <= started /\ sent[k] \notin running

Counts ==
    /\ Cardinality(running) + Len(sent) = started
    /\ working = started - received
    /\ main = "limit" => working = Workers /\ started < MaxItems
    /\ main = "returned" => working = 0

\* err is the first failure among the results received so far.
FirstFailureAt(k) ==
    sent[k] \in failed /\ \A j \in 1..(k - 1) : sent[j] \notin failed

ErrorsKept ==
    /\ \A i \in failed : \E k \in 1..Len(sent) : sent[k] = i
    /\ err = NoError => \A k \in 1..received : sent[k] \notin failed
    /\ err \in Items => \E k \in 1..received : sent[k] = err /\ FirstFailureAt(k)
    /\ main \in {"pull", "limit"} => err = NoError

\* The first failure stands in the channel before the items started after it,
\* and its receipt ends the starting of items.
StartsBounded ==
    failed # {} =>
        /\ started - atFailure < Workers
        /\ \E k \in 1..Len(sent) :
              /\ sent[k] \in failed
              /\ k <= atFailure
              /\ received >= k => main \in {"drain", "returned"}

IInv == Shape /\ Counts /\ ErrorsKept /\ StartsBounded

\* Nothing was started and nothing sent.
LEMMA InitIInv == Init => IInv
<1> SUFFICES ASSUME Init PROVE IInv
    OBVIOUS
<1> USE PoolAssumption DEF Init, Items, Errors, NoError, SeqError
<1>1. Shape
    BY FS_EmptySet DEF Shape, TypeOK
<1>2. Counts
    BY FS_EmptySet DEF Counts
<1>3. ErrorsKept /\ StartsBounded
    BY DEF ErrorsKept, StartsBounded
<1> QED
    BY <1>1, <1>2, <1>3 DEF IInv

\* Starting the next item adds one running item.
LEMMA DispatchCounts ==
    ASSUME Shape, Dispatch, started < MaxItems
    PROVE  /\ IsFiniteSet(running')
           /\ Cardinality(running') = Cardinality(running) + 1
           /\ running' \subseteq 1..started'
           /\ running' \subseteq Items
           /\ \A k \in 1..Len(sent) : sent[k] <= started' /\ sent[k] \notin running'
<1> USE PoolAssumption DEF Shape, TypeOK, Dispatch, Items
<1>1. started + 1 \notin running
    OBVIOUS
<1>2. IsFiniteSet(running') /\ Cardinality(running') = Cardinality(running) + 1
    BY <1>1, FS_AddElement
<1>3. running' \subseteq 1..started'
    OBVIOUS
<1>4. \A k \in 1..Len(sent) : sent[k] <= started' /\ sent[k] \notin running'
    <2> SUFFICES ASSUME NEW k \in 1..Len(sent)
                 PROVE  sent[k] <= started' /\ sent[k] \notin running'
        OBVIOUS
    <2>1. sent[k] \in Items /\ sent[k] <= started /\ sent[k] \notin running
        OBVIOUS
    <2> QED
        BY <2>1
<1> QED
    BY <1>2, <1>3, <1>4

\* The caller receives the oldest result: it is a sent item.
LEMMA ReceiveOldest ==
    ASSUME Shape, Receive
    PROVE  /\ received + 1 \in 1..Len(sent)
           /\ Oldest \in Items
           /\ received' = received + 1
           /\ received' \in 0..Len(sent)
    BY DEF Shape, TypeOK, Receive, Oldest

-----------------------------------------------------------------------------
\* An item is started while the pool has room.
LEMMA PullBelowLimitKeeps == IInv /\ PullBelowLimit => IInv'
<1> SUFFICES ASSUME IInv, PullBelowLimit PROVE IInv'
    OBVIOUS
<1> USE PoolAssumption DEF PullBelowLimit, IInv
<1>1. Shape'
    BY DispatchCounts DEF Shape, TypeOK, Dispatch
<1>2. Counts'
    BY DispatchCounts, FS_CardinalityType DEF Counts, Shape, TypeOK, Dispatch
<1>3. ErrorsKept'
    BY DEF ErrorsKept, FirstFailureAt
<1>4. StartsBounded'
    BY DEF StartsBounded, Counts, Shape, TypeOK, Dispatch
<1> QED
    BY <1>1, <1>2, <1>3, <1>4

\* The pool is full, or the sequence has ended or failed: only main moves.
LEMMA OtherPullsKeep == IInv /\ (PullAtLimit \/ PullError \/ PullEnd \/ Return) => IInv'
<1> SUFFICES ASSUME IInv, PullAtLimit \/ PullError \/ PullEnd \/ Return PROVE IInv'
    OBVIOUS
<1> USE PoolAssumption DEF PullAtLimit, PullError, PullEnd, Return, IInv
<1>1. Shape'
    <2>1. err' \in Errors
        BY DEF Shape, TypeOK, Errors, SeqError
    <2> QED
        BY <2>1 DEF Shape, TypeOK
<1>2. Counts'
    BY DEF Counts
<1>3. ErrorsKept'
    BY DEF ErrorsKept, FirstFailureAt, Items, NoError, SeqError
<1>4. StartsBounded'
    BY DEF StartsBounded
<1> QED
    BY <1>1, <1>2, <1>3, <1>4

\* A piece of work returns.
LEMMA FinishKeeps == ASSUME IInv, NEW i \in Items, Finish(i) PROVE IInv'
<1> USE PoolAssumption DEF Finish, IInv
<1>1. /\ IsFiniteSet(running')
      /\ Cardinality(running') = Cardinality(running) - 1
      /\ Cardinality(running) \in Nat
      /\ Cardinality(running') \in Nat
    BY FS_RemoveElement, FS_CardinalityType DEF Shape
<1>2. /\ sent' \in Seq(Items)
      /\ Len(sent') = Len(sent) + 1
      /\ sent'[Len(sent) + 1] = i
      /\ \A k \in 1..Len(sent) : sent'[k] = sent[k]
      /\ i <= started
    BY DEF Shape, TypeOK, Items
<1>3. Len(sent') <= started
    BY <1>1, <1>2 DEF Counts, Shape, TypeOK
<1>4. \A k \in 1..Len(sent) : sent[k] # i
    BY DEF Shape
<1>5. Shape'
    <2>1. TypeOK'
        <3>1. received' \in 0..Len(sent')
            BY <1>2 DEF Shape, TypeOK
        <3>2. failed' \subseteq Items /\ atFailure' \in 0..MaxItems
            BY DEF Shape, TypeOK
        <3> QED
            BY <1>2, <3>1, <3>2 DEF Shape, TypeOK
    <2>3. started \in Nat /\ \A k \in 1..Len(sent) : sent[k] <= started
        BY DEF Shape, TypeOK
    <2>2. \A k \in 1..Len(sent') : sent'[k] <= started' /\ sent'[k] \notin running'
        <3> SUFFICES ASSUME NEW k \in 1..Len(sent')
                     PROVE  sent'[k] <= started' /\ sent'[k] \notin running'
            OBVIOUS
        <3>1. CASE k = Len(sent) + 1
            BY <1>2, <3>1
        <3>2. CASE k \in 1..Len(sent)
            BY <1>2, <2>3, <3>2 DEF Shape
        <3>3. k = Len(sent) + 1 \/ k \in 1..Len(sent)
            BY <1>2 DEF Shape, TypeOK
        <3> QED
            BY <3>1, <3>2, <3>3
    <2> QED
        BY <1>1, <2>1, <2>2 DEF Shape
<1>6. Counts'
    BY <1>1, <1>2 DEF Counts, Shape, TypeOK
<1>7. ErrorsKept'
    <2>1. \A k \in 1..received : k \in 1..Len(sent) /\ sent'[k] = sent[k] /\ sent[k] # i
        BY <1>2, <1>4 DEF Shape, TypeOK
    <2>2. failed' = failed \/ failed' = failed \cup {i}
        OBVIOUS
    <2>3. \A j \in failed' : \E k \in 1..Len(sent') : sent'[k] = j
        <3>1. Len(sent) + 1 \in 1..Len(sent') /\ \A k \in 1..Len(sent) : k \in 1..Len(sent')
            BY <1>2 DEF Shape, TypeOK
        <3>2. \A j \in failed : \E k \in 1..Len(sent) : sent'[k] = j
            BY <1>2 DEF ErrorsKept
        <3> QED
            BY <1>2, <2>2, <3>1, <3>2
    <2>4. err' = NoError => \A k \in 1..received' : sent'[k] \notin failed'
        BY <2>1, <2>2 DEF ErrorsKept
    <2>5. err' \in Items => \E k \in 1..received' : sent'[k] = err' /\ FirstFailureAt(k)'
        <3> SUFFICES ASSUME err \in Items
                     PROVE  \E k \in 1..received : sent'[k] = err /\ FirstFailureAt(k)'
            OBVIOUS
        <3>1. PICK k \in 1..received : sent[k] = err /\ FirstFailureAt(k)
            BY DEF ErrorsKept
        <3>2. sent'[k] \in failed'
            BY <3>1, <2>1, <2>2 DEF FirstFailureAt
        <3>3. \A j \in 1..(k - 1) : sent'[j] \notin failed'
            BY <3>1, <2>1, <2>2 DEF FirstFailureAt, Shape, TypeOK
        <3> QED
            BY <3>1, <3>2, <3>3, <2>1 DEF FirstFailureAt
    <2>6. main' \in {"pull", "limit"} => err' = NoError
        BY DEF ErrorsKept
    <2> QED
        BY <2>3, <2>4, <2>5, <2>6 DEF ErrorsKept
<1>8. StartsBounded'
    <2>1. CASE failed' = {}
        BY <2>1 DEF StartsBounded
    <2>2. CASE failed = {} /\ failed' = {i}
        <3>1. atFailure' = started
            BY <2>2
        <3>2. /\ Len(sent) + 1 \in 1..Len(sent')
              /\ sent'[Len(sent) + 1] \in failed'
              /\ Len(sent) + 1 <= atFailure'
              /\ received' < Len(sent) + 1
            BY <1>2, <1>3, <2>2, <3>1 DEF Shape, TypeOK
        <3> QED
            BY <3>1, <3>2 DEF StartsBounded, Shape, TypeOK
    <2>3. CASE failed # {} /\ atFailure' = atFailure
        <3>1. failed' = failed \/ failed' = failed \cup {i}
            OBVIOUS
        <3>2. PICK k \in 1..Len(sent) :
                  /\ sent[k] \in failed
                  /\ k <= atFailure
                  /\ received >= k => main \in {"drain", "returned"}
            BY <2>3 DEF StartsBounded
        <3>3. k \in 1..Len(sent') /\ sent'[k] \in failed'
            BY <1>2, <3>1, <3>2 DEF Shape, TypeOK
        <3> QED
            BY <2>3, <3>2, <3>3 DEF StartsBounded
    <2> QED
        BY <2>1, <2>2, <2>3
<1> QED
    BY <1>5, <1>6, <1>7, <1>8

\* A good result at the limit starts the pending item.
LEMMA LimitGoodKeeps == IInv /\ LimitGood => IInv'
<1> SUFFICES ASSUME IInv, LimitGood PROVE IInv'
    OBVIOUS
<1> USE PoolAssumption DEF LimitGood, IInv
<1>1. /\ received + 1 \in 1..Len(sent)
      /\ received' = received + 1
      /\ received' \in 0..Len(sent)
      /\ sent[received + 1] \notin failed
      /\ UNCHANGED <<sent, failed, atFailure, working, err>>
    BY ReceiveOldest DEF Receive, Oldest
<1>2. started < MaxItems /\ working = Workers
    BY DEF Counts
<1>3. Shape'
    BY <1>1, <1>2, DispatchCounts DEF Shape, TypeOK, Dispatch
<1>4. Counts'
    BY <1>1, <1>2, DispatchCounts, FS_CardinalityType
    DEF Counts, Shape, TypeOK, Dispatch
<1>5. ErrorsKept'
    <2>1. err = NoError
        BY DEF ErrorsKept
    <2>2. \A k \in 1..(received + 1) : sent[k] \notin failed
        BY <1>1, <2>1 DEF ErrorsKept, Shape, TypeOK
    <2> QED
        BY <1>1, <2>1, <2>2 DEF ErrorsKept, NoError, Items
<1>6. StartsBounded'
    <2> SUFFICES ASSUME failed # {}
                 PROVE  /\ started' - atFailure < Workers
                        /\ \E k \in 1..Len(sent) :
                              /\ sent[k] \in failed
                              /\ k <= atFailure
                              /\ received' >= k => main' \in {"drain", "returned"}
        BY <1>1 DEF StartsBounded
    <2>1. PICK k \in 1..Len(sent) :
              /\ sent[k] \in failed
              /\ k <= atFailure
              /\ received >= k => main \in {"drain", "returned"}
        BY DEF StartsBounded
    <2>2. received' < k
        BY <1>1, <2>1 DEF Shape, TypeOK
    <2>3. started' = Workers + received'
        BY <1>1, <1>2 DEF Counts, Dispatch, Shape, TypeOK
    <2> QED
        BY <2>1, <2>2, <2>3, <1>1 DEF Shape, TypeOK
<1> QED
    BY <1>3, <1>4, <1>5, <1>6

\* The oldest result is received and its goroutine ends: at the limit with an
\* error, or while draining.
LEMMA DrainKeeps == IInv /\ (LimitError \/ Drain) => IInv'
<1> SUFFICES ASSUME IInv, LimitError \/ Drain PROVE IInv'
    OBVIOUS
<1> USE PoolAssumption DEF IInv
<1>1. /\ received + 1 \in 1..Len(sent)
      /\ Oldest \in Items
      /\ received' = received + 1
      /\ received' \in 0..Len(sent)
      /\ UNCHANGED <<sent, failed, atFailure, started, running>>
    BY ReceiveOldest DEF LimitError, Drain, Receive
<1>2. main' = "drain" /\ working' = working - 1 /\ working > 0
    BY DEF LimitError, Drain, Counts
<1>3. err' = IF err = NoError /\ Oldest \in failed THEN Oldest ELSE err
    BY DEF LimitError, Drain, ErrorsKept
<1>4. Shape'
    BY <1>1, <1>2, <1>3 DEF Shape, TypeOK, Items, Errors, SeqError
<1>5. Counts'
    BY <1>1, <1>2 DEF Counts, Shape, TypeOK
<1>6. ErrorsKept'
    <2>1. CASE err = NoError /\ Oldest \in failed
        <3>1. err' = sent[received + 1] /\ FirstFailureAt(received + 1)
            BY <2>1, <1>1, <1>3 DEF ErrorsKept, FirstFailureAt, Oldest, Shape, TypeOK
        <3>2. err' \in Items /\ err' # NoError
            BY <2>1, <1>1, <1>3 DEF Items, NoError
        <3>3. \E k \in 1..received' : /\ sent'[k] = err'
                                     /\ sent'[k] \in failed'
                                     /\ \A j \in 1..(k - 1) : sent'[j] \notin failed'
            <4>1. received' \in 1..received' /\ received' = received + 1
                BY <1>1 DEF Shape, TypeOK
            <4>2. sent'[received'] = err' /\ sent'[received'] \in failed'
                BY <3>1, <4>1, <1>1 DEF FirstFailureAt
            <4>3. \A j \in 1..(received' - 1) : sent'[j] \notin failed'
                BY <3>1, <4>1, <1>1 DEF FirstFailureAt
            <4> QED
                BY <4>1, <4>2, <4>3
        <3>4. \A j \in failed' : \E k \in 1..Len(sent') : sent'[k] = j
            BY <1>1 DEF ErrorsKept
        <3>5. main' \notin {"pull", "limit"}
            BY <1>2
        <3> QED
            BY <3>2, <3>3, <3>4, <3>5 DEF ErrorsKept, FirstFailureAt
    <2>2. CASE err = NoError /\ Oldest \notin failed
        <3>1. \A k \in 1..received' : sent[k] \notin failed
            BY <2>2, <1>1 DEF ErrorsKept, Oldest, Shape, TypeOK
        <3> QED
            BY <3>1, <2>2, <1>1, <1>2, <1>3 DEF ErrorsKept, NoError, Items
    <2>3. CASE err # NoError
        <3>1. \A k \in 1..received : k \in 1..received'
            BY <1>1 DEF Shape, TypeOK
        <3> QED
            BY <2>3, <3>1, <1>1, <1>2, <1>3 DEF ErrorsKept, FirstFailureAt
    <2> QED
        BY <2>1, <2>2, <2>3
<1>7. StartsBounded'
    BY <1>1, <1>2 DEF StartsBounded
<1> QED
    BY <1>4, <1>5, <1>6, <1>7

\* Every step keeps the invariant.
LEMMA NextKeepsIInv == IInv /\ [Next]_vars => IInv'
<1> SUFFICES ASSUME IInv, [Next]_vars PROVE IInv'
    OBVIOUS
<1>1. CASE UNCHANGED vars
    BY <1>1 DEF vars, IInv, Shape, TypeOK, Counts, ErrorsKept, FirstFailureAt,
                StartsBounded
<1>2. CASE Caller
    BY <1>2, PullBelowLimitKeeps, OtherPullsKeep, LimitGoodKeeps, DrainKeeps
    DEF Caller
<1> QED
    BY <1>1, <1>2, FinishKeeps DEF Next

\* The pool is bounded by Workers, the goroutines blocked on the channel
\* included (throttle.go: ApplyParallel).
THEOREM PoolBound == Spec => [](TypeOK /\ PoolIsBounded)
<1>1. IInv => TypeOK /\ PoolIsBounded
    BY FS_CardinalityType, PoolAssumption
    DEF IInv, Shape, TypeOK, Counts, PoolIsBounded, Alive
<1> QED
    BY <1>1, InitIInv, NextKeepsIInv, PTL DEF Spec

\* When the call returns, every goroutine it started has ended.
THEOREM CleanReturn == Spec => []NothingLeftBehind
<1>1. IInv => NothingLeftBehind
    BY FS_CardinalityType
    DEF IInv, Shape, TypeOK, Counts, NothingLeftBehind, Alive
<1> QED
    BY <1>1, InitIInv, NextKeepsIInv, PTL DEF Spec

\* A call that returns no error has started no goroutine that failed: no error
\* any of them sent was dropped.
THEOREM ErrorsAreReported == Spec => []NoErrorLost
<1>1. IInv => NoErrorLost
    <2> SUFFICES ASSUME IInv, main = "returned", err = NoError, NEW i \in failed
                 PROVE  FALSE
        BY DEF NoErrorLost
    <2>1. received = Len(sent)
        BY FS_CardinalityType DEF IInv, Shape, TypeOK, Counts
    <2> QED
        BY <2>1 DEF IInv, ErrorsKept
<1> QED
    BY <1>1, InitIInv, NextKeepsIInv, PTL DEF Spec

\* The call returns the first error that came to the channel.
THEOREM ReturnsFirstError == Spec => []FirstErrorWins
<1>1. IInv => FirstErrorWins
    BY DEF IInv, Shape, TypeOK, ErrorsKept, FirstFailureAt, FirstErrorWins
<1> QED
    BY <1>1, InitIInv, NextKeepsIInv, PTL DEF Spec

\* After the first failure fewer than Workers further items are started.
THEOREM StopsAfterFailure == Spec => []FewStartsAfterFailure
<1>1. IInv => FewStartsAfterFailure
    BY DEF IInv, StartsBounded, FewStartsAfterFailure
<1> QED
    BY <1>1, InitIInv, NextKeepsIInv, PTL DEF Spec

-----------------------------------------------------------------------------
(* The call comes to an end.                                                *)

\* What the caller has still to do besides its items.
Phase ==
    CASE main = "pull" -> 3
      [] main = "limit" -> 2
      [] main = "drain" -> 1
      [] OTHER -> 0

\* The steps that are left at most: items to start, results to send and receive.
StepsLeft ==
    2 * (MaxItems - started) + (MaxItems - Len(sent)) + (MaxItems - received) + Phase

\* The guards of the steps: the caller pulls, receives or returns, or an item's
\* work goes on.
SomebodyGoesOn ==
    \/ main = "pull"
    \/ running # {}
    \/ main \in {"limit", "drain"} /\ received < Len(sent)
    \/ main = "drain" /\ working = 0

\* No more results are sent and received than items were started.
LEMMA ResultsOfItems ==
    IInv => /\ started \in 0..MaxItems
            /\ Len(sent) \in 0..started
            /\ received \in 0..Len(sent)
            /\ MaxItems \in Nat
<1> SUFFICES ASSUME IInv PROVE /\ started \in 0..MaxItems
                               /\ Len(sent) \in 0..started
                               /\ received \in 0..Len(sent)
                               /\ MaxItems \in Nat
    OBVIOUS
<1>1. Cardinality(running) \in Nat
    BY FS_CardinalityType DEF IInv, Shape
<1> QED
    BY <1>1, PoolAssumption DEF IInv, Shape, TypeOK, Counts

\* There is a number of steps left.
LEMMA StepsLeftType == IInv => StepsLeft \in Nat
    BY ResultsOfItems, PoolAssumption DEF StepsLeft, Phase

\* Every step is one of them.
LEMMA StepsRunDown == ASSUME IInv, Next PROVE StepsLeft' < StepsLeft
<1>1. /\ started \in Nat /\ Len(sent) \in Nat /\ received \in Nat /\ MaxItems \in Nat
    BY ResultsOfItems
<1>2. Receive => sent' = sent /\ received' = received + 1
    BY DEF Receive
<1>3. CASE PullBelowLimit
    BY <1>1, <1>3 DEF PullBelowLimit, Dispatch, StepsLeft, Phase
<1>4. CASE PullAtLimit \/ PullError \/ PullEnd \/ Return
    <2>1. UNCHANGED <<started, sent, received>>
        BY <1>4 DEF PullAtLimit, PullError, PullEnd, Return
    <2>2. \/ Phase = 3 /\ Phase' = 2
          \/ Phase = 3 /\ Phase' = 1
          \/ Phase = 1 /\ Phase' = 0
        BY <1>4 DEF PullAtLimit, PullError, PullEnd, Return, Phase
    <2> QED
        BY <1>1, <2>1, <2>2 DEF StepsLeft
<1>5. CASE LimitGood
    <2>1. /\ sent' = sent /\ received' = received + 1
          /\ started' = started + 1
        BY <1>2, <1>5 DEF LimitGood, Dispatch
    <2>2. Phase = 2 /\ Phase' = 3
        BY <1>5 DEF LimitGood, Phase
    <2> QED
        BY <1>1, <2>1, <2>2 DEF StepsLeft
<1>6. CASE LimitError \/ Drain
    BY <1>1, <1>2, <1>6 DEF LimitError, Drain, StepsLeft, Phase
<1>7. ASSUME NEW i \in Items, Finish(i) PROVE StepsLeft' < StepsLeft
    <2>1. Len(sent') = Len(sent) + 1
        BY <1>7 DEF Finish, IInv, Shape, TypeOK
    <2> QED
        BY <1>1, <1>7, <2>1 DEF Finish, StepsLeft, Phase
<1> QED
    BY <1>3, <1>4, <1>5, <1>6, <1>7 DEF Next, Caller

\* A caller that waits for a result waits for a goroutine that is alive.
LEMMA NobodyWaitsInVain == IInv /\ main # "returned" => SomebodyGoesOn
<1> SUFFICES ASSUME IInv, main \in {"limit", "drain"}, main = "drain" => working # 0,
                    running = {}
             PROVE  received < Len(sent)
    BY DEF IInv, Shape, TypeOK, SomebodyGoesOn
<1>1. Cardinality(running) = 0
    BY FS_EmptySet
<1>2. Len(sent) = started /\ working = started - received /\ working # 0
    BY <1>1, PoolAssumption, ResultsOfItems DEF IInv, Shape, TypeOK, Counts
<1> QED
    BY <1>2, ResultsOfItems

\* Every call of the pool ends, whatever its items return: it has at most
\* StepsLeft steps, and until it returns somebody can take one, the caller never
\* waiting for a result that nobody is going to send.
THEOREM EveryCallEnds ==
    Spec => /\ [](StepsLeft \in Nat)
            /\ [][StepsLeft' < StepsLeft]_vars
            /\ [](main # "returned" => SomebodyGoesOn)
<1>1. IInv /\ [Next]_vars => [StepsLeft' < StepsLeft]_vars
    BY StepsRunDown
<1> QED
    BY <1>1, InitIInv, NextKeepsIInv, StepsLeftType, NobodyWaitsInVain, PTL DEF Spec
=============================================================================
