-------------------------- MODULE LoadServer_proofs --------------------------
(***************************************************************************)
(* For every number of calls, workers and initializations: the counter of    *)
(* the load server is exact, no wakeup is lost and no task works before its  *)
(* initialization.                                                           *)
(*                                                                          *)
(* The counter is compared with the set of calls that hold a slot, so the    *)
(* argument is one about cardinalities: each step adds one call to the set   *)
(* or takes one out, and the counter goes with it.  That no wakeup is lost   *)
(* needs the queue to hold waiting calls only, each of them once: otherwise  *)
(* a signal could go to a call that is on its way already.  With the queue    *)
(* whole as well, nobody ever waits for calls that all wait themselves, and   *)
(* the steps that are ahead of a call are counted the same way.              *)
(***************************************************************************)
EXTENDS LoadServer, FiniteSetTheorems, SequenceTheorems, TLAPS

HolderStates == {"init", "initWork", "task", "release"}

\* The calls on their way to a slot.
Comers == {c \in Calls : call[c] = "acquire"}

\* The queue holds calls that wait, each of them once.
QueueIsWaiting ==
    /\ \A k \in 1..Len(waiters) : call[waiters[k]] = "wait"
    /\ \A j, k \in 1..Len(waiters) : waiters[j] = waiters[k] => j = k

\* What initialize knows while it holds the mutex: nobody else initializes, the
\* id is another one than the current one, and the current one was done.
InitIsCurrent ==
    /\ initialId # Unset => initialId \in initialized
    /\ \A c \in Calls : call[c] = "initWork" => initOf[c] \notin {NoInit, initialId}
    /\ \A c, d \in Calls : call[c] = "initWork" /\ call[d] = "initWork" => c = d

IInv ==
    /\ TypeOK
    /\ SlotsAreExact
    /\ QueueIsWaiting
    /\ InitIsCurrent
    /\ InitBeforeTask
    /\ NoLostWakeup

-----------------------------------------------------------------------------
\* Sets of calls are finite, so their cardinality is a number.
LEMMA SetsAreFinite ==
    /\ IsFiniteSet(Holders) /\ Cardinality(Holders) \in Nat
    /\ IsFiniteSet(Comers) /\ Cardinality(Comers) \in Nat
<1>1. Holders \in SUBSET Calls /\ Comers \in SUBSET Calls
    BY DEF Holders, Comers
<1>2. IsFiniteSet(Calls)
    BY ServerAssumption
<1>3. IsFiniteSet(Holders) /\ IsFiniteSet(Comers)
    BY <1>1, <1>2, FS_Subset
<1> QED
    BY <1>3, FS_CardinalityType

\* The counter is positive while a call holds a slot.
LEMMA HolderCounts ==
    ASSUME SlotsAreExact, NEW c \in Holders
    PROVE  currentWorkers >= 1
<1>1. Holders # {}
    OBVIOUS
<1>2. Cardinality(Holders) # 0
    BY <1>1, SetsAreFinite, FS_EmptySet
<1> QED
    BY <1>2, SetsAreFinite DEF SlotsAreExact

\* Initially no call is going on.
LEMMA InitIInv == Init => IInv
<1> SUFFICES ASSUME Init PROVE IInv
    OBVIOUS
<1>1. TypeOK
    BY ServerAssumption, EmptySeq DEF Init, TypeOK, CallStates, Requests
<1>2. SlotsAreExact
  <2>1. Holders = {}
    BY DEF Init, Holders
  <2> QED
    BY <2>1, FS_EmptySet, ServerAssumption DEF Init, SlotsAreExact
<1>3. waiters = <<>>
    BY DEF Init
<1>4. QueueIsWaiting
    BY <1>3, Len(<<>>) = 0 DEF QueueIsWaiting
<1>5. InitIsCurrent /\ InitBeforeTask
    BY DEF Init, InitIsCurrent, InitBeforeTask
<1> QED
    BY <1>1, <1>2, <1>3, <1>4, <1>5 DEF IInv, NoLostWakeup

\* A crash leaves a new process behind, with the history cut off.
LEMMA CrashKeepsIInv ==
    ASSUME IInv, Crash
    PROVE  IInv'
<1>1. TypeOK'
    BY ServerAssumption, EmptySeq DEF IInv, Crash, TypeOK, CallStates, Requests
<1>2. SlotsAreExact'
  <2>1. Holders' = {}
    BY DEF Crash, Holders
  <2> QED
    BY <2>1, FS_EmptySet, ServerAssumption DEF Crash, SlotsAreExact
<1>3. waiters' = <<>>
    BY DEF Crash
<1>4. QueueIsWaiting'
    BY <1>3, Len(<<>>) = 0 DEF QueueIsWaiting
<1>5. InitIsCurrent' /\ InitBeforeTask'
    BY DEF Crash, InitIsCurrent, InitBeforeTask
<1> QED
    BY <1>1, <1>2, <1>3, <1>4, <1>5 DEF IInv, NoLostWakeup

-----------------------------------------------------------------------------
\* A step of one call that moves it between states that hold no slot, or
\* between states that hold one, leaves counter, queue and comers alone.
LEMMA MoveKeepsCounts ==
    ASSUME IInv, NEW c \in Calls, NEW from \in HolderStates, NEW to \in HolderStates,
           Goes(c, from, to), UNCHANGED <<currentWorkers, waiters>>
    PROVE  SlotsAreExact' /\ QueueIsWaiting' /\ NoLostWakeup'
<1>1. /\ call \in [Calls -> CallStates]
      /\ waiters \in Seq(Calls)
    BY DEF IInv, TypeOK
<1>2. Holders' = Holders /\ Comers' = Comers
    BY <1>1 DEF Holders, Comers, Goes, HolderStates
<1>3. SlotsAreExact'
    BY <1>2 DEF IInv, SlotsAreExact
<1>4. NoLostWakeup'
    BY <1>2 DEF IInv, NoLostWakeup, Comers
<1>5. \A k \in 1..Len(waiters) : waiters[k] \in Calls
    BY <1>1, ElementOfSeq
<1>6. QueueIsWaiting'
    BY <1>1, <1>5 DEF IInv, QueueIsWaiting, Goes, HolderStates
<1> QED
    BY <1>3, <1>4, <1>6

\* A new call is one more on its way.
LEMMA ArriveKeepsIInv ==
    ASSUME IInv, NEW c \in Calls, NEW i \in Requests, Arrive(c, i)
    PROVE  IInv'
<1>1. /\ call \in [Calls -> CallStates]
      /\ waiters \in Seq(Calls)
    BY DEF IInv, TypeOK
<1>2. TypeOK'
    BY ServerAssumption DEF IInv, Arrive, Goes, TypeOK, CallStates, Requests
<1>3. SlotsAreExact'
  <2>1. Holders' = Holders
    BY <1>1 DEF Arrive, Goes, Holders
  <2> QED
    BY <2>1 DEF IInv, SlotsAreExact, Arrive
<1>4. QueueIsWaiting'
  <2>1. \A k \in 1..Len(waiters) : waiters[k] \in Calls
    BY <1>1, ElementOfSeq
  <2> QED
    BY <1>1, <2>1 DEF IInv, QueueIsWaiting, Arrive, Goes
<1>5. InitIsCurrent' /\ InitBeforeTask'
    BY <1>1 DEF IInv, TypeOK, InitIsCurrent, InitBeforeTask, Arrive, Goes
<1>6. NoLostWakeup'
  <2>1. Comers' = Comers \cup {c} /\ c \notin Comers
    BY <1>1 DEF Arrive, Goes, Comers
  <2>2. Cardinality(Comers') = Cardinality(Comers) + 1
    BY <2>1, SetsAreFinite, FS_AddElement
  <2> QED
    BY <2>2, SetsAreFinite, ServerAssumption
       DEF IInv, TypeOK, NoLostWakeup, Comers, Arrive
<1> QED
    BY <1>2, <1>3, <1>4, <1>5, <1>6 DEF IInv

\* A call takes a slot, or joins the queue because none is free.
LEMMA AcquireKeepsIInv ==
    ASSUME IInv, NEW c \in Calls, Acquire(c)
    PROVE  IInv'
<1>1. /\ call \in [Calls -> CallStates]
      /\ waiters \in Seq(Calls)
      /\ currentWorkers \in 0..MaxWorkers
      /\ MaxWorkers \in Nat
      /\ call[c] = "acquire"
    BY ServerAssumption DEF IInv, TypeOK, Acquire, Goes
<1>2. InitIsCurrent' /\ InitBeforeTask'
    BY <1>1 DEF IInv, InitIsCurrent, InitBeforeTask, Acquire, Goes
<1>3. \A k \in 1..Len(waiters) : waiters[k] \in Calls
    BY <1>1, ElementOfSeq
<1>4. CASE currentWorkers < MaxWorkers
  <2>1. /\ call' = [call EXCEPT ![c] = "init"]
        /\ currentWorkers' = currentWorkers + 1
        /\ waiters' = waiters
    BY <1>1, <1>4 DEF Acquire, Goes
  <2>2. TypeOK'
    BY <1>1, <1>4, <2>1 DEF IInv, TypeOK, CallStates, Acquire
  <2>3. SlotsAreExact'
    <3>1. Holders' = Holders \cup {c} /\ c \notin Holders
      BY <1>1, <2>1 DEF Holders
    <3>2. Cardinality(Holders') = Cardinality(Holders) + 1
      BY <3>1, SetsAreFinite, FS_AddElement
    <3> QED
      BY <1>1, <1>4, <2>1, <3>2 DEF IInv, SlotsAreExact
  <2>4. QueueIsWaiting'
    BY <1>1, <1>3, <2>1 DEF IInv, QueueIsWaiting
  <2>5. NoLostWakeup'
    <3>1. Comers' = Comers \ {c} /\ c \in Comers
      BY <1>1, <2>1 DEF Comers
    <3>2. Cardinality(Comers') = Cardinality(Comers) - 1
      BY <3>1, SetsAreFinite, FS_RemoveElement
    <3> QED
      BY <1>1, <2>1, <3>2, SetsAreFinite DEF IInv, NoLostWakeup, Comers
  <2> QED
    BY <1>2, <2>2, <2>3, <2>4, <2>5 DEF IInv
<1>5. CASE currentWorkers >= MaxWorkers
  <2>1. /\ call' = [call EXCEPT ![c] = "wait"]
        /\ currentWorkers' = currentWorkers
        /\ waiters' = Append(waiters, c)
    BY <1>1, <1>5 DEF Acquire, Goes
  <2>2. /\ Append(waiters, c) \in Seq(Calls)
        /\ Len(Append(waiters, c)) = Len(waiters) + 1
        /\ \A k \in 1..Len(waiters) : Append(waiters, c)[k] = waiters[k]
        /\ Append(waiters, c)[Len(waiters) + 1] = c
        /\ Len(waiters) \in Nat
    BY <1>1, AppendProperties, LenProperties
  <2>3. TypeOK'
    BY <1>1, <2>1, <2>2 DEF IInv, TypeOK, CallStates, Acquire
  <2>4. SlotsAreExact'
    <3>1. Holders' = Holders
      BY <1>1, <2>1 DEF Holders
    <3> QED
      BY <2>1, <3>1 DEF IInv, SlotsAreExact
  <2>5. QueueIsWaiting'
    <3>1. \A k \in 1..Len(waiters) : waiters[k] # c
      BY <1>1 DEF IInv, QueueIsWaiting
    <3>2. \A k \in 1..Len(waiters') : k \in 1..Len(waiters) \/ k = Len(waiters) + 1
      BY <2>1, <2>2
    <3> QED
      BY <1>1, <1>3, <2>1, <2>2, <3>1, <3>2 DEF IInv, QueueIsWaiting
  <2>6. NoLostWakeup'
    <3>1. Comers' \in SUBSET Calls
      BY DEF Comers
    <3>2. Cardinality(Comers') \in Nat
      BY <3>1, ServerAssumption, FS_Subset, FS_CardinalityType
    <3> QED
      BY <1>1, <1>5, <2>1, <3>2 DEF NoLostWakeup, Comers
  <2> QED
    BY <1>2, <2>3, <2>4, <2>5, <2>6 DEF IInv
<1> QED
    BY <1>1, <1>4, <1>5

-----------------------------------------------------------------------------
\* A call goes past initialize, or starts the work of an initialization.
LEMMA InitializeKeepsIInv ==
    ASSUME IInv, NEW c \in Calls, Initialize(c)
    PROVE  IInv'
<1>1. /\ call \in [Calls -> CallStates]
      /\ initOf[c] \in InitIds \cup {NoInit}
      /\ Unset \notin InitIds
      /\ UNCHANGED <<initOf, currentWorkers, waiters, initialId, initialized, arrivals>>
    BY ServerAssumption DEF IInv, TypeOK, Requests, Initialize
<1>2. Goes(c, "init", "task") \/ Goes(c, "init", "initWork")
    BY DEF Initialize
<1>3. TypeOK'
    BY <1>1, <1>2 DEF IInv, TypeOK, CallStates, Goes
<1>4. SlotsAreExact' /\ QueueIsWaiting' /\ NoLostWakeup'
    BY <1>1, <1>2, MoveKeepsCounts DEF HolderStates
<1>5. InitIsCurrent'
    BY <1>1 DEF IInv, InitIsCurrent, Initialize, Goes, MutexFree
<1>6. InitBeforeTask'
    BY <1>1 DEF IInv, InitIsCurrent, InitBeforeTask, Initialize, Goes
<1> QED
    BY <1>3, <1>4, <1>5, <1>6 DEF IInv

\* The work of an initialization ends: it is the current one, or nothing is.
LEMMA InitEndsKeepsIInv ==
    ASSUME IInv, NEW c \in Calls, InitEnds(c)
    PROVE  IInv'
<1>1. /\ call \in [Calls -> CallStates]
      /\ call[c] = "initWork"
      /\ initOf[c] \in InitIds
      /\ initOf[c] # NoInit
      /\ UNCHANGED <<initOf, currentWorkers, waiters, arrivals>>
    BY DEF IInv, TypeOK, Requests, InitIsCurrent, InitEnds, Goes
<1>2. Goes(c, "initWork", "task") \/ Goes(c, "initWork", "release")
    BY DEF InitEnds
<1>3. TypeOK'
    BY <1>1 DEF IInv, TypeOK, CallStates, InitEnds, Goes
<1>4. SlotsAreExact' /\ QueueIsWaiting' /\ NoLostWakeup'
    BY <1>1, <1>2, MoveKeepsCounts DEF HolderStates
<1>5. InitIsCurrent'
    BY <1>1 DEF IInv, InitIsCurrent, InitEnds, Goes
<1>6. InitBeforeTask'
    BY <1>1 DEF IInv, InitBeforeTask, InitEnds, Goes
<1> QED
    BY <1>3, <1>4, <1>5, <1>6 DEF IInv

\* A task's work ends.
LEMMA TaskEndsKeepsIInv ==
    ASSUME IInv, NEW c \in Calls, TaskEnds(c)
    PROVE  IInv'
<1>1. /\ call \in [Calls -> CallStates]
      /\ Goes(c, "task", "release")
      /\ UNCHANGED <<initOf, currentWorkers, waiters, initialId, initialized, arrivals>>
    BY DEF IInv, TypeOK, TaskEnds
<1>2. TypeOK'
    BY <1>1 DEF IInv, TypeOK, CallStates, Goes
<1>3. SlotsAreExact' /\ QueueIsWaiting' /\ NoLostWakeup'
    BY <1>1, MoveKeepsCounts DEF HolderStates
<1>4. InitIsCurrent' /\ InitBeforeTask'
    BY <1>1 DEF IInv, InitIsCurrent, InitBeforeTask, Goes
<1> QED
    BY <1>2, <1>3, <1>4 DEF IInv

\* A slot is freed, and the first waiter, if there is one, comes for it.
LEMMA ReleaseKeepsIInv ==
    ASSUME IInv, NEW c \in Calls, Release(c)
    PROVE  IInv'
<1>1. /\ call \in [Calls -> CallStates]
      /\ waiters \in Seq(Calls)
      /\ currentWorkers \in 0..MaxWorkers
      /\ MaxWorkers \in Nat
      /\ call[c] = "release"
      /\ currentWorkers' = currentWorkers - 1
      /\ UNCHANGED <<initOf, initialId, initialized, arrivals>>
    BY ServerAssumption DEF IInv, TypeOK, Release
<1>2. c \in Holders
    BY <1>1 DEF Holders
<1>3. currentWorkers' \in 0..MaxWorkers
    BY <1>1, <1>2, HolderCounts DEF IInv
<1>4. Cardinality(Holders \ {c}) = Cardinality(Holders) - 1
    BY <1>2, SetsAreFinite, FS_RemoveElement
<1>5. \A k \in 1..Len(waiters) : waiters[k] \in Calls
    BY <1>1, ElementOfSeq
<1>6. CASE waiters = <<>>
  <2>1. call' = [call EXCEPT ![c] = "idle"] /\ waiters' = waiters
    BY <1>6 DEF Release
  <2>2. TypeOK'
    BY <1>1, <1>3, <2>1 DEF IInv, TypeOK, CallStates
  <2>3. Holders' = Holders \ {c}
    BY <1>1, <2>1 DEF Holders
  <2>4. SlotsAreExact'
    BY <1>1, <1>3, <1>4, <2>3 DEF IInv, SlotsAreExact
  <2>5. QueueIsWaiting'
    BY <1>1, <1>5, <2>1 DEF IInv, QueueIsWaiting
  <2>6. InitIsCurrent' /\ InitBeforeTask'
    BY <1>1, <2>1 DEF IInv, InitIsCurrent, InitBeforeTask
  <2> QED
    BY <1>6, <2>1, <2>2, <2>4, <2>5, <2>6 DEF IInv, NoLostWakeup
<1>7. CASE waiters # <<>>
  <2> DEFINE h == Head(waiters)
  <2>1. /\ call' = [call EXCEPT ![c] = "idle", ![h] = "acquire"]
        /\ waiters' = Tail(waiters)
    BY <1>7 DEF Release
  <2>2. /\ h \in Calls
        /\ Tail(waiters) \in Seq(Calls)
        /\ Len(Tail(waiters)) = Len(waiters) - 1
        /\ \A k \in 1..Len(Tail(waiters)) : Tail(waiters)[k] = waiters[k + 1]
    BY <1>1, <1>7, HeadTailProperties
  <2>3. Len(waiters) \in Nat /\ Len(waiters) > 0 /\ h = waiters[1]
    BY <1>1, <1>7, LenProperties, EmptySeq
  <2>4. call[h] = "wait" /\ h # c
    BY <1>1, <2>3 DEF IInv, QueueIsWaiting
  <2>5. TypeOK'
    BY <1>1, <1>3, <2>1, <2>2 DEF IInv, TypeOK, CallStates
  <2>6. SlotsAreExact'
    <3>1. Holders' = Holders \ {c}
      BY <1>1, <2>1, <2>2, <2>4 DEF Holders
    <3> QED
      BY <1>1, <1>3, <1>4, <3>1 DEF IInv, SlotsAreExact
  <2>7. QueueIsWaiting'
    <3>1. \A k \in 1..Len(waiters') : k + 1 \in 1..Len(waiters) /\ k + 1 # 1
      BY <2>1, <2>2, <2>3
    <3>2. \A k \in 1..Len(waiters') : waiters[k + 1] # h /\ waiters[k + 1] # c
      BY <1>1, <2>3, <3>1 DEF IInv, QueueIsWaiting
    <3>3. \A k \in 1..Len(waiters') : waiters'[k] = waiters[k + 1]
      BY <2>1, <2>2
    <3>4. \A k \in 1..Len(waiters') : call'[waiters'[k]] = "wait"
      BY <1>1, <1>5, <2>1, <3>1, <3>2, <3>3 DEF IInv, QueueIsWaiting
    <3>5. \A j, k \in 1..Len(waiters') : waiters'[j] = waiters'[k] => j = k
      BY <2>1, <2>2, <2>3, <3>1, <3>3 DEF IInv, QueueIsWaiting
    <3> QED
      BY <3>4, <3>5 DEF QueueIsWaiting
  <2>8. InitIsCurrent' /\ InitBeforeTask'
    BY <1>1, <2>1, <2>2, <2>4 DEF IInv, InitIsCurrent, InitBeforeTask
  <2>9. NoLostWakeup'
    <3>1. Comers' = Comers \cup {h} /\ h \notin Comers
      BY <1>1, <2>1, <2>2, <2>4 DEF Comers
    <3>2. Cardinality(Comers') = Cardinality(Comers) + 1
      BY <3>1, SetsAreFinite, FS_AddElement
    <3> QED
      BY <1>1, <1>7, <3>2, SetsAreFinite DEF IInv, NoLostWakeup, Comers
  <2> QED
    BY <2>5, <2>6, <2>7, <2>8, <2>9 DEF IInv
<1> QED
    BY <1>6, <1>7

-----------------------------------------------------------------------------
\* Every step keeps the invariant.
LEMMA NextKeepsIInv == IInv /\ [Next]_vars => IInv'
<1> SUFFICES ASSUME IInv, [Next]_vars PROVE IInv'
    OBVIOUS
<1>1. ASSUME NEW c \in Calls, CallStep(c) PROVE IInv'
    BY <1>1, AcquireKeepsIInv, InitializeKeepsIInv, InitEndsKeepsIInv,
       TaskEndsKeepsIInv, ReleaseKeepsIInv DEF CallStep
<1>2. ASSUME NEW c \in Calls, NEW i \in Requests, Arrive(c, i) PROVE IInv'
    BY <1>2, ArriveKeepsIInv
<1>3. CASE Crash
    BY <1>3, CrashKeepsIInv
<1>4. CASE UNCHANGED vars
  <2>1. TypeOK' /\ QueueIsWaiting' /\ InitIsCurrent' /\ InitBeforeTask'
    BY <1>4 DEF IInv, vars, TypeOK, QueueIsWaiting, InitIsCurrent, InitBeforeTask
  <2>2. Holders' = Holders /\ Comers' = Comers
    BY <1>4 DEF vars, Holders, Comers
  <2>3. SlotsAreExact' /\ NoLostWakeup'
    BY <1>4, <2>2 DEF IInv, vars, SlotsAreExact, NoLostWakeup, Comers
  <2> QED
    BY <2>1, <2>3 DEF IInv
<1> QED
    BY <1>1, <1>2, <1>3, <1>4 DEF Next

\* The invariant holds in every reachable state.
THEOREM ServerInvariant == Spec => []IInv
<1> QED
    BY InitIInv, NextKeepsIInv, PTL DEF Spec

\* Type correctness of the server, whatever the number of calls.
THEOREM ServerTypes == Spec => []TypeOK
<1>1. IInv => TypeOK
    BY DEF IInv
<1> QED
    BY <1>1, ServerInvariant, PTL

\* The counter is exactly the number of calls between Acquire and Release and
\* stays within --workers.
THEOREM CounterIsExact == Spec => []SlotsAreExact
<1>1. IInv => SlotsAreExact
    BY DEF IInv
<1> QED
    BY <1>1, ServerInvariant, PTL

\* While calls wait, as many calls are on their way as slots are free: Signal
\* for each Release is enough, Broadcast is not needed.
THEOREM SignalIsEnough == Spec => []NoLostWakeup
<1>1. IInv => NoLostWakeup
    BY DEF IInv
<1> QED
    BY <1>1, ServerInvariant, PTL

\* A task works only when its initialization succeeded in this process.
THEOREM TasksAreInitialized == Spec => []InitBeforeTask
<1>1. IInv => InitBeforeTask
    BY DEF IInv
<1> QED
    BY <1>1, ServerInvariant, PTL

\* Calls that wait for initialMu do not repeat the initialization that was done
\* in the meantime.
THEOREM InitializedOnce == Spec => InitIsNotRepeated
<1>1. IInv /\ [Next]_vars =>
        [\A c \in Calls : call[c] = "initWork" /\ call'[c] = "task" => initOf[c] # initialId]_vars
    BY DEF IInv, InitIsCurrent
<1> QED
    BY <1>1, ServerInvariant, PTL DEF Spec, InitIsNotRepeated

-----------------------------------------------------------------------------
(* Somebody always goes on.                                                 *)

\* A call that waits is in the queue, where Release looks for it.
QueueIsWhole ==
    \A c \in Calls : call[c] = "wait" => \E k \in 1..Len(waiters) : waiters[k] = c

\* A call whose next step waits for no other call.
GoesOn(c) ==
    \/ call[c] \in {"acquire", "initWork", "task", "release"}
    \/ call[c] = "init" /\ (initOf[c] = NoInit \/ MutexFree)

\* A step that leaves the queue alone and lets nobody wait leaves it whole.
LEMMA SameQueueIsWhole ==
    ASSUME QueueIsWhole, UNCHANGED waiters,
           \A c \in Calls : call'[c] = "wait" => call[c] = "wait"
    PROVE  QueueIsWhole'
    BY DEF QueueIsWhole

\* Every step leaves the queue whole: a call joins it as it begins to wait, and
\* only the call that is signalled leaves it.
LEMMA NextKeepsQueue == ASSUME IInv, QueueIsWhole, [Next]_vars PROVE QueueIsWhole'
<1>0. /\ call \in [Calls -> CallStates]
      /\ waiters \in Seq(Calls)
    BY DEF IInv, TypeOK
<1>1. ASSUME NEW c \in Calls, Acquire(c) PROVE QueueIsWhole'
  <2>1. CASE call' = [call EXCEPT ![c] = "wait"] /\ waiters' = Append(waiters, c)
    <3>1. /\ Len(Append(waiters, c)) = Len(waiters) + 1
          /\ \A k \in 1..Len(waiters) : Append(waiters, c)[k] = waiters[k]
          /\ Append(waiters, c)[Len(waiters) + 1] = c
          /\ Len(waiters) \in Nat
      BY <1>0, AppendProperties, LenProperties
    <3>2. ASSUME NEW d \in Calls, call'[d] = "wait", d # c
          PROVE  \E k \in 1..Len(waiters') : waiters'[k] = d
      <4>1. call[d] = "wait"
        BY <1>0, <2>1, <3>2
      <4>2. PICK k \in 1..Len(waiters) : waiters[k] = d
        BY <4>1 DEF QueueIsWhole
      <4>3. k \in 1..Len(waiters') /\ waiters'[k] = d
        BY <2>1, <3>1, <4>2
      <4> QED
        BY <4>3
    <3>3. Len(waiters) + 1 \in 1..Len(waiters') /\ waiters'[Len(waiters) + 1] = c
      BY <2>1, <3>1
    <3> QED
      BY <3>2, <3>3 DEF QueueIsWhole
  <2>2. CASE call' = [call EXCEPT ![c] = "init"] /\ waiters' = waiters
    BY <1>0, <2>2, SameQueueIsWhole
  <2> QED
    BY <1>1, <2>1, <2>2 DEF Acquire, Goes
<1>2. ASSUME NEW c \in Calls, Release(c) PROVE QueueIsWhole'
  <2>1. CASE waiters = <<>>
    <3>1. call' = [call EXCEPT ![c] = "idle"] /\ waiters' = waiters
      BY <1>2, <2>1 DEF Release
    <3> QED
      BY <1>0, <3>1, SameQueueIsWhole
  <2>2. CASE waiters # <<>>
    <3>1. /\ call' = [call EXCEPT ![c] = "idle", ![Head(waiters)] = "acquire"]
          /\ waiters' = Tail(waiters)
      BY <1>2, <2>2 DEF Release
    <3>2. /\ Head(waiters) \in Calls
          /\ Len(Tail(waiters)) = Len(waiters) - 1
          /\ \A k \in 1..Len(Tail(waiters)) : Tail(waiters)[k] = waiters[k + 1]
          /\ Len(waiters) \in Nat /\ Head(waiters) = waiters[1]
      BY <1>0, <2>2, HeadTailProperties, LenProperties
    <3>3. ASSUME NEW d \in Calls, call'[d] = "wait"
          PROVE  \E k \in 1..Len(waiters') : waiters'[k] = d
      <4>1. call[d] = "wait" /\ d # Head(waiters)
        BY <1>0, <3>1, <3>2, <3>3
      <4>2. PICK k \in 1..Len(waiters) : waiters[k] = d
        BY <4>1 DEF QueueIsWhole
      <4>3. k - 1 \in 1..Len(waiters')
        BY <3>1, <3>2, <4>1, <4>2
      <4>4. waiters'[k - 1] = d
        BY <3>1, <3>2, <4>2, <4>3
      <4> QED
        BY <4>3, <4>4
    <3> QED
      BY <3>3 DEF QueueIsWhole
  <2> QED
    BY <2>1, <2>2
<1>3. ASSUME NEW c \in Calls, Initialize(c) \/ InitEnds(c) \/ TaskEnds(c)
      PROVE  QueueIsWhole'
  <2>1. /\ waiters' = waiters
        /\ \A d \in Calls : call'[d] = "wait" => call[d] = "wait"
    BY <1>0, <1>3 DEF Initialize, InitEnds, TaskEnds, Goes
  <2> QED
    BY <2>1, SameQueueIsWhole
<1>4. ASSUME NEW c \in Calls, NEW i \in Requests, Arrive(c, i) PROVE QueueIsWhole'
    BY <1>0, <1>4, SameQueueIsWhole DEF Arrive, Goes
<1>5. CASE Crash
    BY <1>5 DEF Crash, QueueIsWhole
<1>6. CASE UNCHANGED vars
    BY <1>6, SameQueueIsWhole DEF vars
<1> QED
    BY <1>1, <1>2, <1>3, <1>4, <1>5, <1>6 DEF Next, CallStep

\* Among calls that are going on one is not blocked: when one waits, either all
\* slots are held or somebody is on the way to the free ones, and a call that
\* is kept out of initialize is kept out by one that works.
LEMMA OneGoesOn ==
    ASSUME IInv, QueueIsWhole, NEW c \in Calls, call[c] # "idle"
    PROVE  \E d \in Calls : GoesOn(d)
<1>1. ASSUME NEW d \in Calls, call[d] \in HolderStates
      PROVE  \E e \in Calls : GoesOn(e)
    BY <1>1 DEF GoesOn, MutexFree, HolderStates
<1>2. CASE call[c] = "wait"
  <2>1. PICK k \in 1..Len(waiters) : waiters[k] = c
    BY <1>2 DEF QueueIsWhole
  <2>2. waiters # <<>>
    BY <2>1, EmptySeq DEF IInv, TypeOK
  <2>3. Cardinality(Comers) >= MaxWorkers - currentWorkers
    BY <2>2 DEF IInv, NoLostWakeup, Comers
  <2>4. CASE Comers # {}
    BY <2>4 DEF Comers, GoesOn
  <2>5. CASE Comers = {}
    <3>1. Cardinality(Comers) = 0
      BY <2>5, FS_EmptySet
    <3>2. Cardinality(Holders) # 0
      BY <2>3, <3>1, ServerAssumption DEF IInv, TypeOK, SlotsAreExact
    <3>3. Holders # {}
      BY <3>2, FS_EmptySet
    <3> QED
      BY <1>1, <3>3 DEF Holders, HolderStates
  <2> QED
    BY <2>4, <2>5
<1>3. CASE call[c] = "acquire"
    BY <1>3 DEF GoesOn
<1>4. CASE call[c] \in HolderStates
    BY <1>1, <1>4
<1> QED
    BY <1>2, <1>3, <1>4 DEF IInv, TypeOK, CallStates, HolderStates

\* The server is never stuck: while a call is going on, some call has a step
\* that waits for no other, whatever the number of calls and workers, so the
\* counter's queue and initialMu together leave nobody waiting in a circle
\* (utils.go: Acquire, Release; simulator.go: initialize).  CallsReturn, which needs
\* fairness, is checked by TLC.
THEOREM SomeCallGoesOn ==
    Spec => []((\E c \in Calls : call[c] # "idle") => \E d \in Calls : GoesOn(d))
<1>1. Init => QueueIsWhole
    BY DEF Init, QueueIsWhole
<1>2. IInv /\ QueueIsWhole /\ [Next]_vars => (IInv /\ QueueIsWhole)'
    BY NextKeepsIInv, NextKeepsQueue
<1>3. IInv /\ QueueIsWhole =>
        ((\E c \in Calls : call[c] # "idle") => \E d \in Calls : GoesOn(d))
    BY OneGoesOn
<1> QED
    BY <1>1, <1>2, <1>3, InitIInv, PTL DEF Spec

-----------------------------------------------------------------------------
(* No call goes on for ever.                                                *)

\* How many steps a call may have ahead of it.  A call that is signalled goes back
\* for the lock, so it counts one more then; the one that signals counts two less.
Ahead ==
    [at \in CallStates |->
        CASE at = "acquire"  -> 7
          [] at = "wait"     -> 6
          [] at = "init"     -> 5
          [] at = "initWork" -> 4
          [] at = "task"     -> 3
          [] at = "release"  -> 2
          [] OTHER           -> 0]

\* The steps of all calls, told apart by the call and a number, and their count.
StepsOf == {p \in Calls \X (1..7) : p[2] <= Ahead[call[p[1]]]}
StepsAhead == Cardinality(StepsOf)

\* There are never more than seven for each call.
LEMMA StepsAreFinite ==
    ASSUME NEW S \in SUBSET (Calls \X (1..7))
    PROVE  /\ IsFiniteSet(S)
           /\ Cardinality(S) \in Nat
           /\ Cardinality(S) <= 7 * Cardinality(Calls)
<1>1. /\ IsFiniteSet(Calls) /\ Cardinality(Calls) \in Nat
      /\ IsFiniteSet(1..7) /\ Cardinality(1..7) = 7
    <2>1. IsFiniteSet(Calls) /\ Cardinality(Calls) \in Nat
        BY ServerAssumption, FS_CardinalityType
    <2>2. \A n \in Nat : IsFiniteSet(1..n) /\ Cardinality(1..n) = n
        BY FS_Interval
    <2> QED
        BY <2>1, <2>2
<1>2. /\ IsFiniteSet(Calls \X (1..7))
      /\ Cardinality(Calls \X (1..7)) = Cardinality(Calls) * 7
    BY <1>1, FS_Product
<1>3. IsFiniteSet(S) /\ Cardinality(S) <= Cardinality(Calls \X (1..7))
    BY <1>2, FS_Subset
<1> QED
    BY <1>1, <1>2, <1>3, FS_CardinalityType

\* Steps that were taken are fewer steps ahead.
LEMMA TakenAway ==
    ASSUME StepsOf' \subseteq StepsOf, NEW p \in StepsOf, p \notin StepsOf'
    PROVE  StepsAhead' < StepsAhead
<1>1. StepsOf \in SUBSET (Calls \X (1..7))
    BY DEF StepsOf
<1>2. /\ IsFiniteSet(StepsOf) /\ Cardinality(StepsOf) \in Nat
    BY <1>1, StepsAreFinite
<1>3. /\ IsFiniteSet(StepsOf')
      /\ Cardinality(StepsOf') <= Cardinality(StepsOf)
      /\ Cardinality(StepsOf) = Cardinality(StepsOf') => StepsOf = StepsOf'
    BY <1>2, FS_Subset
<1>4. Cardinality(StepsOf') \in Nat
    BY <1>3, FS_CardinalityType
<1> QED
    BY <1>2, <1>3, <1>4 DEF StepsAhead

\* A call that moves on its own comes closer to its end.
LEMMA MoveTakesAway ==
    ASSUME TypeOK, NEW c \in Calls, NEW from \in CallStates, NEW to \in CallStates,
           Goes(c, from, to), Ahead[to] < Ahead[from]
    PROVE  StepsAhead' < StepsAhead
<1>1. /\ call \in [Calls -> CallStates]
      /\ call[c] = from
      /\ call' = [call EXCEPT ![c] = to]
    BY DEF TypeOK, Goes
<1>2. Ahead[from] \in 1..7
    BY DEF Ahead, CallStates
<1>3. ASSUME NEW d \in Calls, NEW n \in 1..7
      PROVE  <<d, n>> \in StepsOf' <=> n <= IF d = c THEN Ahead[to] ELSE Ahead[call[d]]
    BY <1>1 DEF StepsOf
<1>4. ASSUME NEW d \in Calls, NEW n \in 1..7
      PROVE  <<d, n>> \in StepsOf <=> n <= Ahead[call[d]]
    BY DEF StepsOf
<1>5. Ahead[to] \in Int
    BY DEF Ahead, CallStates
<1>6. StepsOf' \subseteq StepsOf
    <2> SUFFICES ASSUME NEW p \in StepsOf' PROVE p \in StepsOf
        OBVIOUS
    <2>1. PICK d \in Calls, n \in 1..7 : p = <<d, n>>
        BY DEF StepsOf
    <2>2. n <= IF d = c THEN Ahead[to] ELSE Ahead[call[d]]
        BY <1>3, <2>1
    <2>3. n <= Ahead[call[d]]
        BY <1>1, <1>2, <1>5, <2>2
    <2> QED
        BY <1>4, <2>1, <2>3
<1>7. /\ <<c, Ahead[from]>> \in StepsOf
      /\ <<c, Ahead[from]>> \notin StepsOf'
    <2>1. Ahead[from] <= Ahead[call[c]] /\ ~(Ahead[from] <= Ahead[to])
        BY <1>1, <1>2, <1>5
    <2>2. <<c, Ahead[from]>> \in StepsOf
        BY <1>2, <1>4, <2>1
    <2>3. <<c, Ahead[from]>> \in StepsOf' <=> Ahead[from] <= Ahead[to]
        BY <1>2, <1>3
    <2> QED
        BY <2>1, <2>2, <2>3
<1> QED
    BY <1>6, <1>7, TakenAway

\* A call that frees its slot takes two steps away, and the call it signals has
\* one more again.
LEMMA ReleaseTakesAway ==
    ASSUME IInv, NEW c \in Calls, Release(c)
    PROVE  StepsAhead' < StepsAhead
<1>0. /\ call \in [Calls -> CallStates] /\ waiters \in Seq(Calls)
      /\ call[c] = "release"
    BY DEF IInv, TypeOK, Release
<1>1. CASE waiters = <<>>
    <2>1. Goes(c, "release", "idle")
        BY <1>0, <1>1 DEF Release, Goes
    <2>2. Ahead["idle"] < Ahead["release"]
        BY DEF Ahead, CallStates
    <2> QED
        BY <2>1, <2>2, MoveTakesAway DEF IInv, CallStates
<1>2. CASE waiters # <<>>
    <2> DEFINE h == Head(waiters)
               Old == (StepsOf \ {<<c, 1>>}) \ {<<c, 2>>}
    <2>1. /\ h \in Calls /\ call[h] = "wait"
          /\ call' = [call EXCEPT ![c] = "idle", ![h] = "acquire"]
        <3>1. h \in Calls /\ h = waiters[1] /\ 1 \in 1..Len(waiters)
            BY <1>0, <1>2, HeadTailProperties, LenProperties, EmptySeq
        <3> QED
            BY <1>2, <3>1 DEF Release, IInv, QueueIsWaiting
    <2>2. c # h
        BY <1>0, <2>1
    <2>3. /\ Ahead["release"] = 2 /\ Ahead["idle"] = 0
          /\ Ahead["wait"] = 6 /\ Ahead["acquire"] = 7
        BY DEF Ahead, CallStates
    <2>4. ASSUME NEW d \in Calls, NEW n \in 1..7
          PROVE  /\ <<d, n>> \in StepsOf <=> n <= Ahead[call[d]]
                 /\ <<d, n>> \in StepsOf' <=> n <= Ahead[call'[d]]
        BY DEF StepsOf
    <2>5. StepsOf' \subseteq Old \cup {<<h, 7>>}
        <3> SUFFICES ASSUME NEW p \in StepsOf' PROVE p \in Old \cup {<<h, 7>>}
            OBVIOUS
        <3>1. PICK d \in Calls, n \in 1..7 : p = <<d, n>>
            BY DEF StepsOf
        <3>2. n <= Ahead[call'[d]]
            BY <2>4, <3>1
        <3>3. CASE d = c
            BY <1>0, <2>1, <2>2, <2>3, <3>2, <3>3
        <3>4. CASE d = h
            <4>1. n = 7 \/ n <= Ahead[call[h]]
                BY <2>1, <2>3
            <4>2. n = 7 \/ <<h, n>> \in StepsOf
                BY <2>1, <2>4, <4>1
            <4> QED
                BY <2>2, <3>1, <3>4, <4>2
        <3>5. CASE d # c /\ d # h
            <4>1. call'[d] = call[d]
                BY <1>0, <2>1, <3>5
            <4> QED
                BY <2>4, <3>1, <3>2, <3>5, <4>1
        <3> QED
            BY <3>3, <3>4, <3>5
    <2>6. /\ <<c, 1>> \in StepsOf
          /\ <<c, 2>> \in StepsOf \ {<<c, 1>>}
        <3>1. 1 <= Ahead[call[c]] /\ 2 <= Ahead[call[c]]
            BY <1>0, <2>3
        <3>2. <<c, 1>> \in StepsOf /\ <<c, 2>> \in StepsOf
            <4>1. 1 \in 1..7 /\ 2 \in 1..7
                OBVIOUS
            <4> QED
                BY <2>4, <3>1, <4>1
        <3>3. <<c, 1>> # <<c, 2>>
            OBVIOUS
        <3> QED
            BY <3>2, <3>3
    <2>7. IsFiniteSet(StepsOf) /\ Cardinality(StepsOf) \in Nat
        BY StepsAreFinite DEF StepsOf
    <2>8. /\ IsFiniteSet(StepsOf \ {<<c, 1>>})
          /\ Cardinality(StepsOf \ {<<c, 1>>}) = Cardinality(StepsOf) - 1
        BY <2>6, <2>7, FS_RemoveElement
    <2>9. IsFiniteSet(Old) /\ Cardinality(Old) = Cardinality(StepsOf) - 2
        <3>1. IsFiniteSet(Old) /\ Cardinality(Old) = Cardinality(StepsOf \ {<<c, 1>>}) - 1
            BY <2>6, <2>8, FS_RemoveElement
        <3> QED
            BY <2>7, <2>8, <3>1
    <2>10. /\ IsFiniteSet(Old \cup {<<h, 7>>})
           /\ Cardinality(Old \cup {<<h, 7>>}) <= Cardinality(StepsOf) - 1
        <3> HIDE DEF Old
        <3>1. /\ IsFiniteSet(Old \cup {<<h, 7>>})
              /\ \/ Cardinality(Old \cup {<<h, 7>>}) = Cardinality(Old)
                 \/ Cardinality(Old \cup {<<h, 7>>}) = Cardinality(Old) + 1
            BY <2>9, FS_AddElement
        <3> QED
            BY <2>7, <2>9, <3>1
    <2>11. /\ IsFiniteSet(StepsOf')
           /\ Cardinality(StepsOf') <= Cardinality(Old \cup {<<h, 7>>})
        BY <2>5, <2>10, FS_Subset
    <2>12. /\ Cardinality(StepsOf') \in Nat
           /\ Cardinality(Old \cup {<<h, 7>>}) \in Nat
        BY <2>10, <2>11, FS_CardinalityType
    <2> QED
        BY <2>7, <2>10, <2>11, <2>12 DEF StepsAhead
<1> QED
    BY <1>1, <1>2

\* Every step but the arrival of a call leaves fewer steps ahead.
LEMMA NextTakesAway ==
    ASSUME IInv, Next
    PROVE  (\E c \in Calls, i \in Requests : Arrive(c, i)) \/ StepsAhead' < StepsAhead
<1>0. TypeOK
    BY DEF IInv
<1>1. ASSUME NEW c \in Calls, Acquire(c) \/ Initialize(c) \/ InitEnds(c) \/ TaskEnds(c)
      PROVE  StepsAhead' < StepsAhead
    <2>1. PICK from \in CallStates, to \in CallStates :
              Goes(c, from, to) /\ Ahead[to] < Ahead[from]
        BY <1>1 DEF Acquire, Initialize, InitEnds, TaskEnds, CallStates, Ahead
    <2> QED
        BY <1>0, <2>1, MoveTakesAway
<1>2. CASE Crash
    <2>1. PICK c \in Calls : call[c] \in {"initWork", "task"}
        BY <1>2 DEF Crash
    <2>2. Ahead["idle"] = 0 /\ 1 <= Ahead[call[c]]
        BY <2>1 DEF Ahead, CallStates
    <2>3. StepsOf' = {}
        BY <1>2, <2>2 DEF Crash, StepsOf
    <2>4. <<c, 1>> \in StepsOf
        BY <2>2 DEF StepsOf
    <2> QED
        BY <2>3, <2>4, TakenAway
<1> QED
    BY <1>1, <1>2, ReleaseTakesAway DEF Next, CallStep

\* Nobody goes round in circles: once calls stop coming in the server takes at
\* most seven steps for each call it has, although a waiter that is signalled may
\* find its slot taken and wait again, initializations fail and the process
\* crashes (utils.go: Acquire's loop around Wait, Release; simulator.go).  As some
\* call can always go on (SomeCallGoesOn), CallsReturn lacks no more than the
\* fairness it is checked with.
THEOREM CallsRunOut ==
    Spec => /\ [](StepsAhead \in 0..(7 * Cardinality(Calls)))
            /\ [][ \/ \E c \in Calls, i \in Requests : Arrive(c, i)
                   \/ StepsAhead' < StepsAhead ]_vars
<1>1. StepsAhead \in 0..(7 * Cardinality(Calls))
    <2>1. StepsOf \in SUBSET (Calls \X (1..7))
        BY DEF StepsOf
    <2>2. Cardinality(Calls) \in Nat
        BY ServerAssumption, FS_CardinalityType
    <2> QED
        BY <2>1, <2>2, StepsAreFinite DEF StepsAhead
<1>2. IInv /\ [Next]_vars =>
        [ \/ \E c \in Calls, i \in Requests : Arrive(c, i)
          \/ StepsAhead' < StepsAhead ]_vars
    BY NextTakesAway
<1> QED
    BY <1>1, <1>2, InitIInv, NextKeepsIInv, PTL DEF Spec
=============================================================================
