------------------------- MODULE PipelineWait_proofs -------------------------
(***************************************************************************)
(* For every pipeline and every bound on polls and retries: a wait that      *)
(* reports success has seen a build succeed and every target it found rolled *)
(* out, nothing is promoted that has run nowhere, and builds are retried one *)
(* at a time.                                                                *)
(*                                                                          *)
(* The helper acts on statuses it read earlier, so the argument is that the  *)
(* statuses it acts on are final: a build that ended stays as it is, and a   *)
(* rollout that succeeded is never started again, because the order in which *)
(* the targets are taken has each of them once.                              *)
(*                                                                          *)
(* Two more facts stand beside it: every step of the helper lowers a measure *)
(* in a well-founded order, and the stages are promoted in their order when   *)
(* the targets come in it.                                                   *)
(***************************************************************************)
EXTENDS PipelineWait, FiniteSetTheorems, SequenceTheorems, WellFoundedInduction, TLAPS

N == Len(Stages)

\* What the helper may still do in each of its loops.
Counted ==
    /\ at = "list" => attempt = 0 /\ count <= RetryGetBuild
    /\ at \in {"attempt", "judge", "trigger"} => attempt < MaxErrorRetries
    /\ at \in {"attempt", "judge", "trigger", "release", "rollout"} => count <= MaxBuildRetry
    /\ at = "rollout" => attempt <= MaxRollouts
    /\ at \in {"list", "attempt", "judge", "trigger", "release"} => k = 1

\* The build a retry replaces has ended.
RetriesEnded ==
    /\ at = "attempt" /\ attempt > 0 => id # 0
    /\ at \in {"judge", "trigger"} => id # 0
    /\ at \in {"judge", "trigger"} /\ attempt > 0 => build[id] \in Ended

\* A success that was read is there.
BuildIsSeen ==
    /\ at = "judge" /\ status = "SUCCESS" => \E b \in Builds : build[b] = "SUCCESS"
    /\ at \in {"release", "rollout", "ok"} => \E b \in Builds : build[b] = "SUCCESS"

\* The targets before the current one are rolled out.
RolloutsAreSeen ==
    /\ at \in {"rollout", "ok"} => release
    /\ at = "rollout" => k <= Len(order) /\ \A i \in 1..(k - 1) : rollout[order[i]] = "SUCCEEDED"
    /\ at = "ok" => \A i \in 1..Len(order) : rollout[order[i]] = "SUCCEEDED"

IInv == TypeOK /\ Counted /\ RetriesEnded /\ BuildIsSeen /\ RolloutsAreSeen

-----------------------------------------------------------------------------
\* The pipeline has a number of stages, and the bounds are numbers.
LEMMA Numbers ==
    /\ N \in Nat \ {0}
    /\ Stages \in [1..N -> Targets]
    /\ RetryGetBuild \in Nat /\ MaxBuildRetry \in Nat /\ MaxRollouts \in Nat
    /\ MaxErrorRetries \in Nat \ {0}
    /\ MaxBuilds \in Nat /\ 1 \in Builds
    BY PipelineAssumption, LenProperties, EmptySeq DEF N, MaxBuilds, Builds

\* Intervals from 1 that are equal end at the same number.
LEMMA IntervalsDiffer == \A m, n \in Nat : 1..m = 1..n => m = n
<1> SUFFICES ASSUME NEW m \in Nat, NEW n \in Nat, 1..m = 1..n, m # n PROVE FALSE
    OBVIOUS
<1>1. \A i \in Nat : i \in 1..m <=> i \in 1..n
    OBVIOUS
<1>2. CASE m < n
    BY <1>1, <1>2, n \in 1..n /\ n \notin 1..m
<1>3. CASE n < m
    BY <1>1, <1>3, m \in 1..m /\ m \notin 1..n
<1> QED
    BY <1>2, <1>3

\* An order of targets has none of them twice.
LEMMA OrdersAreApart ==
    ASSUME NEW o \in Orders
    PROVE  /\ Len(o) \in 0..N
           /\ o \in [1..Len(o) -> Targets]
           /\ DOMAIN o = 1..Len(o)
           /\ \A i, j \in 1..Len(o) : o[i] = o[j] => i = j
<1>1. PICK n \in 0..N : o \in [1..n -> Targets]
    BY DEF Orders, N
<1>2. n \in Nat
    BY Numbers
<1>3. o \in Seq(Targets)
    BY <1>1, <1>2, SeqDef
<1>4. Len(o) \in Nat /\ DOMAIN o = 1..Len(o)
    BY <1>3, LenProperties
<1>5. DOMAIN o = 1..n
    BY <1>1
<1>6. Len(o) = n
    BY <1>2, <1>4, <1>5, IntervalsDiffer
<1> QED
    BY <1>1, <1>4, <1>6 DEF Orders

\* Initially the helper has read nothing.
LEMMA InitIInv == Init => IInv
<1> SUFFICES ASSUME Init PROVE IInv
    OBVIOUS
<1>1. build \in [Builds -> BuildStates] /\ pushBuild \in BOOLEAN
  <2>1. CASE build = [b \in Builds |-> "none"] /\ pushBuild = TRUE
    BY <2>1 DEF BuildStates
  <2>2. ASSUME pushBuild \in BOOLEAN,
               NEW left \in BuildStates,
               build = [b \in Builds |-> IF b = 1 THEN left ELSE "none"]
        PROVE  build \in [Builds -> BuildStates]
    BY <2>2 DEF BuildStates
  <2> QED
    BY <2>1, <2>2 DEF Init
<1>2. release \in BOOLEAN /\ rollout \in [Targets -> RolloutStates]
    BY DEF Init, RolloutStates
<1>3. at \in At /\ id \in 0..MaxBuilds /\ status \in BuildStates \cup RolloutStates
    BY Numbers DEF Init, At, BuildStates
<1>4. /\ count \in 0..(RetryGetBuild + MaxBuildRetry)
      /\ attempt \in 0..MaxErrorRetries \cup 0..MaxRollouts
    BY Numbers DEF Init
<1>5. order \in Orders /\ k \in 1..Len(Stages)
  <2>1. order \in [1..0 -> Targets] /\ 0 \in 0..N /\ \A i, j \in DOMAIN order : i = j
    BY Numbers DEF Init
  <2>2. order \in Orders
    BY <2>1 DEF Orders, N
  <2> QED
    BY <2>2, Numbers DEF Init, N
<1>6. TypeOK
    BY <1>1, <1>2, <1>3, <1>4, <1>5 DEF TypeOK
<1> QED
    BY <1>6, Numbers DEF Init, IInv, Counted, RetriesEnded, BuildIsSeen, RolloutsAreSeen

-----------------------------------------------------------------------------
\* What Cloud Build and Cloud Deploy do leaves ended builds and succeeded
\* rollouts as they are.
LEMMA CloudIsStable ==
    ASSUME IInv, Cloud
    PROVE  /\ UNCHANGED <<at, id, status, count, attempt, order, k>>
           /\ build' \in [Builds -> BuildStates]
           /\ pushBuild' \in BOOLEAN
           /\ release' \in BOOLEAN /\ (release => release')
           /\ rollout' \in [Targets -> RolloutStates]
           /\ \A b \in Builds : build[b] \in Ended => build'[b] = build[b]
           /\ \A t \in Targets : rollout[t] = "SUCCEEDED" /\ release => rollout'[t] = "SUCCEEDED"
<1> USE DEF IInv, TypeOK, BuildStates, RolloutStates, Ended
<1>1. CASE PushMakesBuild
    BY <1>1 DEF PushMakesBuild, IsNew, Made
<1>2. CASE BuildMakesRelease
    BY <1>2 DEF BuildMakesRelease
<1>3. ASSUME NEW b \in Builds, BuildGoesOn(b)
      PROVE  /\ UNCHANGED <<at, id, status, count, attempt, order, k>>
             /\ UNCHANGED <<pushBuild, release, rollout>>
             /\ build' \in [Builds -> BuildStates]
             /\ \A c \in Builds : build[c] \in Ended => build'[c] = build[c]
    BY <1>3 DEF BuildGoesOn
<1>4. ASSUME NEW t \in Targets, RolloutEnds(t)
      PROVE  /\ UNCHANGED <<at, id, status, count, attempt, order, k>>
             /\ UNCHANGED <<build, pushBuild, release>>
             /\ rollout' \in [Targets -> RolloutStates]
             /\ \A u \in Targets : rollout[u] = "SUCCEEDED" => rollout'[u] = "SUCCEEDED"
    BY <1>4 DEF RolloutEnds
<1> QED
    BY <1>1, <1>2, <1>3, <1>4 DEF Cloud

\* What builds, releases and rollouts do by themselves keeps the invariant.
LEMMA CloudKeepsIInv ==
    ASSUME IInv, Cloud
    PROVE  IInv'
<1>1. TypeOK'
    BY CloudIsStable DEF IInv, TypeOK
<1>2. Counted'
    BY CloudIsStable DEF IInv, Counted
<1>3. RetriesEnded'
    BY CloudIsStable DEF IInv, TypeOK, RetriesEnded, Builds
<1>4. BuildIsSeen'
    BY CloudIsStable DEF IInv, BuildIsSeen, Ended
<1>5. RolloutsAreSeen'
  <2>1. /\ order \in [1..Len(order) -> Targets] /\ Len(order) \in Nat
        /\ k \in 1..N
    BY OrdersAreApart, Numbers DEF IInv, TypeOK, N
  <2>2. \A i \in 1..Len(order) : order[i] \in Targets
    BY <2>1
  <2>3. at = "rollout" => \A i \in 1..(k - 1) : i \in 1..Len(order)
    BY <2>1, Numbers DEF IInv, RolloutsAreSeen
  <2> QED
    BY <2>2, <2>3, CloudIsStable DEF IInv, RolloutsAreSeen
<1> QED
    BY <1>1, <1>2, <1>3, <1>4, <1>5 DEF IInv

-----------------------------------------------------------------------------
\* The steps of WaitBuildSuccess: they read builds, count, and start one build
\* after another.
LEMMA BuildStepsKeepIInv ==
    ASSUME IInv, ListBuilds \/ PollBuild \/ LastBuild \/ JudgeBuild \/ TriggerBuild
    PROVE  IInv'
<1> USE Numbers DEF IInv, TypeOK, At, Results, BuildStates, RolloutStates, cloudVars
<1>1. CASE ListBuilds
  <2>1. TypeOK' /\ Counted'
    BY <1>1 DEF ListBuilds, Running, Builds, Counted
  <2>2. RetriesEnded' /\ BuildIsSeen' /\ RolloutsAreSeen'
    BY <1>1 DEF ListBuilds, Counted, RetriesEnded, BuildIsSeen, RolloutsAreSeen
  <2> QED
    BY <2>1, <2>2
<1>2. CASE PollBuild
  <2>1. id \in Builds
    BY <1>2 DEF PollBuild, Builds
  <2>2. TypeOK' /\ Counted'
    BY <1>2, <2>1 DEF PollBuild, Counted
  <2>3. RetriesEnded' /\ BuildIsSeen' /\ RolloutsAreSeen'
    BY <1>2, <2>1 DEF PollBuild, RetriesEnded, BuildIsSeen, RolloutsAreSeen
  <2> QED
    BY <2>2, <2>3
<1>3. CASE LastBuild
  <2>1. attempt = 0
    BY <1>3 DEF LastBuild, RetriesEnded
  <2>2. TypeOK' /\ Counted'
    BY <1>3 DEF LastBuild, Made, Builds, Counted
  <2>3. RetriesEnded' /\ BuildIsSeen' /\ RolloutsAreSeen'
    BY <1>3, <2>1
       DEF LastBuild, Made, Builds, RetriesEnded, BuildIsSeen, RolloutsAreSeen
  <2> QED
    BY <2>2, <2>3
<1>4. CASE JudgeBuild
  <2>1. TypeOK' /\ Counted'
    BY <1>4 DEF JudgeBuild, Counted
  <2>2. RetriesEnded' /\ BuildIsSeen' /\ RolloutsAreSeen'
    BY <1>4 DEF JudgeBuild, RetriesEnded, BuildIsSeen, RolloutsAreSeen
  <2> QED
    BY <2>1, <2>2
<1>5. CASE TriggerBuild
  <2>1. TypeOK' /\ Counted'
    BY <1>5 DEF TriggerBuild, Builds, Counted
  <2>2. RetriesEnded' /\ BuildIsSeen' /\ RolloutsAreSeen'
    BY <1>5 DEF TriggerBuild, Builds, RetriesEnded, BuildIsSeen, RolloutsAreSeen
  <2> QED
    BY <2>1, <2>2
<1> QED
    BY <1>1, <1>2, <1>3, <1>4, <1>5

\* A success ends the wait for one target and starts the next one, which was
\* not rolled out before.
LEMMA RolloutSucceededKeepsIInv ==
    ASSUME IInv, RolloutSucceeded
    PROVE  IInv'
<1> USE Numbers
<1> DEFINE L == Len(order)
<1>1. /\ order \in [1..L -> Targets]
      /\ L \in 0..N
      /\ \A i, j \in 1..L : order[i] = order[j] => i = j
    BY OrdersAreApart DEF IInv, TypeOK
<1>2. /\ at = "rollout" /\ k \in 1..L /\ release
      /\ rollout \in [Targets -> RolloutStates]
      /\ \A i \in 1..k : rollout[order[i]] = "SUCCEEDED"
      /\ UNCHANGED <<build, pushBuild, release, id, order>>
      /\ status' = "SUCCEEDED" /\ count' = 0 /\ attempt' = 0
    BY <1>1 DEF RolloutSucceeded, Target, IInv, TypeOK, RolloutsAreSeen, N
<1>3. CASE k < L
  <2>1. /\ k' = k + 1
        /\ rollout' = [rollout EXCEPT ![order[k + 1]] = "IN_PROGRESS"]
        /\ at' = at
    BY <1>1, <1>3 DEF RolloutSucceeded
  <2>2. \A i \in 1..k : order[i] # order[k + 1]
    BY <1>1, <1>2, <1>3
  <2>3. TypeOK'
    BY <1>1, <1>2, <1>3, <2>1 DEF IInv, TypeOK, RolloutStates, BuildStates, N
  <2>4. RolloutsAreSeen'
    BY <1>1, <1>2, <1>3, <2>1, <2>2 DEF RolloutsAreSeen
  <2> QED
    BY <1>2, <2>1, <2>3, <2>4 DEF IInv, Counted, RetriesEnded, BuildIsSeen
<1>4. CASE k = L
  <2>1. UNCHANGED <<k, rollout>> /\ at' = "ok"
    BY <1>1, <1>4 DEF RolloutSucceeded
  <2>2. TypeOK'
    BY <1>2, <2>1 DEF IInv, TypeOK, At, Results, RolloutStates, BuildStates
  <2> QED
    BY <1>2, <1>4, <2>1, <2>2
       DEF IInv, Counted, RetriesEnded, BuildIsSeen, RolloutsAreSeen
<1>5. k < L \/ k = L
  <2>1. L \in Nat /\ k \in 1..L
    BY <1>1, <1>2
  <2> QED
    BY <2>1
<1> QED
    BY <1>3, <1>4, <1>5

\* The other steps of WaitReleaseSuccess, and a command that fails.
LEMMA ReleaseStepsKeepIInv ==
    ASSUME IInv,
           FindRelease \/ RolloutRetried \/ RolloutFailed \/ PollRollout \/ CommandFails
    PROVE  IInv'
<1> USE Numbers DEF IInv, TypeOK, At, Results, BuildStates, RolloutStates, cloudVars
<1>1. CASE FindRelease
  <2>1. TypeOK' /\ Counted'
    BY <1>1 DEF FindRelease, Counted
  <2>2. RetriesEnded' /\ BuildIsSeen'
    BY <1>1 DEF FindRelease, RetriesEnded, BuildIsSeen
  <2>3. RolloutsAreSeen'
    <3>1. CASE at' = "rollout"
      <4>1. release' /\ order' # <<>> /\ k' = 1 /\ order' \in Orders
        BY <1>1, <3>1 DEF FindRelease, Counted
      <4>2. Len(order') \in Nat /\ order' \in [1..Len(order') -> Targets]
        BY <4>1, OrdersAreApart
      <4>3. Len(order') # 0
        BY <4>1, <4>2
      <4> QED
        BY <3>1, <4>1, <4>2, <4>3 DEF RolloutsAreSeen
    <3>2. CASE at' = "ok"
      BY <1>1, <3>2 DEF FindRelease, RolloutsAreSeen
    <3>3. CASE at' \notin {"rollout", "ok"}
      BY <3>3 DEF RolloutsAreSeen
    <3> QED
      BY <3>1, <3>2, <3>3
  <2> QED
    BY <2>1, <2>2, <2>3
<1>2. CASE RolloutRetried
  <2>1. /\ order \in [1..Len(order) -> Targets] /\ Len(order) \in Nat
        /\ k \in 1..Len(order)
        /\ \A i, j \in 1..Len(order) : order[i] = order[j] => i = j
    BY <1>2, OrdersAreApart DEF N, RolloutRetried, RolloutsAreSeen
  <2>2. TypeOK' /\ Counted'
    BY <1>2, <2>1 DEF RolloutRetried, Target, Counted
  <2>3. \A i \in 1..(k - 1) : order[i] # order[k] /\ order[i] \in Targets
    BY <2>1
  <2>4. RetriesEnded' /\ BuildIsSeen' /\ RolloutsAreSeen'
    BY <1>2, <2>3 DEF RolloutRetried, Target, RetriesEnded, BuildIsSeen, RolloutsAreSeen
  <2> QED
    BY <2>2, <2>4
<1>3. CASE RolloutFailed
  <2>1. TypeOK' /\ Counted'
    BY <1>3 DEF RolloutFailed, Counted
  <2>2. RetriesEnded' /\ BuildIsSeen' /\ RolloutsAreSeen'
    BY <1>3 DEF RolloutFailed, RetriesEnded, BuildIsSeen, RolloutsAreSeen
  <2> QED
    BY <2>1, <2>2
<1>4. CASE PollRollout
  <2>1. TypeOK' /\ Counted'
    BY <1>4 DEF PollRollout, Counted
  <2>2. RetriesEnded' /\ BuildIsSeen' /\ RolloutsAreSeen'
    BY <1>4 DEF PollRollout, RetriesEnded, BuildIsSeen, RolloutsAreSeen
  <2> QED
    BY <2>1, <2>2
<1>5. CASE CommandFails
  <2>1. TypeOK' /\ Counted'
    BY <1>5 DEF CommandFails, Counted
  <2>2. RetriesEnded' /\ BuildIsSeen' /\ RolloutsAreSeen'
    BY <1>5 DEF CommandFails, RetriesEnded, BuildIsSeen, RolloutsAreSeen
  <2> QED
    BY <2>1, <2>2
<1> QED
    BY <1>1, <1>2, <1>3, <1>4, <1>5

\* Every step keeps the invariant.
LEMMA NextKeepsIInv == IInv /\ [Next]_vars => IInv'
<1> SUFFICES ASSUME IInv, [Next]_vars PROVE IInv'
    OBVIOUS
<1>1. CASE Cloud
    BY <1>1, CloudKeepsIInv
<1>2. CASE Helper
    BY <1>2, BuildStepsKeepIInv, RolloutSucceededKeepsIInv, ReleaseStepsKeepIInv DEF Helper
<1>3. CASE UNCHANGED vars
    BY <1>3 DEF vars, cloudVars, IInv, TypeOK, Counted, RetriesEnded, BuildIsSeen,
                RolloutsAreSeen
<1> QED
    BY <1>1, <1>2, <1>3 DEF Next

\* The invariant holds in every reachable state.
THEOREM WaitInvariant == Spec => []IInv
<1> QED
    BY InitIInv, NextKeepsIInv, PTL DEF Spec

\* Type correctness of the wait, with every counter within the code's bounds.
THEOREM WaitTypes == Spec => []TypeOK
<1>1. IInv => TypeOK
    BY DEF IInv
<1> QED
    BY <1>1, WaitInvariant, PTL

\* A wait that reports success has seen a build succeed and the release rolled
\* out on every target it was found to have, also when those are some or none of
\* the pipeline's, for pipelines of every length (OkIsRolledOut).
THEOREM SuccessIsRolledOut == Spec => []OkIsRolledOut
<1>1. IInv => OkIsRolledOut
    BY OrdersAreApart DEF IInv, TypeOK, BuildIsSeen, RolloutsAreSeen, OkIsRolledOut
<1> QED
    BY <1>1, WaitInvariant, PTL

\* A target beyond the first stage gets the release only after another target
\* has it.
THEOREM PromotionFollowsSuccess == Spec => PromotedAfterSuccess
<1> DEFINE Promoted ==
      \A t \in Targets :
          t # Stages[1] /\ rollout[t] = "none" /\ rollout'[t] # "none" =>
              \E u \in Targets \ {t} : rollout[u] = "SUCCEEDED"
<1>1. ASSUME IInv, [Next]_vars, NEW t \in Targets,
             t # Stages[1], rollout[t] = "none", rollout'[t] # "none"
      PROVE  \E u \in Targets \ {t} : rollout[u] = "SUCCEEDED"
  <2> USE <1>1
  <2>1. rollout \in [Targets -> RolloutStates]
    BY DEF IInv, TypeOK
  <2>2. at = "rollout" => Target \in Targets
    BY OrdersAreApart, Numbers DEF IInv, TypeOK, N, Target, RolloutsAreSeen
  <2>3. RolloutSucceeded
    <3>1. ~RolloutRetried
      BY <2>1, <2>2 DEF RolloutRetried
    <3>2. ~BuildMakesRelease
      BY <2>1 DEF BuildMakesRelease
    <3>3. \A u \in Targets : ~RolloutEnds(u)
      BY <2>1 DEF RolloutEnds
    <3>4. rollout' # rollout
      OBVIOUS
    <3> QED
      BY <3>1, <3>2, <3>3, <3>4
         DEF Next, Cloud, Helper, vars, cloudVars, PushMakesBuild, BuildGoesOn,
             CommandFails, ListBuilds, PollBuild, LastBuild, JudgeBuild, TriggerBuild,
             FindRelease, RolloutFailed, PollRollout
  <2>4. rollout[Target] = "SUCCEEDED" /\ at = "rollout"
    BY <2>3 DEF RolloutSucceeded
  <2> QED
    BY <2>2, <2>4
<1>2. IInv /\ [Next]_vars => [Promoted]_vars
    BY <1>1
<1> QED
    BY <1>2, WaitInvariant, PTL DEF Spec, PromotedAfterSuccess

\* A build is only triggered while attempts are left, and in place of one that
\* has ended.
THEOREM OneBuildAtATime == Spec => NoBuildBesidesOwn
<1> DEFINE OwnBuild ==
      id' # id /\ at = "trigger" => attempt < MaxErrorRetries /\
          (attempt > 0 => build[id] \notin {"QUEUED", "WORKING"})
<1>1. IInv /\ [Next]_vars => [OwnBuild]_vars
    BY DEF IInv, Counted, RetriesEnded, Ended
<1> QED
    BY <1>1, WaitInvariant, PTL DEF Spec, NoBuildBesidesOwn

-----------------------------------------------------------------------------
(* Every loop of the wait is counted.                                       *)

\* The loop the helper is in, the later the lower.
Loop ==
    CASE at = "list" -> 3
      [] at \in {"attempt", "judge", "trigger"} -> 2
      [] at = "release" -> 1
      [] at = "rollout" -> 1
      [] OTHER -> 0

\* The attempts or the targets that are left in it.
Left ==
    CASE at = "list" -> 0
      [] at \in {"attempt", "judge", "trigger"} -> MaxErrorRetries - attempt
      [] at = "release" -> N
      [] at = "rollout" -> Len(order) - k
      [] OTHER -> 0

\* The polls and retries that are left of one attempt, or for one target.
Polls ==
    CASE at = "list" -> RetryGetBuild - count
      [] at = "attempt" -> 2 + MaxBuildRetry - count
      [] at = "judge" -> 1
      [] at = "trigger" -> 0
      [] at = "release" -> MaxBuildRetry - count
      [] at = "rollout" -> (MaxRollouts - attempt) + (MaxBuildRetry - count)
      [] OTHER -> 0

\* What is left of the wait, and the order in which it runs out: lexicographic.
Remaining == <<Loop, <<Left, Polls>>>>
Below == OpToRel(<, Nat)
Fewer == LexPairOrdering(Below, LexPairOrdering(Below, Below, Nat, Nat), Nat, Nat \X Nat)

\* The order admits no endless descent.
LEMMA FewerIsWellFounded == IsWellFoundedOn(Fewer, Nat \X (Nat \X Nat))
<1>1. IsWellFoundedOn(Below, Nat)
    BY NatLessThanWellFounded DEF Below
<1>2. IsWellFoundedOn(LexPairOrdering(Below, Below, Nat, Nat), Nat \X Nat)
    BY <1>1, WFLexPairOrdering
<1> QED
    BY <1>1, <1>2, WFLexPairOrdering DEF Fewer

\* What it takes to be fewer, number by number.
LEMMA FewerPointwise ==
    ASSUME NEW a \in Nat, NEW b \in Nat, NEW c \in Nat,
           NEW x \in Nat, NEW y \in Nat, NEW z \in Nat,
           \/ a < x
           \/ a = x /\ b < y
           \/ a = x /\ b = y /\ c < z
    PROVE  <<<<a, <<b, c>>>>, <<x, <<y, z>>>>>> \in Fewer
<1>1. \A i, j \in Nat : i < j => <<i, j>> \in Below
    BY DEF Below, OpToRel
<1>2. b < y \/ (b = y /\ c < z) =>
          <<<<b, c>>, <<y, z>>>> \in LexPairOrdering(Below, Below, Nat, Nat)
    BY <1>1 DEF LexPairOrdering
<1> QED
    BY <1>1, <1>2 DEF Fewer, LexPairOrdering

\* What is left is always a number, and none when the wait is over.
LEMMA RemainingType == IInv => Loop \in Nat /\ Left \in Nat /\ Polls \in Nat
<1> SUFFICES ASSUME IInv PROVE Loop \in Nat /\ Left \in Nat /\ Polls \in Nat
    OBVIOUS
<1>1. /\ count \in Nat /\ attempt \in Nat /\ k \in 1..N
      /\ at \in At
    BY Numbers DEF IInv, TypeOK, N
<1>2. Counted
    BY DEF IInv
<1>3. CASE at = "list"
    BY <1>1, <1>2, <1>3, Numbers DEF Counted, Loop, Left, Polls
<1>4. CASE at \in {"attempt", "judge", "trigger"}
    BY <1>1, <1>2, <1>4, Numbers DEF Counted, Loop, Left, Polls
<1>5. CASE at = "release"
    BY <1>1, <1>2, <1>5, Numbers DEF Counted, Loop, Left, Polls
<1>6. CASE at = "rollout"
    <2>1. Len(order) \in Nat /\ k <= Len(order)
        BY <1>6, OrdersAreApart, Numbers DEF IInv, TypeOK, RolloutsAreSeen
    <2> QED
        BY <1>1, <1>2, <1>6, <2>1, Numbers DEF Counted, Loop, Left, Polls
<1>7. CASE at \in Results
    BY <1>7 DEF Results, Loop, Left, Polls
<1> QED
    BY <1>1, <1>3, <1>4, <1>5, <1>6, <1>7 DEF At

\* The same of the next state.
LEMMA RemainingTypeNext == IInv' => (Loop \in Nat /\ Left \in Nat /\ Polls \in Nat)'
    BY RemainingType, PTL

\* A wait that is over has nothing left.
LEMMA OverIsFewer ==
    ASSUME IInv, at \notin Results, at' \in Results
    PROVE  Loop' < Loop
<1>1. Loop' = 0
    BY DEF Loop, Results
<1>2. Loop > 0
    BY DEF IInv, TypeOK, At, Loop
<1> QED
    BY <1>1, <1>2, RemainingType

\* Each of the helper's steps leaves fewer.
LEMMA HelperLeavesFewer ==
    ASSUME IInv, IInv', Helper
    PROVE  <<Remaining', Remaining>> \in Fewer
<1>1. /\ Loop \in Nat /\ Left \in Nat /\ Polls \in Nat
      /\ Loop' \in Nat /\ Left' \in Nat /\ Polls' \in Nat
    BY RemainingType, RemainingTypeNext
<1> DEFINE Less ==
        \/ Loop' < Loop
        \/ Loop' = Loop /\ Left' < Left
        \/ Loop' = Loop /\ Left' = Left /\ Polls' < Polls
<1>2. SUFFICES Less
    BY <1>1, FewerPointwise DEF Remaining
<1>3. /\ count \in Nat /\ attempt \in Nat /\ k \in 1..N
      /\ at \notin Results => at \in {"list", "attempt", "judge", "trigger", "release", "rollout"}
    BY Numbers DEF IInv, TypeOK, At, N
<1>4. Counted /\ Counted'
    BY DEF IInv
<1>5. CASE at' \in Results
    <2>1. at \notin Results
        BY DEF Helper, CommandFails, ListBuilds, PollBuild, LastBuild, JudgeBuild,
               TriggerBuild, FindRelease, RolloutSucceeded, RolloutRetried,
               RolloutFailed, PollRollout, Results
    <2> QED
        BY <1>5, <2>1, OverIsFewer
<1>6. CASE at' \notin Results /\ ListBuilds
    <2>1. CASE at' = "list"
        <3>1. at = "list" /\ count' = count + 1
            BY <1>6, <2>1 DEF ListBuilds
        <3>2. Loop' = Loop /\ Left' = Left
            BY <2>1, <3>1 DEF Loop, Left
        <3>3. Polls = RetryGetBuild - count /\ Polls' = RetryGetBuild - count'
            BY <2>1, <3>1 DEF Polls
        <3> QED
            BY <1>3, <3>1, <3>2, <3>3, Numbers
    <2>2. CASE at' = "attempt"
        BY <1>6, <2>2 DEF ListBuilds, Loop
    <2> QED
        BY <1>6, <2>1, <2>2 DEF ListBuilds
<1>7. CASE at' \notin Results /\ PollBuild
    <2>1. CASE at' = "attempt"
        <3>1. at = "attempt" /\ count' = count + 1 /\ attempt' = attempt
            BY <1>7, <2>1 DEF PollBuild
        <3>2. Loop' = Loop /\ Left' = Left
            BY <2>1, <3>1 DEF Loop, Left
        <3>3. Polls = 2 + MaxBuildRetry - count /\ Polls' = 2 + MaxBuildRetry - count'
            BY <2>1, <3>1 DEF Polls
        <3> QED
            BY <1>3, <3>1, <3>2, <3>3, Numbers
    <2>2. CASE at' = "judge"
        BY <1>3, <1>4, <1>7, <2>2, Numbers DEF PollBuild, Loop, Left, Polls, Counted
    <2> QED
        BY <1>7, <2>1, <2>2 DEF PollBuild, Results
<1>8. CASE at' \notin Results /\ LastBuild
    BY <1>3, <1>4, <1>8, Numbers DEF LastBuild, Loop, Left, Polls, Counted, Results
<1>9. CASE at' \notin Results /\ JudgeBuild
    BY <1>3, <1>4, <1>9, Numbers DEF JudgeBuild, Loop, Left, Polls, Counted, Results
<1>10. CASE at' \notin Results /\ TriggerBuild
    BY <1>3, <1>4, <1>10, Numbers DEF TriggerBuild, Loop, Left, Polls, Counted, Results
<1>11. CASE at' \notin Results /\ FindRelease
    <2>1. CASE at' = "rollout"
        <3>1. Len(order') \in 0..N /\ k' = 1
            BY <1>4, <1>11, <2>1, OrdersAreApart DEF FindRelease, Counted
        <3> QED
            BY <1>11, <2>1, <3>1, Numbers DEF FindRelease, Loop, Left
    <2>2. CASE at' = "release"
        BY <1>3, <1>4, <1>11, <2>2, Numbers DEF FindRelease, Loop, Left, Polls, Counted
    <2> QED
        BY <1>11, <2>1, <2>2 DEF FindRelease, Results
<1>12. CASE at' \notin Results /\ RolloutSucceeded
    <2>1. Len(order) \in Nat
        BY OrdersAreApart, Numbers DEF IInv, TypeOK
    <2> QED
        BY <1>3, <1>4, <1>12, <2>1, Numbers
           DEF RolloutSucceeded, Loop, Left, Polls, Counted, Results
<1>13. CASE at' \notin Results /\ RolloutRetried
    BY <1>3, <1>4, <1>13, Numbers DEF RolloutRetried, Loop, Left, Polls, Counted, Results
<1>14. CASE at' \notin Results /\ PollRollout
    BY <1>3, <1>4, <1>14, Numbers DEF PollRollout, Loop, Left, Polls, Counted, Results
<1> QED
    BY <1>5, <1>6, <1>7, <1>8, <1>9, <1>10, <1>11, <1>12, <1>13, <1>14
       DEF Helper, CommandFails, RolloutFailed, Results

\* Builds, releases and rollouts take nothing away and add nothing.
LEMMA CloudLeavesAll == Cloud => Remaining' = Remaining
<1> SUFFICES ASSUME Cloud PROVE Remaining' = Remaining
    OBVIOUS
<1>1. UNCHANGED <<at, count, attempt, order, k>>
    BY DEF Cloud, PushMakesBuild, BuildMakesRelease, BuildGoesOn, RolloutEnds
<1> QED
    BY <1>1 DEF Remaining, Loop, Left, Polls

\* Every loop of the wait is counted, whatever builds, releases and rollouts do:
\* each of the helper's steps makes what is left of the wait smaller, nothing else
\* makes it larger, and it cannot become smaller for ever.  (WaitEnds follows as
\* long as the helper takes steps: the fairness TLC checks it under.)
THEOREM EveryLoopIsCounted ==
    /\ IsWellFoundedOn(Fewer, Nat \X (Nat \X Nat))
    /\ Spec => /\ [](Remaining \in Nat \X (Nat \X Nat))
               /\ [][ /\ Helper => <<Remaining', Remaining>> \in Fewer
                      /\ Cloud => Remaining' = Remaining ]_vars
<1>1. IInv => Remaining \in Nat \X (Nat \X Nat)
    BY RemainingType DEF Remaining
<1>2. IInv /\ IInv' /\ [Next]_vars =>
        [ /\ Helper => <<Remaining', Remaining>> \in Fewer
          /\ Cloud => Remaining' = Remaining ]_vars
    BY HelperLeavesFewer, CloudLeavesAll
<1>3. Spec => []IInv
    BY WaitInvariant
<1>4. Spec => /\ [](Remaining \in Nat \X (Nat \X Nat))
              /\ [][ /\ Helper => <<Remaining', Remaining>> \in Fewer
                     /\ Cloud => Remaining' = Remaining ]_vars
    BY <1>1, <1>2, <1>3, PTL DEF Spec
<1> QED
    BY <1>4, FewerIsWellFounded

-----------------------------------------------------------------------------
(* The order of the stages.                                                 *)

\* The keys of the map of targets come in the order of the stages, from the first
\* one on, all of them or not.
KeysInOrder == \A i \in DOMAIN order : order[i] = Stages[i]

\* The stages before the current target have the release, those after it do not.
TakenInOrder ==
    /\ \A i \in 1..N : i < k => rollout[Stages[i]] # "none"
    /\ \A i \in 1..N : i > k => rollout[Stages[i]] = "none"

\* A rollout that goes on, ends or is retried was there before.
LEMMA ChangedRolloutKeeps ==
    ASSUME IInv, TakenInOrder, UNCHANGED k, NEW t \in Targets, NEW s,
           rollout[t] # "none" \/ t = Stages[1], s # "none",
           rollout' = [rollout EXCEPT ![t] = s]
    PROVE  TakenInOrder'
<1>1. k \in 1..N /\ rollout \in [Targets -> RolloutStates]
    BY DEF IInv, TypeOK, N
<1>2. \A i \in 1..N : rollout'[Stages[i]] = IF Stages[i] = t THEN s ELSE rollout[Stages[i]]
    BY <1>1, Numbers
<1>3. \A i \in 1..N : i > k => Stages[i] # t
    <2>1. 1 \in 1..N /\ \A i \in 1..N : Stages[i] = Stages[1] => i = 1
        BY PipelineAssumption, Numbers DEF N
    <2> QED
        BY <1>1, <2>1 DEF TakenInOrder
<1> QED
    BY <1>2, <1>3 DEF TakenInOrder

\* A promotion goes to the next stage.
LEMMA PromotionKeepsOrder ==
    ASSUME IInv, TakenInOrder, KeysInOrder, RolloutSucceeded PROVE TakenInOrder'
<1>1. /\ rollout \in [Targets -> RolloutStates]
      /\ Len(order) \in 0..N /\ k \in 1..Len(order)
      /\ \A i \in 1..Len(order) : order[i] = Stages[i]
    BY OrdersAreApart, Numbers
       DEF IInv, TypeOK, RolloutsAreSeen, KeysInOrder, N, RolloutSucceeded
<1>2. CASE k < Len(order)
    <2>1. k' = k + 1 /\ rollout' = [rollout EXCEPT ![Stages[k + 1]] = "IN_PROGRESS"]
        BY <1>1, <1>2, Numbers DEF RolloutSucceeded
    <2>2. \A i \in 1..N : Stages[i] = Stages[k + 1] => i = k + 1
        BY <1>1, <1>2, Numbers, PipelineAssumption DEF N
    <2>3. \A i \in 1..N : rollout'[Stages[i]] = IF i = k + 1 THEN "IN_PROGRESS" ELSE rollout[Stages[i]]
        BY <1>1, <1>2, <2>1, <2>2, Numbers
    <2>4. rollout[Stages[k]] # "none"
        BY <1>1 DEF RolloutSucceeded, Target
    <2> QED
        BY <1>1, <2>1, <2>3, <2>4, Numbers DEF TakenInOrder
<1>3. CASE ~(k < Len(order))
    BY <1>1, <1>3 DEF RolloutSucceeded, TakenInOrder
<1> QED
    BY <1>2, <1>3

\* Every step keeps to the order.
LEMMA NextKeepsOrder ==
    ASSUME IInv, TakenInOrder, KeysInOrder, [Next]_vars PROVE TakenInOrder'
<1>1. CASE UNCHANGED <<rollout, k>>
    BY <1>1 DEF TakenInOrder
<1>2. CASE BuildMakesRelease
    <2>1. Stages[1] \in Targets
        BY Numbers
    <2> QED
        BY <1>2, <2>1, ChangedRolloutKeeps DEF BuildMakesRelease
<1>3. ASSUME NEW t \in Targets, RolloutEnds(t) PROVE TakenInOrder'
    <2>1. \E s \in {"SUCCEEDED", "FAILED", "CANCELLED"} : rollout' = [rollout EXCEPT ![t] = s]
        BY <1>3 DEF RolloutEnds
    <2>2. rollout[t] # "none" /\ UNCHANGED k
        BY <1>3 DEF RolloutEnds
    <2> QED
        BY <2>1, <2>2, ChangedRolloutKeeps
<1>4. CASE RolloutSucceeded
    BY <1>4, PromotionKeepsOrder
<1>5. CASE RolloutRetried
    <2>1. \E s \in {"IN_PROGRESS", "FAILED"} : rollout' = [rollout EXCEPT ![Target] = s]
        BY <1>5 DEF RolloutRetried
    <2>2. rollout[Target] # "none" /\ UNCHANGED k
        BY <1>5 DEF RolloutRetried
    <2>3. Target \in Targets
        BY <1>5, OrdersAreApart, Numbers
           DEF RolloutRetried, RolloutsAreSeen, Target, IInv, TypeOK, N
    <2> QED
        BY <2>1, <2>2, <2>3, ChangedRolloutKeeps
<1> QED
    BY <1>1, <1>2, <1>3, <1>4, <1>5
       DEF Next, Cloud, Helper, vars, cloudVars, PushMakesBuild, BuildGoesOn,
           CommandFails, ListBuilds, PollBuild, LastBuild, JudgeBuild, TriggerBuild,
           FindRelease, RolloutFailed, PollRollout

\* When the keys of the map of targets happen to come in the order of the
\* pipeline, the release reaches its stages in that order (StagesInOrder): that
\* they come in another order, or without one in between, is all that stands
\* against it.
THEOREM StagesInOrderOfTheKeys == Spec /\ []KeysInOrder => []StagesInOrder
<1>1. Init => TakenInOrder
    BY Numbers DEF Init, TakenInOrder, N
<1>2. (IInv /\ TakenInOrder) /\ KeysInOrder /\ [Next]_vars => (IInv /\ TakenInOrder)'
    BY NextKeepsIInv, NextKeepsOrder
<1>3. IInv /\ TakenInOrder => StagesInOrder
    BY Numbers DEF IInv, TypeOK, TakenInOrder, StagesInOrder, N
<1> QED
    BY <1>1, <1>2, <1>3, InitIInv, PTL DEF Spec
=============================================================================
