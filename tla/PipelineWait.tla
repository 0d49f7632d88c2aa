---------------------------- MODULE PipelineWait ----------------------------
(***************************************************************************)
(* How the deployment helper follows one service's pipeline after the push    *)
(* (helpers/eab-deployer/gcp/gcp.go): WaitBuildSuccess waits for the Cloud    *)
(* Build build of the commit and has it retried after a transient error;      *)
(* WaitReleaseSuccess waits for the Cloud Deploy release the build makes and   *)
(* promotes it from target to target.                                        *)
(*                                                                          *)
(* The helper only ever sees answers to its polls, while builds, releases     *)
(* and rollouts go on.  Cloud Build and Cloud Deploy are external: they may   *)
(* take any time and end anyhow.  Whether a log holds a transient error is a  *)
(* free choice.                                                              *)
(***************************************************************************)
EXTENDS Naturals, Sequences

CONSTANTS
    Targets,         \* the targets of the delivery pipeline
    Stages,          \* their order in its serial_pipeline
    RetryGetBuild,   \* bounds of the code: empty lists of builds (5),
    MaxBuildRetry,   \* polls of one build, release or rollout (50),
    MaxErrorRetries, \* attempts at a build (3),
    MaxRollouts      \* retries of a rollout (maxRolloutRetries, 3)

ASSUME PipelineAssumption ==
    /\ Stages \in Seq(Targets) /\ Stages # <<>>
    /\ \A t \in Targets : \E i \in 1..Len(Stages) : Stages[i] = t
    /\ \A i, j \in 1..Len(Stages) : Stages[i] = Stages[j] => i = j
    /\ {RetryGetBuild, MaxBuildRetry, MaxRollouts} \subseteq Nat
    /\ MaxErrorRetries \in Nat \ {0}

\* One build may be left from an earlier push of the commit, one is made for
\* this push, and every attempt may trigger another.
MaxBuilds == MaxErrorRetries + 2
Builds == 1..MaxBuilds

VARIABLES
    build,      \* build[b]: the builds of the commit, in the order of creation
    pushBuild,  \* the push has still to make its build
    release,    \* the release of the commit exists
    rollout,    \* rollout[t]: the rollout of the release to target t
    at,         \* where the helper is
    id,         \* the build it looks at, 0 for none
    status,     \* the status it read last
    count,      \* polls so far in the current loop
    attempt,    \* attempts at the build, or retries of the rollout
    order,      \* the targets it found the release to have, as it takes them
    k           \* the target of that order it is at

cloudVars == <<build, pushBuild, release, rollout>>
vars == <<cloudVars, at, id, status, count, attempt, order, k>>

BuildStates == {"none", "QUEUED", "WORKING", "SUCCESS", "FAILURE", "CANCELLED", "TIMEOUT"}
RolloutStates == {"none", "IN_PROGRESS", "SUCCEEDED", "FAILED", "CANCELLED"}
Results == {"ok", "failed", "timeout", "noBuild", "noRelease", "exhausted", "aborted"}
At == {"list", "attempt", "judge", "trigger", "release", "rollout"} \cup Results

\* The keys of targetArtifacts: maps.Keys ranges over a map, so they come in any
\* order, and a release need not have artifacts for all of its targets, or for any.
Orders ==
    {o \in UNION {[1..n -> Targets] : n \in 0..Len(Stages)} :
        \A i, j \in DOMAIN o : o[i] = o[j] => i = j}

TypeOK ==
    /\ build \in [Builds -> BuildStates]
    /\ pushBuild \in BOOLEAN
    /\ release \in BOOLEAN
    /\ rollout \in [Targets -> RolloutStates]
    /\ at \in At
    /\ id \in 0..MaxBuilds
    /\ status \in BuildStates \cup RolloutStates
    /\ count \in 0..(RetryGetBuild + MaxBuildRetry)
    /\ attempt \in 0..MaxErrorRetries \cup 0..MaxRollouts
    /\ order \in Orders
    /\ k \in 1..Len(Stages)

Init ==
    /\ \/ build = [b \in Builds |-> "none"] /\ pushBuild = TRUE
       \/ /\ pushBuild \in BOOLEAN
          /\ \E left \in BuildStates \ {"none"} :
                build = [b \in Builds |-> IF b = 1 THEN left ELSE "none"]
    /\ release = FALSE
    /\ rollout = [t \in Targets |-> "none"]
    /\ at = "list"
    /\ id = 0
    /\ status = "none"
    /\ count = 0
    /\ attempt = 0
    /\ order = <<>>
    /\ k = 1

-----------------------------------------------------------------------------
(* Cloud Build and Cloud Deploy (external).                                 *)

Made == {b \in Builds : build[b] # "none"}
Running == {b \in Builds : build[b] \in {"QUEUED", "WORKING"}}
IsNew(b) == b \notin Made /\ \A c \in 1..(b - 1) : c \in Made

PushMakesBuild ==
    /\ pushBuild
    /\ pushBuild' = FALSE
    /\ \E b \in Builds : IsNew(b) /\ build' = [build EXCEPT ![b] = "QUEUED"]
    /\ UNCHANGED <<release, rollout, at, id, status, count, attempt, order, k>>

BuildGoesOn(b) ==
    /\ \/ build[b] = "QUEUED" /\ build' = [build EXCEPT ![b] = "WORKING"]
       \/ /\ build[b] = "WORKING"
          /\ \E s \in {"SUCCESS", "FAILURE", "CANCELLED", "TIMEOUT"} :
                build' = [build EXCEPT ![b] = s]
    /\ UNCHANGED <<pushBuild, release, rollout, at, id, status, count, attempt, order, k>>

\* A build makes the release; the first stage is rolled out at once.
BuildMakesRelease ==
    /\ ~release
    /\ \E b \in Builds : build[b] \in {"WORKING", "SUCCESS"}
    /\ release' = TRUE
    /\ rollout' = [rollout EXCEPT ![Stages[1]] = "IN_PROGRESS"]
    /\ UNCHANGED <<build, pushBuild, at, id, status, count, attempt, order, k>>

RolloutEnds(t) ==
    /\ rollout[t] = "IN_PROGRESS"
    /\ \E s \in {"SUCCEEDED", "FAILED", "CANCELLED"} : rollout' = [rollout EXCEPT ![t] = s]
    /\ UNCHANGED <<build, pushBuild, release, at, id, status, count, attempt, order, k>>

Cloud ==
    \/ PushMakesBuild \/ BuildMakesRelease
    \/ \E b \in Builds : BuildGoesOn(b)
    \/ \E t \in Targets : RolloutEnds(t)

-----------------------------------------------------------------------------
(* WaitBuildSuccess.                                                        *)

\* GetRunningBuildID: while the list is empty it is asked for again; a running
\* build of the list is taken, in the order of a Go map.
ListBuilds ==
    /\ at = "list"
    /\ \/ /\ Made = {} /\ count < RetryGetBuild
          /\ count' = count + 1
          /\ UNCHANGED <<at, id>>
       \/ /\ Made # {} \/ count = RetryGetBuild
          /\ count' = 0
          /\ at' = "attempt"
          /\ IF Running = {} THEN id' = 0 ELSE id' \in Running
    /\ UNCHANGED <<cloudVars, status, attempt, order, k>>

\* GetFinalBuildState: only three statuses end the wait.
Ended == {"SUCCESS", "FAILURE", "CANCELLED"}

\* Mutant: a build that is no longer queued counts as ended.
PollBuildEager ==
    /\ at = "attempt"
    /\ id # 0
    /\ status' = build[id]
    /\ \/ /\ build[id] # "QUEUED"
          /\ at' = "judge"
          /\ count' = 0
       \/ /\ build[id] = "QUEUED"
          /\ IF count >= MaxBuildRetry THEN at' = "timeout" /\ UNCHANGED count
                                       ELSE count' = count + 1 /\ UNCHANGED at
    /\ UNCHANGED <<cloudVars, id, attempt, order, k>>

PollBuild ==
    /\ at = "attempt"
    /\ id # 0
    /\ status' = build[id]
    /\ \/ /\ build[id] \in Ended
          /\ at' = "judge"
          /\ count' = 0
       \/ /\ build[id] \notin Ended
          /\ IF count >= MaxBuildRetry THEN at' = "timeout" /\ UNCHANGED count
                                       ELSE count' = count + 1 /\ UNCHANGED at
    /\ UNCHANGED <<cloudVars, id, attempt, order, k>>

\* GetLastBuildStatus: the status of the latest build, ended or not.
LastBuild ==
    /\ at = "attempt"
    /\ id = 0
    /\ \/ /\ Made = {}
          /\ at' = "noBuild"
          /\ UNCHANGED <<id, status>>
       \/ \E b \in Made :
             /\ \A c \in Made : c <= b
             /\ id' = b
             /\ status' = build[b]
             /\ at' = "judge"
    /\ UNCHANGED <<cloudVars, count, attempt, order, k>>

\* Anything but a success is a failure, worth a retry if the log says so.
JudgeBuild ==
    /\ at = "judge"
    /\ at' \in IF status = "SUCCESS" THEN {"release"} ELSE {"failed", "trigger"}
    /\ UNCHANGED <<cloudVars, id, status, count, attempt, order, k>>

\* TriggerNewBuild, or its error.  The build of the last attempt is triggered
\* too, and not waited for.
TriggerBuild ==
    /\ at = "trigger"
    /\ \/ /\ \E b \in Builds :
                /\ IsNew(b)
                /\ build' = [build EXCEPT ![b] = "QUEUED"]
                /\ id' = b
          /\ attempt' = attempt + 1
          /\ at' = IF attempt + 1 < MaxErrorRetries THEN "attempt" ELSE "exhausted"
       \/ /\ at' = "failed"
          /\ UNCHANGED <<build, id, attempt>>
    /\ UNCHANGED <<pushBuild, release, rollout, status, count, order, k>>

-----------------------------------------------------------------------------
(* WaitReleaseSuccess.                                                      *)

\* The targets are those the release has artifacts for when it is found; without
\* any, there is nothing to wait for.
FindRelease ==
    /\ at = "release"
    /\ \/ /\ release
          /\ count < MaxBuildRetry
          /\ order' \in Orders
          /\ at' = IF order' = <<>> THEN "ok" ELSE "rollout"
          /\ count' = 0
          /\ attempt' = 0
       \/ /\ ~release
          /\ count < MaxBuildRetry
          /\ count' = count + 1
          /\ UNCHANGED <<at, attempt, order>>
       \/ /\ count = MaxBuildRetry
          /\ at' = "noRelease"
          /\ UNCHANGED <<count, attempt, order>>
    /\ UNCHANGED <<cloudVars, id, status, k>>

Target == order[k]

\* Mutants: the last target is not waited for; a rollout that is still going on
\* is promoted.
RolloutSucceededSkips ==
    /\ at = "rollout"
    /\ rollout[Target] = "SUCCEEDED"
    /\ status' = "SUCCEEDED"
    /\ count' = 0
    /\ attempt' = 0
    /\ IF k + 1 < Len(order)
       THEN /\ k' = k + 1
            /\ rollout' = [rollout EXCEPT ![order[k + 1]] = "IN_PROGRESS"]
            /\ UNCHANGED at
       ELSE /\ at' = "ok"
            /\ UNCHANGED <<k, rollout>>
    /\ UNCHANGED <<build, pushBuild, release, id, order>>

RolloutSucceededEarly ==
    /\ at = "rollout"
    /\ rollout[Target] \in {"IN_PROGRESS", "SUCCEEDED"}
    /\ status' = rollout[Target]
    /\ count' = 0
    /\ attempt' = 0
    /\ IF k < Len(order)
       THEN /\ k' = k + 1
            /\ rollout' = [rollout EXCEPT ![order[k + 1]] = "IN_PROGRESS"]
            /\ UNCHANGED at
       ELSE /\ at' = "ok"
            /\ UNCHANGED <<k, rollout>>
    /\ UNCHANGED <<build, pushBuild, release, id, order>>

\* GetFinalRolloutState saw a success: the release is promoted to the next
\* target, or all is done.
RolloutSucceeded ==
    /\ at = "rollout"
    /\ rollout[Target] = "SUCCEEDED"
    /\ status' = "SUCCEEDED"
    /\ count' = 0
    /\ attempt' = 0
    /\ IF k < Len(order)
       THEN /\ k' = k + 1
            /\ rollout' = [rollout EXCEPT ![order[k + 1]] = "IN_PROGRESS"]
            /\ UNCHANGED at
       ELSE /\ at' = "ok"
            /\ UNCHANGED <<k, rollout>>
    /\ UNCHANGED <<build, pushBuild, release, id, order>>

\* Mutant: the retries of a rollout are not counted.
RolloutRetriedUncounted ==
    /\ at = "rollout"
    /\ rollout[Target] = "FAILED"
    /\ attempt < MaxRollouts
    /\ \E s \in {"IN_PROGRESS", "FAILED"} : rollout' = [rollout EXCEPT ![Target] = s]
    /\ status' = "FAILED"
    /\ UNCHANGED <<build, pushBuild, release, at, id, count, attempt, order, k>>

\* A failed rollout's job is retried, which may not show at the next poll.
RolloutRetried ==
    /\ at = "rollout"
    /\ rollout[Target] = "FAILED"
    /\ attempt < MaxRollouts
    /\ attempt' = attempt + 1
    /\ \E s \in {"IN_PROGRESS", "FAILED"} : rollout' = [rollout EXCEPT ![Target] = s]
    /\ status' = "FAILED"
    /\ UNCHANGED <<build, pushBuild, release, at, id, count, order, k>>

RolloutFailed ==
    /\ at = "rollout"
    /\ \/ rollout[Target] = "FAILED" /\ attempt = MaxRollouts
       \/ rollout[Target] = "CANCELLED"
    /\ status' = rollout[Target]
    /\ at' = "failed"
    /\ UNCHANGED <<cloudVars, id, count, attempt, order, k>>

PollRollout ==
    /\ at = "rollout"
    /\ rollout[Target] \in {"none", "IN_PROGRESS"}
    /\ status' = rollout[Target]
    /\ IF count >= MaxBuildRetry THEN at' = "timeout" /\ UNCHANGED count
                                 ELSE count' = count + 1 /\ UNCHANGED at
    /\ UNCHANGED <<cloudVars, id, attempt, order, k>>

\* A gcloud command fails: Runf and RunCmd fail the run on the spot, which is a
\* panic that nothing in this file recovers.
CommandFails ==
    /\ at \notin Results
    /\ at' = "aborted"
    /\ UNCHANGED <<cloudVars, id, status, count, attempt, order, k>>

Helper ==
    \/ CommandFails
    \/ ListBuilds \/ PollBuild \/ LastBuild \/ JudgeBuild \/ TriggerBuild
    \/ FindRelease \/ RolloutSucceeded \/ RolloutRetried \/ RolloutFailed \/ PollRollout

Next == Cloud \/ Helper

Spec == Init /\ [][Next]_vars

\* gcloud answers; nothing is assumed of builds and rollouts.
FairSpec == Spec /\ WF_vars(Helper)

-----------------------------------------------------------------------------
\* A wait that reports success has seen a build of the commit succeed, and the
\* release is rolled out on every target the code found it to have: none of them
\* is only in progress, failed, or started again by a promotion since.  It need
\* not be rolled out on a target the release had no artifacts for yet.
OkIsRolledOut ==
    at = "ok" =>
        /\ \E b \in Builds : build[b] = "SUCCESS"
        /\ \A i \in DOMAIN order : rollout[order[i]] = "SUCCEEDED"

\* A target beyond the first stage gets the release only after the release has
\* succeeded on another one: nothing is promoted that has run nowhere.
PromotedAfterSuccess ==
    [][\A t \in Targets :
          t # Stages[1] /\ rollout[t] = "none" /\ rollout'[t] # "none" =>
              \E u \in Targets \ {t} : rollout[u] = "SUCCEEDED"]_vars

\* The helper never starts more builds than it may (maxErrorRetries), nor a
\* second one while one it started is still running.
NoBuildBesidesOwn ==
    [][id' # id /\ at = "trigger" => attempt < MaxErrorRetries /\
          (attempt > 0 => build[id] \notin {"QUEUED", "WORKING"})]_vars

\* The wait comes to an end, whatever builds and rollouts do: every loop is
\* counted, the retries of a rollout that keeps failing included.
WaitEnds == <>(at \in Results)

\* A release reaches the targets in the order of the pipeline's stages
\* ("promoting builds through stages (e.g. development, nonproduction,
\* production)", modules/deployment-pipeline/README.md).
StagesInOrder ==
    \A i \in 2..Len(Stages) :
        rollout[Stages[i]] # "none" => rollout[Stages[i - 1]] # "none"
=============================================================================
