------------------------------ MODULE Deployer ------------------------------
(***************************************************************************)
(* The deployment helper helpers/eab-deployer: a command line program that   *)
(* brings an example up (copy the code, terraform apply, then one goroutine   *)
(* per service repository) or down (terraform destroy), keeps its progress   *)
(* in a JSON file and may be killed at any point and run again.              *)
(*                                                                          *)
(* Every step is run by RunStep or RunDestroyStep (steps/steps.go): look at   *)
(* the recorded status, run the body, record the outcome.  Recording takes    *)
(* the lock, changes the status in memory and rewrites the whole file.       *)
(* os.WriteFile opens, truncates and writes: a file that cannot be opened     *)
(* stays what it was, and between the two steps of a save it is torn.        *)
(*                                                                          *)
(* The bodies act on the world: the copied code, the infrastructure, the     *)
(* cached source trees two of the preparers share between services, and what *)
(* is pushed and deployed.  What git, terraform and gcloud answer is a free   *)
(* choice.                                                                   *)
(***************************************************************************)
EXTENDS Naturals, FiniteSets

CONSTANTS
    Services,   \* keys of the repositories map in the tfvars file
    Examples,   \* values of the -example flag
    Default,    \* its default, which a plain `-destroy` works on
    MaxRuns     \* bound on how often the program is started

\* The recorded names: gcp-infra.copy-code, gcp-infra.apply, gcp-appsource.<key>
\* for every service, and what -reset_step adds: the part before the dot.
InfraSteps == {"copy-code", "apply"}
Parents == {"gcp-infra", "gcp-appsource"}
Names == InfraSteps \cup Services \cup Parents
Parent(n) == IF n \in Services THEN "gcp-appsource" ELSE "gcp-infra"

ASSUME DeployerAssumption ==
    /\ Services \cap (InfraSteps \cup Parents) = {}
    /\ Default \in Examples
    /\ MaxRuns \in Nat

VARIABLES
    mode,      \* the running invocation, or "down"
    example,   \* its -example flag
    exit,      \* how the last invocation ended
    runs,      \* how many invocations there were
    steps,     \* the statuses in memory
    file,      \* the steps file: absent, torn or whole
    saved,     \* what a whole steps file holds
    buffer,    \* buffer[n]: what the goroutine of n has marshalled to write
    unsaved,   \* history: steps whose outcome the file could not be opened for,
               \* and that was not written with another one since
    run,       \* run[n]: where the goroutine of step n is
    errs,      \* the steps whose error was returned in this invocation
    dir,       \* dir[e]: the example's copy under the checkout path
    infra,     \* infra[e]: the example's infrastructure
    deployed,  \* deployed[e]: services rolled out on that infrastructure
    preparer,  \* preparer[e]: how the example's source trees are made (fixed)
    clone,     \* .cache: the upstream clone
    patched,   \* .cache: the tree patched from it
    pushed,    \* pushed[s]: the tree in the service's repository
    undoing,   \* history: a destroy began and was not finished since
    treeCut,   \* history: the program was killed while it made a cached tree
    applyLost  \* history: the file holds nothing of a terraform apply: a kill came
               \* before its outcome, or the file could not be opened for it

procVars == <<mode, example, exit, runs>>
fileVars == <<file, saved, buffer, unsaved>>
infraVars == <<dir, infra, deployed>>
treeVars == <<preparer, clone, patched, pushed>>
historyVars == <<undoing, treeCut, applyLost>>
vars == <<procVars, steps, fileVars, run, errs, infraVars, treeVars, historyVars>>

Statuses == {"none", "COMPLETED", "DESTROYED", "FAILED", "PENDING"}
Trees == {"absent", "partial", "whole"}
RunStates == {"idle", "body", "prepare", "clone", "patch", "push", "build",
              "good", "bad", "saving", "over"}

NoSteps == [n \in Names |-> "none"]
NoRuns == [n \in Names |-> "idle"]

TypeOK ==
    /\ mode \in {"down", "deploy", "destroy", "reset"}
    /\ example \in Examples
    /\ exit \in {"none", "ok", "failed", "unreadable", "killed"}
    /\ runs \in 0..MaxRuns
    /\ steps \in [Names -> Statuses]
    /\ file \in {"absent", "torn", "whole"}
    /\ saved \in [Names -> Statuses]
    /\ buffer \in [Names -> [Names -> Statuses]]
    /\ unsaved \subseteq Names
    /\ run \in [Names -> RunStates]
    /\ errs \subseteq Names
    /\ dir \in [Examples -> Trees]
    /\ infra \in [Examples -> {"none", "partial", "up"}]
    /\ deployed \in [Examples -> SUBSET Services]
    /\ preparer \in [Examples -> {"self-contained", "cymbal-shop", "cymbal-bank"}]
    /\ clone \in Trees
    /\ patched \in Trees
    /\ pushed \in [Services -> Trees]
    /\ undoing \in BOOLEAN
    /\ treeCut \in BOOLEAN
    /\ applyLost \in BOOLEAN

Init ==
    /\ mode = "down"
    /\ example = Default
    /\ exit = "none"
    /\ runs = 0
    /\ steps = NoSteps
    /\ file = "absent"
    /\ saved = NoSteps
    /\ buffer = [n \in Names |-> NoSteps]
    /\ unsaved = {}
    /\ run = NoRuns
    /\ errs = {}
    /\ dir = [e \in Examples |-> "absent"]
    /\ infra = [e \in Examples |-> "none"]
    /\ deployed = [e \in Examples |-> {}]
    /\ preparer \in [Examples -> {"self-contained", "cymbal-shop", "cymbal-bank"}]
    /\ clone = "absent"
    /\ patched = "absent"
    /\ pushed = [s \in Services |-> "absent"]
    /\ undoing = FALSE
    /\ treeCut = FALSE
    /\ applyLost = FALSE

-----------------------------------------------------------------------------
(* The program starts and ends.                                             *)

\* What can be read from the steps file: a missing one is an empty record.
OnDisk == IF file = "whole" THEN saved ELSE NoSteps

\* LoadSteps: a file that cannot be read, or does not parse, ends the program,
\* whatever it was asked to do.
Start(m, e, first) ==
    /\ mode = "down"
    /\ runs < MaxRuns
    /\ runs' = runs + 1
    /\ example' = e
    /\ errs' = {}
    /\ unsaved' = {}
    /\ \/ /\ exit' = "unreadable"
          /\ UNCHANGED <<mode, steps, run>>
       \/ /\ file # "torn"
          /\ mode' = m
          /\ exit' = "none"
          /\ steps' = OnDisk
          /\ run' = first
    /\ UNCHANGED <<file, saved, buffer, infraVars, treeVars, historyVars>>

StartDeploy(e) == Start("deploy", e, NoRuns)
StartDestroy(e) == Start("destroy", e, NoRuns)

\* -reset_step: there is no body, the outcome is recorded at once.
StartReset(n) == Start("reset", Default, [NoRuns EXCEPT ![n] = "good"])

Ends(how) ==
    /\ mode' = "down"
    /\ exit' = how
    /\ buffer' = [n \in Names |-> NoSteps]
    /\ UNCHANGED <<example, runs, steps, unsaved, run, errs>>

\* Nothing in the file would make a destroy look at what an apply has brought up.
ApplyUnknown == mode = "deploy" /\ OnDisk["apply"] \in {"none", "DESTROYED"}

\* The program is killed, or panics where nothing recovers: there is no signal
\* handler, and a single service runs on the main goroutine.
Crash ==
    /\ mode # "down"
    /\ Ends("killed")
    /\ treeCut' = (treeCut \/ \E s \in Services : run[s] \in {"clone", "patch"})
    /\ applyLost' = (applyLost \/ (ApplyUnknown /\ run["apply"] \in {"body", "good", "bad"}))
    /\ UNCHANGED <<file, saved, infraVars, treeVars, undoing>>

-----------------------------------------------------------------------------
(* RunStep, RunDestroyStep and the record.                                  *)

\* Mutant: the record is changed and saved without the lock.
NoLock == TRUE

\* The lock of Steps is held from the change in memory to the end of the save.
LockFree == \A n \in Names : run[n] # "saving"

Returned(n) == run[n] = "over" /\ n \notin errs

\* The order of the steps: copy the code, apply, all the services at once.
Due(n) ==
    \/ mode = "destroy" /\ n = "apply"
    \/ mode = "deploy" /\ n = "copy-code"
    \/ mode = "deploy" /\ n = "apply" /\ Returned("copy-code")
    \/ mode = "deploy" /\ n \in Services /\ Returned("apply")

\* Mutant: only what was completed is destroyed.
SkippedUnlessCompleted(n) ==
    IF mode = "destroy" THEN steps[n] # "COMPLETED"
                        ELSE steps[n] = "COMPLETED"

\* A completed step is not run, a step that is not recorded is not destroyed.
Skipped(n) ==
    IF mode = "destroy" THEN steps[n] \in {"DESTROYED", "none"}
                        ELSE steps[n] = "COMPLETED"

Goes(n, from, to) == run[n] = from /\ run' = [run EXCEPT ![n] = to]

Skip(n) ==
    /\ Due(n)
    /\ LockFree
    /\ Skipped(n)
    /\ Goes(n, "idle", "over")
    /\ UNCHANGED <<procVars, steps, fileVars, errs, infraVars, treeVars, historyVars>>

\* The body of an infrastructure step begins: it leaves half of its work behind
\* if it is cut short.  What runs on infrastructure goes down with it.
BodyBegins(n) ==
    /\ n \in InfraSteps
    /\ Due(n)
    /\ LockFree
    /\ ~Skipped(n)
    /\ Goes(n, "idle", "body")
    /\ dir' = IF n = "copy-code" THEN [dir EXCEPT ![example] = "partial"] ELSE dir
    /\ infra' =
         CASE n = "copy-code" -> infra
           [] n = "apply" /\ mode = "deploy" -> [infra EXCEPT ![example] = IF @ = "up" THEN @ ELSE "partial"]
           [] n = "apply" /\ mode = "destroy" -> [infra EXCEPT ![example] = IF @ = "none" THEN @ ELSE "partial"]
    /\ deployed' = IF mode = "destroy" THEN [deployed EXCEPT ![example] = {}] ELSE deployed
    /\ undoing' = (undoing \/ mode = "destroy")
    /\ UNCHANGED <<procVars, steps, fileVars, errs, treeVars, treeCut, applyLost>>

\* CopyDirectory, the policy library and WriteTfvars.
CopyEnds ==
    /\ mode = "deploy"
    /\ \/ /\ Goes("copy-code", "body", "good")
          /\ dir' = [dir EXCEPT ![example] = "whole"]
       \/ /\ Goes("copy-code", "body", "bad")
          /\ UNCHANGED dir
    /\ UNCHANGED <<procVars, steps, fileVars, errs, infra, deployed, treeVars, historyVars>>

\* Mutant: the error of terraform is shadowed and lost.
TerraformErrorLost ==
    /\ mode \in {"deploy", "destroy"}
    /\ Goes("apply", "body", "good")
    /\ \/ /\ dir[example] = "whole"
          /\ infra' = [infra EXCEPT ![example] = IF mode = "deploy" THEN "up" ELSE "none"]
       \/ UNCHANGED infra
    /\ UNCHANGED <<procVars, steps, fileVars, errs, dir, deployed, treeVars, historyVars>>

\* terraform init and apply, or init and destroy, in the example's directory.
TerraformEnds ==
    /\ mode \in {"deploy", "destroy"}
    /\ \/ /\ dir[example] = "whole"
          /\ Goes("apply", "body", "good")
          /\ infra' = [infra EXCEPT ![example] = IF mode = "deploy" THEN "up" ELSE "none"]
       \/ /\ Goes("apply", "body", "bad")
          /\ UNCHANGED infra
    /\ UNCHANGED <<procVars, steps, fileVars, errs, dir, deployed, treeVars, historyVars>>

\* What is recorded of step n.
Outcome(n) ==
    CASE run[n] = "bad" -> "FAILED"
      [] run[n] = "good" /\ mode = "deploy" -> "COMPLETED"
      [] run[n] = "good" /\ mode = "destroy" -> "DESTROYED"
      [] run[n] = "good" /\ mode = "reset" -> "PENDING"

\* Mutant: RunStep returns the result of FailStep instead of the body's error.
RecordSwallows(n) ==
    /\ run[n] \in {"good", "bad"}
    /\ mode # "down"
    /\ LockFree
    /\ steps' = [steps EXCEPT ![n] = Outcome(n)]
    /\ run' = [run EXCEPT ![n] = "saving"]
    /\ buffer' = [buffer EXCEPT ![n] = steps']
    /\ file' = "torn"
    /\ UNCHANGED <<procVars, errs, saved, unsaved, infraVars, treeVars, historyVars>>

\* CompleteStep, FailStep, DestroyStep, resetStepLocked: the status changes in
\* memory, then os.WriteFile opens the file, which truncates it.
Record(n) ==
    /\ run[n] \in {"good", "bad"}
    /\ mode # "down"
    /\ LockFree
    /\ steps' = [steps EXCEPT ![n] = Outcome(n)]
    /\ errs' = IF run[n] = "bad" THEN errs \cup {n} ELSE errs
    /\ run' = [run EXCEPT ![n] = "saving"]
    /\ buffer' = [buffer EXCEPT ![n] = steps']
    /\ file' = "torn"
    /\ UNCHANGED <<procVars, saved, unsaved, infraVars, treeVars, historyVars>>

\* The same, but the file cannot be opened: it stays as it was, an older record
\* that can be read, or none; RunStep returns the error.
RecordFails(n) ==
    /\ run[n] \in {"good", "bad"}
    /\ mode # "down"
    /\ LockFree
    /\ steps' = [steps EXCEPT ![n] = Outcome(n)]
    /\ errs' = errs \cup {n}
    /\ run' = [run EXCEPT ![n] = "over"]
    /\ unsaved' = unsaved \cup {n}
    /\ applyLost' = (applyLost \/ (ApplyUnknown /\ n = "apply"))
    /\ UNCHANGED <<procVars, file, saved, buffer, infraVars, treeVars, undoing, treeCut>>

\* The file is written.  A reset goes on to the step's parent.
Saved(n) ==
    /\ mode # "down"
    /\ run[n] = "saving"
    /\ file' = "whole"
    /\ saved' = buffer[n]
    /\ unsaved' = {}
    /\ buffer' = [buffer EXCEPT ![n] = NoSteps]
    /\ run' = [m \in Names |->
                 IF m = n THEN "over"
                 ELSE IF mode = "reset" /\ n \notin Parents /\ m = Parent(n) THEN "good"
                 ELSE run[m]]
    /\ applyLost' = (applyLost /\ n # "apply")
    /\ UNCHANGED <<procVars, steps, errs, infraVars, treeVars, undoing, treeCut>>

\* The file was opened and cannot be written; RunStep returns the error.
SaveFails(n) ==
    /\ mode # "down"
    /\ Goes(n, "saving", "over")
    /\ errs' = errs \cup {n}
    /\ buffer' = [buffer EXCEPT ![n] = NoSteps]
    /\ UNCHANGED <<procVars, steps, file, saved, unsaved, infraVars, treeVars, historyVars>>

-----------------------------------------------------------------------------
(* The services: Deploy and the preparers.                                  *)

Preparer == preparer[example]

\* Mutant: the preparers have no mutex.
NoMutex == TRUE

\* The preparer's mutex is held while a cached tree is made.
MutexFree == \A s \in Services : run[s] \notin {"clone", "patch"}

\* The service's repository is cloned and on its main branch, or an error.
ServiceBegins(s) ==
    /\ Due(s)
    /\ LockFree
    /\ ~Skipped(s)
    /\ \/ Goes(s, "idle", "prepare")
       \/ Goes(s, "idle", "bad")
    /\ UNCHANGED <<procVars, steps, fileVars, errs, infraVars, treeVars, historyVars>>

\* A cached tree that is there is taken as it is.
NeedsPatch == Preparer = "cymbal-bank" /\ patched = "absent"
NeedsClone ==
    /\ clone = "absent"
    /\ Preparer = "cymbal-shop" \/ NeedsPatch

\* The preparer goes to the next tree that has to be made.
Prepare(s) ==
    /\ mode = "deploy"
    /\ Preparer = "self-contained" \/ MutexFree
    /\ \/ NeedsClone /\ Goes(s, "prepare", "clone") /\ clone' = "partial" /\ UNCHANGED patched
       \/ /\ NeedsPatch /\ ~NeedsClone
          /\ Goes(s, "prepare", "patch") /\ patched' = "partial" /\ UNCHANGED clone
       \/ /\ ~NeedsPatch /\ ~NeedsClone
          /\ Goes(s, "prepare", "push") /\ UNCHANGED <<clone, patched>>
    /\ UNCHANGED <<procVars, steps, fileVars, errs, infraVars, preparer, pushed, historyVars>>

\* CloneUpstreamRepo: a clone that failed is removed.
CloneEnds(s) ==
    /\ mode = "deploy"
    /\ \/ /\ clone' = "whole"
          /\ \/ NeedsPatch /\ Goes(s, "clone", "patch") /\ patched' = "partial"
             \/ ~NeedsPatch /\ Goes(s, "clone", "push") /\ UNCHANGED patched
       \/ /\ Goes(s, "clone", "bad")
          /\ clone' = "absent"
          /\ UNCHANGED patched
    /\ UNCHANGED <<procVars, steps, fileVars, errs, infraVars, preparer, pushed, historyVars>>

\* The rest of ensurePatchedMasterTree: copy and overlay, or remove on an error.
PatchEnds(s) ==
    /\ mode = "deploy"
    /\ \/ Goes(s, "patch", "push") /\ patched' = clone
       \/ Goes(s, "patch", "bad") /\ patched' = "absent"
    /\ UNCHANGED <<procVars, steps, fileVars, errs, infraVars, preparer, clone, pushed, historyVars>>

SourceTree ==
    CASE Preparer = "self-contained" -> "whole"
      [] Preparer = "cymbal-shop" -> clone
      [] Preparer = "cymbal-bank" -> patched

\* The tree is copied to the service's repository, committed and pushed.
Push(s) ==
    /\ mode = "deploy"
    /\ \/ Goes(s, "push", "build") /\ pushed' = [pushed EXCEPT ![s] = SourceTree]
       \/ Goes(s, "push", "bad") /\ UNCHANGED pushed
    /\ UNCHANGED <<procVars, steps, fileVars, errs, infraVars, preparer, clone, patched,
                   historyVars>>

\* WaitBuildSuccess and WaitReleaseSuccess.
BuildEnds(s) ==
    /\ mode = "deploy"
    /\ \/ /\ infra[example] = "up"
          /\ Goes(s, "build", "good")
          /\ deployed' = [deployed EXCEPT ![example] = @ \cup {s}]
       \/ /\ Goes(s, "build", "bad")
          /\ UNCHANGED deployed
    /\ UNCHANGED <<procVars, steps, fileVars, errs, dir, infra, treeVars, historyVars>>

-----------------------------------------------------------------------------
(* The end of an invocation.                                                *)

\* Mutant: the goroutine of a service that failed is waited for and never done.
DeployEndsWithoutErrors ==
    /\ mode = "deploy"
    /\ \/ \E n \in InfraSteps : run[n] = "over" /\ n \in errs
       \/ \A n \in InfraSteps \cup Services : Returned(n)
    /\ Ends("ok")
    /\ UNCHANGED <<file, saved, infraVars, treeVars, historyVars>>

\* An error ends the infrastructure stage; the services are all waited for.
DeployEnds ==
    /\ mode = "deploy"
    /\ \/ \E n \in InfraSteps : run[n] = "over" /\ n \in errs
       \/ \A n \in InfraSteps \cup Services : run[n] = "over"
    /\ Ends(IF errs = {} THEN "ok" ELSE "failed")
    /\ UNCHANGED <<file, saved, infraVars, treeVars, historyVars>>

\* Mutant: the steps file is left behind by a destroy.
DestroyKeepsFile ==
    /\ mode = "destroy"
    /\ run["apply"] = "over"
    /\ Ends(IF errs = {} THEN "ok" ELSE "failed")
    /\ undoing' = (undoing /\ errs # {})
    /\ UNCHANGED <<file, saved, infraVars, treeVars, treeCut, applyLost>>

\* Mutant: the steps file is deleted however the destroy ended.
DestroyDeletesAnyway ==
    /\ mode = "destroy"
    /\ run["apply"] = "over"
    /\ Ends(IF errs = {} THEN "ok" ELSE "failed")
    /\ file' = "absent"
    /\ undoing' = (undoing /\ errs # {})
    /\ UNCHANGED <<saved, infraVars, treeVars, treeCut, applyLost>>

\* Destroyed or skipped: the steps file is deleted.  An error ends it before.
DestroyEnds ==
    /\ mode = "destroy"
    /\ run["apply"] = "over"
    /\ \/ /\ errs = {}
          /\ Ends("ok")
          /\ file' = "absent"
          /\ undoing' = FALSE
          /\ UNCHANGED <<saved, infraVars, treeVars, treeCut, applyLost>>
       \/ /\ Ends("failed")
          /\ UNCHANGED <<file, saved, infraVars, treeVars, historyVars>>

ResetEnds ==
    /\ mode = "reset"
    /\ \A n \in Names : run[n] \in {"idle", "over"}
    /\ Ends(IF errs = {} THEN "ok" ELSE "failed")
    /\ UNCHANGED <<file, saved, infraVars, treeVars, historyVars>>

StepOf(n) ==
    \/ Skip(n) \/ BodyBegins(n)
    \/ Record(n) \/ RecordFails(n) \/ Saved(n) \/ SaveFails(n)

ServiceStep(s) ==
    ServiceBegins(s) \/ Prepare(s) \/ CloneEnds(s) \/ PatchEnds(s) \/ Push(s) \/ BuildEnds(s)

Works ==
    \/ \E n \in Names : StepOf(n)
    \/ \E s \in Services : ServiceStep(s)
    \/ CopyEnds \/ TerraformEnds
    \/ DeployEnds \/ DestroyEnds \/ ResetEnds

Starts ==
    \/ \E e \in Examples : StartDeploy(e) \/ StartDestroy(e)
    \/ \E n \in Names : StartReset(n)

Next == Starts \/ Works \/ Crash

Spec == Init /\ [][Next]_vars

-----------------------------------------------------------------------------
\* The effect a step is recorded for, with the infrastructure that is there now.
Done(n) ==
    CASE n = "copy-code" -> dir[example] = "whole"
      [] n = "apply" -> infra[example] = "up"
      [] n \in Services -> n \in deployed[example]

\* A step recorded as completed has been done and was not undone since, unless
\* a destroy was left unfinished (steps.go: "Completed steps are not executed
\* again" is only right if this holds).
CompletedIsDone ==
    file = "whole" /\ ~undoing =>
        \A n \in InfraSteps \cup Services : saved[n] = "COMPLETED" => Done(n)

\* A deploy that reports success has brought up the infrastructure and every
\* service, with the steps of earlier invocations skipped, unless a destroy was
\* left unfinished.
SuccessIsDeployed ==
    mode = "deploy" /\ ~undoing /\ (\A n \in InfraSteps \cup Services : Returned(n)) =>
        \A n \in InfraSteps \cup Services : Done(n)

\* No update is lost silently: the goroutines of the services record their
\* outcomes in one file, and when nobody is saving, what can be read from it is
\* what is in memory, but for the steps the file could not be opened for, whose
\* error was returned (saveStepsLocked, RunStep).
FileIsMemory ==
    mode # "down" /\ file # "torn" =>
        /\ unsaved \subseteq errs
        /\ \A n \in Names \ unsaved : OnDisk[n] = steps[n]

\* One service's failure loses nothing: when a deploy ends, a step that returned
\* no error is recorded as completed and one that returned an error has its
\* outcome recorded, unless the file could not be opened for it.  A file that
\* was opened and not written tells the next invocation nothing at all.
OutcomesAreRecorded ==
    [][DeployEnds /\ file # "torn" =>
          /\ \A n \in errs \ unsaved : OnDisk[n] \in {"FAILED", "COMPLETED"}
          /\ \A n \in Names : Returned(n) => OnDisk[n] = "COMPLETED"]_vars

\* What is pushed to the service repositories was complete when it was taken
\* from the shared cache: no service copies a tree another one is still making,
\* or one whose making failed, unless a kill left it there.
PushedIsWhole == ~treeCut => \A s \in Services : pushed[s] # "partial"

\* No invocation gets stuck: the lock of the record, the preparer's mutex and the
\* wait for the services leave some goroutine that can go on until all are over.
NeverStuck == mode # "down" => ENABLED Works

\* A destroy that reports success has left no infrastructure behind, whatever
\* failed, was killed or could not be written before it, unless a terraform
\* apply left nothing in the file: a kill came before its outcome was written, or
\* the file could not be opened for it, and no outcome was written since.
DestroyLeavesNothing ==
    mode = "down" /\ exit = "ok" /\ file = "absent" /\ ~applyLost =>
        \A e \in Examples : infra[e] = "none"

\* What the steps are taken to be: the memory of a running invocation, and
\* between two of them what can be read from the file.
Register ==
    INSTANCE StepRecord WITH
        Undone <- "apply",
        record <- IF mode # "down" THEN steps ELSE OnDisk,
        kept <- IF mode # "down" /\ file = "torn" THEN steps ELSE OnDisk,
        broken <- mode = "down" /\ file = "torn"

\* The goroutines, saves, failures and kills of all invocations together are one
\* atomic record of statuses, of which the next invocation finds what was kept
\* (steps.go: "a thread-safe StepManager backed by a local JSON file").
IsOneRecord == Register!Spec

\* A destroy that reports success leaves no infrastructure behind ("Destroy the
\* deployment", README.md).
DestroyedIsGone ==
    mode = "down" /\ exit = "ok" /\ file = "absent" => \A e \in Examples : infra[e] = "none"
=============================================================================
