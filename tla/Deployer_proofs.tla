--------------------------- MODULE Deployer_proofs ---------------------------
(***************************************************************************)
(* The deployment helper, for every set of services and every number of      *)
(* invocations and kills: a readable file of a running invocation holds what  *)
(* is in memory and says of every step how it ended, but for those it could   *)
(* not be opened for, which returned an error; the invocations together work  *)
(* on one record of statuses (StepRecord), no service pushes a tree that      *)
(* is being made, and, with one example to a steps file, what the record      *)
(* calls completed has been done and a destroy leaves nothing behind.        *)
(*                                                                          *)
(* Inductive invariants carry it.  RecordInv: one goroutine saves at a        *)
(* time, what it writes is what memory holds, and a step that is over has its *)
(* outcome in memory.  InUse: a step is worked on only as its status asks for. *)
(* TreeInv: services work only after the infrastructure, one of them at a     *)
(* time makes a shared tree, and only trees that were made to the end are     *)
(* copied.  RecordTruthful, on top of RecordInv: unless a destroy was left     *)
(* unfinished, file, memory and the bodies that succeeded say what is there.  *)
(* InfraKept, on top of RecordInv, InUse and the order of the stages: where    *)
(* there is infrastructure, the record makes a destroy look at it.           *)
(* InPlace says of every point of a running invocation where its goroutines   *)
(* can be: some step can always be taken.  What is ahead of them is counted    *)
(* in a finite set that each of their steps makes smaller.                   *)
(***************************************************************************)
EXTENDS Deployer, FiniteSetTheorems, TLAPS

-----------------------------------------------------------------------------
(* Types.                                                                   *)

\* The recorded names include the services and the infrastructure's steps, which
\* differ from each other.
LEMMA ServicesAreNames ==
    /\ Services \subseteq Names
    /\ InfraSteps \subseteq Names
    /\ "apply" \in InfraSteps /\ "copy-code" \in InfraSteps
    /\ \A s \in Services : s # "apply" /\ s # "copy-code"
    BY DeployerAssumption DEF Names, InfraSteps

\* The program starts in a state of the declared types.
LEMMA InitTypes == Init => TypeOK
<1> SUFFICES ASSUME Init PROVE TypeOK
    OBVIOUS
<1>1. /\ steps \in [Names -> Statuses]
      /\ saved \in [Names -> Statuses]
      /\ buffer \in [Names -> [Names -> Statuses]]
      /\ run \in [Names -> RunStates]
    BY DEF Init, NoSteps, NoRuns, Statuses, RunStates
<1>2. /\ dir \in [Examples -> Trees]
      /\ infra \in [Examples -> {"none", "partial", "up"}]
      /\ deployed \in [Examples -> SUBSET Services]
      /\ preparer \in [Examples -> {"self-contained", "cymbal-shop", "cymbal-bank"}]
      /\ clone \in Trees
      /\ patched \in Trees
      /\ pushed \in [Services -> Trees]
    BY DEF Init, Trees
<1> QED
    <2>1. /\ mode \in {"down", "deploy", "destroy", "reset"}
          /\ exit \in {"none", "ok", "failed", "unreadable", "killed"}
          /\ file \in {"absent", "torn", "whole"}
        BY DEF Init
    <2>2. runs \in 0..MaxRuns
        BY DeployerAssumption, SMT DEF Init
    <2>3. /\ example \in Examples
          /\ errs \subseteq Names /\ unsaved \subseteq Names
          /\ undoing \in BOOLEAN /\ treeCut \in BOOLEAN /\ applyLost \in BOOLEAN
        BY DeployerAssumption DEF Init
    <2> QED
        BY <1>1, <1>2, <2>1, <2>2, <2>3 DEF TypeOK

\* A goroutine that goes on is somewhere.
LEMMA GoesType ==
    ASSUME TypeOK, NEW n \in Names, NEW from, NEW to \in RunStates, Goes(n, from, to)
    PROVE  run' \in [Names -> RunStates]
    BY DEF TypeOK, Goes

\* An invocation begins with statuses that were read.
LEMMA StartTypes ==
    ASSUME TypeOK, NEW m \in {"deploy", "destroy", "reset"}, NEW e \in Examples,
           NEW first \in [Names -> RunStates], Start(m, e, first)
    PROVE  TypeOK'
<1>1. OnDisk \in [Names -> Statuses]
    BY DEF TypeOK, OnDisk, NoSteps, Statuses
<1> QED
    BY <1>1, DeployerAssumption DEF TypeOK, Start, infraVars, treeVars, historyVars

\* Every action of the helper keeps the types.
LEMMA StepTypes ==
    ASSUME TypeOK, [Next]_vars PROVE TypeOK'
<1>1. ASSUME NEW e \in Examples, StartDeploy(e) PROVE TypeOK'
    BY <1>1, StartTypes, ServicesAreNames DEF StartDeploy, NoRuns, RunStates
<1>2. ASSUME NEW e \in Examples, StartDestroy(e) PROVE TypeOK'
    BY <1>2, StartTypes, ServicesAreNames DEF StartDestroy, NoRuns, RunStates
<1>3. ASSUME NEW n \in Names, StartReset(n) PROVE TypeOK'
    BY <1>3, StartTypes, DeployerAssumption DEF StartReset, NoRuns, RunStates
<1>4. ASSUME Crash PROVE TypeOK'
    BY <1>4, ServicesAreNames, DeployerAssumption
       DEF TypeOK, Statuses, Trees, RunStates, procVars, fileVars, infraVars,
           treeVars, historyVars, Goes, Ends, NoSteps, Crash
<1>5. ASSUME NEW n \in Names, Skip(n) PROVE TypeOK'
    BY <1>5, ServicesAreNames, DeployerAssumption
       DEF TypeOK, Statuses, Trees, RunStates, procVars, fileVars, infraVars,
           treeVars, historyVars, Goes, Skip
<1>6. ASSUME NEW n \in Names, BodyBegins(n) PROVE TypeOK'
    <2>1. run' \in [Names -> RunStates]
        BY <1>6, ServicesAreNames DEF TypeOK, RunStates, Goes, BodyBegins
    <2>2. dir' \in [Examples -> Trees]
        BY <1>6, ServicesAreNames, DeployerAssumption
           DEF TypeOK, Trees, InfraSteps, Goes, BodyBegins
    <2>3. infra' \in [Examples -> {"none", "partial", "up"}]
        BY <1>6, ServicesAreNames, DeployerAssumption
           DEF TypeOK, Trees, InfraSteps, Goes, BodyBegins, Due
    <2>4. deployed' \in [Examples -> SUBSET Services] /\ undoing' \in BOOLEAN
        BY <1>6, ServicesAreNames, DeployerAssumption
           DEF TypeOK, Trees, InfraSteps, Goes, BodyBegins
    <2> QED
        BY <1>6, <2>1, <2>2, <2>3, <2>4
           DEF TypeOK, procVars, fileVars, infraVars, treeVars, historyVars,
               BodyBegins
<1>7. ASSUME NEW n \in Names, Record(n) PROVE TypeOK'
    BY <1>7, ServicesAreNames, DeployerAssumption
       DEF TypeOK, Statuses, Trees, RunStates, procVars, fileVars, infraVars,
           treeVars, historyVars, Goes, Outcome, Record
<1>8. ASSUME NEW n \in Names, Saved(n) PROVE TypeOK'
    BY <1>8, ServicesAreNames, DeployerAssumption
       DEF TypeOK, Statuses, Trees, RunStates, procVars, fileVars, infraVars,
           treeVars, historyVars, Goes, NoSteps, Saved
<1>9. ASSUME NEW n \in Names, SaveFails(n) PROVE TypeOK'
    BY <1>9, ServicesAreNames, DeployerAssumption
       DEF TypeOK, Statuses, Trees, RunStates, procVars, fileVars, infraVars,
           treeVars, historyVars, Goes, NoSteps, SaveFails
<1>10. ASSUME NEW s \in Services, ServiceBegins(s) PROVE TypeOK'
    <2>1. run' \in [Names -> RunStates]
        BY <1>10, ServicesAreNames DEF TypeOK, RunStates, Goes, ServiceBegins
    <2> QED
        BY <1>10, <2>1
           DEF TypeOK, procVars, fileVars, infraVars, treeVars, historyVars,
               ServiceBegins
<1>11. ASSUME NEW s \in Services, Prepare(s) PROVE TypeOK'
    <2>1. run' \in [Names -> RunStates]
        BY <1>11, ServicesAreNames DEF TypeOK, RunStates, Goes, Prepare
    <2>2. clone' \in Trees /\ patched' \in Trees
        BY <1>11, ServicesAreNames, DeployerAssumption
           DEF TypeOK, Trees, InfraSteps, Goes, Prepare
    <2> QED
        BY <1>11, <2>1, <2>2
           DEF TypeOK, procVars, fileVars, infraVars, treeVars, historyVars, Prepare
<1>12. ASSUME NEW s \in Services, CloneEnds(s) PROVE TypeOK'
    <2>1. run' \in [Names -> RunStates]
        BY <1>12, ServicesAreNames DEF TypeOK, RunStates, Goes, CloneEnds
    <2>2. clone' \in Trees /\ patched' \in Trees
        BY <1>12, ServicesAreNames, DeployerAssumption
           DEF TypeOK, Trees, InfraSteps, Goes, CloneEnds
    <2> QED
        BY <1>12, <2>1, <2>2
           DEF TypeOK, procVars, fileVars, infraVars, treeVars, historyVars,
               CloneEnds
<1>13. ASSUME NEW s \in Services, PatchEnds(s) PROVE TypeOK'
    <2>1. run' \in [Names -> RunStates]
        BY <1>13, ServicesAreNames DEF TypeOK, RunStates, Goes, PatchEnds
    <2>2. patched' \in Trees
        BY <1>13, ServicesAreNames, DeployerAssumption
           DEF TypeOK, Trees, InfraSteps, Goes, PatchEnds
    <2> QED
        BY <1>13, <2>1, <2>2
           DEF TypeOK, procVars, fileVars, infraVars, treeVars, historyVars,
               PatchEnds
<1>14. ASSUME NEW s \in Services, Push(s) PROVE TypeOK'
    <2>1. run' \in [Names -> RunStates]
        BY <1>14, ServicesAreNames DEF TypeOK, RunStates, Goes, Push
    <2>2. pushed' \in [Services -> Trees]
        BY <1>14, ServicesAreNames, DeployerAssumption
           DEF TypeOK, Trees, InfraSteps, Goes, Push, SourceTree, Preparer
    <2> QED
        BY <1>14, <2>1, <2>2
           DEF TypeOK, procVars, fileVars, infraVars, treeVars, historyVars, Push
<1>15. ASSUME NEW s \in Services, BuildEnds(s) PROVE TypeOK'
    <2>1. run' \in [Names -> RunStates]
        <3>1. \E to \in {"good", "bad"} : Goes(s, "build", to)
            BY <1>15 DEF BuildEnds
        <3> QED
            BY <3>1, GoesType, ServicesAreNames DEF RunStates
    <2>2. deployed' \in [Examples -> SUBSET Services]
        <3>1. \/ deployed' = [deployed EXCEPT ![example] = @ \cup {s}]
              \/ deployed' = deployed
            BY <1>15 DEF BuildEnds
        <3>2. deployed \in [Examples -> SUBSET Services] /\ example \in Examples
            BY DEF TypeOK
        <3> QED
            BY <3>1, <3>2
    <2>3. UNCHANGED <<procVars, steps, fileVars, errs, dir, infra, treeVars, historyVars>>
        BY <1>15 DEF BuildEnds
    <2> QED
        BY <2>1, <2>2, <2>3 DEF TypeOK, procVars, fileVars, treeVars, historyVars
<1>16. ASSUME CopyEnds PROVE TypeOK'
    <2>1. run' \in [Names -> RunStates]
        <3>1. \E to \in {"good", "bad"} : Goes("copy-code", "body", to)
            BY <1>16 DEF CopyEnds
        <3> QED
            BY <3>1, GoesType, ServicesAreNames DEF RunStates
    <2>2. dir' \in [Examples -> Trees]
        BY <1>16, ServicesAreNames, DeployerAssumption
           DEF TypeOK, Trees, InfraSteps, Goes, CopyEnds
    <2>3. UNCHANGED <<procVars, steps, fileVars, errs, infra, deployed, treeVars, historyVars>>
        BY <1>16 DEF CopyEnds
    <2> QED
        BY <2>1, <2>2, <2>3 DEF TypeOK, procVars, fileVars, treeVars, historyVars
<1>17. ASSUME TerraformEnds PROVE TypeOK'
    <2>1. run' \in [Names -> RunStates]
        <3>1. \E to \in {"good", "bad"} : Goes("apply", "body", to)
            BY <1>17 DEF TerraformEnds
        <3> QED
            BY <3>1, GoesType, ServicesAreNames DEF RunStates
    <2>2. infra' \in [Examples -> {"none", "partial", "up"}]
        BY <1>17, ServicesAreNames, DeployerAssumption
           DEF TypeOK, Trees, InfraSteps, Goes, TerraformEnds
    <2>3. UNCHANGED <<procVars, steps, fileVars, errs, dir, deployed, treeVars, historyVars>>
        BY <1>17 DEF TerraformEnds
    <2> QED
        BY <2>1, <2>2, <2>3 DEF TypeOK, procVars, fileVars, treeVars, historyVars
<1>18. ASSUME DeployEnds PROVE TypeOK'
    BY <1>18, ServicesAreNames, DeployerAssumption
       DEF TypeOK, Statuses, Trees, RunStates, procVars, fileVars, infraVars,
           treeVars, historyVars, Goes, Ends, NoSteps, DeployEnds
<1>19. ASSUME DestroyEnds PROVE TypeOK'
    <2>1. buffer' \in [Names -> [Names -> Statuses]]
        BY <1>19, ServicesAreNames DEF NoSteps, Statuses, Ends, DestroyEnds
    <2>2. /\ file' \in {"absent", "torn", "whole"}
          /\ undoing' \in BOOLEAN /\ treeCut' \in BOOLEAN /\ applyLost' \in BOOLEAN
        BY <1>19 DEF TypeOK, historyVars, DestroyEnds
    <2>3. mode' = "down" /\ exit' \in {"ok", "failed"} /\ UNCHANGED <<example, runs, steps, unsaved, run, errs>>
        BY <1>19 DEF Ends, DestroyEnds
    <2>4. UNCHANGED <<saved, infraVars, treeVars>>
        BY <1>19 DEF DestroyEnds
    <2> QED
        BY <2>1, <2>2, <2>3, <2>4 DEF TypeOK, infraVars, treeVars
<1>20. ASSUME ResetEnds PROVE TypeOK'
    BY <1>20, ServicesAreNames, DeployerAssumption
       DEF TypeOK, Statuses, Trees, RunStates, procVars, fileVars, infraVars,
           treeVars, historyVars, Goes, Ends, NoSteps, ResetEnds
<1>21. CASE UNCHANGED vars
    BY <1>21 DEF TypeOK, vars, procVars, fileVars, infraVars, treeVars, historyVars
<1>22. ASSUME NEW n \in Names, RecordFails(n) PROVE TypeOK'
    BY <1>22 DEF TypeOK, Statuses, RunStates, procVars, infraVars, treeVars, Outcome,
                 RecordFails
<1> QED
    BY <1>1, <1>2, <1>3, <1>4, <1>5, <1>6, <1>7, <1>8, <1>9, <1>10, <1>11, <1>12,
       <1>13, <1>14, <1>15, <1>16, <1>17, <1>18, <1>19, <1>20, <1>21, <1>22
       DEF Next, Starts, Works, StepOf, ServiceStep

\* Every variable of the helper keeps its type, in every invocation (TypeOK).
THEOREM DeployerTypes == Spec => []TypeOK
<1> QED
    BY InitTypes, StepTypes, PTL DEF Spec

-----------------------------------------------------------------------------
(* The record.                                                              *)

\* The body of a step is going on.
Busy == {"body", "prepare", "clone", "patch", "push", "build"}

\* A step goes on without touching the record: it is skipped, or due and not
\* skipped, or was busy.
Quiet(n, to) ==
    /\ mode # "down"
    /\ run' = [run EXCEPT ![n] = to]
    /\ \/ to = "over" /\ run[n] = "idle" /\ Due(n) /\ Skipped(n)
       \/ to \in Busy \cup {"good", "bad"} /\ run[n] = "idle" /\ Due(n) /\ ~Skipped(n)
       \/ to \in Busy \cup {"good", "bad"} /\ run[n] \in Busy
    /\ UNCHANGED <<procVars, steps, fileVars, errs>>

\* An invocation begins with what can be read from the file.
Started ==
    /\ mode = "down"
    /\ mode' \in {"deploy", "destroy", "reset"}
    /\ file # "torn"
    /\ steps' = OnDisk
    /\ unsaved' = {}
    /\ errs' = {}
    /\ \A n \in Names : run'[n] \in {"idle", "good"}
    /\ mode' # "reset" => run' = NoRuns
    /\ UNCHANGED <<file, saved, buffer>>

\* It ends at once if the file cannot be read.
Refused ==
    /\ mode = "down" /\ mode' = "down"
    /\ UNCHANGED <<file, saved>>

\* It ends or is killed, and the file stays as it is.
Stopped ==
    /\ mode # "down" /\ mode' = "down"
    /\ UNCHANGED <<file, saved>>

\* A destroy that came to its end deletes the file.
Cleared ==
    /\ mode = "destroy" /\ mode' = "down"
    /\ run["apply"] = "over"
    /\ errs = {}
    /\ file' = "absent"

\* What a step of the helper may do to the record.
Recorded ==
    \/ Started \/ Refused \/ Stopped \/ Cleared
    \/ \E n \in Names : Record(n) \/ RecordFails(n) \/ Saved(n) \/ SaveFails(n)
    \/ \E n \in Names, to \in RunStates : Quiet(n, to)
    \/ UNCHANGED vars

\* A body that goes from one point to the next is a quiet step.
LEMMA WorkIsQuiet ==
    ASSUME TypeOK, mode # "down", NEW n \in Names, NEW to \in Busy \cup {"good", "bad"},
           NEW from \in Busy \cup {"idle"}, Goes(n, from, to),
           from = "idle" => Due(n) /\ ~Skipped(n),
           UNCHANGED <<procVars, steps, fileVars, errs>>
    PROVE  Recorded
<1>1. Quiet(n, to)
    BY DEF Quiet, Goes
<1>2. to \in RunStates
    BY DEF Busy, RunStates
<1> QED
    BY <1>1, <1>2 DEF Recorded

\* What StartDeploy, StartDestroy and StartReset do to the record.
LEMMA StartsRecorded == ASSUME TypeOK, Starts PROVE Recorded
<1>1. ASSUME NEW m \in {"deploy", "destroy"}, NEW e, Start(m, e, NoRuns) PROVE Recorded
    <2>1. CASE mode' = "down"
        BY <1>1, <2>1 DEF Start, Refused, Recorded
    <2>2. CASE mode' # "down"
        BY <1>1, <2>2 DEF Start, Started, Recorded, NoRuns
    <2> QED
        BY <2>1, <2>2
<1>2. ASSUME NEW n \in Names, StartReset(n) PROVE Recorded
    <2>1. CASE mode' = "down"
        BY <1>2, <2>1 DEF StartReset, Start, Refused, Recorded
    <2>2. CASE mode' # "down"
        <3>1. \A k \in Names : [NoRuns EXCEPT ![n] = "good"][k] \in {"idle", "good"}
            BY DEF NoRuns
        <3> QED
            BY <1>2, <2>2, <3>1 DEF StartReset, Start, Started, Recorded
    <2> QED
        BY <2>1, <2>2
<1> QED
    BY <1>1, <1>2 DEF Starts, StartDeploy, StartDestroy

\* Every action of the helper is one of these.
LEMMA StepIsRecorded ==
    ASSUME TypeOK, [Next]_vars PROVE Recorded
<1>1. ASSUME NEW e \in Examples, StartDeploy(e) PROVE Recorded
    BY <1>1, StartsRecorded DEF Starts
<1>2. ASSUME NEW e \in Examples, StartDestroy(e) PROVE Recorded
    BY <1>2, StartsRecorded DEF Starts
<1>3. ASSUME NEW n \in Names, StartReset(n) PROVE Recorded
    BY <1>3, StartsRecorded DEF Starts
<1>4. ASSUME Crash PROVE Recorded
    BY <1>4, SMT DEF Recorded, Stopped, Ends, Crash
<1>5. ASSUME NEW n \in Names, Skip(n) PROVE Recorded
    <2>1. Quiet(n, "over") /\ "over" \in RunStates
        BY <1>5 DEF Skip, Due, Goes, Quiet, RunStates
    <2> QED
        BY <2>1 DEF Recorded
<1>6. ASSUME NEW n \in Names, BodyBegins(n) PROVE Recorded
    <2>1. Goes(n, "idle", "body") /\ UNCHANGED <<procVars, steps, fileVars, errs>>
        BY <1>6 DEF BodyBegins
    <2>2. Due(n) /\ ~Skipped(n) /\ mode # "down"
        BY <1>6 DEF BodyBegins, Due
    <2> QED
        BY <2>1, <2>2, WorkIsQuiet DEF Busy
<1>7. ASSUME NEW n \in Names, Record(n) PROVE Recorded
    BY <1>7, SMT DEF Recorded
<1>8. ASSUME NEW n \in Names, Saved(n) PROVE Recorded
    BY <1>8, SMT DEF Recorded
<1>9. ASSUME NEW n \in Names, SaveFails(n) PROVE Recorded
    BY <1>9, SMT DEF Recorded
<1>10. ASSUME NEW s \in Services, ServiceBegins(s) PROVE Recorded
    <2>1. /\ Due(s) /\ ~Skipped(s) /\ mode # "down"
          /\ \E to \in {"prepare", "bad"} : Goes(s, "idle", to)
          /\ UNCHANGED <<procVars, steps, fileVars, errs>>
        BY <1>10 DEF ServiceBegins, Due
    <2> QED
        BY <2>1, WorkIsQuiet, ServicesAreNames DEF Busy
<1>11. ASSUME NEW s \in Services, Prepare(s) PROVE Recorded
    <2>1. /\ mode # "down"
          /\ \E to \in {"clone", "patch", "push"} : Goes(s, "prepare", to)
          /\ UNCHANGED <<procVars, steps, fileVars, errs>>
        BY <1>11 DEF Prepare
    <2> QED
        BY <2>1, WorkIsQuiet, ServicesAreNames DEF Busy
<1>12. ASSUME NEW s \in Services, CloneEnds(s) PROVE Recorded
    <2>1. /\ mode # "down"
          /\ \E to \in {"patch", "push", "bad"} : Goes(s, "clone", to)
          /\ UNCHANGED <<procVars, steps, fileVars, errs>>
        BY <1>12 DEF CloneEnds
    <2> QED
        BY <2>1, WorkIsQuiet, ServicesAreNames DEF Busy
<1>13. ASSUME NEW s \in Services, PatchEnds(s) PROVE Recorded
    <2>1. /\ mode # "down"
          /\ \E to \in {"push", "bad"} : Goes(s, "patch", to)
          /\ UNCHANGED <<procVars, steps, fileVars, errs>>
        BY <1>13 DEF PatchEnds
    <2> QED
        BY <2>1, WorkIsQuiet, ServicesAreNames DEF Busy
<1>14. ASSUME NEW s \in Services, Push(s) PROVE Recorded
    <2>1. /\ mode # "down"
          /\ \E to \in {"build", "bad"} : Goes(s, "push", to)
          /\ UNCHANGED <<procVars, steps, fileVars, errs>>
        BY <1>14 DEF Push
    <2> QED
        BY <2>1, WorkIsQuiet, ServicesAreNames DEF Busy
<1>15. ASSUME NEW s \in Services, BuildEnds(s) PROVE Recorded
    <2>1. /\ mode # "down"
          /\ \E to \in {"good", "bad"} : Goes(s, "build", to)
          /\ UNCHANGED <<procVars, steps, fileVars, errs>>
        BY <1>15 DEF BuildEnds
    <2> QED
        BY <2>1, WorkIsQuiet, ServicesAreNames DEF Busy
<1>16. ASSUME CopyEnds PROVE Recorded
    <2>1. /\ mode # "down"
          /\ \E to \in {"good", "bad"} : Goes("copy-code", "body", to)
          /\ UNCHANGED <<procVars, steps, fileVars, errs>>
        BY <1>16 DEF CopyEnds
    <2> QED
        BY <2>1, WorkIsQuiet, ServicesAreNames DEF Busy
<1>17. ASSUME TerraformEnds PROVE Recorded
    <2>1. /\ mode # "down"
          /\ \E to \in {"good", "bad"} : Goes("apply", "body", to)
          /\ UNCHANGED <<procVars, steps, fileVars, errs>>
        BY <1>17 DEF TerraformEnds
    <2> QED
        BY <2>1, WorkIsQuiet, ServicesAreNames DEF Busy
<1>18. ASSUME DeployEnds PROVE Recorded
    BY <1>18, SMT DEF Recorded, Stopped, Ends, DeployEnds
<1>19. ASSUME DestroyEnds PROVE Recorded
    BY <1>19, SMT DEF Recorded, Stopped, Cleared, Ends, DestroyEnds
<1>20. ASSUME ResetEnds PROVE Recorded
    BY <1>20, SMT DEF Recorded, Stopped, Ends, ResetEnds
<1>21. CASE UNCHANGED vars
    BY <1>21 DEF Recorded
<1>22. ASSUME NEW n \in Names, RecordFails(n) PROVE Recorded
    BY <1>22, SMT DEF Recorded
<1> QED
    BY <1>1, <1>2, <1>3, <1>4, <1>5, <1>6, <1>7, <1>8, <1>9, <1>10, <1>11, <1>12,
       <1>13, <1>14, <1>15, <1>16, <1>17, <1>18, <1>19, <1>20, <1>21, <1>22
       DEF Next, Starts, Works, StepOf, ServiceStep

\* One goroutine at a time is between the change in memory and the end of the
\* save, and what it has marshalled is what memory still holds.  What can be read
\* from the file is memory, but for the steps it could not be opened for.
OneSaves ==
    mode # "down" =>
        /\ \A n, m \in Names : run[n] = "saving" /\ run[m] = "saving" => n = m
        /\ \A n \in Names : run[n] = "saving" => buffer[n] = steps /\ file = "torn"
        /\ file # "torn" => \A n \in Names \ unsaved : OnDisk[n] = steps[n]
        /\ unsaved \subseteq errs

\* In a deploy, a step that is over without an error is recorded as completed
\* in memory, one with an error is over, or about to be, and recorded as failed, or
\* as completed when only the file could not be written.
OutcomeKnown ==
    mode = "deploy" =>
        /\ \A n \in Names : run[n] \in {"saving", "over"} /\ n \notin errs => steps[n] = "COMPLETED"
        /\ \A n \in errs : run[n] \in {"saving", "over"} /\ steps[n] \in {"FAILED", "COMPLETED"}

\* The invariant of the record.
RecordInv == OneSaves /\ OutcomeKnown

\* Each of them keeps the record's invariant.
LEMMA StepRecordInv == ASSUME TypeOK, Recorded, RecordInv PROVE RecordInv'
<1>1. CASE Started
    <2>1. OneSaves'
        BY <1>1 DEF Started, OneSaves, OnDisk
    <2>2. OutcomeKnown'
        BY <1>1 DEF Started, OutcomeKnown, NoRuns
    <2> QED
        BY <2>1, <2>2 DEF RecordInv
<1>2. CASE Refused \/ Stopped \/ Cleared
    BY <1>2 DEF Refused, Stopped, Cleared, RecordInv, OneSaves, OutcomeKnown
<1>3. ASSUME NEW n \in Names, Record(n) PROVE RecordInv'
    <2>1. /\ mode # "down" /\ mode' = mode
          /\ \A m \in Names : run'[m] = IF m = n THEN "saving" ELSE run[m]
          /\ \A m \in Names : run[m] # "saving"
          /\ \A m \in Names : steps'[m] = IF m = n THEN Outcome(n) ELSE steps[m]
          /\ buffer'[n] = steps'
          /\ file' = "torn"
          /\ errs' = IF run[n] = "bad" THEN errs \cup {n} ELSE errs
          /\ run[n] \in {"good", "bad"}
          /\ unsaved' = unsaved
        BY <1>3 DEF Record, LockFree, TypeOK, procVars
    <2>2. OneSaves'
        BY <2>1 DEF OneSaves, RecordInv
    <2>3. OutcomeKnown'
        BY <2>1 DEF OutcomeKnown, RecordInv, Outcome, TypeOK
    <2> QED
        BY <2>2, <2>3 DEF RecordInv
<1>4. ASSUME NEW n \in Names, Saved(n) PROVE RecordInv'
    <2>1. /\ mode # "down" /\ mode' = mode
          /\ run[n] = "saving"
          /\ \A m \in Names : m # n => run[m] # "saving"
          /\ UNCHANGED <<steps, errs>>
          /\ file' = "whole" /\ saved' = steps /\ unsaved' = {}
        BY <1>4 DEF Saved, RecordInv, OneSaves, procVars
    <2>2. \A m \in Names : \/ m = n /\ run'[m] = "over"
                           \/ mode # "deploy" /\ run'[m] = "good"
                           \/ m # n /\ run'[m] = run[m]
        BY <1>4 DEF Saved
    <2>3. OneSaves'
        BY <2>1, <2>2 DEF OneSaves, OnDisk
    <2>4. OutcomeKnown'
        BY <2>1, <2>2 DEF OutcomeKnown, RecordInv, TypeOK
    <2> QED
        BY <2>3, <2>4 DEF RecordInv
<1>5. ASSUME NEW n \in Names, SaveFails(n) PROVE RecordInv'
    <2>1. /\ mode # "down" /\ mode' = mode
          /\ run[n] = "saving"
          /\ \A m \in Names : run'[m] = IF m = n THEN "over" ELSE run[m]
          /\ \A m \in Names : m # n => buffer'[m] = buffer[m]
          /\ UNCHANGED <<steps, file, saved, unsaved>>
          /\ errs' = errs \cup {n}
        BY <1>5 DEF SaveFails, Goes, TypeOK, procVars
    <2>2. OneSaves'
        BY <2>1 DEF RecordInv, OneSaves, OnDisk
    <2>3. OutcomeKnown'
        BY <2>1 DEF OutcomeKnown, RecordInv, TypeOK
    <2> QED
        BY <2>2, <2>3 DEF RecordInv
<1>6. ASSUME NEW n \in Names, NEW to \in RunStates, Quiet(n, to) PROVE RecordInv'
    <2>1. /\ UNCHANGED <<mode, steps, file, saved, buffer, unsaved, errs>>
          /\ to # "saving" /\ run[n] \notin {"saving", "over"}
          /\ \A m \in Names : run'[m] = IF m = n THEN to ELSE run[m]
          /\ to = "over" => Skipped(n)
        BY <1>6 DEF Quiet, Busy, TypeOK, procVars, fileVars
    <2>2. OneSaves'
        BY <2>1 DEF RecordInv, OneSaves, OnDisk
    <2>3. OutcomeKnown'
        BY <2>1 DEF OutcomeKnown, RecordInv, Skipped, TypeOK
    <2> QED
        BY <2>2, <2>3 DEF RecordInv
<1>7. CASE UNCHANGED vars
    BY <1>7 DEF RecordInv, OneSaves, OnDisk, OutcomeKnown, vars, procVars, fileVars
<1>8. ASSUME NEW n \in Names, RecordFails(n) PROVE RecordInv'
    <2>1. /\ mode # "down" /\ mode' = mode
          /\ run[n] \in {"good", "bad"}
          /\ \A m \in Names : run'[m] = IF m = n THEN "over" ELSE run[m]
          /\ \A m \in Names : run[m] # "saving"
          /\ \A m \in Names : steps'[m] = IF m = n THEN Outcome(n) ELSE steps[m]
          /\ UNCHANGED <<file, saved>>
          /\ errs' = errs \cup {n} /\ unsaved' = unsaved \cup {n}
        BY <1>8 DEF RecordFails, LockFree, TypeOK, procVars
    <2>2. OneSaves'
        BY <2>1 DEF RecordInv, OneSaves, OnDisk
    <2>3. OutcomeKnown'
        BY <2>1 DEF OutcomeKnown, RecordInv, Outcome, TypeOK
    <2> QED
        BY <2>2, <2>3 DEF RecordInv
<1> QED
    BY <1>1, <1>2, <1>3, <1>4, <1>5, <1>6, <1>7, <1>8 DEF Recorded

\* The record's invariant with the types it rests on.
RecordedInv == TypeOK /\ RecordInv

\* The empty record of the first invocation.
LEMMA InitRecorded == Init => RecordedInv
    BY InitTypes DEF Init, RecordedInv, RecordInv, OneSaves, OutcomeKnown

\* The types and the record's invariant are inductive.
LEMMA StepRecorded == RecordedInv /\ [Next]_vars => RecordedInv'
    BY StepTypes, StepIsRecorded, StepRecordInv DEF RecordedInv

\* They hold in every state.
LEMMA AlwaysRecorded == Spec => []RecordedInv
    BY InitRecorded, StepRecorded, PTL DEF Spec

\* No update is lost silently among the goroutines of the services: whoever reads
\* the file of a running invocation reads what is in its memory, but for steps
\* the file could not be opened for and that returned an error (FileIsMemory).
THEOREM FileHoldsMemory == Spec => []FileIsMemory
<1>1. RecordedInv => FileIsMemory
    BY DEF RecordedInv, RecordInv, OneSaves, FileIsMemory
<1> QED
    BY <1>1, AlwaysRecorded, PTL

\* When a deploy ends with a file that can be read, also one that could not be
\* opened for some of the steps, it says of the others whether they failed or are
\* over, and of those that returned no error that they are (OutcomesAreRecorded).
THEOREM NoOutcomeLost == Spec => OutcomesAreRecorded
<1> DEFINE EndStep ==
        DeployEnds /\ file # "torn" =>
            /\ \A n \in errs \ unsaved : OnDisk[n] \in {"FAILED", "COMPLETED"}
            /\ \A n \in Names : Returned(n) => OnDisk[n] = "COMPLETED"
<1>1. RecordedInv /\ [Next]_vars => [EndStep]_vars
    BY DEF RecordedInv, TypeOK, RecordInv, OneSaves, OutcomeKnown, DeployEnds, Returned
<1> QED
    BY <1>1, AlwaysRecorded, PTL DEF Spec, OutcomesAreRecorded

-----------------------------------------------------------------------------
(* The record that goes from invocation to invocation.                      *)

\* A deploy works on what is not completed, a destroy on the apply that is still
\* to be undone.
InUse ==
    /\ mode = "deploy" =>
         \A n \in Names : run[n] \in Busy \cup {"good", "bad"} => steps[n] # "COMPLETED"
    /\ mode = "destroy" =>
         /\ \A n \in Names : n # "apply" => run[n] = "idle"
         /\ run["apply"] \in Busy \cup {"good", "bad"} => steps["apply"] \notin {"none", "DESTROYED"}
         /\ run["apply"] \in {"saving", "over"} /\ "apply" \notin errs =>
              steps["apply"] \in {"none", "DESTROYED"}

\* Nothing is in use before the first invocation.
LEMMA InitInUse == Init => InUse
    BY DEF Init, InUse

\* Each step of the record keeps to that.
LEMMA StepInUse == ASSUME TypeOK, Recorded, InUse PROVE InUse'
<1> USE ServicesAreNames
<1>1. CASE Started
    <2>1. mode' # "reset" => \A n \in Names : run'[n] = "idle"
        BY <1>1 DEF Started, NoRuns
    <2>2. mode' \in {"deploy", "destroy", "reset"}
        BY <1>1 DEF Started
    <2> QED
        BY <2>1, <2>2 DEF InUse, Busy
<1>2. CASE Refused \/ Stopped \/ Cleared
    BY <1>2 DEF Refused, Stopped, Cleared, InUse
<1>3. ASSUME NEW n \in Names, Record(n) PROVE InUse'
    <2>1. /\ mode' = mode
          /\ \A m \in Names : run'[m] = IF m = n THEN "saving" ELSE run[m]
          /\ \A m \in Names : steps'[m] = IF m = n THEN Outcome(n) ELSE steps[m]
          /\ errs' = IF run[n] = "bad" THEN errs \cup {n} ELSE errs
          /\ run[n] \in {"good", "bad"}
        BY <1>3 DEF Record, TypeOK, procVars
    <2>2. mode = "destroy" /\ run[n] = "good" => Outcome(n) = "DESTROYED"
        BY DEF Outcome
    <2> QED
        BY <2>1, <2>2 DEF InUse, Busy
<1>4. ASSUME NEW n \in Names, Saved(n) PROVE InUse'
    <2>1. /\ mode' = mode
          /\ run[n] = "saving"
          /\ UNCHANGED <<steps, errs>>
          /\ mode # "reset" => \A m \in Names : run'[m] = IF m = n THEN "over" ELSE run[m]
        BY <1>4 DEF Saved, procVars
    <2> QED
        BY <2>1 DEF InUse, Busy
<1>5. ASSUME NEW n \in Names, SaveFails(n) PROVE InUse'
    <2>1. /\ mode' = mode
          /\ run[n] = "saving"
          /\ UNCHANGED steps
          /\ errs' = errs \cup {n}
          /\ \A m \in Names : run'[m] = IF m = n THEN "over" ELSE run[m]
        BY <1>5 DEF SaveFails, Goes, TypeOK, procVars
    <2> QED
        BY <2>1 DEF InUse, Busy
<1>6. ASSUME NEW n \in Names, NEW to \in RunStates, Quiet(n, to) PROVE InUse'
    <2>1. /\ UNCHANGED <<mode, steps, errs>>
          /\ \A m \in Names : run'[m] = IF m = n THEN to ELSE run[m]
        BY <1>6 DEF Quiet, TypeOK, procVars
    <2>2. mode = "destroy" => n = "apply"
        <3>1. Due(n) \/ run[n] \in Busy
            BY <1>6 DEF Quiet
        <3> QED
            BY <3>1 DEF Due, InUse, Busy
    <2>3. \/ to = "over" /\ Skipped(n)
          \/ to \in Busy \cup {"good", "bad"} /\ (~Skipped(n) \/ run[n] \in Busy)
        BY <1>6 DEF Quiet
    <2> QED
        BY <2>1, <2>2, <2>3 DEF InUse, Busy, Skipped
<1>7. CASE UNCHANGED vars
    BY <1>7 DEF InUse, vars, procVars
<1>8. ASSUME NEW n \in Names, RecordFails(n) PROVE InUse'
    <2>1. /\ mode' = mode
          /\ run[n] \in {"good", "bad"}
          /\ \A m \in Names : run'[m] = IF m = n THEN "over" ELSE run[m]
          /\ \A m \in Names : m # n => steps'[m] = steps[m]
          /\ errs' = errs \cup {n}
        BY <1>8 DEF RecordFails, TypeOK, procVars
    <2> QED
        BY <2>1 DEF InUse, Busy
<1> QED
    BY <1>1, <1>2, <1>3, <1>4, <1>5, <1>6, <1>7, <1>8 DEF Recorded

\* The record's invariant with what is in use.
UsedInv == RecordedInv /\ InUse

\* They are inductive.
LEMMA StepUsed == UsedInv /\ [Next]_vars => UsedInv'
    BY StepRecorded, StepIsRecorded, StepInUse DEF UsedInv, RecordedInv

\* They hold in every state.
LEMMA AlwaysUsed == Spec => []UsedInv
    BY InitRecorded, InitInUse, StepUsed, PTL DEF Spec, UsedInv

\* What the steps are taken to be, what the next invocation will find, and whether
\* it can read it.
Remembered == IF mode # "down" THEN steps ELSE OnDisk
Kept == IF mode # "down" /\ file = "torn" THEN steps ELSE OnDisk
Unreadable == mode = "down" /\ file = "torn"

\* What a step of the register may be.
RegisterStep == [Register!Next]_<<Remembered, Kept, Unreadable>>

\* An outcome enters the register when it enters the memory, under the lock, and
\* it is kept when the file could be opened for it.
LEMMA RecordUpdates ==
    ASSUME TypeOK, InUse, NEW n \in Names, Record(n) \/ RecordFails(n) PROVE RegisterStep
<1>1. /\ mode # "down" /\ mode' = mode
      /\ run[n] \in {"good", "bad"}
      /\ steps' = [steps EXCEPT ![n] = Outcome(n)]
      /\ file' = "torn" \/ UNCHANGED <<file, saved>>
    BY DEF Record, RecordFails, procVars
<1>2. Outcome(n) \in {"COMPLETED", "DESTROYED", "FAILED", "PENDING"}
    BY <1>1 DEF Outcome, TypeOK
<1>3. Outcome(n) = "COMPLETED" => steps[n] # "COMPLETED"
    BY <1>1 DEF Outcome, InUse, TypeOK
<1>4. Outcome(n) = "DESTROYED" => steps[n] \notin {"none", "DESTROYED"}
    BY <1>1 DEF Outcome, InUse, TypeOK
<1>5. Kept' \in {Remembered', Kept}
    BY <1>1 DEF Kept, Remembered, OnDisk
<1>6. /\ Remembered' = [Remembered EXCEPT ![n] = Outcome(n)]
      /\ Remembered = steps
      /\ ~Unreadable /\ Unreadable' = Unreadable
    BY <1>1 DEF Remembered, Unreadable
<1>7. Register!Update(n, Outcome(n))
    BY <1>3, <1>4, <1>5, <1>6 DEF Register!Update, Remembered, Kept, Unreadable
<1> QED
    BY <1>2, <1>7 DEF RegisterStep, Register!Next

\* Every other step leaves it, forgets what was not kept, clears it when all is
\* undone, or ends the invocation in the middle of a save.
LEMMA StepRegister ==
    ASSUME RecordedInv, InUse, Recorded PROVE RegisterStep
<1>1. CASE Started
    <2>1. UNCHANGED <<Remembered, Kept, Unreadable>>
        BY <1>1 DEF Started, Remembered, Kept, Unreadable, OnDisk
    <2> QED
        BY <2>1 DEF RegisterStep
<1>2. CASE Refused
    BY <1>2 DEF Refused, RegisterStep, Remembered, Kept, Unreadable, OnDisk
<1>3. CASE Stopped
    <2>1. CASE file = "torn"
        BY <1>3, <2>1 DEF Stopped, RegisterStep, OnDisk, NoSteps,
                          Register!Next, Register!Break, Register!Empty
    <2>2. CASE file # "torn"
        <3>1. Register!Forget
            BY <1>3, <2>2 DEF Stopped, OnDisk, Register!Forget
        <3> QED
            BY <3>1 DEF RegisterStep, Register!Next
    <2> QED
        BY <2>1, <2>2
<1>4. CASE Cleared
    <2>1. steps["apply"] \in {"none", "DESTROYED"}
        BY <1>4 DEF Cleared, InUse
    <2> QED
        BY <1>4, <2>1 DEF Cleared, RegisterStep, OnDisk, NoSteps,
                          Register!Next, Register!Clear, Register!Empty
<1>5. ASSUME NEW n \in Names, Record(n) \/ RecordFails(n) PROVE RegisterStep
    BY <1>5, RecordUpdates DEF RecordedInv
<1>6. ASSUME NEW n \in Names, Saved(n) PROVE RegisterStep
    <2>1. /\ mode # "down" /\ mode' = mode
          /\ file = "torn" /\ file' = "whole"
          /\ steps' = steps /\ saved' = steps
        BY <1>6 DEF Saved, procVars, RecordedInv, RecordInv, OneSaves
    <2> QED
        BY <2>1 DEF RegisterStep, Remembered, Kept, Unreadable, OnDisk
<1>7. ASSUME NEW n \in Names, SaveFails(n) PROVE RegisterStep
    BY <1>7 DEF SaveFails, procVars, RegisterStep, Remembered, Kept, Unreadable, OnDisk
<1>8. ASSUME NEW n \in Names, NEW to \in RunStates, Quiet(n, to) PROVE RegisterStep
    BY <1>8 DEF Quiet, procVars, fileVars, RegisterStep, Remembered, Kept, Unreadable, OnDisk
<1>9. CASE UNCHANGED vars
    BY <1>9 DEF vars, procVars, fileVars, RegisterStep, Remembered, Kept, Unreadable, OnDisk
<1> QED
    BY <1>1, <1>2, <1>3, <1>4, <1>5, <1>6, <1>7, <1>8, <1>9 DEF Recorded

\* Whatever the goroutines, the failed saves and the kills do, the invocations
\* together work on one record that changes one status at a time: completed steps
\* are not completed again, only what was recorded is destroyed, and it is cleared
\* only when nothing is left to undo.  The next invocation finds it as it was
\* after one of its updates, the last one whose save went well, or nothing it can
\* read when the file was opened and the save cut short (IsOneRecord).
THEOREM ImplementsOneRecord == Spec => IsOneRecord
<1>1. Init => Register!Init
    BY DEF Init, OnDisk, Register!Init, Register!Empty, NoSteps
<1>2. UsedInv /\ [Next]_vars => RegisterStep
    BY StepIsRecorded, StepRegister DEF UsedInv, RecordedInv
<1> QED
    BY <1>1, <1>2, AlwaysUsed, PTL
       DEF Spec, IsOneRecord, Register!Spec, RegisterStep, Remembered, Kept, Unreadable

-----------------------------------------------------------------------------
(* The shared source trees.                                                 *)

\* The service makes one of the cached trees.
MakesTree(s) == run[s] \in {"clone", "patch"}

\* A service works only in a deploy, after the infrastructure stage.
StagesInTurn ==
    /\ mode \in {"destroy", "reset"} =>
         \A s \in Services : run[s] \in {"idle", "good", "saving", "over"}
    /\ mode = "deploy" =>
         /\ run["apply"] # "idle" => Returned("copy-code")
         /\ \A s \in Services : run[s] # "idle" => Returned("apply") /\ Returned("copy-code")

\* One service at a time makes a tree, which is partial while it does.
OneMakes ==
    mode = "deploy" =>
        /\ \A s, t \in Services : MakesTree(s) /\ MakesTree(t) => s = t
        /\ \A s \in Services :
             /\ run[s] = "clone" => clone = "partial" /\ (Preparer = "cymbal-shop" \/ NeedsPatch)
             /\ run[s] = "patch" => patched = "partial" /\ Preparer = "cymbal-bank"

\* Unless a kill cut a tree short, a partial tree has a maker, and what a
\* service is about to copy from is whole.
TreesWhole ==
    ~treeCut =>
        /\ clone = "partial" => mode = "deploy" /\ \E s \in Services : run[s] = "clone"
        /\ patched = "partial" => mode = "deploy" /\ \E s \in Services : run[s] = "patch"
        /\ mode = "deploy" =>
             \A s \in Services :
                /\ run[s] = "patch" => clone = "whole"
                /\ run[s] = "push" => SourceTree = "whole"
        /\ \A s \in Services : pushed[s] # "partial"

\* The invariant of the trees.
TreeInv == StagesInTurn /\ OneMakes /\ TreesWhole

\* Where the goroutines are.
LEMMA RunType == TypeOK => run \in [Names -> RunStates]
    BY DEF TypeOK

\* What the repositories of the services hold.
LEMMA PushedType == TypeOK => pushed \in [Services -> Trees]
    BY DEF TypeOK

\* The stages follow one another in every action.
LEMMA StepStages ==
    ASSUME TypeOK, StagesInTurn, [Next]_vars PROVE StagesInTurn'
<1>1. ASSUME NEW e \in Examples, StartDeploy(e) PROVE StagesInTurn'
    BY <1>1, ServicesAreNames DEF StagesInTurn, Start, NoRuns, StartDeploy
<1>2. ASSUME NEW e \in Examples, StartDestroy(e) PROVE StagesInTurn'
    BY <1>2, ServicesAreNames DEF StagesInTurn, Start, NoRuns, StartDestroy
<1>3. ASSUME NEW n \in Names, StartReset(n) PROVE StagesInTurn'
    BY <1>3, ServicesAreNames DEF StagesInTurn, Start, NoRuns, StartReset
<1>4. ASSUME Crash PROVE StagesInTurn'
    BY <1>4, RunType DEF StagesInTurn, Ends, Crash
<1>5. ASSUME NEW n \in Names, Skip(n) PROVE StagesInTurn'
    BY <1>5, RunType, ServicesAreNames
       DEF StagesInTurn, Returned, procVars, Goes, Skip, Due
<1>6. ASSUME NEW n \in Names, BodyBegins(n) PROVE StagesInTurn'
    BY <1>6, RunType, ServicesAreNames
       DEF StagesInTurn, Returned, procVars, Goes, BodyBegins, Due, InfraSteps
<1>7. ASSUME NEW n \in Names, Record(n) PROVE StagesInTurn'
    BY <1>7, RunType, ServicesAreNames
       DEF StagesInTurn, Returned, procVars, Goes, Record
<1>8. ASSUME NEW n \in Names, Saved(n) PROVE StagesInTurn'
    BY <1>8, RunType, ServicesAreNames
       DEF StagesInTurn, Returned, procVars, Goes, Saved, Parent, InfraSteps
<1>9. ASSUME NEW n \in Names, SaveFails(n) PROVE StagesInTurn'
    BY <1>9, RunType, ServicesAreNames
       DEF StagesInTurn, Returned, procVars, Goes, SaveFails
<1>10. ASSUME NEW s \in Services, ServiceBegins(s) PROVE StagesInTurn'
    BY <1>10, RunType, ServicesAreNames
       DEF StagesInTurn, Returned, procVars, Goes, ServiceBegins, Due
<1>11. ASSUME NEW s \in Services, Prepare(s) PROVE StagesInTurn'
    BY <1>11, RunType, ServicesAreNames
       DEF StagesInTurn, Returned, procVars, Goes, Prepare
<1>12. ASSUME NEW s \in Services, CloneEnds(s) PROVE StagesInTurn'
    BY <1>12, RunType, ServicesAreNames
       DEF StagesInTurn, Returned, procVars, Goes, CloneEnds
<1>13. ASSUME NEW s \in Services, PatchEnds(s) PROVE StagesInTurn'
    BY <1>13, RunType, ServicesAreNames
       DEF StagesInTurn, Returned, procVars, Goes, PatchEnds
<1>14. ASSUME NEW s \in Services, Push(s) PROVE StagesInTurn'
    BY <1>14, RunType, ServicesAreNames DEF StagesInTurn, Returned, procVars, Goes, Push
<1>15. ASSUME NEW s \in Services, BuildEnds(s) PROVE StagesInTurn'
    BY <1>15, RunType, ServicesAreNames
       DEF StagesInTurn, Returned, procVars, Goes, BuildEnds
<1>16. ASSUME CopyEnds PROVE StagesInTurn'
    BY <1>16, RunType, ServicesAreNames
       DEF StagesInTurn, Returned, procVars, Goes, CopyEnds
<1>17. ASSUME TerraformEnds PROVE StagesInTurn'
    BY <1>17, RunType, ServicesAreNames
       DEF StagesInTurn, Returned, procVars, Goes, TerraformEnds
<1>18. ASSUME DeployEnds PROVE StagesInTurn'
    BY <1>18, RunType DEF StagesInTurn, Ends, DeployEnds
<1>19. ASSUME DestroyEnds PROVE StagesInTurn'
    BY <1>19, RunType DEF StagesInTurn, Ends, DestroyEnds
<1>20. ASSUME ResetEnds PROVE StagesInTurn'
    BY <1>20, RunType DEF StagesInTurn, Ends, ResetEnds
<1>21. CASE UNCHANGED vars
    BY <1>21 DEF StagesInTurn, Returned, vars, procVars
<1>22. ASSUME NEW n \in Names, RecordFails(n) PROVE StagesInTurn'
    BY <1>22, RunType, ServicesAreNames
       DEF StagesInTurn, Returned, procVars, RecordFails
<1> QED
    BY <1>1, <1>2, <1>3, <1>4, <1>5, <1>6, <1>7, <1>8, <1>9, <1>10, <1>11, <1>12,
       <1>13, <1>14, <1>15, <1>16, <1>17, <1>18, <1>19, <1>20, <1>21, <1>22
       DEF Next, Starts, Works, StepOf, ServiceStep

\* The preparer's mutex keeps the makers of a tree apart.
LEMMA StepOneMakes ==
    ASSUME TypeOK, TreeInv, [Next]_vars PROVE OneMakes'
<1>1. ASSUME NEW e \in Examples, StartDeploy(e) PROVE OneMakes'
    BY <1>1, ServicesAreNames
       DEF TreeInv, OneMakes, TreesWhole, MakesTree, treeVars, historyVars, Start,
           NoRuns, StartDeploy
<1>2. ASSUME NEW e \in Examples, StartDestroy(e) PROVE OneMakes'
    BY <1>2, ServicesAreNames
       DEF TreeInv, OneMakes, TreesWhole, MakesTree, treeVars, historyVars, Start,
           NoRuns, StartDestroy
<1>3. ASSUME NEW n \in Names, StartReset(n) PROVE OneMakes'
    BY <1>3, ServicesAreNames
       DEF TreeInv, OneMakes, TreesWhole, MakesTree, treeVars, historyVars, Start,
           NoRuns, StartReset
<1>4. ASSUME Crash PROVE OneMakes'
    BY <1>4, RunType, ServicesAreNames
       DEF TreeInv, StagesInTurn, OneMakes, MakesTree, Preparer, NeedsPatch,
           procVars, treeVars, historyVars, Goes, Ends, InfraSteps, Crash
<1>5. ASSUME NEW n \in Names, Skip(n) PROVE OneMakes'
    BY <1>5, RunType, ServicesAreNames
       DEF TreeInv, StagesInTurn, OneMakes, MakesTree, Preparer, NeedsPatch,
           procVars, treeVars, historyVars, Goes, Skip, Due
<1>6. ASSUME NEW n \in Names, BodyBegins(n) PROVE OneMakes'
    BY <1>6, RunType, ServicesAreNames
       DEF TreeInv, StagesInTurn, OneMakes, MakesTree, Preparer, NeedsPatch,
           procVars, treeVars, historyVars, Goes, BodyBegins, Due, InfraSteps
<1>7. ASSUME NEW n \in Names, Record(n) PROVE OneMakes'
    BY <1>7, RunType, ServicesAreNames
       DEF TreeInv, StagesInTurn, OneMakes, MakesTree, Preparer, NeedsPatch,
           procVars, treeVars, historyVars, Goes, Record
<1>8. ASSUME NEW n \in Names, Saved(n) PROVE OneMakes'
    BY <1>8, RunType, ServicesAreNames
       DEF TreeInv, StagesInTurn, OneMakes, MakesTree, Preparer, NeedsPatch,
           procVars, treeVars, historyVars, Goes, Saved, Parent, InfraSteps
<1>9. ASSUME NEW n \in Names, SaveFails(n) PROVE OneMakes'
    BY <1>9, RunType, ServicesAreNames
       DEF TreeInv, StagesInTurn, OneMakes, MakesTree, Preparer, NeedsPatch,
           procVars, treeVars, historyVars, Goes, SaveFails
<1>10. ASSUME NEW s \in Services, ServiceBegins(s) PROVE OneMakes'
    BY <1>10, RunType, ServicesAreNames
       DEF TreeInv, StagesInTurn, OneMakes, MakesTree, Preparer, NeedsPatch,
           procVars, treeVars, historyVars, Goes, ServiceBegins, Due
<1>11. ASSUME NEW s \in Services, Prepare(s) PROVE OneMakes'
    BY <1>11, RunType, ServicesAreNames
       DEF TreeInv, StagesInTurn, OneMakes, MakesTree, Preparer, NeedsPatch,
           procVars, treeVars, historyVars, Goes, Prepare, NeedsClone, MutexFree
<1>12. ASSUME NEW s \in Services, CloneEnds(s) PROVE OneMakes'
    BY <1>12, RunType, ServicesAreNames
       DEF TreeInv, StagesInTurn, OneMakes, MakesTree, Preparer, NeedsPatch,
           procVars, treeVars, historyVars, Goes, CloneEnds
<1>13. ASSUME NEW s \in Services, PatchEnds(s) PROVE OneMakes'
    BY <1>13, RunType, ServicesAreNames
       DEF TreeInv, StagesInTurn, OneMakes, MakesTree, Preparer, NeedsPatch,
           procVars, treeVars, historyVars, Goes, PatchEnds
<1>14. ASSUME NEW s \in Services, Push(s) PROVE OneMakes'
    BY <1>14, RunType, ServicesAreNames
       DEF TreeInv, StagesInTurn, OneMakes, MakesTree, Preparer, NeedsPatch,
           procVars, treeVars, historyVars, Goes, Push
<1>15. ASSUME NEW s \in Services, BuildEnds(s) PROVE OneMakes'
    BY <1>15, RunType, ServicesAreNames
       DEF TreeInv, StagesInTurn, OneMakes, MakesTree, Preparer, NeedsPatch,
           procVars, treeVars, historyVars, Goes, BuildEnds
<1>16. ASSUME CopyEnds PROVE OneMakes'
    BY <1>16, RunType, ServicesAreNames
       DEF TreeInv, StagesInTurn, OneMakes, MakesTree, Preparer, NeedsPatch,
           procVars, treeVars, historyVars, Goes, CopyEnds
<1>17. ASSUME TerraformEnds PROVE OneMakes'
    BY <1>17, RunType, ServicesAreNames
       DEF TreeInv, StagesInTurn, OneMakes, MakesTree, Preparer, NeedsPatch,
           procVars, treeVars, historyVars, Goes, TerraformEnds
<1>18. ASSUME DeployEnds PROVE OneMakes'
    BY <1>18, RunType, ServicesAreNames
       DEF TreeInv, StagesInTurn, OneMakes, MakesTree, Preparer, NeedsPatch,
           procVars, treeVars, historyVars, Goes, Ends, InfraSteps, DeployEnds
<1>19. ASSUME DestroyEnds PROVE OneMakes'
    BY <1>19, RunType, ServicesAreNames
       DEF TreeInv, StagesInTurn, OneMakes, MakesTree, Preparer, NeedsPatch,
           procVars, treeVars, historyVars, Goes, Ends, InfraSteps, DestroyEnds
<1>20. ASSUME ResetEnds PROVE OneMakes'
    BY <1>20, RunType, ServicesAreNames
       DEF TreeInv, StagesInTurn, OneMakes, MakesTree, Preparer, NeedsPatch,
           procVars, treeVars, historyVars, Goes, Ends, InfraSteps, ResetEnds
<1>21. CASE UNCHANGED vars
    BY <1>21
       DEF OneMakes, TreeInv, MakesTree, SourceTree, Preparer, NeedsPatch, vars,
           procVars, treeVars, historyVars
<1>22. ASSUME NEW n \in Names, RecordFails(n) PROVE OneMakes'
    BY <1>22, RunType, ServicesAreNames
       DEF TreeInv, StagesInTurn, OneMakes, MakesTree, Preparer, NeedsPatch,
           procVars, treeVars, RecordFails
<1> QED
    BY <1>1, <1>2, <1>3, <1>4, <1>5, <1>6, <1>7, <1>8, <1>9, <1>10, <1>11, <1>12,
       <1>13, <1>14, <1>15, <1>16, <1>17, <1>18, <1>19, <1>20, <1>21, <1>22
       DEF Next, Starts, Works, StepOf, ServiceStep

\* Every tree is whole when its maker gives the mutex up, or it is gone.
LEMMA StepTreesWhole ==
    ASSUME TypeOK, TreeInv, [Next]_vars PROVE TreesWhole'
<1>1. ASSUME NEW e \in Examples, StartDeploy(e) PROVE TreesWhole'
    BY <1>1, ServicesAreNames
       DEF TreeInv, OneMakes, TreesWhole, MakesTree, treeVars, historyVars, Start,
           NoRuns, StartDeploy
<1>2. ASSUME NEW e \in Examples, StartDestroy(e) PROVE TreesWhole'
    BY <1>2, ServicesAreNames
       DEF TreeInv, OneMakes, TreesWhole, MakesTree, treeVars, historyVars, Start,
           NoRuns, StartDestroy
<1>3. ASSUME NEW n \in Names, StartReset(n) PROVE TreesWhole'
    BY <1>3, ServicesAreNames
       DEF TreeInv, OneMakes, TreesWhole, MakesTree, treeVars, historyVars, Start,
           NoRuns, StartReset
<1>4. ASSUME Crash PROVE TreesWhole'
    BY <1>4, RunType, ServicesAreNames
       DEF TreeInv, StagesInTurn, OneMakes, TreesWhole, MakesTree, SourceTree,
           Preparer, NeedsPatch, Returned, procVars, treeVars, historyVars, Goes,
           Ends, InfraSteps, Crash
<1>5. ASSUME NEW n \in Names, Skip(n) PROVE TreesWhole'
    BY <1>5, RunType, ServicesAreNames
       DEF TreeInv, StagesInTurn, OneMakes, TreesWhole, MakesTree, SourceTree,
           Preparer, NeedsPatch, Returned, procVars, treeVars, historyVars, Goes,
           Skip, Due
<1>6. ASSUME NEW n \in Names, BodyBegins(n) PROVE TreesWhole'
    BY <1>6, RunType, ServicesAreNames
       DEF TreeInv, StagesInTurn, OneMakes, TreesWhole, MakesTree, SourceTree,
           Preparer, NeedsPatch, Returned, procVars, treeVars, historyVars, Goes,
           BodyBegins, Due, InfraSteps
<1>7. ASSUME NEW n \in Names, Record(n) PROVE TreesWhole'
    BY <1>7, RunType, ServicesAreNames
       DEF TreeInv, StagesInTurn, OneMakes, TreesWhole, MakesTree, SourceTree,
           Preparer, NeedsPatch, Returned, procVars, treeVars, historyVars, Goes,
           Record
<1>8. ASSUME NEW n \in Names, Saved(n) PROVE TreesWhole'
    BY <1>8, RunType, ServicesAreNames
       DEF TreeInv, StagesInTurn, OneMakes, TreesWhole, MakesTree, SourceTree,
           Preparer, NeedsPatch, Returned, procVars, treeVars, historyVars, Goes,
           Saved, Parent, InfraSteps
<1>9. ASSUME NEW n \in Names, SaveFails(n) PROVE TreesWhole'
    BY <1>9, RunType, ServicesAreNames
       DEF TreeInv, StagesInTurn, OneMakes, TreesWhole, MakesTree, SourceTree,
           Preparer, NeedsPatch, Returned, procVars, treeVars, historyVars, Goes,
           SaveFails
<1>10. ASSUME NEW s \in Services, ServiceBegins(s) PROVE TreesWhole'
    BY <1>10, RunType, ServicesAreNames
       DEF TreeInv, StagesInTurn, OneMakes, TreesWhole, MakesTree, SourceTree,
           Preparer, NeedsPatch, Returned, procVars, treeVars, historyVars, Goes,
           ServiceBegins, Due
<1>11. ASSUME NEW s \in Services, Prepare(s) PROVE TreesWhole'
    <2>1. clone \in Trees /\ patched \in Trees /\ Preparer \in {"self-contained", "cymbal-shop", "cymbal-bank"}
        BY DEF TypeOK, Preparer
    <2>2. /\ mode = "deploy" /\ UNCHANGED <<mode, example, treeCut, preparer, pushed>>
          /\ run[s] = "prepare"
          /\ \A t \in Services : t # s => run'[t] = run[t]
          /\ \/ NeedsClone /\ run'[s] = "clone" /\ clone' = "partial" /\ UNCHANGED patched
             \/ NeedsPatch /\ ~NeedsClone /\ run'[s] = "patch" /\ patched' = "partial" /\ UNCHANGED clone
             \/ ~NeedsPatch /\ ~NeedsClone /\ run'[s] = "push" /\ UNCHANGED <<clone, patched>>
        BY <1>11, RunType, ServicesAreNames DEF Prepare, Goes, procVars, historyVars
    <2>3. Preparer = "self-contained" \/ \A t \in Services : run[t] \notin {"clone", "patch"}
        BY <1>11 DEF Prepare, MutexFree
    <2>4. ~treeCut => (Preparer = "self-contained" \/ (clone # "partial" /\ patched # "partial"))
        <3> HAVE ~treeCut
        <3>1. /\ clone = "partial" => \E t \in Services : run[t] = "clone"
              /\ patched = "partial" => \E t \in Services : run[t] = "patch"
            BY DEF TreeInv, TreesWhole
        <3> QED
            BY <3>1, <2>3
    <2>5. CASE NeedsClone /\ run'[s] = "clone" /\ clone' = "partial" /\ UNCHANGED patched
        BY <2>1, <2>2, <2>3, <2>4, <2>5
           DEF TreeInv, TreesWhole, SourceTree, Preparer, NeedsClone, NeedsPatch
    <2>6. CASE NeedsPatch /\ ~NeedsClone /\ run'[s] = "patch" /\ patched' = "partial" /\ UNCHANGED clone
        BY <2>1, <2>2, <2>3, <2>4, <2>6
           DEF TreeInv, TreesWhole, SourceTree, Preparer, NeedsClone, NeedsPatch,
               Trees
    <2>7. CASE ~NeedsPatch /\ ~NeedsClone /\ run'[s] = "push" /\ UNCHANGED <<clone, patched>>
        BY <2>1, <2>2, <2>3, <2>4, <2>7
           DEF TreeInv, TreesWhole, SourceTree, Preparer, NeedsClone, NeedsPatch,
               Trees
    <2> QED
        BY <2>2, <2>5, <2>6, <2>7
<1>12. ASSUME NEW s \in Services, CloneEnds(s) PROVE TreesWhole'
    BY <1>12, RunType, ServicesAreNames
       DEF TreeInv, StagesInTurn, OneMakes, TreesWhole, MakesTree, SourceTree,
           Preparer, NeedsPatch, Returned, procVars, treeVars, historyVars, Goes,
           CloneEnds
<1>13. ASSUME NEW s \in Services, PatchEnds(s) PROVE TreesWhole'
    BY <1>13, RunType, ServicesAreNames
       DEF TreeInv, StagesInTurn, OneMakes, TreesWhole, MakesTree, SourceTree,
           Preparer, NeedsPatch, Returned, procVars, treeVars, historyVars, Goes,
           PatchEnds
<1>14. ASSUME NEW s \in Services, Push(s) PROVE TreesWhole'
    <2>1. /\ mode = "deploy" /\ UNCHANGED <<mode, example, treeCut, preparer, clone, patched>>
          /\ run[s] = "push" /\ run'[s] \in {"build", "bad"}
          /\ \A t \in Services : t # s => run'[t] = run[t]
          /\ \A t \in Services : pushed'[t] \in {pushed[t], SourceTree}
        BY <1>14, RunType, ServicesAreNames, PushedType
           DEF Push, Goes, procVars, historyVars
    <2> QED
        BY <2>1 DEF TreeInv, TreesWhole, SourceTree, Preparer
<1>15. ASSUME NEW s \in Services, BuildEnds(s) PROVE TreesWhole'
    BY <1>15, RunType, ServicesAreNames
       DEF TreeInv, StagesInTurn, OneMakes, TreesWhole, MakesTree, SourceTree,
           Preparer, NeedsPatch, Returned, procVars, treeVars, historyVars, Goes,
           BuildEnds
<1>16. ASSUME CopyEnds PROVE TreesWhole'
    BY <1>16, RunType, ServicesAreNames
       DEF TreeInv, StagesInTurn, OneMakes, TreesWhole, MakesTree, SourceTree,
           Preparer, NeedsPatch, Returned, procVars, treeVars, historyVars, Goes,
           CopyEnds
<1>17. ASSUME TerraformEnds PROVE TreesWhole'
    BY <1>17, RunType, ServicesAreNames
       DEF TreeInv, StagesInTurn, OneMakes, TreesWhole, MakesTree, SourceTree,
           Preparer, NeedsPatch, Returned, procVars, treeVars, historyVars, Goes,
           TerraformEnds
<1>18. ASSUME DeployEnds PROVE TreesWhole'
    BY <1>18, RunType, ServicesAreNames
       DEF TreeInv, StagesInTurn, OneMakes, TreesWhole, MakesTree, SourceTree,
           Preparer, NeedsPatch, Returned, procVars, treeVars, historyVars, Goes,
           Ends, InfraSteps, DeployEnds
<1>19. ASSUME DestroyEnds PROVE TreesWhole'
    BY <1>19, RunType, ServicesAreNames
       DEF TreeInv, StagesInTurn, OneMakes, TreesWhole, MakesTree, SourceTree,
           Preparer, NeedsPatch, Returned, procVars, treeVars, historyVars, Goes,
           Ends, InfraSteps, DestroyEnds
<1>20. ASSUME ResetEnds PROVE TreesWhole'
    BY <1>20, RunType, ServicesAreNames
       DEF TreeInv, StagesInTurn, OneMakes, TreesWhole, MakesTree, SourceTree,
           Preparer, NeedsPatch, Returned, procVars, treeVars, historyVars, Goes,
           Ends, InfraSteps, ResetEnds
<1>21. CASE UNCHANGED vars
    BY <1>21
       DEF TreesWhole, TreeInv, MakesTree, SourceTree, Preparer, NeedsPatch, vars,
           procVars, treeVars, historyVars
<1>22. ASSUME NEW n \in Names, RecordFails(n) PROVE TreesWhole'
    BY <1>22, RunType, ServicesAreNames
       DEF TreeInv, StagesInTurn, OneMakes, TreesWhole, MakesTree, SourceTree,
           Preparer, NeedsPatch, Returned, procVars, treeVars, RecordFails
<1> QED
    BY <1>1, <1>2, <1>3, <1>4, <1>5, <1>6, <1>7, <1>8, <1>9, <1>10, <1>11, <1>12,
       <1>13, <1>14, <1>15, <1>16, <1>17, <1>18, <1>19, <1>20, <1>21, <1>22
       DEF Next, Starts, Works, StepOf, ServiceStep

\* The invariant of the trees is inductive.
LEMMA StepTrees == ASSUME TypeOK, TreeInv, [Next]_vars PROVE TreeInv'
    BY StepStages, StepOneMakes, StepTreesWhole DEF TreeInv

\* There is no tree before the first invocation.
LEMMA InitTrees == Init => TreeInv
    BY DEF Init, TreeInv, StagesInTurn, OneMakes, TreesWhole

\* No service pushes a tree that another one is still making, or whose making
\* failed, whatever the number of services and the preparer; only a kill while
\* a tree was made can leave it so (PushedIsWhole).
THEOREM OnlyWholeTreesArePushed == Spec => []PushedIsWhole
<1>1. Init => TypeOK /\ TreeInv
    BY InitTypes, InitTrees
<1>2. (TypeOK /\ TreeInv) /\ [Next]_vars => (TypeOK /\ TreeInv)'
    BY StepTypes, StepTrees
<1>3. TreeInv => PushedIsWhole
    BY DEF TreeInv, TreesWhole, PushedIsWhole
<1> QED
    BY <1>1, <1>2, <1>3, PTL DEF Spec

-----------------------------------------------------------------------------
(* What the record says has been done.                                      *)

\* The steps a record f calls completed have their effect.
Truthful(f) ==
    /\ f["copy-code"] = "COMPLETED" => dir[example] = "whole"
    /\ f["apply"] = "COMPLETED" => infra[example] = "up"
    /\ \A s \in Services : f[s] = "COMPLETED" => s \in deployed[example]

\* A destroy that has begun is remembered; otherwise the file, the memory and
\* the bodies that succeeded all tell what is there.
RecordTruthful ==
    /\ mode = "destroy" /\ run["apply"] = "body" => undoing
    /\ ~undoing =>
         /\ file = "whole" => Truthful(saved)
         /\ mode # "down" => Truthful(steps)
         /\ mode = "deploy" =>
              /\ run["copy-code"] = "good" => dir[example] = "whole"
              /\ run["apply"] = "good" => infra[example] = "up"
              /\ \A s \in Services : run[s] = "good" => s \in deployed[example]

\* The types the steps below use.
LEMMA WorldTypes ==
    TypeOK => /\ steps \in [Names -> Statuses]
              /\ example \in Examples
              /\ dir \in [Examples -> Trees]
              /\ infra \in [Examples -> {"none", "partial", "up"}]
              /\ deployed \in [Examples -> SUBSET Services]
    BY DEF TypeOK

\* An invocation begins with the record the last one left.
LEMMA StartTruthful ==
    ASSUME Examples = {Default}, TypeOK, RecordTruthful,
           NEW m \in {"deploy", "destroy", "reset"}, NEW e \in Examples, NEW first, Start(m, e, first),
           m = "reset" \/ first = NoRuns
    PROVE  RecordTruthful'
<1>1. CASE mode' = "down"
    BY <1>1, WorldTypes DEF Start, RecordTruthful, Truthful, infraVars, historyVars
<1>2. CASE mode' # "down"
    <2>1. /\ example' = example
          /\ UNCHANGED <<file, saved, dir, infra, deployed, undoing>>
          /\ steps' = OnDisk
          /\ file # "torn"
          /\ mode' = "reset" \/ run' = NoRuns
        BY <1>2, WorldTypes DEF Start, infraVars, historyVars
    <2>2. run' = NoRuns => \A n \in Names : run'[n] = "idle"
        BY DEF NoRuns
    <2>3. ~undoing => Truthful(steps)'
        <3>1. CASE file = "absent"
            BY <2>1, <3>1, ServicesAreNames DEF Truthful, OnDisk, NoSteps
        <3>2. CASE file = "whole"
            BY <2>1, <3>2 DEF RecordTruthful, Truthful, OnDisk
        <3> QED
            BY <2>1, <3>1, <3>2 DEF TypeOK
    <2>4. (file = "whole" /\ ~undoing => Truthful(saved))'
        BY <2>1 DEF RecordTruthful, Truthful
    <2> QED
        BY <2>1, <2>2, <2>3, <2>4, ServicesAreNames DEF RecordTruthful, Truthful
<1> QED
    BY <1>1, <1>2

\* Every action keeps the record truthful.
LEMMA StepRecordTruthful ==
    ASSUME Examples = {Default}, TypeOK, RecordInv, RecordTruthful, [Next]_vars PROVE RecordTruthful'
<1>1. ASSUME NEW e \in Examples, StartDeploy(e) PROVE RecordTruthful'
    BY <1>1, StartTruthful DEF StartDeploy
<1>2. ASSUME NEW e \in Examples, StartDestroy(e) PROVE RecordTruthful'
    BY <1>2, StartTruthful DEF StartDestroy
<1>3. ASSUME NEW n \in Names, StartReset(n) PROVE RecordTruthful'
    BY <1>3, StartTruthful, DeployerAssumption DEF StartReset
<1>4. ASSUME Crash PROVE RecordTruthful'
    BY <1>4, RunType, WorldTypes, ServicesAreNames
       DEF RecordTruthful, Truthful, procVars, fileVars, infraVars, historyVars,
           Goes, Ends, Crash
<1>5. ASSUME NEW n \in Names, Skip(n) PROVE RecordTruthful'
    BY <1>5, RunType, WorldTypes, ServicesAreNames
       DEF RecordTruthful, Truthful, procVars, fileVars, infraVars, historyVars,
           Goes, Skip, Due
<1>6. ASSUME NEW n \in Names, BodyBegins(n) PROVE RecordTruthful'
    <2>1. mode = "deploy" /\ file = "whole" => saved[n] # "COMPLETED"
        <3>1. run[n] = "idle" /\ ~Skipped(n)
            BY <1>6 DEF BodyBegins, Goes
        <3>2. mode = "deploy" => n \notin unsaved
            BY <3>1 DEF RecordInv, OneSaves, OutcomeKnown
        <3> QED
            BY <3>1, <3>2 DEF RecordInv, OneSaves, OnDisk, Skipped
    <2> QED
        BY <1>6, <2>1, RunType, WorldTypes, ServicesAreNames
           DEF RecordTruthful, Truthful, procVars, fileVars, infraVars,
               Goes, BodyBegins, Due, Skipped, InfraSteps
<1>7. ASSUME NEW n \in Names, Record(n) PROVE RecordTruthful'
    <2>1. /\ UNCHANGED <<mode, example, dir, infra, deployed, undoing>>
          /\ file' = "torn"
          /\ run[n] \in {"good", "bad"}
          /\ \A k \in Names : run'[k] = IF k = n THEN "saving" ELSE run[k]
          /\ \A k \in Names : steps'[k] = IF k = n THEN Outcome(n) ELSE steps[k]
        BY <1>7, RunType, WorldTypes DEF Record, procVars, infraVars, historyVars
    <2>2. Outcome(n) = "COMPLETED" => mode = "deploy" /\ run[n] = "good"
        <3>1. mode \in {"deploy", "destroy", "reset"} /\ run[n] \in {"good", "bad"}
            BY <1>7 DEF Record, TypeOK
        <3> QED
            BY <3>1 DEF Outcome
    <2>3. Truthful(steps) /\ ~undoing => Truthful(steps)'
        BY <2>1, <2>2, ServicesAreNames DEF RecordTruthful, Truthful
    <2> QED
        BY <2>1, <2>3, <1>7, ServicesAreNames DEF RecordTruthful, Record
<1>8. ASSUME NEW n \in Names, Saved(n) PROVE RecordTruthful'
    BY <1>8, RunType, WorldTypes, ServicesAreNames
       DEF RecordTruthful, Truthful, procVars, fileVars, infraVars, historyVars,
           Goes, Saved, Parent, InfraSteps, Parents, RecordInv, OneSaves
<1>9. ASSUME NEW n \in Names, SaveFails(n) PROVE RecordTruthful'
    BY <1>9, RunType, WorldTypes, ServicesAreNames
       DEF RecordTruthful, Truthful, procVars, fileVars, infraVars, historyVars,
           Goes, SaveFails
<1>10. ASSUME NEW s \in Services, ServiceBegins(s) PROVE RecordTruthful'
    BY <1>10, RunType, WorldTypes, ServicesAreNames
       DEF RecordTruthful, Truthful, procVars, fileVars, infraVars, historyVars,
           Goes, ServiceBegins, Due
<1>11. ASSUME NEW s \in Services, Prepare(s) PROVE RecordTruthful'
    BY <1>11, RunType, WorldTypes, ServicesAreNames
       DEF RecordTruthful, Truthful, procVars, fileVars, infraVars, historyVars,
           Goes, Prepare
<1>12. ASSUME NEW s \in Services, CloneEnds(s) PROVE RecordTruthful'
    BY <1>12, RunType, WorldTypes, ServicesAreNames
       DEF RecordTruthful, Truthful, procVars, fileVars, infraVars, historyVars,
           Goes, CloneEnds
<1>13. ASSUME NEW s \in Services, PatchEnds(s) PROVE RecordTruthful'
    BY <1>13, RunType, WorldTypes, ServicesAreNames
       DEF RecordTruthful, Truthful, procVars, fileVars, infraVars, historyVars,
           Goes, PatchEnds
<1>14. ASSUME NEW s \in Services, Push(s) PROVE RecordTruthful'
    BY <1>14, RunType, WorldTypes, ServicesAreNames
       DEF RecordTruthful, Truthful, procVars, fileVars, infraVars, historyVars,
           Goes, Push
<1>15. ASSUME NEW s \in Services, BuildEnds(s) PROVE RecordTruthful'
    BY <1>15, RunType, WorldTypes, ServicesAreNames
       DEF RecordTruthful, Truthful, procVars, fileVars, infraVars, historyVars,
           Goes, BuildEnds
<1>16. ASSUME CopyEnds PROVE RecordTruthful'
    BY <1>16, RunType, WorldTypes, ServicesAreNames
       DEF RecordTruthful, Truthful, procVars, fileVars, infraVars, historyVars,
           Goes, CopyEnds
<1>17. ASSUME TerraformEnds PROVE RecordTruthful'
    <2>1. /\ mode \in {"deploy", "destroy"}
          /\ UNCHANGED <<mode, example, file, saved, steps, dir, deployed, undoing>>
          /\ run["apply"] = "body"
          /\ \A k \in Names : run'[k] = IF k = "apply" THEN run'["apply"] ELSE run[k]
        BY <1>17, RunType, ServicesAreNames
           DEF TerraformEnds, Goes, procVars, fileVars, historyVars
    <2>2. CASE mode = "destroy"
        BY <2>1, <2>2, <1>17, RunType, ServicesAreNames DEF RecordTruthful
    <2>3. CASE mode = "deploy"
        <3>1. \/ run'["apply"] = "good" /\ infra'[example] = "up"
              \/ run'["apply"] = "bad" /\ infra' = infra
            BY <2>3, <1>17, RunType, WorldTypes, ServicesAreNames
               DEF TerraformEnds, Goes
        <3> QED
            BY <2>1, <2>3, <3>1, ServicesAreNames DEF RecordTruthful, Truthful
    <2> QED
        BY <2>1, <2>2, <2>3
<1>18. ASSUME DeployEnds PROVE RecordTruthful'
    BY <1>18, RunType, WorldTypes, ServicesAreNames
       DEF RecordTruthful, Truthful, procVars, fileVars, infraVars, historyVars,
           Goes, Ends, DeployEnds
<1>19. ASSUME DestroyEnds PROVE RecordTruthful'
    BY <1>19, RunType, WorldTypes, ServicesAreNames
       DEF RecordTruthful, Truthful, procVars, fileVars, infraVars, historyVars,
           Goes, Ends, DestroyEnds
<1>20. ASSUME ResetEnds PROVE RecordTruthful'
    BY <1>20, RunType, WorldTypes, ServicesAreNames
       DEF RecordTruthful, Truthful, procVars, fileVars, infraVars, historyVars,
           Goes, Ends, ResetEnds
<1>21. CASE UNCHANGED vars
    BY <1>21
       DEF RecordTruthful, Truthful, vars, procVars, fileVars, infraVars, historyVars
<1>22. ASSUME NEW n \in Names, RecordFails(n) PROVE RecordTruthful'
    <2>1. /\ UNCHANGED <<mode, example, dir, infra, deployed, undoing, file, saved>>
          /\ run[n] \in {"good", "bad"}
          /\ \A k \in Names : run'[k] = IF k = n THEN "over" ELSE run[k]
          /\ \A k \in Names : steps'[k] = IF k = n THEN Outcome(n) ELSE steps[k]
        BY <1>22, RunType, WorldTypes DEF RecordFails, procVars, infraVars
    <2>2. Outcome(n) = "COMPLETED" => mode = "deploy" /\ run[n] = "good"
        <3>1. mode \in {"deploy", "destroy", "reset"} /\ run[n] \in {"good", "bad"}
            BY <1>22 DEF RecordFails, TypeOK
        <3> QED
            BY <3>1 DEF Outcome
    <2>3. mode # "down" /\ ~undoing => Truthful(steps)'
        BY <2>1, <2>2, ServicesAreNames DEF RecordTruthful, Truthful
    <2>4. file = "whole" /\ ~undoing => Truthful(saved)'
        BY <2>1 DEF RecordTruthful, Truthful
    <2> QED
        BY <2>1, <2>3, <2>4, ServicesAreNames DEF RecordTruthful
<1> QED
    BY <1>1, <1>2, <1>3, <1>4, <1>5, <1>6, <1>7, <1>8, <1>9, <1>10, <1>11, <1>12,
       <1>13, <1>14, <1>15, <1>16, <1>17, <1>18, <1>19, <1>20, <1>21, <1>22
       DEF Next, Starts, Works, StepOf, ServiceStep

\* An empty record says nothing.
LEMMA InitTruthful == Init => RecordTruthful
    BY DEF Init, RecordTruthful, NoRuns

\* What a truthful record calls completed is done.
LEMMA TruthfulIsDone ==
    ASSUME NEW f, NEW n \in InfraSteps \cup Services, Truthful(f), f[n] = "COMPLETED"
    PROVE  Done(n)
<1>1. CASE n = "copy-code"
    BY <1>1 DEF Truthful, Done
<1>2. CASE n = "apply"
    BY <1>2 DEF Truthful, Done
<1>3. CASE n \in Services
    BY <1>3, ServicesAreNames DEF Truthful, Done
<1> QED
    BY <1>1, <1>2, <1>3 DEF InfraSteps

\* With one example the record is truthful in every state.
LEMMA AlwaysTruthful ==
    ASSUME Examples = {Default} PROVE Spec => [](RecordedInv /\ RecordTruthful)
<1>1. Init => RecordedInv /\ RecordTruthful
    BY InitRecorded, InitTruthful
<1>2. (RecordedInv /\ RecordTruthful) /\ [Next]_vars => (RecordedInv /\ RecordTruthful)'
    BY StepRecorded, StepRecordTruthful DEF RecordedInv, RecordInv
<1> QED
    BY <1>1, <1>2, PTL DEF Spec

\* With one example to a steps file, a step the file calls completed has been
\* done and is not undone, for any number of services, invocations and kills,
\* unless a destroy was left unfinished (CompletedIsDone).
THEOREM RecordIsTrue ==
    ASSUME Examples = {Default} PROVE Spec => []CompletedIsDone
<1>1. RecordedInv /\ RecordTruthful => CompletedIsDone
    BY TruthfulIsDone DEF RecordTruthful, CompletedIsDone
<1> QED
    BY <1>1, AlwaysTruthful, PTL

\* With one example to a steps file, a deploy whose steps all returned without
\* an error, skipped ones included, is a deployment (SuccessIsDeployed).
THEOREM SuccessIsADeployment ==
    ASSUME Examples = {Default} PROVE Spec => []SuccessIsDeployed
<1>1. RecordedInv /\ RecordTruthful => SuccessIsDeployed
    <2> SUFFICES ASSUME RecordedInv, RecordTruthful, mode = "deploy", ~undoing,
                        NEW n \in InfraSteps \cup Services,
                        Returned(n)
                 PROVE  Done(n)
        BY DEF SuccessIsDeployed
    <2>1. n \in Names
        BY ServicesAreNames
    <2>2. steps[n] = "COMPLETED"
        BY <2>1 DEF RecordedInv, RecordInv, OutcomeKnown, Returned
    <2>3. Truthful(steps)
        BY DEF RecordTruthful
    <2> QED
        BY <2>2, <2>3, TruthfulIsDone
<1> QED
    BY <1>1, AlwaysTruthful, PTL

-----------------------------------------------------------------------------
(* What a destroy leaves behind.                                            *)

\* There is no infrastructure, or the record f makes a destroy look at it.
Accounted(f) == infra[example] = "none" \/ f["apply"] \notin {"none", "DESTROYED"}

\* A deploy has begun its apply and not recorded how it ended.
Applying == mode = "deploy" /\ run["apply"] \in {"body", "good", "bad"}

\* A destroy that went well left nothing, an outcome of the apply that is being
\* written accounts for the infrastructure, and unless an apply left nothing in the
\* file, memory does so and what can be read from the file does.
InfraKept ==
    /\ mode = "destroy" /\ run["apply"] = "good" => infra[example] = "none"
    /\ mode # "down" /\ run["apply"] = "saving" => Accounted(steps)
    /\ ~applyLost =>
         /\ mode # "down" => Accounted(steps) \/ Applying
         /\ file # "torn" => Accounted(OnDisk) \/ Applying

\* There is no infrastructure before the first invocation.
LEMMA InitInfraKept == Init => InfraKept
    BY DeployerAssumption DEF Init, InfraKept, Accounted

\* An invocation finds the record the last one left.
LEMMA StartKeepsInfra ==
    ASSUME Examples = {Default}, TypeOK, InfraKept,
           NEW m \in {"deploy", "destroy", "reset"}, NEW e \in Examples, NEW first,
           Start(m, e, first),
           (m = "reset" /\ first["apply"] \in {"idle", "good"}) \/ first = NoRuns
    PROVE  InfraKept'
<1>1. UNCHANGED <<example, file, saved, infra, applyLost>> /\ mode = "down"
    BY WorldTypes DEF Start, infraVars, historyVars
<1>2. CASE mode' = "down"
    BY <1>1, <1>2 DEF InfraKept, Accounted, Applying, OnDisk
<1>3. CASE mode' # "down"
    <2>1. mode' = m /\ file # "torn" /\ steps' = OnDisk /\ run' = first
        BY <1>3, <1>1 DEF Start
    <2>2. first = NoRuns => first["apply"] = "idle"
        BY ServicesAreNames DEF NoRuns
    <2>3. ~applyLost => Accounted(OnDisk)
        BY <1>1, <2>1 DEF InfraKept, Applying
    <2>4. ~applyLost => Accounted(steps)' /\ Accounted(OnDisk)'
        BY <1>1, <2>1, <2>3 DEF Accounted, OnDisk
    <2> QED
        BY <1>1, <2>1, <2>2, <2>4 DEF InfraKept
<1> QED
    BY <1>2, <1>3

\* What a step keeps that neither touches the infrastructure and the record nor
\* brings the apply to another point.
LEMMA OthersKeepInfra ==
    ASSUME InfraKept, UNCHANGED <<mode, example, steps, file, saved, infra, applyLost>>,
           mode # "down",
           \/ run'["apply"] = run["apply"]
           \/ run'["apply"] = "over" /\ run["apply"] \in {"idle", "saving"}
    PROVE  InfraKept'
    BY DEF InfraKept, Accounted, Applying, OnDisk

\* The infrastructure stays as it is when an invocation ends.
LEMMA EndKeepsInfra ==
    ASSUME InfraKept, mode # "down", mode' = "down",
           UNCHANGED <<example, infra, file, saved>>,
           (applyLost' = applyLost) \/ applyLost',
           Applying => applyLost' \/ Accounted(OnDisk)
    PROVE  InfraKept'
    BY DEF InfraKept, Accounted, Applying, OnDisk

\* Every action keeps the infrastructure accounted for.
LEMMA StepInfraKept ==
    ASSUME Examples = {Default}, UsedInv, StagesInTurn, InfraKept, [Next]_vars
    PROVE  InfraKept'
<1>a. TypeOK
    BY DEF UsedInv, RecordedInv
<1>1. ASSUME NEW e \in Examples, StartDeploy(e) PROVE InfraKept'
    BY <1>1, <1>a, StartKeepsInfra DEF StartDeploy
<1>2. ASSUME NEW e \in Examples, StartDestroy(e) PROVE InfraKept'
    BY <1>2, <1>a, StartKeepsInfra DEF StartDestroy
<1>3. ASSUME NEW n \in Names, StartReset(n) PROVE InfraKept'
    <2>1. [NoRuns EXCEPT ![n] = "good"]["apply"] \in {"idle", "good"}
        BY ServicesAreNames DEF NoRuns
    <2> QED
        BY <1>3, <1>a, <2>1, StartKeepsInfra, DeployerAssumption DEF StartReset
<1>4. ASSUME Crash PROVE InfraKept'
    <2>1. /\ mode # "down" /\ mode' = "down"
          /\ UNCHANGED <<example, infra, file, saved>>
          /\ applyLost' = (applyLost \/ (ApplyUnknown /\ run["apply"] \in {"body", "good", "bad"}))
        BY <1>4 DEF Crash, Ends, infraVars
    <2>2. (applyLost' = applyLost) \/ applyLost'
        BY <1>a, <2>1 DEF TypeOK
    <2>3. Applying => applyLost' \/ Accounted(OnDisk)
        BY <2>1 DEF Applying, ApplyUnknown, Accounted
    <2> QED
        BY <2>1, <2>2, <2>3, EndKeepsInfra
<1>5. ASSUME NEW n \in Names, Skip(n) PROVE InfraKept'
    <2>1. /\ run' = [run EXCEPT ![n] = "over"] /\ run[n] = "idle" /\ mode # "down"
          /\ UNCHANGED <<mode, example, steps, file, saved, infra, applyLost>>
        BY <1>5 DEF Skip, Goes, Due, procVars, fileVars, infraVars, historyVars
    <2>2. run'["apply"] = run["apply"] \/ (run'["apply"] = "over" /\ run["apply"] = "idle")
        BY <1>a, <2>1, RunType, ServicesAreNames
    <2> QED
        BY <2>1, <2>2, OthersKeepInfra
<1>6. ASSUME NEW n \in Names, BodyBegins(n) PROVE InfraKept'
    <2>1. /\ UNCHANGED <<mode, example, steps, file, saved, applyLost>>
          /\ mode # "down"
          /\ ~Skipped(n)
          /\ \A k \in Names : run'[k] = IF k = n THEN "body" ELSE run[k]
        BY <1>6, <1>a, RunType
           DEF BodyBegins, Due, Goes, procVars, fileVars
    <2>2. CASE n = "copy-code"
        <3>1. UNCHANGED infra
            BY <1>6, <2>2 DEF BodyBegins
        <3>2. run'["apply"] = run["apply"]
            BY <2>1, <2>2, ServicesAreNames
        <3> QED
            BY <2>1, <3>1, <3>2, OthersKeepInfra
    <2>3. CASE n = "apply"
        <3>1. run'["apply"] = "body"
            BY <2>1, <2>3, ServicesAreNames
        <3>2. mode = "deploy" \/ mode = "destroy"
            BY <1>6, <2>3, ServicesAreNames DEF BodyBegins, Due
        <3>3. mode = "destroy" => steps["apply"] \notin {"none", "DESTROYED"}
            BY <2>1, <2>3 DEF Skipped
        <3>4. mode = "destroy" /\ infra[example] = "none" => infra'[example] = "none"
            BY <1>6, <1>a, <2>3, WorldTypes, ServicesAreNames DEF BodyBegins
        <3> QED
            BY <2>1, <3>1, <3>2, <3>3, <3>4 DEF InfraKept, Accounted, Applying, OnDisk
    <2> QED
        BY <1>6, <2>2, <2>3 DEF BodyBegins, InfraSteps
<1>7. ASSUME NEW n \in Names, Record(n) PROVE InfraKept'
    <2>1. /\ UNCHANGED <<mode, example, infra, applyLost>>
          /\ mode # "down"
          /\ run[n] \in {"good", "bad"}
          /\ \A k \in Names : run'[k] = IF k = n THEN "saving" ELSE run[k]
          /\ \A k \in Names : run[k] # "saving"
          /\ \A k \in Names : steps'[k] = IF k = n THEN Outcome(n) ELSE steps[k]
          /\ file' = "torn"
        BY <1>7, <1>a, RunType, WorldTypes
           DEF Record, LockFree, procVars, infraVars, historyVars
    <2>2. CASE n = "apply"
        <3>1. Outcome(n) = "DESTROYED" => mode = "destroy" /\ run["apply"] = "good"
            BY <1>a, <2>1, <2>2 DEF Outcome, TypeOK
        <3>2. Outcome(n) # "none"
            BY <1>a, <2>1 DEF Outcome, TypeOK
        <3>3. run'["apply"] = "saving" /\ steps'["apply"] = Outcome(n)
            BY <2>1, <2>2
        <3>4. Accounted(steps)'
            BY <2>1, <3>1, <3>2, <3>3 DEF InfraKept, Accounted
        <3> QED
            BY <2>1, <3>3, <3>4 DEF InfraKept
    <2>3. CASE n # "apply"
        <3>1. run'["apply"] = run["apply"] /\ steps'["apply"] = steps["apply"] /\ run["apply"] # "saving"
            BY <2>1, <2>3, ServicesAreNames
        <3> QED
            BY <2>1, <3>1 DEF InfraKept, Accounted, Applying
    <2> QED
        BY <2>2, <2>3
<1>8. ASSUME NEW n \in Names, Saved(n) PROVE InfraKept'
    <2>1. /\ UNCHANGED <<mode, example, steps, infra>>
          /\ mode # "down"
          /\ run[n] = "saving"
          /\ applyLost' = (applyLost /\ n # "apply")
          /\ file' = "whole" /\ saved' = steps
        BY <1>8 DEF Saved, procVars, infraVars, UsedInv, RecordedInv, RecordInv, OneSaves
    <2>2. CASE n = "apply"
        <3>1. run'["apply"] = "over"
            BY <1>8, <2>2 DEF Saved
        <3> QED
            BY <2>1, <2>2, <3>1 DEF InfraKept, Accounted, OnDisk
    <2>3. CASE n # "apply"
        <3>1. \/ run'["apply"] = run["apply"]
              \/ run'["apply"] = "good" /\ mode = "reset" /\ n = "copy-code"
            BY <1>8, <2>3, ServicesAreNames DEF Saved, Parent, Parents, InfraSteps
        <3>2. applyLost' = applyLost
            BY <1>a, <2>1, <2>3 DEF TypeOK
        <3> QED
            BY <2>1, <3>1, <3>2 DEF InfraKept, Accounted, Applying, OnDisk
    <2> QED
        BY <2>2, <2>3
<1>9. ASSUME NEW n \in Names, SaveFails(n) PROVE InfraKept'
    <2>1. /\ UNCHANGED <<mode, example, steps, file, saved, infra, applyLost>>
          /\ mode # "down"
          /\ run' = [run EXCEPT ![n] = "over"] /\ run[n] = "saving"
        BY <1>9 DEF SaveFails, Goes, procVars, infraVars, historyVars
    <2>2. run'["apply"] = run["apply"] \/ (run'["apply"] = "over" /\ run["apply"] = "saving")
        BY <1>a, <2>1, RunType, ServicesAreNames
    <2> QED
        BY <2>1, <2>2, OthersKeepInfra
<1>10. ASSUME NEW s \in Services, ServiceStep(s) PROVE InfraKept'
    <2>1. UNCHANGED <<mode, example, steps, file, saved, infra, applyLost>> /\ mode # "down"
        BY <1>10
           DEF ServiceStep, ServiceBegins, Due, Prepare, CloneEnds, PatchEnds, Push,
               BuildEnds, procVars, fileVars, infraVars, historyVars
    <2>2. run'["apply"] = run["apply"]
        <3>1. \E to : run' = [run EXCEPT ![s] = to]
            BY <1>10
               DEF ServiceStep, ServiceBegins, Prepare, CloneEnds, PatchEnds, Push,
                   BuildEnds, Goes
        <3> QED
            BY <1>a, <3>1, RunType, ServicesAreNames
    <2> QED
        BY <2>1, <2>2, OthersKeepInfra
<1>11. ASSUME CopyEnds PROVE InfraKept'
    <2>1. UNCHANGED <<mode, example, steps, file, saved, infra, applyLost>> /\ mode # "down"
        BY <1>11 DEF CopyEnds, procVars, fileVars, historyVars
    <2>2. run'["apply"] = run["apply"]
        BY <1>11, <1>a, RunType, ServicesAreNames DEF CopyEnds, Goes
    <2> QED
        BY <2>1, <2>2, OthersKeepInfra
<1>12. ASSUME TerraformEnds PROVE InfraKept'
    <2>1. /\ UNCHANGED <<mode, example, steps, file, saved, applyLost>>
          /\ mode \in {"deploy", "destroy"}
          /\ run["apply"] = "body"
        BY <1>12 DEF TerraformEnds, Goes, procVars, fileVars, historyVars
    <2>2. \/ run'["apply"] = "good" /\ infra'[example] = (IF mode = "deploy" THEN "up" ELSE "none")
          \/ run'["apply"] = "bad" /\ infra' = infra
        BY <1>12, <1>a, RunType, WorldTypes, ServicesAreNames DEF TerraformEnds, Goes
    <2> QED
        BY <2>1, <2>2 DEF InfraKept, Accounted, Applying, OnDisk
<1>13. ASSUME DeployEnds PROVE InfraKept'
    <2>1. ~Applying
        <3>1. mode = "deploy"
            BY <1>13 DEF DeployEnds
        <3>2. CASE run["copy-code"] = "over" /\ "copy-code" \in errs
            BY <3>1, <3>2 DEF StagesInTurn, Returned, Applying
        <3>3. CASE run["apply"] = "over"
            BY <3>3 DEF Applying
        <3> QED
            BY <1>13, <3>2, <3>3, ServicesAreNames DEF DeployEnds, InfraSteps
    <2>2. /\ mode # "down" /\ mode' = "down"
          /\ UNCHANGED <<example, infra, file, saved, applyLost>>
        BY <1>13 DEF DeployEnds, Ends, infraVars, historyVars
    <2> QED
        BY <2>1, <2>2, EndKeepsInfra
<1>14. ASSUME DestroyEnds PROVE InfraKept'
    <2>1. /\ mode = "destroy" /\ mode' = "down"
          /\ UNCHANGED <<example, saved, infra, applyLost>>
          /\ ~Applying
        BY <1>14 DEF DestroyEnds, Ends, infraVars, historyVars, Applying
    <2>2. CASE file' = file
        BY <2>1, <2>2, EndKeepsInfra
    <2>3. CASE errs = {} /\ file' = "absent"
        <3>1. steps["apply"] \in {"none", "DESTROYED"}
            BY <1>14, <2>3 DEF DestroyEnds, UsedInv, InUse
        <3> QED
            BY <2>1, <2>3, <3>1 DEF InfraKept, Accounted, Applying
    <2> QED
        BY <1>14, <2>2, <2>3 DEF DestroyEnds
<1>15. ASSUME ResetEnds PROVE InfraKept'
    <2>1. /\ mode = "reset" /\ mode' = "down"
          /\ UNCHANGED <<example, infra, file, saved, applyLost>>
          /\ ~Applying
        BY <1>15 DEF ResetEnds, Ends, infraVars, historyVars, Applying
    <2> QED
        BY <2>1, EndKeepsInfra
<1>16. CASE UNCHANGED vars
    BY <1>16
       DEF InfraKept, Accounted, Applying, OnDisk, vars, procVars, fileVars, infraVars,
           historyVars
<1>17. ASSUME NEW n \in Names, RecordFails(n) PROVE InfraKept'
    <2>1. /\ UNCHANGED <<mode, example, infra, file, saved>>
          /\ mode \in {"deploy", "destroy", "reset"}
          /\ run[n] \in {"good", "bad"}
          /\ applyLost' = (applyLost \/ (ApplyUnknown /\ n = "apply"))
          /\ \A k \in Names : run'[k] = IF k = n THEN "over" ELSE run[k]
          /\ \A k \in Names : steps'[k] = IF k = n THEN Outcome(n) ELSE steps[k]
        BY <1>17, <1>a, RunType, WorldTypes DEF TypeOK, RecordFails, procVars, infraVars
    <2>2. CASE n = "apply"
        <3>1. Outcome(n) = "DESTROYED" => infra[example] = "none"
            BY <2>1, <2>2 DEF Outcome, InfraKept
        <3>2. Outcome(n) # "none"
            BY <2>1 DEF Outcome
        <3>3. run'["apply"] = "over" /\ Accounted(steps)'
            BY <2>1, <2>2, <3>1, <3>2 DEF Accounted
        <3>4. ~applyLost' /\ file # "torn" => Accounted(OnDisk)
            BY <2>1, <2>2 DEF InfraKept, Accounted, ApplyUnknown, Applying
        <3> QED
            BY <2>1, <3>3, <3>4 DEF InfraKept, Accounted, OnDisk
    <2>3. CASE n # "apply"
        <3>1. run'["apply"] = run["apply"] /\ steps'["apply"] = steps["apply"]
            BY <2>1, <2>3, ServicesAreNames
        <3>2. applyLost' = applyLost
            BY <1>a, <2>1, <2>3 DEF TypeOK
        <3> QED
            BY <2>1, <3>1, <3>2 DEF InfraKept, Accounted, Applying, OnDisk
    <2> QED
        BY <2>2, <2>3
<1> QED
    BY <1>1, <1>2, <1>3, <1>4, <1>5, <1>6, <1>7, <1>8, <1>9, <1>10, <1>11, <1>12,
       <1>13, <1>14, <1>15, <1>16, <1>17
       DEF Next, Starts, Works, StepOf

\* With one example to a steps file, a destroy that reports success has left no
\* infrastructure, for any number of services, invocations, failures, failed saves
\* and kills, unless a terraform apply left nothing in the file: it was killed
\* before its outcome was written, or the file could not be opened for it, and no
\* outcome was written since (DestroyLeavesNothing).
THEOREM DestroyIsComplete ==
    ASSUME Examples = {Default} PROVE Spec => []DestroyLeavesNothing
<1> DEFINE KeptInv == UsedInv /\ StagesInTurn /\ InfraKept
<1>1. Init => KeptInv
    BY InitRecorded, InitInUse, InitTrees, InitInfraKept DEF UsedInv, TreeInv
<1>2. KeptInv /\ [Next]_vars => KeptInv'
    BY StepUsed, StepStages, StepInfraKept DEF UsedInv, RecordedInv
<1>3. KeptInv => DestroyLeavesNothing
    BY ServicesAreNames
       DEF UsedInv, RecordedInv, TypeOK, InfraKept, Accounted, Applying, OnDisk, NoSteps,
           DestroyLeavesNothing
<1> QED
    BY <1>1, <1>2, <1>3, PTL DEF Spec

-----------------------------------------------------------------------------
(* No invocation gets stuck.                                                *)

\* Where the goroutine of a step of the infrastructure may be.
InfraRuns == {"idle", "body", "good", "bad", "saving", "over"}

\* The infrastructure's steps have a body, the services have stages, and a
\* destroy and a reset work on what they were asked for.
InPlace ==
    /\ mode \in {"deploy", "destroy"} => \A n \in InfraSteps : run[n] \in InfraRuns
    /\ mode = "deploy" => \A s \in Services : run[s] # "body"
    /\ mode = "reset" => \A n \in Names : run[n] \in {"idle", "good", "saving", "over"}

\* Some goroutine can go on, or the invocation can end: the guards of the actions.
CanWork ==
    \/ \E n \in Names : run[n] = "saving"
    \/ LockFree /\ \E n \in Names : run[n] \in {"good", "bad"}
    \/ LockFree /\ \E n \in InfraSteps \cup Services : Due(n) /\ run[n] = "idle"
    \/ mode = "deploy" /\ run["copy-code"] = "body"
    \/ mode \in {"deploy", "destroy"} /\ run["apply"] = "body"
    \/ /\ mode = "deploy"
       /\ \E s \in Services :
             \/ run[s] \in {"clone", "patch", "push", "build"}
             \/ run[s] = "prepare" /\ (Preparer = "self-contained" \/ MutexFree)
    \/ /\ mode = "deploy"
       /\ \/ \E n \in InfraSteps : run[n] = "over" /\ n \in errs
          \/ \A n \in InfraSteps \cup Services : run[n] = "over"
    \/ mode = "destroy" /\ run["apply"] = "over"
    \/ mode = "reset" /\ \A n \in Names : run[n] \in {"idle", "over"}

\* Every goroutine stays in its place.
LEMMA StepInPlace == ASSUME TypeOK, StagesInTurn, InPlace, [Next]_vars PROVE InPlace'
<1> USE ServicesAreNames DEF InfraRuns
<1>1. ASSUME NEW m \in {"deploy", "destroy"}, NEW e \in Examples, Start(m, e, NoRuns)
      PROVE  InPlace'
    <2>1. \A n \in Names : NoRuns[n] = "idle"
        BY DEF NoRuns
    <2> QED
        BY <1>1, <2>1 DEF InPlace, Start
<1>2. ASSUME NEW n \in Names, StartReset(n) PROVE InPlace'
    <2>1. \A k \in Names : [NoRuns EXCEPT ![n] = "good"][k] \in {"idle", "good"}
        BY DEF NoRuns
    <2> QED
        BY <1>2, <2>1 DEF InPlace, Start, StartReset
<1>3. CASE Crash \/ DeployEnds \/ DestroyEnds \/ ResetEnds
    BY <1>3 DEF InPlace, Ends, Crash, DeployEnds, DestroyEnds, ResetEnds
<1>4. ASSUME NEW n \in Names, Skip(n) \/ RecordFails(n) \/ SaveFails(n) PROVE InPlace'
    <2>1. mode' = mode /\ \A k \in Names : run'[k] \in {run[k], "over"}
        BY <1>4, RunType DEF Skip, RecordFails, SaveFails, Goes, procVars
    <2> QED
        BY <2>1 DEF InPlace
<1>5. ASSUME NEW n \in Names, BodyBegins(n) PROVE InPlace'
    <2>1. /\ mode' = mode /\ mode # "reset" /\ n \in InfraSteps
          /\ \A k \in Names : run'[k] = IF k = n THEN "body" ELSE run[k]
        BY <1>5, RunType DEF BodyBegins, Due, Goes, procVars
    <2> QED
        BY <2>1 DEF InPlace, InfraSteps
<1>6. ASSUME NEW n \in Names, Record(n) PROVE InPlace'
    <2>1. mode' = mode /\ \A k \in Names : run'[k] \in {run[k], "saving"}
        BY <1>6, RunType DEF Record, procVars
    <2> QED
        BY <2>1 DEF InPlace
<1>7. ASSUME NEW n \in Names, Saved(n) PROVE InPlace'
    <2>1. mode' = mode /\ \A k \in Names : run'[k] \in {run[k], "over", "good"}
        BY <1>7 DEF Saved, procVars
    <2> QED
        BY <2>1 DEF InPlace
<1>8. ASSUME NEW s \in Services, ServiceStep(s) PROVE InPlace'
    <2>1. \E to \in {"prepare", "clone", "patch", "push", "build", "good", "bad"} :
             run' = [run EXCEPT ![s] = to]
        BY <1>8
           DEF ServiceStep, ServiceBegins, Prepare, CloneEnds, PatchEnds, Push,
               BuildEnds, Goes
    <2>2. mode' = mode /\ mode = "deploy"
        BY <1>8
           DEF ServiceStep, ServiceBegins, Due, Prepare, CloneEnds, PatchEnds, Push,
               BuildEnds, procVars
    <2> QED
        BY <2>1, <2>2, RunType DEF InPlace, InfraSteps
<1>9. CASE CopyEnds \/ TerraformEnds
    <2>1. \E n \in InfraSteps, to \in {"good", "bad"} : run' = [run EXCEPT ![n] = to]
        BY <1>9 DEF CopyEnds, TerraformEnds, Goes
    <2>2. mode' = mode /\ mode # "reset"
        BY <1>9 DEF CopyEnds, TerraformEnds, procVars
    <2> QED
        BY <2>1, <2>2, RunType DEF InPlace
<1>10. CASE UNCHANGED vars
    BY <1>10 DEF InPlace, vars, procVars
<1> QED
    BY <1>1, <1>2, <1>3, <1>4, <1>5, <1>6, <1>7, <1>8, <1>9, <1>10
       DEF Next, Starts, StartDeploy, StartDestroy, Works, StepOf

\* A running deploy has a step to go on with.
LEMMA DeployCanWork ==
    ASSUME TypeOK, InPlace, mode = "deploy" PROVE CanWork
<1> USE ServicesAreNames
<1>1. SUFFICES ASSUME LockFree, \A n \in Names : run[n] \notin {"good", "bad"}
               PROVE  CanWork
    BY DEF CanWork, LockFree
<1>2. \A n \in InfraSteps : run[n] \in {"idle", "body", "over"}
    BY <1>1 DEF InPlace, InfraRuns, LockFree
<1>3. \A s \in Services : run[s] \in {"idle", "prepare", "clone", "patch", "push", "build", "over"}
    BY <1>1, RunType DEF InPlace, RunStates, LockFree
<1>4. CASE ~Returned("copy-code")
    BY <1>1, <1>2, <1>4 DEF CanWork, Due, Returned
<1>5. CASE Returned("copy-code") /\ ~Returned("apply")
    BY <1>1, <1>2, <1>5 DEF CanWork, Due, Returned
<1>6. CASE Returned("copy-code") /\ Returned("apply")
    <2>1. CASE \A s \in Services : run[s] = "over"
        BY <1>6, <2>1 DEF CanWork, Returned, InfraSteps
    <2>2. CASE \E s \in Services : run[s] = "idle"
        BY <1>1, <1>6, <2>2 DEF CanWork, Due
    <2>3. CASE \E s \in Services : run[s] \in {"clone", "patch", "push", "build"}
        BY <2>3 DEF CanWork
    <2>4. CASE /\ \E s \in Services : run[s] = "prepare"
               /\ ~ \E s \in Services : run[s] \in {"clone", "patch", "push", "build"}
        BY <2>4 DEF CanWork, MutexFree
    <2> QED
        BY <1>3, <2>1, <2>2, <2>3, <2>4
<1> QED
    BY <1>4, <1>5, <1>6

\* The lock of the record, the preparer's mutex and the wait for all services
\* never leave a running invocation without a step that can be taken, whatever
\* failed before and however many services there are (NeverStuck, with the guards
\* of the actions in place of ENABLED).
THEOREM SomeStepIsOpen == Spec => [](mode # "down" => CanWork)
<1> DEFINE PlaceInv == UsedInv /\ StagesInTurn /\ InPlace
<1>1. Init => PlaceInv
    BY InitRecorded, InitInUse, InitTrees DEF UsedInv, TreeInv, Init, InPlace
<1>2. PlaceInv /\ [Next]_vars => PlaceInv'
    BY StepUsed, StepStages, StepInPlace DEF UsedInv, RecordedInv
<1>3. PlaceInv => (mode # "down" => CanWork)
    <2> SUFFICES ASSUME PlaceInv, mode # "down" PROVE CanWork
        OBVIOUS
    <2>1. CASE mode = "deploy"
        BY <2>1, DeployCanWork DEF UsedInv, RecordedInv
    <2>2. CASE mode = "destroy"
        BY <2>2, ServicesAreNames
           DEF CanWork, Due, LockFree, InPlace, InfraRuns, UsedInv, InUse
    <2>3. CASE mode = "reset"
        BY <2>3 DEF CanWork, LockFree, InPlace
    <2> QED
        BY <2>1, <2>2, <2>3 DEF UsedInv, RecordedInv, TypeOK
<1> QED
    BY <1>1, <1>2, <1>3, PTL DEF Spec

-----------------------------------------------------------------------------
(* Every invocation ends.                                                   *)

\* A reset works on one step at a time: the step it was asked for, and only then
\* its parent.
OneReset ==
    mode = "reset" =>
        \A n \in Names : run[n] \in {"good", "saving"} =>
            /\ \A m \in Names \ {n} : run[m] \in {"idle", "over"}
            /\ n \notin Parents => \A p \in Parents : run[p] = "idle"

\* The parent of a step that is no parent is another step.
LEMMA ParentIsAnother ==
    /\ \A n \in Names : Parent(n) \in Parents
    /\ Parents \subseteq Names
    BY DEF Parent, Parents, Names

\* Every step keeps a reset to one step at a time.
LEMMA StepOneReset ==
    ASSUME TypeOK, InPlace, OneReset, [Next]_vars PROVE OneReset'
<1> SUFFICES ASSUME mode' = "reset" PROVE OneReset'
    BY DEF OneReset
<1>0. run \in [Names -> RunStates]
    BY RunType
<1>1. ASSUME NEW m, NEW e, NEW first \in [Names -> RunStates], Start(m, e, first),
             \/ \A n \in Names : first[n] = "idle"
             \/ \E n \in Names : first = [NoRuns EXCEPT ![n] = "good"]
      PROVE  OneReset'
    <2>1. mode' = m /\ run' = first
        BY <1>1 DEF Start
    <2>2. CASE \A n \in Names : first[n] = "idle"
        BY <2>1, <2>2 DEF OneReset
    <2>3. ASSUME NEW n \in Names, first = [NoRuns EXCEPT ![n] = "good"]
          PROVE  OneReset'
        <3>1. \A k \in Names : run'[k] = IF k = n THEN "good" ELSE "idle"
            BY <2>1, <2>3 DEF NoRuns
        <3> QED
            BY <3>1, ParentIsAnother DEF OneReset
    <2> QED
        BY <1>1, <2>2, <2>3
<1>2. ASSUME NEW n \in Names, Record(n) PROVE OneReset'
    <2>1. /\ mode = "reset" /\ run[n] \in {"good", "bad"}
          /\ run' = [run EXCEPT ![n] = "saving"]
        BY <1>2 DEF Record, procVars
    <2>2. run[n] = "good"
        BY <2>1 DEF InPlace
    <2>3. \A k \in Names : run'[k] = IF k = n THEN "saving" ELSE run[k]
        BY <1>0, <2>1
    <2> QED
        BY <2>1, <2>2, <2>3 DEF OneReset
<1>3. ASSUME NEW n \in Names, Saved(n) PROVE OneReset'
    <2>1. /\ mode = "reset" /\ run[n] = "saving"
          /\ \A m \in Names :
                run'[m] = IF m = n THEN "over"
                          ELSE IF n \notin Parents /\ m = Parent(n) THEN "good"
                          ELSE run[m]
        BY <1>3 DEF Saved, procVars
    <2>2. \A m \in Names \ {n} : run[m] \in {"idle", "over"}
        BY <2>1 DEF OneReset
    <2>3. \A m \in Names : run'[m] \in {"idle", "over"} \/ (m = Parent(n) /\ m \in Parents)
        BY <2>1, <2>2, ParentIsAnother
    <2>4. \A m \in Names \ {Parent(n)} : run'[m] \in {"idle", "over"}
        BY <2>1, <2>2
    <2> QED
        BY <2>3, <2>4 DEF OneReset
<1>4. ASSUME NEW n \in Names, RecordFails(n) \/ SaveFails(n) PROVE OneReset'
    <2>1. /\ mode = "reset" /\ run[n] \in {"good", "bad", "saving"}
          /\ run' = [run EXCEPT ![n] = "over"]
        BY <1>4 DEF RecordFails, SaveFails, Goes, procVars
    <2>2. \A k \in Names : run'[k] = IF k = n THEN "over" ELSE run[k]
        BY <1>0, <2>1
    <2>3. run[n] # "bad"
        BY <2>1 DEF InPlace
    <2>4. \A k \in Names : run'[k] \in {"idle", "over"}
        BY <2>1, <2>2, <2>3 DEF OneReset
    <2> QED
        BY <2>4 DEF OneReset
<1>5. ASSUME NEW n \in Names, Skip(n) \/ BodyBegins(n) PROVE FALSE
    BY <1>5 DEF Skip, BodyBegins, Due, procVars
<1>6. ASSUME NEW s \in Services, ServiceStep(s) PROVE FALSE
    BY <1>6 DEF ServiceStep, ServiceBegins, Due, Prepare, CloneEnds, PatchEnds, Push,
        BuildEnds, procVars
<1>7. CASE CopyEnds \/ TerraformEnds
    BY <1>7 DEF CopyEnds, TerraformEnds, procVars
<1>8. CASE Crash \/ DeployEnds \/ DestroyEnds \/ ResetEnds
    BY <1>8 DEF Crash, DeployEnds, DestroyEnds, ResetEnds, Ends
<1>9. CASE UNCHANGED vars
    BY <1>9 DEF vars, procVars, OneReset
<1>10. CASE Starts
    <2>1. NoRuns \in [Names -> RunStates] /\ \A n \in Names : NoRuns[n] = "idle"
        BY DEF NoRuns, RunStates
    <2>2. \A n \in Names : [NoRuns EXCEPT ![n] = "good"] \in [Names -> RunStates]
        BY DEF NoRuns, RunStates
    <2>3. CASE mode = "reset"
        BY <1>10, <2>3 DEF Starts, StartDeploy, StartDestroy, StartReset, Start
    <2>4. CASE mode # "reset"
        <3>1. PICK m, e, first : /\ Start(m, e, first)
                                 /\ \/ first = NoRuns
                                    \/ \E n \in Names : first = [NoRuns EXCEPT ![n] = "good"]
            BY <1>10 DEF Starts, StartDeploy, StartDestroy, StartReset
        <3> QED
            BY <1>1, <2>1, <2>2, <3>1
    <2> QED
        BY <2>3, <2>4
<1> QED
    BY <1>2, <1>3, <1>4, <1>5, <1>6, <1>7, <1>8, <1>9, <1>10 DEF Next, Works, StepOf

\* How far the goroutine of a step is from its end.
Ahead ==
    [at \in RunStates |->
        CASE at = "idle"                -> 9
          [] at \in {"body", "prepare"} -> 8
          [] at = "clone"               -> 7
          [] at = "patch"               -> 6
          [] at = "push"                -> 5
          [] at = "build"               -> 4
          [] at \in {"good", "bad"}     -> 3
          [] at = "saving"              -> 2
          [] OTHER                      -> 0]

\* What all of them have ahead, told apart by the step and a number, and what
\* the invocation has: nothing when it is down.
StepsOf == {p \in Names \X (1..9) : p[2] <= Ahead[run[p[1]]]}
ToGo == IF mode = "down" THEN 0 ELSE 1 + Cardinality(StepsOf)

\* With finitely many services it is a number, at most nine for each step and one.
LEMMA StepsAreFinite ==
    ASSUME IsFiniteSet(Services), NEW S \in SUBSET (Names \X (1..9))
    PROVE  /\ IsFiniteSet(S)
           /\ Cardinality(S) \in Nat
           /\ Cardinality(Names) \in Nat
           /\ Cardinality(S) <= 9 * Cardinality(Names)
<1>1. IsFiniteSet(Names)
    <2>1. IsFiniteSet({"copy-code", "apply"}) /\ IsFiniteSet({"gcp-infra", "gcp-appsource"})
        <3>1. IsFiniteSet({"copy-code"}) /\ IsFiniteSet({"gcp-infra"})
            BY FS_Singleton
        <3>2. IsFiniteSet({"copy-code"} \cup {"apply"})
            BY <3>1, FS_AddElement
        <3>3. IsFiniteSet({"gcp-infra"} \cup {"gcp-appsource"})
            BY <3>1, FS_AddElement
        <3>4. /\ {"copy-code", "apply"} = {"copy-code"} \cup {"apply"}
              /\ {"gcp-infra", "gcp-appsource"} = {"gcp-infra"} \cup {"gcp-appsource"}
            OBVIOUS
        <3> QED
            BY <3>2, <3>3, <3>4
    <2>2. IsFiniteSet({"copy-code", "apply"} \cup Services)
        BY <2>1, FS_Union
    <2> QED
        BY <2>1, <2>2, FS_Union DEF Names, InfraSteps, Parents
<1>2. Cardinality(Names) \in Nat
    BY <1>1, FS_CardinalityType
<1>3. IsFiniteSet(1..9) /\ Cardinality(1..9) = 9
    <2>1. \A n \in Nat : IsFiniteSet(1..n) /\ Cardinality(1..n) = n
        BY FS_Interval
    <2> QED
        BY <2>1
<1>4. /\ IsFiniteSet(Names \X (1..9))
      /\ Cardinality(Names \X (1..9)) = Cardinality(Names) * 9
    BY <1>1, <1>3, FS_Product
<1>5. IsFiniteSet(S) /\ Cardinality(S) <= Cardinality(Names \X (1..9))
    BY <1>4, FS_Subset
<1> QED
    BY <1>2, <1>4, <1>5, FS_CardinalityType

\* When no goroutine goes back and one comes closer, there is less to go.
LEMMA CloserIsLess ==
    ASSUME IsFiniteSet(Services), TypeOK, TypeOK', mode # "down", mode' # "down",
           \A m \in Names : Ahead[run'[m]] <= Ahead[run[m]],
           NEW n \in Names, Ahead[run'[n]] < Ahead[run[n]]
    PROVE  ToGo' < ToGo
<1>1. /\ run \in [Names -> RunStates] /\ run' \in [Names -> RunStates]
      /\ \A at \in RunStates : Ahead[at] \in 0..9
    BY DEF TypeOK, Ahead, RunStates
<1>2. StepsOf' \subseteq StepsOf
    <2> SUFFICES ASSUME NEW m \in Names, NEW k \in 1..9, <<m, k>> \in StepsOf'
                 PROVE  <<m, k>> \in StepsOf
        BY DEF StepsOf
    <2>1. k <= Ahead[run'[m]]
        BY DEF StepsOf
    <2>2. k <= Ahead[run[m]]
        BY <1>1, <2>1
    <2> QED
        BY <2>2 DEF StepsOf
<1>3. /\ <<n, Ahead[run[n]]>> \in StepsOf
      /\ <<n, Ahead[run[n]]>> \notin StepsOf'
    <2>1. Ahead[run[n]] \in 1..9 /\ ~(Ahead[run[n]] <= Ahead[run'[n]])
        BY <1>1
    <2>2. \A k \in 1..9 : /\ <<n, k>> \in StepsOf <=> k <= Ahead[run[n]]
                          /\ <<n, k>> \in StepsOf' <=> k <= Ahead[run'[n]]
        BY DEF StepsOf
    <2>3. Ahead[run[n]] <= Ahead[run[n]]
        BY <2>1
    <2> QED
        BY <2>1, <2>2, <2>3
<1>4. StepsOf \in SUBSET (Names \X (1..9))
    BY DEF StepsOf
<1>5. IsFiniteSet(StepsOf) /\ Cardinality(StepsOf) \in Nat
    BY <1>4, StepsAreFinite
<1>6. /\ IsFiniteSet(StepsOf')
      /\ Cardinality(StepsOf') <= Cardinality(StepsOf)
      /\ Cardinality(StepsOf) = Cardinality(StepsOf') => StepsOf = StepsOf'
    BY <1>2, <1>5, FS_Subset
<1>7. Cardinality(StepsOf') \in Nat
    BY <1>6, FS_CardinalityType
<1> QED
    BY <1>3, <1>5, <1>6, <1>7 DEF ToGo

\* Whatever a running invocation does, there is less to go after it.
LEMMA StepIsLess ==
    ASSUME IsFiniteSet(Services), TypeOK, TypeOK', InPlace, OneReset, Works \/ Crash
    PROVE  ToGo' < ToGo
<1>0. run \in [Names -> RunStates] /\ Services \subseteq Names /\ InfraSteps \subseteq Names
    BY RunType DEF Names
<1>1. CASE Crash \/ DeployEnds \/ DestroyEnds \/ ResetEnds
    <2>1. mode # "down" /\ mode' = "down"
        BY <1>1 DEF Crash, DeployEnds, DestroyEnds, ResetEnds, Ends
    <2>2. Cardinality(StepsOf) \in Nat
        BY StepsAreFinite DEF StepsOf
    <2> QED
        BY <2>1, <2>2 DEF ToGo
<1>2. ASSUME NEW n \in Names,
             \/ Skip(n) \/ BodyBegins(n) \/ Record(n) \/ RecordFails(n) \/ SaveFails(n)
             \/ n \in Services /\ ServiceStep(n)
             \/ n = "copy-code" /\ CopyEnds
             \/ n = "apply" /\ TerraformEnds
      PROVE  ToGo' < ToGo
    <2>1. mode # "down" /\ mode' = mode
        BY <1>2 DEF Skip, BodyBegins, Record, RecordFails, SaveFails, ServiceStep, ServiceBegins, Due,
            Prepare, CloneEnds, PatchEnds, Push, BuildEnds, CopyEnds, TerraformEnds, procVars
    <2>2. /\ \A m \in Names \ {n} : run'[m] = run[m]
          /\ \/ run[n] = "idle" /\ run'[n] \in {"over", "body", "prepare", "bad"}
             \/ run[n] = "body" /\ run'[n] \in {"good", "bad"}
             \/ run[n] \in {"good", "bad"} /\ run'[n] \in {"saving", "over"}
             \/ run[n] = "saving" /\ run'[n] = "over"
             \/ run[n] = "prepare" /\ run'[n] \in {"clone", "patch", "push"}
             \/ run[n] = "clone" /\ run'[n] \in {"patch", "push", "bad"}
             \/ run[n] = "patch" /\ run'[n] \in {"push", "bad"}
             \/ run[n] = "push" /\ run'[n] \in {"build", "bad"}
             \/ run[n] = "build" /\ run'[n] \in {"good", "bad"}
        <3>1. CASE Skip(n) \/ BodyBegins(n) \/ SaveFails(n)
            BY <1>0, <3>1 DEF Skip, BodyBegins, SaveFails, Goes
        <3>2. CASE Record(n) \/ RecordFails(n)
            BY <1>0, <3>2 DEF Record, RecordFails
        <3>3. CASE n \in Services /\ ServiceStep(n)
            <4>1. CASE ServiceBegins(n)
                BY <1>0, <4>1 DEF ServiceBegins, Goes
            <4>2. CASE Prepare(n)
                BY <1>0, <4>2 DEF Prepare, Goes
            <4>3. CASE CloneEnds(n)
                BY <1>0, <4>3 DEF CloneEnds, Goes
            <4>4. CASE PatchEnds(n) \/ Push(n) \/ BuildEnds(n)
                BY <1>0, <4>4 DEF PatchEnds, Push, BuildEnds, Goes
            <4> QED
                BY <3>3, <4>1, <4>2, <4>3, <4>4 DEF ServiceStep
        <3>4. CASE n = "copy-code" /\ CopyEnds
            BY <1>0, <3>4 DEF CopyEnds, Goes
        <3>5. CASE n = "apply" /\ TerraformEnds
            BY <1>0, <3>5 DEF TerraformEnds, Goes
        <3> QED
            BY <1>2, <3>1, <3>2, <3>3, <3>4, <3>5
    <2>3. Ahead[run'[n]] < Ahead[run[n]]
        BY <2>2 DEF Ahead, RunStates
    <2>4. \A m \in Names : Ahead[run'[m]] <= Ahead[run[m]]
        <3>1. \A at \in RunStates : Ahead[at] \in 0..9
            BY DEF Ahead, RunStates
        <3>2. run' \in [Names -> RunStates]
            BY DEF TypeOK
        <3> QED
            BY <1>0, <2>2, <2>3, <3>1, <3>2
    <2> QED
        BY <2>1, <2>3, <2>4, CloserIsLess
<1>3. ASSUME NEW n \in Names, Saved(n) PROVE ToGo' < ToGo
    <2>1. mode # "down" /\ mode' = mode /\ run[n] = "saving"
        BY <1>3 DEF Saved, procVars
    <2>2. CASE mode = "reset" /\ n \notin Parents
        <3>1. Parent(n) \in Names /\ run[Parent(n)] = "idle"
            BY <2>1, <2>2, ParentIsAnother DEF OneReset
        <3>2. \A m \in Names : run'[m] = IF m = n THEN "over"
                                         ELSE IF m = Parent(n) THEN "good" ELSE run[m]
            BY <1>3, <2>2 DEF Saved
        <3>3. /\ Ahead["over"] < Ahead["saving"] /\ Ahead["good"] < Ahead["idle"]
              /\ \A at \in RunStates : Ahead[at] \in 0..9
              /\ "over" \in RunStates /\ "saving" \in RunStates
              /\ "good" \in RunStates /\ "idle" \in RunStates
            BY DEF Ahead, RunStates
        <3>4. \A m \in Names : Ahead[run'[m]] <= Ahead[run[m]]
            BY <1>0, <2>1, <3>1, <3>2, <3>3
        <3>5. Ahead[run'[n]] < Ahead[run[n]]
            BY <2>1, <3>2, <3>3
        <3> QED
            BY <2>1, <3>4, <3>5, CloserIsLess
    <2>3. CASE ~(mode = "reset" /\ n \notin Parents)
        <3>1. \A m \in Names : run'[m] = IF m = n THEN "over" ELSE run[m]
            BY <1>3, <2>3 DEF Saved
        <3>2. /\ Ahead["over"] = 0 /\ Ahead["saving"] = 2
              /\ \A at \in RunStates : Ahead[at] \in 0..9
            BY DEF Ahead, RunStates
        <3>3. \A m \in Names : Ahead[run'[m]] <= Ahead[run[m]]
            BY <1>0, <2>1, <3>1, <3>2
        <3>4. Ahead[run'[n]] < Ahead[run[n]]
            BY <2>1, <3>1, <3>2
        <3> QED
            BY <2>1, <3>3, <3>4, CloserIsLess
    <2> QED
        BY <2>2, <2>3
<1> QED
    BY <1>0, <1>1, <1>2, <1>3 DEF Works, StepOf, InfraSteps

\* Every invocation ends, a deploy, a destroy or a reset, whatever fails in it:
\* each of its steps leaves less to go, from at most nine for each recorded name
\* and one, so no goroutine's retry, no wait for the lock or the mutex and no reset
\* that goes on to a parent keeps it running (steps.go: RunStep, RunDestroyStep,
\* resetStepLocked; the services' goroutines).  SomeStepIsOpen says that as long as
\* it runs one of those steps can be taken.
THEOREM InvocationsRunOut ==
    ASSUME IsFiniteSet(Services)
    PROVE  Spec => /\ [](ToGo \in 0..(1 + 9 * Cardinality(Names)))
                   /\ [][Starts \/ ToGo' < ToGo]_vars
<1> DEFINE EndInv == UsedInv /\ StagesInTurn /\ InPlace /\ OneReset
<1>1. Init => EndInv
    BY InitRecorded, InitInUse, InitTrees DEF UsedInv, TreeInv, Init, InPlace, OneReset
<1>2. EndInv /\ [Next]_vars => EndInv'
    BY StepUsed, StepStages, StepInPlace, StepOneReset DEF UsedInv, RecordedInv
<1>3. ToGo \in 0..(1 + 9 * Cardinality(Names))
    <2>1. StepsOf \in SUBSET (Names \X (1..9))
        BY DEF StepsOf
    <2>2. /\ Cardinality(StepsOf) \in Nat /\ Cardinality(Names) \in Nat
          /\ Cardinality(StepsOf) <= 9 * Cardinality(Names)
        BY <2>1, StepsAreFinite
    <2> QED
        BY <2>2 DEF ToGo
<1>4. EndInv /\ EndInv' /\ [Next]_vars => [Starts \/ ToGo' < ToGo]_vars
    BY StepIsLess DEF UsedInv, RecordedInv, Next
<1> QED
    BY <1>1, <1>2, <1>3, <1>4, PTL DEF Spec
=============================================================================
