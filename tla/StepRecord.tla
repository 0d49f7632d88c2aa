----------------------------- MODULE StepRecord -----------------------------
(***************************************************************************)
(* What the steps file of the deployment helper promises to those who use   *)
(* it: a map from steps to statuses that changes one status at a time, in    *)
(* whatever order the goroutines come, with a copy that is kept for the next *)
(* invocation.  Completed steps are not completed again, and only what was   *)
(* recorded is destroyed.                                                   *)
(*                                                                          *)
(* An update is kept, or it is not and the copy stays a record as it was     *)
(* after one of the updates before.  An interrupted save loses even that:    *)
(* then nothing can be read any more.                                       *)
(***************************************************************************)
CONSTANTS
    Names,   \* the steps
    Undone   \* the step that stands for all when they are undone

VARIABLES
    record,  \* the status of every step
    kept,    \* what the next invocation will find
    broken   \* the record cannot be read any more

Empty == [n \in Names |-> "none"]

Init == record = Empty /\ kept = Empty /\ broken = FALSE

\* A step was completed, failed, destroyed or reset, and that was kept, with all
\* that is in memory, or not.
Update(n, status) ==
    /\ ~broken
    /\ status = "COMPLETED" => record[n] # "COMPLETED"
    /\ status = "DESTROYED" => record[n] \notin {"none", "DESTROYED"}
    /\ record' = [record EXCEPT ![n] = status]
    /\ kept' \in {record', kept}
    /\ UNCHANGED broken

\* An invocation ends: what was not kept is forgotten.
Forget ==
    /\ ~broken
    /\ record' = kept
    /\ UNCHANGED <<kept, broken>>

\* The record starts afresh when there is nothing left to undo.
Clear ==
    /\ ~broken
    /\ record[Undone] \in {"none", "DESTROYED"}
    /\ record' = Empty
    /\ kept' = Empty
    /\ UNCHANGED broken

\* An invocation ends in the middle of a save, or after one that was cut short.
Break ==
    /\ record' = Empty
    /\ kept' = Empty
    /\ broken' = TRUE

Next ==
    \/ \E n \in Names, status \in {"COMPLETED", "DESTROYED", "FAILED", "PENDING"} :
          Update(n, status)
    \/ Forget
    \/ Clear
    \/ Break

Spec == Init /\ [][Next]_<<record, kept, broken>>
=============================================================================
