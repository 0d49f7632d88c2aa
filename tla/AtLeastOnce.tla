----------------------------- MODULE AtLeastOnce -----------------------------
(***************************************************************************)
(* What a worker of a request queue promises: every request is answered     *)
(* before it is settled.  An answer may be repeated, an unanswered request   *)
(* may wait for ever.                                                        *)
(***************************************************************************)
CONSTANT Requests

VARIABLES
    answered,  \* requests an answer was sent for, at least once
    settled    \* requests that will not be handed out again

Init == answered = {} /\ settled = {}

Answer(r) ==
    /\ answered' = answered \cup {r}
    /\ UNCHANGED settled

Settle(r) ==
    /\ r \in answered
    /\ settled' = settled \cup {r}
    /\ UNCHANGED answered

Next == \E r \in Requests : Answer(r) \/ Settle(r)

Spec == Init /\ [][Next]_<<answered, settled>>
=============================================================================
