---------------------------- MODULE BuildContract -----------------------------
(***************************************************************************)
(* What `cooper build` promises of the artifacts of a plan: each one is    *)
(* settled, once and by itself; a run that ends has settled all of them,   *)
(* and one that is killed has settled none.                                *)
(***************************************************************************)
EXTENDS Sequences

VARIABLES
    running,
    results   \* "pending", "ok" or "error" for every artifact of the plan

Init == running = FALSE /\ results = <<>>

Start ==
    /\ ~running /\ running' = TRUE
    /\ \A i \in DOMAIN results' : results'[i] = "pending"

Settle ==
    /\ running /\ UNCHANGED running
    /\ \E i \in DOMAIN results : \E r \in {"ok", "error"} :
          /\ results[i] = "pending"
          /\ results' = [results EXCEPT ![i] = r]

Finish ==
    /\ running /\ running' = FALSE
    /\ \A i \in DOMAIN results : results[i] # "pending"
    /\ UNCHANGED results

Killed == running /\ running' = FALSE /\ results' = <<>>

\* The plan is refused, with no artifact looked at.
Refuse == ~running /\ results' = <<>> /\ UNCHANGED running

Next == Start \/ Settle \/ Finish \/ Killed \/ Refuse

Spec == Init /\ [][Next]_<<running, results>>

===============================================================================
