--------------------------- MODULE BatchResults ---------------------------
(***************************************************************************)
(* What fetching promises: the items of a completed batch job take the     *)
(* results their provider has for them, each at most once and none other.  *)
(***************************************************************************)
EXTENDS Naturals

CONSTANT N          \* the number of items of the job

VARIABLES results,  \* what the provider has for each item
          item      \* the status of each item

Items == 1..N
Result == {"success", "error", "missing"}
ItemStatus == {"queued", "completed", "failed"}

\* The status batch_fetch gives an item for a result row.
StatusFor(r) == IF r = "success" THEN "completed" ELSE "failed"

Init ==
    /\ results \in [Items -> Result]
    /\ item = [i \in Items |-> "queued"]

Deliver(i) ==
    /\ item[i] = "queued"
    /\ results[i] # "missing"
    /\ item' = [item EXCEPT ![i] = StatusFor(results[i])]
    /\ UNCHANGED results

Next == \E i \in Items : Deliver(i)

Spec == Init /\ [][Next]_<<results, item>>
=============================================================================
