------------------------------- MODULE Delivery -------------------------------
(***************************************************************************)
(* What a file transfer promises the party that receives a file that was   *)
(* announced with its size and hash: what has been written is always a     *)
(* beginning of the file, and "complete" is said of the whole file only    *)
(* and is never taken back.                                                *)
(***************************************************************************)
EXTENDS Naturals

CONSTANT Sizes         \* the sizes a file can have, in blocks

VARIABLES
    length,            \* the size of the file that is offered
    delivered,         \* the number of blocks that were written
    verdict            \* what the receiving party was told

dvars == <<length, delivered, verdict>>

Init ==
    /\ length \in Sizes
    /\ delivered = 0
    /\ verdict = "open"

\* Blocks that arrive together are written together, and the last of them
\* may decide.
Deliver ==
    /\ verdict = "open"
    /\ delivered' \in delivered .. length
    /\ verdict' \in {"open", "failed"} \cup (IF delivered' = length THEN {"complete"} ELSE {})
    /\ UNCHANGED length

\* A failure may still turn into "complete", if all blocks are there: a stream
\* that is opened late takes up a job that was aborted.
Conclude ==
    /\ verdict # "complete"
    /\ verdict' \in {"failed"} \cup (IF delivered = length THEN {"complete"} ELSE {})
    /\ UNCHANGED <<length, delivered>>

Next == Deliver \/ Conclude

Spec == Init /\ [][Next]_dvars
===============================================================================
