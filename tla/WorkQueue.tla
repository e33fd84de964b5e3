------------------------------ MODULE WorkQueue ------------------------------
(***************************************************************************)
(* What the scan queue promises its workers: an item that was submitted is *)
(* handed to one worker at a time, and only the worker that holds it       *)
(* closes it.  Nothing is said about how a worker finds its next item.     *)
(***************************************************************************)
CONSTANTS Items, Workers, Nobody   \* Nobody is no worker

VARIABLES
    work,     \* "absent", "open" or "closed"
    holder    \* the worker an open item is with

workVars == <<work, holder>>

WorkInit == work \in [Items -> {"absent", "open"}] /\ holder = [i \in Items |-> Nobody]

Submit(i) ==
    /\ work[i] # "open"
    /\ work' = [work EXCEPT ![i] = "open"]
    /\ UNCHANGED holder

HandOut(w, i) ==
    /\ work[i] = "open" /\ holder[i] = Nobody
    /\ \A k \in Items : holder[k] # w
    /\ holder' = [holder EXCEPT ![i] = w]
    /\ UNCHANGED work

Close(w, i) ==
    /\ holder[i] = w
    /\ work' = [work EXCEPT ![i] = "closed"]
    /\ holder' = [holder EXCEPT ![i] = Nobody]

WorkNext == \E i \in Items : Submit(i) \/ \E w \in Workers : HandOut(w, i) \/ Close(w, i)

WorkSpec == WorkInit /\ [][WorkNext]_workVars
=============================================================================
