---------------------------- MODULE StoreAndForward ----------------------------
(***************************************************************************)
(* What the edge collector promises about a measurement it has stored: the *)
(* local copy is given up only for a record that the cloud holds, or set   *)
(* aside when the cloud has refused the record itself.  Nothing here knows *)
(* of batches, retries, lost replies or restarts; ReadingUpload implements *)
(* this module.                                                            *)
(***************************************************************************)
CONSTANT Reading      \* the measurements that can be taken

VARIABLES local,      \* what the collector holds for each reading
          delivered   \* the readings the cloud has stored

vars == <<local, delivered>>

LocalState == {"none", "held", "released", "refused"}

Init == /\ local = [r \in Reading |-> "none"]
        /\ delivered = {}

\* A sample is written to the local store.
Capture(r) == /\ local[r] = "none"
              /\ local' = [local EXCEPT ![r] = "held"]
              /\ UNCHANGED delivered

\* The cloud stores some of the readings that are still held.
Deliver(S) == /\ \A r \in S : local[r] = "held"
              /\ delivered' = delivered \cup S
              /\ UNCHANGED local

\* Readings the cloud has stored are marked as done.
Release(S) == /\ \A r \in S : local[r] = "held" /\ r \in delivered
              /\ local' = [r \in Reading |-> IF r \in S THEN "released" ELSE local[r]]
              /\ UNCHANGED delivered

\* A reading the cloud does not have, and will not take, is set aside.
Refuse(r) == /\ local[r] = "held"
             /\ r \notin delivered
             /\ local' = [local EXCEPT ![r] = "refused"]
             /\ UNCHANGED delivered

Next == \/ \E r \in Reading : Capture(r) \/ Refuse(r)
        \/ \E S \in SUBSET Reading : Deliver(S) \/ Release(S)

Spec == Init /\ [][Next]_vars
================================================================================
