-------------------------------- MODULE ScanBoard ------------------------------
(***************************************************************************)
(* What an administrator may rely on when a site's network is scanned: one *)
(* scan is wanted at a time, what a finished scan shows stays as it is     *)
(* until it is deleted, a scan that was given up may still be answered,    *)
(* and a number is never used for a second scan.  Nothing here knows of    *)
(* collectors, requests or transactions; DiscoveryJobs implements this     *)
(* module.                                                                 *)
(***************************************************************************)
CONSTANTS Job,      \* the numbers of the scans
          Result,   \* what a finished scan may show
          Nothing   \* what any other shows

VARIABLES board,    \* where each scan stands
          shown     \* what is shown of it

boardVars == <<board, shown>>

Standing == {"free", "wanted", "given_up", "finished", "deleted"}

In(standing) == {j \in Job : board[j] = standing}

Init == /\ board = [j \in Job |-> "free"]
        /\ shown = [j \in Job |-> Nothing]

\* Settled scans are deleted, wanted ones given up, and then, when none is
\* wanted any more, a new one may be asked for.
Revise(D, G, N) ==
  /\ D \subseteq In("given_up") \cup In("finished")
  /\ G \subseteq In("wanted")
  /\ N \subseteq In("free")
  /\ N # {} => G = In("wanted") /\ \E j \in N : N = {j}
  /\ board' = [j \in Job |-> IF j \in D THEN "deleted"
                             ELSE IF j \in G THEN "given_up"
                             ELSE IF j \in N THEN "wanted" ELSE board[j]]
  /\ shown' = [j \in Job |-> IF j \in D THEN Nothing ELSE shown[j]]

\* The answer to a scan that is wanted, or was.
Finish(j, r) == /\ board[j] \in {"wanted", "given_up"}
                /\ board' = [board EXCEPT ![j] = "finished"]
                /\ shown' = [shown EXCEPT ![j] = r]

Next == \/ \E D, G, N \in SUBSET Job : Revise(D, G, N)
        \/ \E j \in Job, r \in Result : Finish(j, r)

Spec == Init /\ [][Next]_boardVars
================================================================================
