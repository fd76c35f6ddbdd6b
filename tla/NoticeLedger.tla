------------------------------- MODULE NoticeLedger ----------------------------
(***************************************************************************)
(* What a recipient may rely on: a notice is attempted a limited number of *)
(* times, and arrives at most as often as it was attempted; it is called   *)
(* sent only after it arrived, and failed only after it was attempted; and *)
(* once it is settled it stays so, although a copy may still arrive.       *)
(* Nothing here knows of workers, leases or reasons to cancel; EmailQueue  *)
(* implements this module.                                                 *)
(***************************************************************************)
EXTENDS Naturals

CONSTANTS Notice,
          Limit   \* of attempts

VARIABLES standing,  \* "none", "queued", "sent", "failed" or "cancelled"
          tries,     \* how often each notice was attempted
          copies     \* how often it arrived

ledgerVars == <<standing, tries, copies>>

In(s) == {n \in Notice : standing[n] = s}

Init == /\ standing = [n \in Notice |-> "none"]
        /\ tries = [n \in Notice |-> 0]
        /\ copies = [n \in Notice |-> 0]

\* Some notices are queued, and some that were are cancelled.
Revise(Q, C) == /\ Q \subseteq In("none")
                /\ C \subseteq In("queued")
                /\ standing' = [n \in Notice |-> IF n \in Q THEN "queued"
                                                 ELSE IF n \in C THEN "cancelled"
                                                 ELSE standing[n]]
                /\ UNCHANGED <<tries, copies>>

Attempt(n) == /\ standing[n] = "queued"
              /\ tries[n] < Limit
              /\ tries' = [tries EXCEPT ![n] = @ + 1]
              /\ UNCHANGED <<standing, copies>>

\* A copy arrives, perhaps of a notice that has been settled meanwhile.
Arrive(n) == /\ copies[n] < tries[n]
             /\ copies' = [copies EXCEPT ![n] = @ + 1]
             /\ UNCHANGED <<standing, tries>>

Settle(n, s) == /\ standing[n] = "queued"
                /\ \/ s = "sent" /\ copies[n] > 0
                   \/ s = "failed" /\ tries[n] > 0
                /\ standing' = [standing EXCEPT ![n] = s]
                /\ UNCHANGED <<tries, copies>>

Next == \/ \E Q, C \in SUBSET Notice : Revise(Q, C)
        \/ \E n \in Notice : \/ Attempt(n)
                             \/ Arrive(n)
                             \/ \E s \in {"sent", "failed"} : Settle(n, s)

Spec == Init /\ [][Next]_ledgerVars
================================================================================
