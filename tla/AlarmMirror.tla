------------------------------- MODULE AlarmMirror -----------------------------
(***************************************************************************)
(* What the collector and the cloud promise about an alarm of a device:    *)
(* the cloud learns of it and of its end only after they happened, never   *)
(* unlearns either, and the collector forgets an alarm only when it is     *)
(* over and the cloud knows of it.  It may be that the cloud does not know *)
(* the end by then, and never will: an acknowledgement does not tell which *)
(* state of the alarm it is for.  Nothing here knows of readings, batches, *)
(* retries or late requests; AlarmUpload implements this module.           *)
(***************************************************************************)
CONSTANT Alarm       \* the alarms that can be raised

VARIABLES local,     \* what the collector holds of each alarm
          known      \* what the cloud holds of it

mirrorVars == <<local, known>>

Init == /\ local = [a \in Alarm |-> "none"]
        /\ known = [a \in Alarm |-> "none"]

Raise(a) == /\ local[a] = "none"
            /\ local' = [local EXCEPT ![a] = "open"]
            /\ UNCHANGED known

\* The alarms of a series end together.
End(S) == /\ \A a \in S : local[a] = "open"
          /\ local' = [a \in Alarm |-> IF a \in S THEN "ended" ELSE local[a]]
          /\ UNCHANGED known

\* The cloud is told of the alarms in S, of those in E that they are over, by
\* word that may be old and may be repeated.
Tell(S, E) ==
  /\ \A a \in S : local[a] # "none"
  /\ \A a \in E : local[a] \in {"ended", "forgotten"}
  /\ known' = [a \in Alarm |-> IF a \in E THEN "ended"
                               ELSE IF a \in S /\ known[a] = "none" THEN "open"
                               ELSE known[a]]
  /\ UNCHANGED local

Forget(a) == /\ local[a] = "ended"
             /\ known[a] # "none"
             /\ local' = [local EXCEPT ![a] = "forgotten"]
             /\ UNCHANGED known

Next == \/ \E a \in Alarm : Raise(a) \/ Forget(a)
        \/ \E S \in SUBSET Alarm : End(S)
        \/ \E S \in SUBSET Alarm : \E E \in SUBSET S : Tell(S, E)

Spec == Init /\ [][Next]_mirrorVars
================================================================================
