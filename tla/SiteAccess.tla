------------------------------- MODULE SiteAccess ------------------------------
(***************************************************************************)
(* What a customer may rely on when computers speak for the sites: only    *)
(* with a key of the site, only one at a time, and not once the site is    *)
(* closed; a site is closed only when nobody speaks for it; a key is never *)
(* used twice, so what was revoked does not come back.  Nothing here knows *)
(* how keys are issued and carried to their machines; EdgeIdentity         *)
(* implements this module.                                                 *)
(***************************************************************************)
CONSTANTS Place,     \* the sites
          Speaker,   \* who may speak for one
          Key,
          Nobody

VARIABLES phase,     \* "unused", "open" or "closed"
          speaking,  \* who speaks for each site now
          keys,      \* the valid keys of each site
          used       \* the keys that were ever valid

accessVars == <<phase, speaking, keys, used>>

Init == /\ phase = [s \in Place |-> "unused"]
        /\ speaking = [s \in Place |-> Nobody]
        /\ keys = [s \in Place |-> {}]
        /\ used = {}

\* A site is opened, without a key.
Open(s) == /\ phase[s] = "unused"
           /\ phase' = [phase EXCEPT ![s] = "open"]
           /\ UNCHANGED <<speaking, keys, used>>

\* One more key, which opens the site if need be.
Issue(s, k) == /\ phase[s] # "closed"
               /\ k \in Key \ used
               /\ phase' = [phase EXCEPT ![s] = "open"]
               /\ keys' = [keys EXCEPT ![s] = @ \cup {k}]
               /\ used' = used \cup {k}
               /\ UNCHANGED speaking

\* One key instead of all others, whose holders have to stop; it does not open
\* a closed site again.
Replace(s, k) == /\ k \in Key \ used
                 /\ phase' = [phase EXCEPT ![s] = IF @ = "unused" THEN "open" ELSE @]
                 /\ speaking' = [speaking EXCEPT ![s] = Nobody]
                 /\ keys' = [keys EXCEPT ![s] = {k}]
                 /\ used' = used \cup {k}

\* Whoever has a key of an open site may speak for it, unless another does.
Speak(s, m) == /\ phase[s] = "open"
               /\ keys[s] # {}
               /\ speaking[s] \in {Nobody, m}
               /\ speaking' = [speaking EXCEPT ![s] = m]
               /\ UNCHANGED <<phase, keys, used>>

Stop(s) == /\ speaking' = [speaking EXCEPT ![s] = Nobody]
           /\ UNCHANGED <<phase, keys, used>>

Close(s) == /\ phase[s] = "open"
            /\ speaking[s] = Nobody
            /\ phase' = [phase EXCEPT ![s] = "closed"]
            /\ keys' = [keys EXCEPT ![s] = {}]
            /\ UNCHANGED <<speaking, used>>

Next == \E s \in Place : \/ Open(s) \/ Stop(s) \/ Close(s)
                         \/ \E m \in Speaker : Speak(s, m)
                         \/ \E k \in Key : Issue(s, k) \/ Replace(s, k)

Spec == Init /\ [][Next]_accessVars
================================================================================
