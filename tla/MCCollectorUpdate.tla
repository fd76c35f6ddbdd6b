---------------------------- MODULE MCCollectorUpdate ---------------------------
(* Releases, the second of which never starts.                                 *)
EXTENDS CollectorUpdate

BadMC == {2}
================================================================================
