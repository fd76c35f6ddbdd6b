------------------------------ MODULE MCConfigSync -----------------------------
(* A collector whose configuration channel pulls while its console edits.     *)
EXTENDS ConfigSync

ConsoleMC == {"console"}
================================================================================
