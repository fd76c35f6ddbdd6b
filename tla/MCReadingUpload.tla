---------------------------- MODULE MCReadingUpload ----------------------------
(* Four readings: two good ones, a malformed one between them and one that no *)
(* assignment period covers.  A batch holds two of them.                      *)
EXTENDS ReadingUpload

ReadingsMC == 1..4
MalformedMC == {2}
UncoveredMC == {3}
================================================================================
