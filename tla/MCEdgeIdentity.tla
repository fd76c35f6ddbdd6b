----------------------------- MODULE MCEdgeIdentity ----------------------------
(* Two machines, two sites, one activation package and one provisioned token.  *)
EXTENDS EdgeIdentity

MachineMC == {"m1", "m2"}
SiteMC == {"s1", "s2"}
CodeMC == {"c1"}
ProvisionedMC == {"p1"}
================================================================================
