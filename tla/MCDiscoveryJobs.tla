---------------------------- MODULE MCDiscoveryJobs ----------------------------
(* Two jobs, an administrator, two collectors and one address.                 *)
EXTENDS DiscoveryJobs

JobMC == {"j1", "j2"}
AdminMC == {"a1"}
CollectorMC == {"c1", "c2"}
HostMC == {"h1"}
================================================================================
