---------------------------- MODULE MCDeviceRegistry ---------------------------
(* Three registrations, two of them enabled at a time, two sites, two          *)
(* addresses and one request that saves a whole list.                          *)
EXTENDS DeviceRegistry, TLC

CONSTANTS d1, d2, d3, s1, s2, a1, a2

DeviceMC == {d1, d2, d3}
SiteMC == {s1, s2}
AddressMC == {a1, a2}
SaverMC == {"u1"}

SymmetryMC == Permutations(DeviceMC) \cup Permutations(SiteMC) \cup Permutations(AddressMC)
================================================================================
