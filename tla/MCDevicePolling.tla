---------------------------- MODULE MCDevicePolling ----------------------------
(* Two addresses; four instants: a sample, a removal, a sample that a poll in *)
(* flight brings from the gap, and a restoration.                             *)
EXTENDS DevicePolling

AddressMC == {"a1", "a2"}
================================================================================
