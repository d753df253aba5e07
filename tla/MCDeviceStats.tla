---------------------------- MODULE MCDeviceStats ----------------------------
(* One device, as the rows of another do not depend on it; devices and      *)
(* the MAC addresses are interchangeable.                                  *)
EXTENDS DeviceStats, TLC

Symmetric == Permutations(Device) \cup Permutations(Mac)
=============================================================================
