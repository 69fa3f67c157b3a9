---- MODULE MCVirtioDevices ----
(***************************************************************************)
(* VirtioDevices on small chains and a disk of two sectors and a byte.     *)
(***************************************************************************)
EXTENDS VirtioDevices

MCFeatureSets == {{"ro"}, {"flush", "discard", "zeroes"}, {}}

====
