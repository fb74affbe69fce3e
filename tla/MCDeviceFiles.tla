---------------------------- MODULE MCDeviceFiles ----------------------------
(***************************************************************************)
(* Instance of DeviceFiles for TLC: two threads, two devices and a file    *)
(* system, and a pool with three descriptors beyond the standard ones.     *)
(***************************************************************************)
EXTENDS DeviceFiles, TLC

CONSTANTS main, worker, uart, lcd, zipfs

TwoThreads == {main, worker}
TwoDevices == {uart, lcd}
OneFileSystem == {zipfs}
Symmetry == Permutations(TwoThreads) \cup Permutations(TwoDevices)
=============================================================================
