----------------------------- MODULE MCSyncCycle -----------------------------
(***************************************************************************)
(* Two devices for SyncCycle.                                              *)
(***************************************************************************)
EXTENDS SyncCycle, TLC

CONSTANTS desk, lap

MCDevices  == {desk, lap}
MCAll      == Kinds
MCNotes    == {"notes"}
MCFile     == {"file"}
MCFolder   == {"folder"}
MCBoth     == {"local", "remote"}
MCRemote   == {"remote"}
MCSymmetry == Permutations(MCDevices)
=============================================================================
