---------------------------- MODULE MCNotesVault ----------------------------
(***************************************************************************)
(* Two devices and one or two notes for NotesVault.                        *)
(***************************************************************************)
EXTENDS NotesVault, TLC

CONSTANTS desk, lap, memo, plan

MCDevices  == {desk, lap}
MCNotes    == {memo, plan}
MCOne      == {memo}
MCNone     == {}
MCLayouts  == {"shared", "migrated"}
MCMigrated == {"migrated"}
MCShared   == {"shared"}
MCSymmetry == Permutations(MCDevices)
=============================================================================
