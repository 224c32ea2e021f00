------------------------------ MODULE MCVaultLock ------------------------------
(***************************************************************************)
(* VaultLock on a small instance: its bounds are all it needs.             *)
(***************************************************************************)
EXTENDS VaultLock

ASSUME SomethingHappens == MaxTexts > 0 /\ MaxLocks > 0 /\ MaxUnlocks > 0
=============================================================================
