----------------------------- MODULE MCVaultLocks -----------------------------
(* The vault of MCVaultMoney, with the transactions taken apart. *)
EXTENDS VaultLocks, MCVaultMoney
=============================================================================
