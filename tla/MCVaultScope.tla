---------------------------- MODULE MCVaultScope ----------------------------
(* Instance of VaultScope for TLC. *)
EXTENDS VaultScope
=============================================================================
