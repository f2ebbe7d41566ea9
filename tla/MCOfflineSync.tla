--------------------------- MODULE MCOfflineSync ---------------------------
(* Instances of OfflineSync for TLC. *)
EXTENDS OfflineSync

CONSTANTS d1, d2, s1, ui, bg

Sym == Permutations(Devices)
============================================================================
