--------------------------- MODULE MCBlobTransfer ---------------------------
(* One binary secret, the command that creates it, replays and downloads. *)
EXTENDS BlobTransfer, TLC

CONSTANTS tui, s1, s2, d1

Symmetry == Permutations(Syncs)
=============================================================================
