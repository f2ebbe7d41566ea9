---------------------------- MODULE MCTokenStore ----------------------------
(* Two goroutines of a TUI and a CLI command on one device. *)
EXTENDS TokenStore, TLC

CONSTANTS alice, bob, h1, h2, h3, t1, t2, c1, tui, cli

ProcOf == (t1 :> tui) @@ (t2 :> tui) @@ (c1 :> cli)

Symmetry == Permutations(Handlers) \cup Permutations(Users)
=============================================================================
