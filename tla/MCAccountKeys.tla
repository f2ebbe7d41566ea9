--------------------------- MODULE MCAccountKeys ---------------------------
(* Instances of AccountKeys for TLC: laptop and phone, each with a process. *)
EXTENDS AccountKeys, TLC

CONSTANTS laptop, phone, tui, cli, alice, bob, pw1, pw2

\* The TUI on the laptop, the CLI on the phone or on the laptop too.
Apart == [p \in Procs |-> IF p = tui THEN laptop ELSE phone]
Together == [p \in Procs |-> laptop]

\* Accounts have no order.
Sym == Permutations(Users) \cup Permutations(Passwords)
=============================================================================
