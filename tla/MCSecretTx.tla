----------------------------- MODULE MCSecretTx -----------------------------
(* Instances of SecretTx for TLC. *)
EXTENDS SecretTx, TLC

CONSTANTS s1, s2, v1, h1, h2, alice, bob, c1, b1

OneVault  == [s \in Secrets |-> v1]
AliceOwns == [v \in {v1} |-> alice]
Sym == Permutations(Handlers)
============================================================================
