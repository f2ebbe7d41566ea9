---------------------------- MODULE MCSecretForm ----------------------------
(* Instances of SecretForm for TLC. *)
EXTENDS SecretForm

MCStored == [s \in {"s1"} |-> "login"]
MCTypes == <<"login", "card", "binary">>
=============================================================================
