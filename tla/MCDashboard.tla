---------------------------- MODULE MCDashboard ----------------------------
(* Instance of Dashboard for TLC: two folders, one of them with two secrets. *)
EXTENDS Dashboard

MCSecrets == <<"a", "b", "c">>
MCVaultOf == [s \in {"a", "b", "c"} |-> IF s = "c" THEN "v2" ELSE "v1"]
MCTypeOf == [s \in {"a", "b", "c"} |-> IF s = "a" THEN "card" ELSE "login"]
MCVaults == <<"v1", "v2">>
MCTabs == <<"all", "card">>
=============================================================================
