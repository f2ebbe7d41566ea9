---------------------------- MODULE SecretStore ----------------------------
(***************************************************************************)
(* What the server promises about the secrets of its vaults: every write   *)
(* is one atomic step under an optimistic lock, and carries a bump of the  *)
(* version of the vault it happened in.  SecretTx shows that the           *)
(* interleaved PostgreSQL transactions implement this; OfflineSync uses    *)
(* the same operators as its server.                                       *)
(***************************************************************************)
EXTENDS Naturals

CONSTANTS
    Secrets,    \* secret ids (chosen by the client that creates the secret)
    Vaults,     \* vault ids
    VaultOf,    \* the vault a secret id is created in
    Binary,     \* the secrets of type "binary", the only ones with a blob
    Ciphers,    \* ciphertexts: enc_row, enc_index and enc_payload of one write
    Blobs,      \* object-store references
    None        \* NULL

ASSUME VaultOfAssumption == VaultOf \in [Secrets -> Vaults]
ASSUME BinaryAssumption  == Binary \subseteq Secrets
ASSUME NoneAssumption    == None \notin Ciphers \cup Blobs

VARIABLES
    sec,            \* table secrets
    vaultVersion    \* column vaults.version

storeVars == <<sec, vaultVersion>>

\* A row of the table; version 0 stands for "no such row".
Row == [version : Nat, deleted : BOOLEAN, enc : Ciphers \cup {None},
        blob : Blobs \cup {None}]

Absent == [version |-> 0, deleted |-> FALSE, enc |-> None, blob |-> None]

StoreTypeOK ==
    /\ sec \in [Secrets -> Row]
    /\ vaultVersion \in [Vaults -> Nat \ {0}]

StoreInit ==
    /\ sec = [s \in Secrets |-> Absent]
    /\ vaultVersion = [v \in Vaults |-> 1]

----------------------------------------------------------------------------
(* The rows the SQL statements write. *)

\* INSERT INTO secrets: version and deleted take their column defaults.
Inserted(c) == [version |-> 1, deleted |-> FALSE, enc |-> c, blob |-> None]

\* UPDATE secrets SET enc_* = ..., version = version + 1.
UpdatedFields(row, c) ==
    [version |-> row.version + 1, deleted |-> row.deleted, enc |-> c, blob |-> row.blob]

\* UPDATE secrets SET deleted = true, version = version + 1.
SoftDeleted(row) ==
    [version |-> row.version + 1, deleted |-> TRUE, enc |-> row.enc, blob |-> row.blob]

\* UPDATE secrets SET blob_ref = ..., blob_size = ...; the version stays.
BlobAttached(row, b) ==
    [version |-> row.version, deleted |-> row.deleted, enc |-> row.enc, blob |-> b]

\* The optimistic lock: the row exists, is not deleted, and has the version
\* the client based its change on.
Exists(row) == row.version > 0
Writable(row, base) == Exists(row) /\ ~row.deleted /\ row.version = base

----------------------------------------------------------------------------
(* The atomic operations. *)

\* Mutant: the write forgets BumpVaultVersion.
PutWithoutBump(s, row) == sec' = [sec EXCEPT ![s] = row] /\ UNCHANGED vaultVersion

Put(s, row) ==
    /\ sec' = [sec EXCEPT ![s] = row]
    /\ vaultVersion' = [vaultVersion EXCEPT ![VaultOf[s]] = @ + 1]

CreateSecret(s, c) == ~Exists(sec[s]) /\ Put(s, Inserted(c))

UpdateSecret(s, base, c) ==
    Writable(sec[s], base) /\ Put(s, UpdatedFields(sec[s], c))

DeleteSecret(s, base) == Writable(sec[s], base) /\ Put(s, SoftDeleted(sec[s]))

AttachBlob(s, base, b) ==
    s \in Binary /\ Writable(sec[s], base) /\ Put(s, BlobAttached(sec[s], b))

StoreNext ==
    \E s \in Secrets :
        \/ \E c \in Ciphers : CreateSecret(s, c)
        \/ \E base \in 1 .. sec[s].version :
            \/ \E c \in Ciphers : UpdateSecret(s, base, c)
            \/ DeleteSecret(s, base)
            \/ \E b \in Blobs : AttachBlob(s, base, b)

StoreSpec == StoreInit /\ [][StoreNext]_storeVars

============================================================================
