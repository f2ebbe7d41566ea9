----------------------------- MODULE LocalStore -----------------------------
(***************************************************************************)
(* The client's SQLite database: what one statement makes of a row of the  *)
(* secrets table and of the outbox table.  Every operator is one SQL       *)
(* statement, the unit of atomicity of the client: the use cases run       *)
(* several of them without a transaction.                                  *)
(***************************************************************************)
EXTENDS Naturals, Sequences

CONSTANT None   \* NULL

(***************************************************************************)
(* A ciphertext is named by the write it encrypts and by the version the   *)
(* AAD binds it to (aad.go): it decrypts only under that version.          *)
(***************************************************************************)
Enc(w, version) == [w |-> w, version |-> version]

\* A cached secret.  version 0 stands for "no row"; index and payload are None
\* until their loaded flag is set.
NoRow == [version |-> 0, row |-> None, index |-> None, payload |-> None, dirty |-> FALSE]

Cached(row) == row.version > 0

----------------------------------------------------------------------------
(* The table secrets. *)

\* Mutant: the cached tiers survive a change of version.
UpsertKeepsTiers(old, enc, tiers, version, dirty) ==
    [version |-> version, row |-> enc, dirty |-> dirty,
     index   |-> IF Cached(old) THEN old.index ELSE tiers,
     payload |-> IF Cached(old) THEN old.payload ELSE tiers]

\* Mutant: the conflict clause forgets enc_row.
UpsertKeepsRow(old, enc, tiers, version, dirty) ==
    [version |-> version, dirty |-> dirty,
     row     |-> IF Cached(old) THEN old.row ELSE enc,
     index   |-> IF Cached(old) THEN None ELSE tiers,
     payload |-> IF Cached(old) THEN None ELSE tiers]

\* INSERT ... ON CONFLICT(id) DO UPDATE: an existing row of the same version
\* keeps its index and payload, of another version loses them; a new row takes
\* the ones given.
UpsertSecretRow(old, enc, tiers, version, dirty) ==
    [version |-> version,
     row     |-> enc,
     index   |-> IF ~Cached(old) THEN tiers
                 ELSE IF old.version = version THEN old.index ELSE None,
     payload |-> IF ~Cached(old) THEN tiers
                 ELSE IF old.version = version THEN old.payload ELSE None,
     dirty   |-> dirty]

\* Mutant: no condition on the version.
SetIndexAnyVersion(old, enc, version) ==
    IF Cached(old) THEN [old EXCEPT !.index = enc] ELSE old

\* UPDATE secrets SET enc_index ... WHERE id = ? AND version = ?
SetSecretIndex(old, enc, version) ==
    IF Cached(old) /\ old.version = version THEN [old EXCEPT !.index = enc] ELSE old

\* UPDATE secrets SET enc_payload ... WHERE id = ? AND version = ?
SetSecretPayload(old, enc, version) ==
    IF Cached(old) /\ old.version = version THEN [old EXCEPT !.payload = enc] ELSE old

----------------------------------------------------------------------------
(* The table outbox: its rows, which every list returns in the order of    *)
(* their AUTOINCREMENT ids.                                                *)

Pending(entries) == {e \in entries : e.status = "pending"}

Conflicts(entries) == {e \in entries : e.status = "conflict"}

\* ORDER BY id
IsFirst(e, entries) == e \in entries /\ \A f \in entries : e.id <= f.id

HasEntry(entries, id) == \E e \in entries : e.id = id

EnqueueOutbox(entries, id, op, status) ==
    entries \cup {[id |-> id, op |-> op, status |-> status]}

RemoveOutbox(entries, id) == {e \in entries : e.id # id}

SetOutboxStatus(entries, id, status) ==
    {IF e.id = id THEN [e EXCEPT !.status = status] ELSE e : e \in entries}

\* outstandingSecretIDs: the secrets with a pending or a conflict entry.
OutstandingSecretIDs(entries) == {e.op.s : e \in entries}
============================================================================
