---------------------------- MODULE SecretTable ----------------------------
(***************************************************************************)
(* dashboardTableModel: the rows of the folder and type that are shown,    *)
(* the live search over them, the cursor, and what is revealed of the row  *)
(* under it.  The operators are the methods of the model: they take a      *)
(* table and return the one that replaces it.                              *)
(***************************************************************************)
EXTENDS Integers, Sequences, FiniteSets, Positions

CONSTANTS
    SecretOrder,    \* all secrets, as ListRowsByType sorts them
    VaultOf,        \* [secrets -> vault]
    TypeOf          \* [secrets -> type]

Secrets == {SecretOrder[i] : i \in DOMAIN SecretOrder}

NoId == ""
AllTypes == "all"

ASSUME TableAssumption ==
    /\ SecretOrder \in Seq(Secrets) /\ Len(SecretOrder) = Cardinality(Secrets)
    /\ DOMAIN VaultOf = Secrets /\ DOMAIN TypeOf = Secrets
    /\ NoId \notin Secrets

\* ListRowsByType over the secrets of the cache.
ListRows(present, vault, type) ==
    LET Listed(s) == s \in present /\ VaultOf[s] = vault /\ (type = AllTypes \/ TypeOf[s] = type)
    IN AtPositions(SecretOrder, {i \in DOMAIN SecretOrder : Listed(SecretOrder[i])})

\* A search names one secret; the empty one matches all.
MatchesRow(s, term) == term = NoId \/ s = term
Matches(rows, term) == AtPositions(rows, {i \in DOMAIN rows : MatchesRow(rows[i], term)})

\* revealed is the secret whose payload is held in clear (revealedID and
\* revealedSecret), card the one whose number, CVV and PIN are.
NewTable ==
    [vault |-> NoId, type |-> AllTypes, allRows |-> <<>>, rows |-> <<>>, cursor |-> 1,
     loading |-> TRUE, search |-> NoId, revealed |-> NoId, card |-> NoId]

ClearReveal(t) == [t EXCEPT !.revealed = NoId, !.card = NoId]

CurrentSecretID(t) == IF t.cursor \in DOMAIN t.rows THEN t.rows[t.cursor] ELSE NoId

\* Mutant: the cursor stays where it was in the longer list.
ApplyLocalFilterNoClamp(t) ==
    [t EXCEPT !.rows = Matches(t.allRows, t.search)]

\* The cursor moves; what is revealed stays.
ApplyLocalFilter(t) ==
    IF t.search = NoId
    THEN [t EXCEPT !.rows = t.allRows,
                   !.cursor = IF @ > Len(t.allRows) THEN (IF t.allRows = <<>> THEN 1 ELSE Len(t.allRows))
                              ELSE @]
    ELSE [t EXCEPT !.rows = Matches(t.allRows, t.search),
                   !.cursor = 1]

SetSearchQuery(t, term) == ApplyLocalFilter([t EXCEPT !.search = term])
ClearSearch(t) == ApplyLocalFilter([t EXCEPT !.search = NoId])

Changes(t, vault, type) == vault # NoId /\ (t.vault # vault \/ t.type # type)

\* A new folder or type starts from nothing and is reloaded.
SetVaultAndType(t, vault, type) ==
    IF vault = NoId
    THEN [NewTable EXCEPT !.type = type, !.loading = FALSE]
    ELSE IF Changes(t, vault, type)
    THEN [ClearReveal(t) EXCEPT !.vault = vault, !.type = type, !.cursor = 1, !.search = NoId,
                                !.loading = TRUE]
    ELSE t

CursorBy(t, d) ==
    IF t.cursor + d \in DOMAIN t.rows THEN ClearReveal([t EXCEPT !.cursor = @ + d]) ELSE t

\* rowsLoadedMsg does not say which folder it was loaded for.
RowsLoaded(t, rows) == ApplyLocalFilter([t EXCEPT !.loading = FALSE, !.allRows = rows])

RowsErr(t) == [t EXCEPT !.loading = FALSE]

PayloadRevealed(t, s) == IF s = CurrentSecretID(t) THEN [t EXCEPT !.revealed = s] ELSE t

CardRevealed(t, s) == IF s = CurrentSecretID(t) THEN [t EXCEPT !.card = s] ELSE t

\* handleCellClick on a masked cell, on "show" or on "download": the cursor goes
\* there, what was revealed stays.
ClickRow(t, i) == [t EXCEPT !.cursor = i]

\* getting a payload needs the key of the secret's own folder.
CanReveal(t, s) == s # NoId /\ VaultOf[s] = t.vault
=============================================================================
