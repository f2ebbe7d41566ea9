----------------------------- MODULE SecretForm -----------------------------
(***************************************************************************)
(* The form of a secret, the screen of a conflict and the switching of     *)
(* screens between them, the dashboard and the lock screen.  A key is      *)
(* handled at once by the screen that is shown; what it starts runs in a   *)
(* goroutine of its own and answers with a message.  Messages arrive in    *)
(* any order and are handled by the screen that is shown by then.          *)
(* The other device and the background sync change the secret meanwhile.   *)
(* What the server cannot be reached for belongs to OfflineSync.           *)
(***************************************************************************)
EXTENDS Integers, Sequences, FiniteSets, Bags, Positions

CONSTANTS
    Secrets,        \* ids, the ones of secrets yet to be created included
    Stored,         \* [subset of Secrets -> type]: what the account starts with
    CreatableTypes, \* the types the form offers, as a sequence
    MaxExtras,      \* bound: custom fields, and recovery codes, of a secret
    MaxInFlight,    \* bound: commands and messages under way
    MaxChanges      \* bound: forms opened, edits of a form, saves, changes by
                    \* another device, failing calls and locks in one behaviour

NewSecret == "new"

Types == {CreatableTypes[i] : i \in DOMAIN CreatableTypes}

ASSUME FormAssumption ==
    /\ NewSecret \notin Secrets
    /\ DOMAIN Stored \subseteq Secrets /\ \A s \in DOMAIN Stored : Stored[s] \in Types
    /\ CreatableTypes \in Seq(STRING) /\ CreatableTypes # <<>>
    /\ MaxExtras \in Nat /\ MaxInFlight \in Nat /\ MaxChanges \in Nat

VARIABLES
    screen,     \* the screen that is shown
    locked,     \* the session has no master key
    form,       \* secretFormModel
    card,       \* conflictModel
    sec,        \* [Secrets -> the server's row]; version 0: none
    cache,      \* [Secrets -> the row in the local cache]
    rows,       \* [Secrets -> version of the row the dashboard shows]
    cmds,       \* bag of the commands that run
    msgs,       \* bag of the messages that were sent and not handled
    left,       \* what is left of MaxChanges
    log         \* history: secrets of which something unseen was replaced, and
                \* secrets of which the cache went back to an older version

serverVars == <<sec, cache, rows>>
vars == <<screen, locked, form, card, serverVars, cmds, msgs, left, log>>

\* A text of a field: empty, or one of two others.
Text == {"", "x", "y"}

\* A secret as the form holds it.  body stands for the fields of its
\* type, the note and the tags.
Blank == [title |-> "", body |-> "", custom |-> <<>>, otps |-> <<>>]

FieldsForType == <<"title", "body">>

Spend == left > 0 /\ left' = left - 1

InFlight == BagCardinality(cmds) + BagCardinality(msgs)
Room == InFlight < MaxInFlight
Started(cmd) == cmds' = cmds (+) SetToBag({cmd})
Sent(msg) == msgs' = msgs (+) SetToBag({msg})

SwitchTo(to) == [msg |-> "switch", screen |-> to]

----------------------------------------------------------------------------
(* secretFormModel *)

TypeSelectable(f) == f.sid = NewSecret /\ f.mode = "edit"

Slot(kind, idx) == [kind |-> kind, idx |-> idx]
SlotSeq(kind, n) == [i \in 1 .. n |-> Slot(kind, i)]

Slots(f) ==
    (IF TypeSelectable(f) THEN <<Slot("type", 1)>> ELSE <<>>)
    \o SlotSeq("field", Len(FieldsForType))
    \o SlotSeq("custom", Len(f.data.custom))
    \o (IF f.mode = "edit" THEN <<Slot("addcustom", 1)>> ELSE <<>>)
    \o SlotSeq("otp", Len(f.data.otps))
    \o (IF f.mode = "edit" THEN <<Slot("addotp", 1)>> ELSE <<>>)

HasSlot(f) == f.focus \in 1 .. Len(Slots(f))
CurrentSlot(f) == IF HasSlot(f) THEN Slots(f)[f.focus] ELSE Slot("none", 0)

\* focusNext and focusPrev wrap around; an index beyond the end comes back too.
FocusBy(f, d) == [f EXCEPT !.focus = ((@ - 1 + d) % Len(Slots(f))) + 1]

FocusSlot(f, kind, idx) ==
    [f EXCEPT !.focus = CHOOSE i \in 1 .. Len(Slots(f)) : Slots(f)[i] = Slot(kind, idx)]

SnapshotOf(data) == [title |-> data.title, body |-> data.body]
NoSnapshot == [title |-> "none", body |-> "none"]

\* start: what the fields held when editing began; seen: the version of the
\* secret they were read from; kept: edits the user has discarded are in them.
\* None of the three is in the code.
TakeSnapshot(f) == [f EXCEPT !.snapshot = SnapshotOf(f.data), !.dirty = FALSE, !.start = f.data]

\* Mutant: only the fields of the snapshot count.
IsDirtyBySnapshot(f) == f.snapshot # NoSnapshot /\ SnapshotOf(f.data) # f.snapshot

IsDirty(f) ==
    \/ f.dirty
    \/ f.snapshot # NoSnapshot /\ SnapshotOf(f.data) # f.snapshot

Reset(f) ==
    [f EXCEPT !.saving = FALSE, !.dirty = FALSE, !.snapshot = NoSnapshot, !.data = Blank,
              !.start = Blank, !.kept = FALSE]

SetCreate(f, type) ==
    [Reset(f) EXCEPT !.sid = NewSecret, !.version = 0, !.seen = 0, !.mode = "edit",
                     !.focus = 1, !.type = type]

\* Mutant: the form takes the version the cache has when the message arrives.
SetEditDataLatest(f, m) ==
    TakeSnapshot([Reset(f) EXCEPT !.sid = m.s, !.version = cache[m.s].version, !.seen = m.seen,
                                  !.type = m.type, !.focus = 1, !.data = m.data,
                                  !.mode = IF m.edit THEN "edit" ELSE "view"])

\* Mutant: the focus of the previous secret stays.
SetEditDataKeepsFocus(f, m) ==
    TakeSnapshot([Reset(f) EXCEPT !.sid = m.s, !.version = m.version, !.seen = m.seen,
                                  !.type = m.type, !.data = m.data,
                                  !.mode = IF m.edit THEN "edit" ELSE "view"])

SetEditData(f, m) ==
    TakeSnapshot([Reset(f) EXCEPT !.sid = m.s, !.version = m.version, !.seen = m.seen,
                                  !.type = m.type, !.focus = 1, !.data = m.data,
                                  !.mode = IF m.edit THEN "edit" ELSE "view"])

\* A form is filled anew whenever it is shown; only the focus could be left over.
Hidden(f) ==
    [sid |-> NewSecret, version |-> 0, seen |-> 0, type |-> CreatableTypes[1], mode |-> "view",
     focus |-> f.focus, saving |-> FALSE, dirty |-> FALSE, snapshot |-> NoSnapshot,
     data |-> Blank, start |-> Blank, kept |-> FALSE]

NoRow == [version |-> 0, deleted |-> FALSE, type |-> CreatableTypes[1], data |-> Blank]
NoCard == [s |-> NewSecret, data |-> Blank, theirs |-> NoRow, del |-> FALSE]

Init ==
    /\ screen = "dashboard" /\ locked = FALSE
    /\ form = Hidden([focus |-> 1])
    /\ card = NoCard
    /\ sec = [s \in Secrets |->
                IF s \in DOMAIN Stored
                THEN [version |-> 1, deleted |-> FALSE, type |-> Stored[s],
                      data |-> [Blank EXCEPT !.title = "x",
                                             !.otps = <<[code |-> "x", used |-> FALSE]>>]]
                ELSE NoRow]
    /\ cache = sec
    /\ rows = [s \in Secrets |-> sec[s].version]
    /\ cmds = EmptyBag /\ msgs = EmptyBag
    /\ left = MaxChanges
    /\ log = [blind |-> {}, back |-> {}]

----------------------------------------------------------------------------
(* Keys of the dashboard that lead here. *)

\* The row's version is taken when the key is pressed, its data are read later.
OpenForm(s, edit) ==
    /\ screen = "dashboard" /\ rows[s] > 0 /\ Room
    /\ Spend
    /\ Started([do |-> "open", s |-> s, version |-> rows[s], edit |-> edit])
    /\ UNCHANGED <<screen, locked, form, card, serverVars, msgs, log>>

NewForm(type) ==
    /\ screen = "dashboard" /\ Room
    /\ Spend
    /\ Sent([msg |-> "create", type |-> type])
    /\ UNCHANGED <<screen, locked, form, card, serverVars, cmds, log>>

----------------------------------------------------------------------------
(* Keys of the form. *)

InMode(mode) == screen = "form" /\ form.mode = mode
FormOnly == UNCHANGED <<screen, locked, card, serverVars, cmds, msgs, log>>

BackToDashboard ==
    /\ Room
    /\ Sent(SwitchTo("dashboard"))
    /\ UNCHANGED <<screen, locked, form, card, serverVars, cmds, left, log>>

\* collectExtras: empty keys and codes are left out.
Collected(data) ==
    [data EXCEPT !.custom = AtPositions(@, {i \in DOMAIN @ : @[i] # ""}),
                 !.otps = AtPositions(@, {i \in DOMAIN @ : @[i].code # ""})]

Write(do, f) ==
    [do |-> do, s |-> f.sid, version |-> f.version, type |-> f.type, data |-> Collected(f.data),
     seen |-> f.seen]

MoveFocus ==
    /\ screen = "form" /\ form.mode \in {"view", "edit"}
    /\ \E d \in {-1, 1} : form' = FocusBy(form, d)
    /\ FormOnly /\ UNCHANGED left

\* The field's own saving command: the form stays as it is.
ToggleOTP ==
    LET i == CurrentSlot(form).idx
        f == [form EXCEPT !.data.otps[i].used = ~@, !.dirty = TRUE]
    IN
    /\ InMode("view") /\ CurrentSlot(form).kind = "otp" /\ Room
    /\ Spend
    /\ form' = f
    /\ Started(Write("toggle", f))
    /\ UNCHANGED <<screen, locked, card, serverVars, msgs, log>>

EscView == InMode("view") /\ BackToDashboard

AskDelete ==
    /\ InMode("view") /\ form.sid # NewSecret
    /\ form' = [form EXCEPT !.mode = "confirmDelete"]
    /\ FormOnly /\ UNCHANGED left

EnterEdit ==
    /\ InMode("view")
    /\ form' = TakeSnapshot([form EXCEPT !.mode = "edit"])
    /\ FormOnly /\ UNCHANGED left

OpenPicker ==
    /\ screen = "form" /\ form.type = "binary"
    /\ \/ form.mode = "edit" /\ form' = [form EXCEPT !.mode = "filePicker"]
       \/ form.mode = "view" /\ form.sid # NewSecret
          /\ form' = [form EXCEPT !.mode = "downloadPicker"]
    /\ FormOnly /\ UNCHANGED left

LeavePicker ==
    /\ screen = "form"
    /\ \/ form.mode = "filePicker" /\ form' = [form EXCEPT !.mode = "edit"]
       \/ form.mode = "downloadPicker" /\ form' = [form EXCEPT !.mode = "view"]
    /\ FormOnly /\ UNCHANGED left

\* A file is chosen: its path, and its name for a title that is still empty.
PickFile ==
    /\ InMode("filePicker")
    /\ Spend
    /\ \E path \in Text \ {""} :
        form' = [form EXCEPT !.data.body = path, !.dirty = TRUE, !.mode = "edit",
                             !.data.title = IF @ = "" THEN path ELSE @]
    /\ FormOnly

\* A directory is chosen: downloadBinary, the DownloadBinary of BlobTransfer.
PickDirectory ==
    /\ InMode("downloadPicker") /\ Room
    /\ form' = [form EXCEPT !.mode = "view"]
    /\ Started([do |-> "download"])
    /\ UNCHANGED <<screen, locked, card, serverVars, msgs, left, log>>

\* updateActiveInput: any text in place of the one that was there.
Typed(f, slot, text) ==
    CASE slot.kind = "field" ->
            [f EXCEPT !.data[FieldsForType[slot.idx]] = text,
                      !.dirty = @ \/ f.data[FieldsForType[slot.idx]] # text]
      [] slot.kind = "custom" ->
            [f EXCEPT !.data.custom[slot.idx] = text, !.dirty = @ \/ f.data.custom[slot.idx] # text]
      [] slot.kind = "otp" ->
            [f EXCEPT !.data.otps[slot.idx].code = text,
                      !.dirty = @ \/ f.data.otps[slot.idx].code # text]

UpdateActiveInput ==
    /\ InMode("edit") /\ CurrentSlot(form).kind \in {"field", "custom", "otp"}
    /\ Spend
    /\ \E text \in Text : form' = Typed(form, CurrentSlot(form), text)
    /\ FormOnly

\* Ctrl+A, Ctrl+O, and Enter on the two buttons.
AddExtra ==
    /\ InMode("edit")
    /\ Spend
    /\ \/ /\ Len(form.data.custom) < MaxExtras
          /\ form' = FocusSlot([form EXCEPT !.data.custom = Append(@, ""), !.dirty = TRUE],
                               "custom", Len(form.data.custom) + 1)
       \/ /\ Len(form.data.otps) < MaxExtras
          /\ form' = FocusSlot([form EXCEPT !.data.otps = Append(@, [code |-> "", used |-> FALSE]),
                                            !.dirty = TRUE],
                               "otp", Len(form.data.otps) + 1)
    /\ FormOnly

\* Ctrl+U while editing: saved with the rest.
FlipOTP ==
    /\ InMode("edit") /\ CurrentSlot(form).kind = "otp"
    /\ Spend
    /\ form' = [form EXCEPT !.data.otps[CurrentSlot(form).idx].used = ~@, !.dirty = TRUE]
    /\ FormOnly

\* rebuildInputs keeps the fields the new type has too: not body.
CycleType ==
    /\ InMode("edit") /\ CurrentSlot(form).kind = "type"
    /\ \E d \in {-1, 1} :
        LET n == Len(CreatableTypes)
            i == CHOOSE i \in 1 .. n : CreatableTypes[i] = form.type
        IN form' = [form EXCEPT !.type = CreatableTypes[((i - 1 + d) % n) + 1], !.data.body = ""]
    /\ FormOnly /\ UNCHANGED left

EscEdit ==
    /\ InMode("edit")
    /\ \/ /\ IsDirty(form)
          /\ form' = [form EXCEPT !.mode = "confirmExit"]
          /\ FormOnly /\ UNCHANGED left
       \/ /\ ~IsDirty(form) /\ form.sid = NewSecret
          /\ BackToDashboard
       \/ /\ ~IsDirty(form) /\ form.sid # NewSecret
          /\ form' = [form EXCEPT !.mode = "view"]
          /\ FormOnly /\ UNCHANGED left

Duplicates(seq) == \E i, j \in DOMAIN seq : i # j /\ seq[i] # "" /\ seq[i] = seq[j]

\* Luhn: y stands for a number with a wrong check digit.
LuhnFails(f) == f.type = "card" /\ f.data.body = "y"

Valid(f) ==
    /\ f.data.title # ""
    /\ ~LuhnFails(f)
    /\ ~Duplicates(f.data.custom)
    /\ ~Duplicates([i \in DOMAIN f.data.otps |-> f.data.otps[i].code])

\* The ids uuid.NewString may still return.
Fresh == {s \in Secrets : sec[s].version = 0}
Creating == {c \in BagToSet(cmds) : c.do = "save" /\ c.s = NewSecret}
IdsLeft == BagCardinality([c \in Creating |-> cmds[c]]) < Cardinality(Fresh)

\* save validates in edit mode; saving is shown, nothing waits for it.
Save(f) ==
    IF Valid(f)
    THEN /\ Room /\ (f.sid = NewSecret => IdsLeft)
         /\ Spend
         /\ form' = [f EXCEPT !.saving = TRUE]
         /\ Started(Write("save", f))
         /\ UNCHANGED <<screen, locked, card, serverVars, msgs, log>>
    ELSE form' = f /\ FormOnly /\ UNCHANGED left

CtrlS == InMode("edit") /\ Save(form)

ConfirmExit ==
    /\ InMode("confirmExit")
    /\ \/ Save([form EXCEPT !.mode = "edit"])
       \/ /\ form.sid = NewSecret
          /\ Room /\ Sent(SwitchTo("dashboard"))
          /\ form' = [form EXCEPT !.dirty = FALSE, !.kept = TRUE]
          /\ UNCHANGED <<screen, locked, card, serverVars, cmds, left, log>>
       \/ /\ form.sid # NewSecret
          /\ form' = [form EXCEPT !.dirty = FALSE, !.mode = "view",
                                  !.kept = @ \/ form.data # form.start]
          /\ FormOnly /\ UNCHANGED left
       \/ form' = [form EXCEPT !.mode = "edit"] /\ FormOnly /\ UNCHANGED left

ConfirmDelete ==
    /\ InMode("confirmDelete")
    /\ \/ /\ Room /\ Spend
          /\ Started([do |-> "delete", s |-> form.sid, version |-> form.version,
                      seen |-> form.seen])
          /\ UNCHANGED <<screen, locked, form, card, serverVars, msgs, log>>
       \/ form' = [form EXCEPT !.mode = "view"] /\ FormOnly /\ UNCHANGED left

----------------------------------------------------------------------------
(* Keys of the conflict screen. *)

Resolve(choice) ==
    /\ screen = "conflict" /\ card # NoCard /\ Room
    /\ Spend
    /\ Started([do |-> choice, card |-> card])
    /\ UNCHANGED <<screen, locked, form, card, serverVars, msgs, log>>

EscConflict == screen = "conflict" /\ BackToDashboard

----------------------------------------------------------------------------
(* The commands. *)

Ends(cmd) == cmds' = cmds (-) SetToBag({cmd})
Answer(cmd, msg) == Ends(cmd) /\ Sent(msg)
Error == [msg |-> "err"]

CardOf(s, data, del) == [s |-> s, data |-> data, theirs |-> sec[s], del |-> del]

Changeable(s) == sec[s].version > 0 /\ ~sec[s].deleted

Noted(what, s, happened) == log' = IF happened THEN [log EXCEPT ![what] = @ \cup {s}] ELSE log

\* The server's row and the cache's become row, unless the version has moved on.
\* seen is the version whose content the user has before him.
Replace(s, row, seen) ==
    /\ sec' = [sec EXCEPT ![s] = row]
    /\ cache' = [cache EXCEPT ![s] = row]
    /\ Noted("blind", s, seen < sec[s].version)
    /\ UNCHANGED rows

Unchanged == UNCHANGED <<serverVars, log>>

\* loadEditData reads the cache as it is by now.
LoadEditData(c) ==
    /\ c.do = "open"
    /\ Answer(c, IF cache[c.s].deleted \/ locked THEN [msg |-> "rowsErr"]
                 ELSE [msg |-> "form", s |-> c.s, version |-> c.version, type |-> cache[c.s].type,
                       data |-> cache[c.s].data, seen |-> cache[c.s].version, edit |-> c.edit])
    /\ Unchanged /\ UNCHANGED left

\* There is no update of a file: its save does nothing and cannot fail.
NoUpdate(c) == c.do = "save" /\ c.s # NewSecret /\ c.type = "binary"

\* The call fails, the session has no key, or the secret is gone.
Failed(c) ==
    /\ c.do \in {"save", "toggle", "delete", "download"} /\ ~NoUpdate(c)
    /\ \/ Spend
       \/ locked /\ UNCHANGED left
       \/ c.do # "download" /\ c.s # NewSecret /\ ~Changeable(c.s) /\ UNCHANGED left
    /\ Answer(c, Error)
    /\ Unchanged

\* doneOrErr of a create.
CreateSecret(c) ==
    /\ c.do = "save" /\ c.s = NewSecret /\ ~locked
    /\ \E s \in Fresh :
        Replace(s, [version |-> 1, deleted |-> FALSE, type |-> c.type, data |-> c.data], 0)
    /\ Answer(c, SwitchTo("dashboard"))
    /\ UNCHANGED left

\* UpdateText, UpdateBankCard, UpdateTOTP and UpdateLoginPassword, which stands in
\* for the type that has no update of its own.
NewRow(c) ==
    [version |-> c.version + 1, deleted |-> FALSE, type |-> c.type,
     data |-> IF c.type = "binary" THEN [c.data EXCEPT !.body = ""] ELSE c.data]

Conflicts(c) == sec[c.s].version # c.version

\* genericResult of an update.
UpdateSecret(c) ==
    /\ c.do = "save" /\ c.s # NewSecret
    /\ \/ NoUpdate(c) /\ Answer(c, SwitchTo("dashboard")) /\ Unchanged
       \/ /\ ~NoUpdate(c) /\ ~locked /\ Changeable(c.s)
          /\ IF Conflicts(c)
             THEN /\ Answer(c, [msg |-> "conflict", card |-> CardOf(c.s, c.data, FALSE)])
                  /\ Unchanged
             ELSE /\ Answer(c, SwitchTo("dashboard"))
                  /\ Replace(c.s, NewRow(c), c.seen)
    /\ UNCHANGED left

\* The conflict is dropped, and the form keeps the version it was opened with.
SaveOTPToggle(c) ==
    /\ c.do = "toggle" /\ ~locked /\ Changeable(c.s)
    /\ Answer(c, [msg |-> "toast"])
    /\ IF Conflicts(c) THEN Unchanged ELSE Replace(c.s, NewRow(c), c.seen)
    /\ UNCHANGED left

DeleteSecret(c) ==
    /\ c.do = "delete" /\ ~locked /\ Changeable(c.s)
    /\ IF Conflicts(c)
       THEN Answer(c, [msg |-> "conflict", card |-> CardOf(c.s, Blank, TRUE)]) /\ Unchanged
       ELSE /\ Answer(c, SwitchTo("dashboard"))
            /\ Replace(c.s, [sec[c.s] EXCEPT !.deleted = TRUE, !.version = @ + 1], c.seen)
    /\ UNCHANGED left

Downloaded(c) ==
    /\ c.do = "download" /\ Answer(c, [msg |-> "toast"])
    /\ Unchanged /\ UNCHANGED left

\* GenericResolveConflict: mine on top of the version on the card, or the server's.
ResolveMine(c) ==
    LET k == c.card IN
    /\ c.do = "mine"
    /\ \/ /\ Changeable(k.s) /\ ~locked /\ sec[k.s].version = k.theirs.version
          /\ Replace(k.s, IF k.del THEN [sec[k.s] EXCEPT !.deleted = TRUE, !.version = @ + 1]
                          ELSE [sec[k.s] EXCEPT !.data = k.data, !.version = @ + 1], k.theirs.version)
          /\ Answer(c, [msg |-> "resolved"])
          /\ UNCHANGED left
       \/ /\ Changeable(k.s) /\ ~locked /\ sec[k.s].version # k.theirs.version
          /\ Answer(c, [msg |-> "again", card |-> CardOf(k.s, k.data, k.del)])
          /\ Unchanged /\ UNCHANGED left
       \/ /\ Spend \/ ((locked \/ ~Changeable(k.s)) /\ UNCHANGED left)
          /\ Answer(c, [msg |-> "conflictErr"])
          /\ Unchanged

ResolveServer(c) ==
    LET k == c.card IN
    /\ c.do = "server"
    /\ cache' = [cache EXCEPT ![k.s] = k.theirs]
    /\ Noted("back", k.s, k.theirs.version < cache[k.s].version)
    /\ Answer(c, [msg |-> "resolved"])
    /\ UNCHANGED <<sec, rows, left>>

RunCommand(c) ==
    /\ \/ LoadEditData(c) \/ Failed(c) \/ CreateSecret(c) \/ UpdateSecret(c)
       \/ SaveOTPToggle(c) \/ DeleteSecret(c) \/ Downloaded(c)
       \/ ResolveMine(c) \/ ResolveServer(c)
    /\ UNCHANGED <<screen, locked, form, card>>

----------------------------------------------------------------------------
(* App.Update: a message changes the screen, or goes to the screen shown. *)

Handled(msg) == msgs' = msgs (-) SetToBag({msg})

\* switchScreenMsg: applyScreenContext hands its context to the screen, whatever
\* is shown at the time.
SwitchScreen(m) ==
    /\ Handled(m)
    /\ \/ /\ m.msg = "switch" /\ screen' = m.screen
          /\ form' = Hidden(form) /\ card' = NoCard
       \/ /\ m.msg = "create" /\ screen' = "form"
          /\ form' = SetCreate(form, m.type) /\ card' = NoCard
       \/ /\ m.msg = "form" /\ screen' = "form"
          /\ form' = SetEditData(form, m) /\ card' = NoCard
       \/ /\ m.msg = "conflict" /\ screen' = "conflict"
          /\ form' = Hidden(form) /\ card' = m.card
    /\ UNCHANGED <<locked, serverVars, cmds, left, log>>

\* Mutant: the error message leaves the mark.
FormErrorKeepsSaving(m) ==
    /\ m.msg = "err"
    /\ Handled(m)
    /\ UNCHANGED <<screen, locked, form, card, serverVars, cmds, left, log>>

\* loginErrMsg: only the form takes it.
FormError(m) ==
    /\ m.msg = "err"
    /\ Handled(m)
    /\ form' = IF screen = "form" THEN [form EXCEPT !.saving = FALSE] ELSE form
    /\ UNCHANGED <<screen, locked, card, serverVars, cmds, left, log>>

\* A message no screen changes on, or one for a screen that is not shown.
Dropped(m) ==
    /\ m.msg \in {"toast", "rowsErr", "conflictErr"}
       \/ (m.msg \in {"resolved", "again"} /\ screen # "conflict")
    /\ Handled(m)
    /\ UNCHANGED <<screen, locked, form, card, serverVars, cmds, left, log>>

ConflictResolved(m) ==
    /\ screen = "conflict" /\ m.msg \in {"resolved", "again"}
    /\ \/ /\ m.msg = "resolved"
          /\ msgs' = (msgs (-) SetToBag({m})) (+) SetToBag({SwitchTo("dashboard")})
          /\ UNCHANGED card
       \/ /\ m.msg = "again" /\ Handled(m)
          /\ card' = m.card
    /\ UNCHANGED <<screen, locked, form, serverVars, cmds, left, log>>

Deliver(m) == SwitchScreen(m) \/ FormError(m) \/ Dropped(m) \/ ConflictResolved(m)

----------------------------------------------------------------------------
(* What happens beside the user. *)

OtherDevice(s) ==
    /\ Spend /\ Changeable(s)
    /\ \/ sec' = [sec EXCEPT ![s].version = @ + 1, ![s].data.body = "y"]
       \/ sec' = [sec EXCEPT ![s].version = @ + 1, ![s].deleted = TRUE]
    /\ UNCHANGED <<screen, locked, form, card, cache, rows, cmds, msgs, log>>

\* The background sync brings the cache up to date; the dashboard reloads its rows.
Pull ==
    /\ cache' = sec
    /\ UNCHANGED <<screen, locked, form, card, sec, rows, cmds, msgs, left, log>>

LoadRows ==
    /\ rows' = [s \in Secrets |-> IF cache[s].deleted THEN 0 ELSE cache[s].version]
    /\ UNCHANGED <<screen, locked, form, card, sec, cache, cmds, msgs, left, log>>

Autolock ==
    /\ screen # "lock" /\ Spend
    /\ screen' = "lock" /\ locked' = TRUE
    /\ form' = Hidden(form) /\ card' = NoCard
    /\ UNCHANGED <<serverVars, cmds, msgs, log>>

Unlock ==
    /\ screen = "lock"
    /\ locked' = FALSE /\ screen' = "dashboard"
    /\ UNCHANGED <<form, card, serverVars, cmds, msgs, left, log>>

----------------------------------------------------------------------------
Key ==
    \/ \E s \in Secrets, edit \in BOOLEAN : OpenForm(s, edit)
    \/ \E type \in Types : NewForm(type)
    \/ MoveFocus \/ ToggleOTP \/ EscView \/ AskDelete \/ EnterEdit
    \/ OpenPicker \/ LeavePicker \/ PickFile \/ PickDirectory
    \/ UpdateActiveInput \/ AddExtra \/ FlipOTP \/ CycleType \/ EscEdit \/ CtrlS
    \/ ConfirmExit \/ ConfirmDelete
    \/ \E choice \in {"mine", "server"} : Resolve(choice)
    \/ EscConflict

Around == (\E s \in Secrets : OtherDevice(s)) \/ Pull \/ LoadRows \/ Autolock \/ Unlock

Next ==
    \/ Key
    \/ \E c \in BagToSet(cmds) : RunCommand(c)
    \/ \E m \in BagToSet(msgs) : Deliver(m)
    \/ Around

Spec == Init /\ [][Next]_vars

----------------------------------------------------------------------------
(* Properties *)

CommandKinds == {"open", "save", "toggle", "delete", "download", "mine", "server"}
MessageKinds ==
    {"switch", "create", "form", "conflict", "err", "toast", "rowsErr", "conflictErr", "resolved", "again"}

MaxVersion == 1 + MaxChanges
MaxSlots == Len(FieldsForType) + 2 * MaxExtras + 3
Data ==
    [title : Text, body : Text, custom : Seq(Text),
     otps : Seq([code : Text, used : BOOLEAN])]
Row == [version : 0 .. MaxVersion, deleted : BOOLEAN, type : Types, data : Data]

TypeOK ==
    /\ screen \in {"dashboard", "form", "conflict", "lock"} /\ locked \in BOOLEAN
    /\ form \in [sid : Secrets \cup {NewSecret}, version : 0 .. MaxVersion, seen : 0 .. MaxVersion,
                 type : Types, focus : 1 .. MaxSlots, saving : BOOLEAN, dirty : BOOLEAN,
                 mode : {"view", "edit", "confirmExit", "confirmDelete", "filePicker", "downloadPicker"},
                 snapshot : [title : Text, body : Text] \cup {NoSnapshot},
                 data : Data, start : Data, kept : BOOLEAN]
    /\ card \in [s : Secrets \cup {NewSecret}, data : Data, theirs : Row, del : BOOLEAN]
    /\ sec \in [Secrets -> Row] /\ cache \in [Secrets -> Row]
    /\ rows \in [Secrets -> 0 .. MaxVersion]
    /\ {c.do : c \in BagToSet(cmds)} \subseteq CommandKinds
    /\ {m.msg : m \in BagToSet(msgs)} \subseteq MessageKinds
    /\ InFlight <= MaxInFlight

\* dashboard_table.go, secret_form_view.go, generic.go: whatever is saved, toggled,
\* deleted or resolved replaces a version whose content the user had on the form or
\* on the card, however late the form was filled and whoever wrote in between.  Only
\* the server's version of an old card, put back into the cache under newer rows, can
\* be shown under a version it does not have (GenericResolveConflict).
NoUnseenOverwrite == log.blind \subseteq log.back

\* isDirty: while the fields, the custom fields or the codes differ from what they
\* were when editing began, Esc asks before it leaves; a new secret the user gave up
\* is on its way out already.
EscAsks ==
    form.mode = "edit" /\ form.data # form.start /\ ~(form.sid = NewSecret /\ form.kept)
        => IsDirty(form)

\* applyFocus: while a form is edited some slot has the focus, so that no key is
\* typed into nothing, whatever secret was open before.
SomeSlotFocused == form.mode = "edit" => HasSlot(form)

\* save, loginErrMsg: a form that shows "saving" is still waited for: the command
\* runs, or a message is under way that takes the form off the screen or clears the
\* mark, whatever other commands were started and answered meanwhile.
SavingAnswered ==
    form.saving => \/ \E c \in BagToSet(cmds) : c.do = "save"
                   \/ \E m \in BagToSet(msgs) : m.msg \in {"switch", "conflict", "err"}
=============================================================================
