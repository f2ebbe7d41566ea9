-------------------------- MODULE SecretFormProofs --------------------------
(***************************************************************************)
(* Theorems about SecretForm, for any secrets, types, bounds and number of *)
(* commands and messages under way.  The invariant comes in layers:        *)
(*   StateTyped  what is in form, card, commands and messages;             *)
(*   FormInv     the form is what its mode says, and is waited for;        *)
(*   SeenInv     a version that is taken along stands for what was shown.  *)
(***************************************************************************)
EXTENDS SecretForm, SequenceTheorems, FiniteSetTheorems, WellFoundedInduction, TLAPS

----------------------------------------------------------------------------
(* Types. *)

Code == [code : Text, used : BOOLEAN]
Modes == {"view", "edit", "confirmExit", "confirmDelete", "filePicker", "downloadPicker"}
Snapshots == [title : Text, body : Text] \cup {NoSnapshot}

Forms ==
    [sid : Secrets \cup {NewSecret}, version : Nat, seen : Nat, type : Types, mode : Modes,
     focus : Nat \ {0}, saving : BOOLEAN, dirty : BOOLEAN, snapshot : Snapshots,
     data : Data, start : Data, kept : BOOLEAN]

Rows == [version : Nat, deleted : BOOLEAN, type : Types, data : Data]
Cards == [s : Secrets, data : Data, theirs : Rows, del : BOOLEAN]

Opens == [do : {"open"}, s : Secrets, version : Nat, edit : BOOLEAN]
Saves ==
    [do : {"save"}, s : Secrets \cup {NewSecret}, version : Nat, type : Types, data : Data, seen : Nat]
Toggles == [do : {"toggle"}, s : Secrets, version : Nat, type : Types, data : Data, seen : Nat]
Deletes == [do : {"delete"}, s : Secrets, version : Nat, seen : Nat]
Downloads == [do : {"download"}]
Choices == [do : {"mine", "server"}, card : Cards]
Commands == Opens \cup Saves \cup Toggles \cup Deletes \cup Downloads \cup Choices

Switches == [msg : {"switch"}, screen : {"dashboard"}]
Creates == [msg : {"create"}, type : Types]
Fills ==
    [msg : {"form"}, s : Secrets, version : Nat, type : Types, data : Data, seen : Nat, edit : BOOLEAN]
CardMessages == [msg : {"conflict", "again"}, card : Cards]
Notices == [msg : {"err", "toast", "rowsErr", "conflictErr", "resolved"}]
Messages == Switches \cup Creates \cup Fills \cup CardMessages \cup Notices

StateTyped ==
    /\ screen \in {"dashboard", "form", "conflict", "lock"} /\ locked \in BOOLEAN
    /\ form \in Forms
    /\ card \in Cards \cup {NoCard}
    /\ sec \in [Secrets -> Rows] /\ cache \in [Secrets -> Rows] /\ rows \in [Secrets -> Nat]
    /\ IsABag(cmds) /\ BagToSet(cmds) \subseteq Commands
    /\ IsABag(msgs) /\ BagToSet(msgs) \subseteq Messages
    /\ log \in [blind : SUBSET Secrets, back : SUBSET Secrets]

----------------------------------------------------------------------------
(* Bags with one element more, and with one copy less. *)

LEMMA BagMore ==
    ASSUME NEW B, IsABag(B), NEW x
    PROVE  /\ IsABag(B (+) SetToBag({x}))
           /\ BagToSet(B (+) SetToBag({x})) = BagToSet(B) \cup {x}
  <1>1. \A e \in DOMAIN B : B[e] \in Nat /\ B[e] > 0
    BY DEF IsABag
  <1>. QED BY <1>1 DEF IsABag, SetToBag, BagToSet, (+)

LEMMA BagLess ==
    ASSUME NEW B, IsABag(B), NEW x
    PROVE  /\ IsABag(B (-) SetToBag({x}))
           /\ BagToSet(B (-) SetToBag({x})) \subseteq BagToSet(B)
           /\ BagToSet(B) \ {x} \subseteq BagToSet(B (-) SetToBag({x}))
  <1>1. \A e \in DOMAIN B : B[e] \in Nat /\ B[e] > 0
    BY DEF IsABag
  <1>. QED BY <1>1 DEF IsABag, SetToBag, BagToSet, (-)

LEMMA StartedAdds ==
    ASSUME IsABag(cmds), NEW c, Started(c)
    PROVE  IsABag(cmds') /\ BagToSet(cmds') = BagToSet(cmds) \cup {c}
  BY BagMore DEF Started

LEMMA SentAdds ==
    ASSUME IsABag(msgs), NEW m, Sent(m)
    PROVE  IsABag(msgs') /\ BagToSet(msgs') = BagToSet(msgs) \cup {m}
  BY BagMore DEF Sent

LEMMA EndsRemoves ==
    ASSUME IsABag(cmds), NEW c, Ends(c)
    PROVE  /\ IsABag(cmds') /\ BagToSet(cmds') \subseteq BagToSet(cmds)
           /\ BagToSet(cmds) \ {c} \subseteq BagToSet(cmds')
  BY BagLess DEF Ends

LEMMA HandledRemoves ==
    ASSUME IsABag(msgs), NEW m, Handled(m)
    PROVE  /\ IsABag(msgs') /\ BagToSet(msgs') \subseteq BagToSet(msgs)
           /\ BagToSet(msgs) \ {m} \subseteq BagToSet(msgs')
  BY BagLess DEF Handled

----------------------------------------------------------------------------
(* What is saved: the elements left over are elements of the sequence.     *)

LEMMA LeastNat ==
    ASSUME NEW T \in SUBSET Nat, T # {}
    PROVE  \E m \in T : \A k \in T : m <= k
  <1>. DEFINE R == {ss \in Nat \X Nat : ss[1] < ss[2]}
  <1>1. IsWellFoundedOn(R, Nat)
    BY NatLessThanWellFounded DEF OpToRel
  <1>2. \E x \in T : \A y \in T : ~ (<<y, x>> \in R)
    <2>. HIDE DEF R
    <2>. QED BY <1>1, WFMin
  <1>3. PICK x \in T : \A y \in T : ~ (<<y, x>> \in R)
    BY <1>2
  <1>4. ASSUME NEW y \in T
        PROVE  x <= y
    <2>1. <<y, x>> \notin R
      BY <1>3
    <2>2. <<y, x>> \in Nat \X Nat
      OBVIOUS
    <2>. QED BY <2>1, <2>2
  <1>. QED BY <1>4

\* Every place of the result has an element of at: the one with as many below it.
LEMMA PlaceExists ==
    ASSUME NEW at \in SUBSET Nat, IsFiniteSet(at), NEW n \in 1 .. Cardinality(at)
    PROVE  \E i \in at : Cardinality({j \in at : j < i}) = n - 1
  <1>. DEFINE Below(i) == {j \in at : j < i}
              Missed == {k \in 1 .. Cardinality(at) : ~ \E i \in at : Cardinality(Below(i)) = k - 1}
  <1>1. Cardinality(at) \in Nat /\ \A i \in at : i \in Nat
    BY FS_CardinalityType
  <1>2. \A i \in at : IsFiniteSet(Below(i)) /\ Cardinality(Below(i)) \in Nat
    BY FS_Subset, FS_CardinalityType
  <1>3. SUFFICES ASSUME Missed # {}
                 PROVE  FALSE
    BY <1>1
  <1>4. PICK m \in Missed : \A k \in Missed : m <= k
    <2>1. Missed \in SUBSET Nat
      BY <1>1
    <2>. HIDE DEF Missed
    <2>. QED BY <1>3, <2>1, LeastNat
  <1>5. m \in Nat /\ m >= 1 /\ m <= Cardinality(at)
    BY <1>1, <1>4
  <1>6. CASE m = 1
    <2>1. at # {}
      BY <1>5, FS_EmptySet
    <2>2. PICK i \in at : \A k \in at : i <= k
      BY <2>1, LeastNat
    <2>3. \A k \in at : ~ (k < i)
      BY <1>1, <2>2
    <2>4. Below(i) = {}
      BY <2>3
    <2>. QED BY <1>4, <1>6, <2>2, <2>4, FS_EmptySet
  <1>7. CASE m > 1
    <2>1. m - 1 \notin Missed
      BY <1>4, <1>5, <1>7
    <2>2. PICK i \in at : Cardinality(Below(i)) = m - 2
      BY <1>1, <1>5, <1>7, <2>1
    <2>. DEFINE Upto == Below(i) \cup {i}
                Above == at \ Upto
    <2>3. IsFiniteSet(Upto) /\ Cardinality(Upto) = m - 1
      <3>1. i \in Nat /\ i \notin Below(i) /\ IsFiniteSet(Below(i))
        BY <1>1, <1>2, <2>2
      <3>2. IsFiniteSet(Upto) /\ Cardinality(Upto) = Cardinality(Below(i)) + 1
        <4>. HIDE DEF Below
        <4>. QED BY <3>1, FS_AddElement
      <3>. HIDE DEF Upto, Below
      <3>. QED BY <1>5, <2>2, <3>2
    <2>4. Above # {}
      <3>. SUFFICES ASSUME Above = {}
                    PROVE  FALSE
        OBVIOUS
      <3>1. Upto = at
        OBVIOUS
      <3>. HIDE DEF Upto
      <3>. QED BY <1>5, <2>3, <3>1
    <2>5. PICK l \in Above : \A k \in Above : l <= k
      <3>1. Above \in SUBSET Nat
        OBVIOUS
      <3>. HIDE DEF Above
      <3>. QED BY <2>4, <3>1, LeastNat
    <2>6. Below(l) = Upto
      <3>1. \A k \in at : k \notin Above => k = i \/ k < i
        BY <1>1
      <3>2. l # i /\ ~ (l < i) /\ l \in at
        BY <2>5
      <3>3. \A k \in at : k < l => k \notin Above
        BY <1>1, <2>5
      <3>4. \A k \in at : k = i \/ k < i => k < l
        BY <1>1, <2>2, <3>2
      <3>. HIDE DEF Above
      <3>. QED BY <2>2, <3>1, <3>3, <3>4
    <2>. HIDE DEF Upto
    <2>7. l \in at /\ Cardinality(Below(l)) = m - 1
      BY <2>3, <2>5, <2>6
    <2>. QED BY <1>4, <2>7
  <1>. QED BY <1>5, <1>6, <1>7

LEMMA AtPositionsType ==
    ASSUME NEW S, NEW seq \in Seq(S), NEW at \in SUBSET DOMAIN seq
    PROVE  AtPositions(seq, at) \in Seq(S)
  <1>. DEFINE Place(n) == CHOOSE i \in at : Cardinality({j \in at : j < i}) = n - 1
  <1>1. DOMAIN seq = 1 .. Len(seq) /\ Len(seq) \in Nat
    OBVIOUS
  <1>2. IsFiniteSet(at) /\ at \in SUBSET Nat
    <2>1. at \subseteq 1 .. Len(seq) /\ 1 .. Len(seq) \subseteq Nat
      BY <1>1
    <2>2. IsFiniteSet(1 .. Len(seq))
      BY <1>1, FS_Interval
    <2>. QED BY <2>1, <2>2, FS_Subset
  <1>3. Cardinality(at) \in Nat
    BY <1>2, FS_CardinalityType
  <1>4. ASSUME NEW n \in 1 .. Cardinality(at)
        PROVE  seq[Place(n)] \in S
    <2>1. \E i \in at : Cardinality({j \in at : j < i}) = n - 1
      BY <1>2, PlaceExists
    <2>2. Place(n) \in at
      BY <2>1
    <2>. HIDE DEF Place
    <2>. QED BY <2>2, ElementOfSeq, <1>1
  <1>5. AtPositions(seq, at) = [n \in 1 .. Cardinality(at) |-> seq[Place(n)]]
    BY DEF AtPositions
  <1>. HIDE DEF Place
  <1>. QED BY <1>3, <1>4, <1>5, SeqDef

LEMMA CollectedType ==
    ASSUME NEW d \in Data
    PROVE  Collected(d) \in Data
  <1>. DEFINE customs == AtPositions(d.custom, {i \in DOMAIN d.custom : d.custom[i] # ""})
              codes == AtPositions(d.otps, {i \in DOMAIN d.otps : d.otps[i].code # ""})
  <1>1. d.custom \in Seq(Text) /\ d.otps \in Seq(Code)
    BY DEF Data, Code
  <1>2. customs \in Seq(Text)
    BY <1>1, AtPositionsType
  <1>3. codes \in Seq(Code)
    BY <1>1, AtPositionsType
  <1>4. Collected(d) = [d EXCEPT !.custom = customs, !.otps = codes]
    BY DEF Collected
  <1>. HIDE DEF customs, codes
  <1>. QED BY <1>2, <1>3, <1>4 DEF Data, Code

LEMMA BlankType == Blank \in Data
  BY DEF Blank, Data, Text

----------------------------------------------------------------------------
(* The slots of a form. *)

SlotKinds == {"type", "field", "custom", "addcustom", "otp", "addotp"}
SlotRecs == [kind : SlotKinds, idx : Nat]
Elements(s) == {s[i] : i \in 1 .. Len(s)}
SlotsOf(kind, n) == {Slot(kind, i) : i \in 1 .. n}
Either(there, kind) == IF there THEN {Slot(kind, 1)} ELSE {}

\* The slots the form has when it is edited.
EditSlots(f) ==
    (IF f.sid = NewSecret THEN 1 ELSE 0) + Len(f.data.custom) + Len(f.data.otps) + 4

\* s is a list of n slots, the ones of the set els.
SlotList(s, n, els) == s \in Seq(SlotRecs) /\ Len(s) = n /\ Elements(s) = els

LEMMA SlotSeqList ==
    ASSUME NEW kind \in SlotKinds, NEW n \in Nat
    PROVE  SlotList(SlotSeq(kind, n), n, SlotsOf(kind, n))
  <1>. DEFINE s == [i \in 1 .. n |-> Slot(kind, i)]
  <1>1. \A i \in 1 .. n : Slot(kind, i) \in SlotRecs
    BY DEF Slot, SlotRecs
  <1>2. s \in [1 .. n -> SlotRecs]
    BY <1>1
  <1>3. s \in Seq(SlotRecs)
    BY <1>2, SeqDef
  <1>4. Len(s) = n
    BY <1>2, <1>3, LenProperties
  <1>5. Elements(s) = SlotsOf(kind, n)
    BY <1>4 DEF Elements, SlotsOf
  <1>. QED BY <1>3, <1>4, <1>5 DEF SlotList, SlotSeq

LEMMA OneSlotList ==
    ASSUME NEW kind \in SlotKinds, NEW there \in BOOLEAN
    PROVE  SlotList(IF there THEN <<Slot(kind, 1)>> ELSE <<>>, IF there THEN 1 ELSE 0, Either(there, kind))
  <1>1. Slot(kind, 1) \in SlotRecs
    BY DEF Slot, SlotRecs
  <1>2. CASE there
    BY <1>1, <1>2 DEF Elements, Either, SlotList
  <1>3. CASE ~ there
    BY <1>3 DEF Elements, Either, SlotList
  <1>. QED BY <1>2, <1>3

LEMMA ConcatList ==
    ASSUME NEW s, NEW t, NEW m \in Nat, NEW n \in Nat, NEW X, NEW Y, SlotList(s, m, X), SlotList(t, n, Y)
    PROVE  SlotList(s \o t, m + n, X \cup Y)
  <1>1. s \in Seq(SlotRecs) /\ t \in Seq(SlotRecs) /\ Len(s) = m /\ Len(t) = n
    BY DEF SlotList
  <1>2. s \o t \in Seq(SlotRecs) /\ Len(s \o t) = m + n
    BY <1>1
  <1>3. \A i \in 1 .. m : (s \o t)[i] = s[i]
    BY <1>1
  <1>4. \A i \in 1 .. n : (s \o t)[m + i] = t[i]
    BY <1>1
  <1>. DEFINE u == s \o t
  <1>5. Elements(u) \subseteq Elements(s) \cup Elements(t)
    <2>. SUFFICES ASSUME NEW i \in 1 .. m + n
                  PROVE  u[i] \in Elements(s) \cup Elements(t)
      BY <1>2 DEF Elements
    <2>1. CASE i <= m
      BY <1>1, <1>3, <2>1 DEF Elements
    <2>2. CASE i > m
      <3>1. i - m \in 1 .. n /\ i = m + (i - m)
        BY <2>2
      <3>2. u[i] = t[i - m]
        BY <1>4, <3>1
      <3>. HIDE DEF u
      <3>. QED BY <1>1, <3>1, <3>2 DEF Elements
    <2>. HIDE DEF u
    <2>. QED BY <2>1, <2>2
  <1>6. Elements(s) \subseteq Elements(u)
    BY <1>1, <1>2, <1>3 DEF Elements
  <1>7. Elements(t) \subseteq Elements(u)
    <2>. SUFFICES ASSUME NEW i \in 1 .. n
                  PROVE  t[i] \in Elements(u)
      BY <1>1 DEF Elements
    <2>1. m + i \in 1 .. Len(u) /\ u[m + i] = t[i]
      BY <1>2, <1>4
    <2>. HIDE DEF u
    <2>. QED BY <2>1 DEF Elements
  <1>8. Elements(u) = X \cup Y
    <2>. HIDE DEF u
    <2>. QED BY <1>5, <1>6, <1>7 DEF SlotList
  <1>. QED BY <1>2, <1>8 DEF SlotList

LEMMA DataSeqs ==
    ASSUME NEW f \in Forms
    PROVE  /\ f.data \in Data /\ f.data.custom \in Seq(Text) /\ f.data.otps \in Seq(Code)
           /\ Len(f.data.custom) \in Nat /\ Len(f.data.otps) \in Nat
  <1>1. f.data \in Data /\ f.data.custom \in Seq(Text) /\ f.data.otps \in Seq(Code)
    BY DEF Forms, Data, Code
  <1>. QED BY <1>1, LenProperties

LEMMA SlotsAre ==
    ASSUME NEW f \in Forms
    PROVE  SlotList(Slots(f),
                    (IF TypeSelectable(f) THEN 1 ELSE 0) + 2 + Len(f.data.custom)
                    + (IF f.mode = "edit" THEN 1 ELSE 0) + Len(f.data.otps)
                    + (IF f.mode = "edit" THEN 1 ELSE 0),
                    Either(TypeSelectable(f), "type") \cup SlotsOf("field", 2)
                    \cup SlotsOf("custom", Len(f.data.custom)) \cup Either(f.mode = "edit", "addcustom")
                    \cup SlotsOf("otp", Len(f.data.otps)) \cup Either(f.mode = "edit", "addotp"))
  <1>. DEFINE a == IF TypeSelectable(f) THEN 1 ELSE 0
              e == IF f.mode = "edit" THEN 1 ELSE 0
              nc == Len(f.data.custom)
              no == Len(f.data.otps)
              A == IF TypeSelectable(f) THEN <<Slot("type", 1)>> ELSE <<>>
              P == IF f.mode = "edit" THEN <<Slot("addcustom", 1)>> ELSE <<>>
              Q == IF f.mode = "edit" THEN <<Slot("addotp", 1)>> ELSE <<>>
              K == SlotSeq("field", 2)
              L == SlotSeq("custom", nc)
              M == SlotSeq("otp", no)
              X == Either(TypeSelectable(f), "type")
              Y == Either(f.mode = "edit", "addcustom")
              Z == Either(f.mode = "edit", "addotp")
  <1>1. TypeSelectable(f) \in BOOLEAN /\ (f.mode = "edit") \in BOOLEAN
    BY DEF TypeSelectable
  <1>2. a \in Nat /\ e \in Nat /\ nc \in Nat /\ no \in Nat
    BY DataSeqs
  <1>3. SlotList(A, a, X) /\ SlotList(P, e, Y) /\ SlotList(Q, e, Z)
    BY <1>1, OneSlotList DEF SlotKinds
  <1>4. SlotList(K, 2, SlotsOf("field", 2))
    BY SlotSeqList DEF SlotKinds
  <1>5. SlotList(L, nc, SlotsOf("custom", nc)) /\ SlotList(M, no, SlotsOf("otp", no))
    BY <1>2, SlotSeqList DEF SlotKinds
  <1>6. Slots(f) = A \o K \o L \o P \o M \o Q
    <2>1. Len(FieldsForType) = 2
      BY DEF FieldsForType
    <2>. QED BY <2>1 DEF Slots
  <1>. HIDE DEF a, e, nc, no, A, P, Q, K, L, M, X, Y, Z
  <1>7. SlotList(A \o K, a + 2, X \cup SlotsOf("field", 2))
    BY <1>2, <1>3, <1>4, ConcatList
  <1>8. SlotList(A \o K \o L, a + 2 + nc, X \cup SlotsOf("field", 2) \cup SlotsOf("custom", nc))
    BY <1>2, <1>5, <1>7, ConcatList
  <1>9. SlotList(A \o K \o L \o P, a + 2 + nc + e,
                 X \cup SlotsOf("field", 2) \cup SlotsOf("custom", nc) \cup Y)
    BY <1>2, <1>3, <1>8, ConcatList
  <1>10. SlotList(A \o K \o L \o P \o M, a + 2 + nc + e + no,
                  X \cup SlotsOf("field", 2) \cup SlotsOf("custom", nc) \cup Y \cup SlotsOf("otp", no))
    BY <1>2, <1>5, <1>9, ConcatList
  <1>11. SlotList(A \o K \o L \o P \o M \o Q, a + 2 + nc + e + no + e,
                  X \cup SlotsOf("field", 2) \cup SlotsOf("custom", nc) \cup Y \cup SlotsOf("otp", no) \cup Z)
    BY <1>2, <1>3, <1>10, ConcatList
  <1>. QED BY <1>6, <1>11 DEF a, e, nc, no, X, Y, Z

LEMMA SlotsInEdit ==
    ASSUME NEW f \in Forms
    PROVE  /\ Len(Slots(f)) \in Nat /\ Len(Slots(f)) >= 2
           /\ EditSlots(f) \in Nat /\ EditSlots(f) >= 4
           /\ Len(Slots(f)) <= EditSlots(f)
           /\ f.mode = "edit" => Len(Slots(f)) = EditSlots(f)
  <1>. DEFINE nc == Len(f.data.custom)
              no == Len(f.data.otps)
  <1>1. nc \in Nat /\ no \in Nat
    BY DataSeqs
  <1>2. Len(Slots(f)) = (IF TypeSelectable(f) THEN 1 ELSE 0) + 2 + nc
                        + (IF f.mode = "edit" THEN 1 ELSE 0) + no
                        + (IF f.mode = "edit" THEN 1 ELSE 0)
    BY SlotsAre DEF SlotList
  <1>3. EditSlots(f) = (IF f.sid = NewSecret THEN 1 ELSE 0) + nc + no + 4
    BY DEF EditSlots
  <1>4. TypeSelectable(f) <=> f.sid = NewSecret /\ f.mode = "edit"
    BY DEF TypeSelectable
  <1>. HIDE DEF nc, no
  <1>. QED BY <1>1, <1>2, <1>3, <1>4

\* What the slot with the focus says of the form.
LEMMA SlotOf ==
    ASSUME NEW f \in Forms
    PROVE  /\ CurrentSlot(f).kind = "field" => CurrentSlot(f).idx \in 1 .. 2
           /\ CurrentSlot(f).kind = "custom" => CurrentSlot(f).idx \in 1 .. Len(f.data.custom)
           /\ CurrentSlot(f).kind = "otp" => CurrentSlot(f).idx \in 1 .. Len(f.data.otps)
           /\ CurrentSlot(f).kind = "type" => f.sid = NewSecret
  <1>1. CASE ~ HasSlot(f)
    BY <1>1 DEF CurrentSlot, Slot
  <1>2. CASE HasSlot(f)
    <2>1. CurrentSlot(f) \in Elements(Slots(f))
      BY <1>2 DEF CurrentSlot, HasSlot, Elements
    <2>2. PICK slot : slot = CurrentSlot(f)
      OBVIOUS
    <2>3. slot \in Either(TypeSelectable(f), "type") \cup SlotsOf("field", 2)
                   \cup SlotsOf("custom", Len(f.data.custom)) \cup Either(f.mode = "edit", "addcustom")
                   \cup SlotsOf("otp", Len(f.data.otps)) \cup Either(f.mode = "edit", "addotp")
      BY <2>1, <2>2, SlotsAre DEF SlotList
    <2>4. CASE slot \in Either(TypeSelectable(f), "type")
      BY <2>2, <2>4 DEF Either, Slot, TypeSelectable
    <2>5. CASE slot \in SlotsOf("field", 2) \cup SlotsOf("custom", Len(f.data.custom))
                        \cup SlotsOf("otp", Len(f.data.otps))
      BY <2>2, <2>5 DEF SlotsOf, Slot
    <2>6. CASE slot \in Either(f.mode = "edit", "addcustom") \cup Either(f.mode = "edit", "addotp")
      BY <2>2, <2>6 DEF Either, Slot
    <2>. QED BY <2>3, <2>4, <2>5, <2>6
  <1>. QED BY <1>1, <1>2

----------------------------------------------------------------------------
(* Keys that only change the form. *)

\* The modes in which a secret is edited.
Editing == {"edit", "confirmExit", "filePicker"}

\* A form that is shown: a new secret is being edited, the focus is on a slot that
\* editing has, and what was changed is known to be.
FormGood(f) ==
    /\ f.sid = NewSecret => f.mode \in Editing /\ f.start = Blank
    /\ f.focus \in 1 .. EditSlots(f)
    /\ f.mode \in Editing /\ f.data # f.start /\ ~(f.sid = NewSecret /\ f.kept) => f.dirty

\* g is f, edited: still a good form of the same secret, and as much saved as before.
Edited(f, g) ==
    /\ g \in Forms /\ FormGood(g)
    /\ g.sid = f.sid /\ g.version = f.version /\ g.seen = f.seen /\ g.saving = f.saving

LEMMA IntervalGrows ==
    ASSUME NEW a \in Nat, NEW b1 \in Nat, NEW b2 \in Nat, NEW c1 \in Nat, NEW c2 \in Nat,
           b1 <= b2, c1 <= c2, NEW n \in 1 .. (a + b1 + c1 + 4)
    PROVE  n \in 1 .. (a + b2 + c2 + 4)
  OBVIOUS

LEMMA ModeEdited ==
    ASSUME NEW f \in Forms, FormGood(f), NEW m \in Modes, f.sid = NewSecret => m \in Editing,
           m \in Editing => f.mode \in Editing
    PROVE  Edited(f, [f EXCEPT !.mode = m])
  <1>. DEFINE g == [f EXCEPT !.mode = m]
  <1>1. /\ g \in Forms /\ g.mode = m /\ g.sid = f.sid /\ g.version = f.version /\ g.seen = f.seen
        /\ g.saving = f.saving /\ g.start = f.start /\ g.data = f.data /\ g.focus = f.focus
        /\ g.kept = f.kept /\ g.dirty = f.dirty
    BY DEF Forms
  <1>2. Edited(f, g)
    <2>. HIDE DEF g
    <2>. QED BY <1>1 DEF Edited, FormGood, EditSlots
  <1>. QED BY <1>2

LEMMA FocusEdited ==
    ASSUME NEW f \in Forms, FormGood(f), NEW n \in 1 .. EditSlots(f), EditSlots(f) \in Nat
    PROVE  Edited(f, [f EXCEPT !.focus = n])
  <1>. DEFINE g == [f EXCEPT !.focus = n]
  <1>1. /\ g \in Forms /\ g.mode = f.mode /\ g.sid = f.sid /\ g.version = f.version /\ g.seen = f.seen
        /\ g.saving = f.saving /\ g.start = f.start /\ g.data = f.data /\ g.focus = n
        /\ g.kept = f.kept /\ g.dirty = f.dirty
    BY DEF Forms
  <1>2. Edited(f, g)
    <2>. HIDE DEF g
    <2>. QED BY <1>1 DEF Edited, FormGood, EditSlots
  <1>. QED BY <1>2

\* Fields, custom fields or codes are replaced: dirty, unless nothing changed or the form
\* was dirty before; and no slot goes away.
LEMMA DataEdited ==
    ASSUME NEW f \in Forms, FormGood(f), NEW d \in Data, NEW b \in BOOLEAN, NEW m \in Modes,
           f.sid = NewSecret => m \in Editing,
           m \in Editing => f.mode \in Editing,
           f.dirty => b, d # f.data => b,
           Len(d.custom) \in Nat, Len(d.otps) \in Nat,
           Len(d.custom) >= Len(f.data.custom), Len(d.otps) >= Len(f.data.otps)
    PROVE  Edited(f, [f EXCEPT !.data = d, !.dirty = b, !.mode = m])
  <1>. DEFINE g == [f EXCEPT !.data = d, !.dirty = b, !.mode = m]
  <1>1. /\ g \in Forms /\ g.mode = m /\ g.sid = f.sid /\ g.version = f.version /\ g.seen = f.seen
        /\ g.saving = f.saving /\ g.start = f.start /\ g.data = d /\ g.focus = f.focus
        /\ g.kept = f.kept /\ g.dirty = b
    BY DEF Forms
  <1>2. Len(f.data.custom) \in Nat /\ Len(f.data.otps) \in Nat
    BY DataSeqs
  <1>3. Edited(f, g)
    <2>. HIDE DEF g
    <2>1. f.focus \in 1 .. EditSlots(f)
      BY DEF FormGood
    <2>2. f.focus \in 1 .. EditSlots(g)
      <3>1. /\ EditSlots(f) = (IF f.sid = NewSecret THEN 1 ELSE 0) + Len(f.data.custom) + Len(f.data.otps) + 4
            /\ EditSlots(g) = (IF f.sid = NewSecret THEN 1 ELSE 0) + Len(d.custom) + Len(d.otps) + 4
        BY <1>1 DEF EditSlots
      <3>2. PICK a \in Nat, b1 \in Nat, b2 \in Nat, c1 \in Nat, c2 \in Nat :
                /\ a = IF f.sid = NewSecret THEN 1 ELSE 0
                /\ b1 = Len(f.data.custom) /\ b2 = Len(d.custom)
                /\ c1 = Len(f.data.otps) /\ c2 = Len(d.otps)
        BY <1>2
      <3>3. b1 <= b2 /\ c1 <= c2
        BY <3>2
      <3>4. EditSlots(f) = a + b1 + c1 + 4 /\ EditSlots(g) = a + b2 + c2 + 4
        BY <3>1, <3>2
      <3>5. f.focus \in 1 .. (a + b1 + c1 + 4)
        BY <2>1, <3>4
      <3>6. f.focus \in 1 .. (a + b2 + c2 + 4)
        BY <3>3, <3>5, IntervalGrows
      <3>. QED BY <3>4, <3>6
    <2>. QED BY <1>1, <2>2 DEF Edited, FormGood
  <1>. QED BY <1>3

LEMMA EditingIs == Editing \subseteq Modes /\ "edit" \in Editing /\ "view" \notin Editing /\ "view" \in Modes
  BY DEF Editing, Modes

LEMMA DataEditedHere ==
    ASSUME NEW f \in Forms, FormGood(f), NEW d \in Data, NEW b \in BOOLEAN, NEW m \in Modes,
           m \in Editing <=> f.mode \in Editing, f.dirty => b, d # f.data => b,
           Len(d.custom) = Len(f.data.custom), Len(d.otps) = Len(f.data.otps)
    PROVE  Edited(f, [f EXCEPT !.data = d, !.dirty = b, !.mode = m])
  <1>1. Len(f.data.custom) \in Nat /\ Len(f.data.otps) \in Nat
    BY DataSeqs
  <1>2. f.sid = NewSecret => f.mode \in Editing
    BY DEF FormGood
  <1>3. /\ Len(d.custom) \in Nat /\ Len(d.otps) \in Nat
        /\ Len(d.custom) >= Len(f.data.custom) /\ Len(d.otps) >= Len(f.data.otps)
    BY <1>1
  <1>. QED BY <1>2, <1>3, DataEdited

LEMMA SnapshotType ==
    ASSUME NEW d \in Data
    PROVE  SnapshotOf(d) \in Snapshots
  BY DEF Data, SnapshotOf, Snapshots

LEMMA TakeSnapshotFields ==
    ASSUME NEW f \in Forms, NEW g, g = TakeSnapshot(f)
    PROVE  /\ g \in Forms /\ g.mode = f.mode /\ g.sid = f.sid /\ g.version = f.version /\ g.seen = f.seen
           /\ g.saving = f.saving /\ g.start = f.data /\ g.data = f.data /\ g.focus = f.focus
           /\ g.kept = f.kept /\ g.dirty = FALSE
  <1>1. SnapshotOf(f.data) \in Snapshots /\ f.data \in Data
    BY SnapshotType DEF Forms
  <1>. QED BY <1>1 DEF Forms, TakeSnapshot

LEMMA EditEntered ==
    ASSUME NEW f \in Forms, FormGood(f), f.mode = "view"
    PROVE  Edited(f, TakeSnapshot([f EXCEPT !.mode = "edit"]))
  <1>. DEFINE h == [f EXCEPT !.mode = "edit"]
  <1>1. /\ h \in Forms /\ h.mode = "edit" /\ h.sid = f.sid /\ h.version = f.version /\ h.seen = f.seen
        /\ h.saving = f.saving /\ h.data = f.data /\ h.focus = f.focus
    BY DEF Forms, Modes
  <1>. DEFINE g == TakeSnapshot(h)
  <1>. HIDE DEF h
  <1>2. /\ g \in Forms /\ g.mode = h.mode /\ g.sid = h.sid /\ g.version = h.version /\ g.seen = h.seen
        /\ g.saving = h.saving /\ g.start = h.data /\ g.data = h.data /\ g.focus = h.focus
    BY <1>1, TakeSnapshotFields
  <1>. HIDE DEF g
  <1>3. Edited(f, g)
    BY <1>1, <1>2 DEF Edited, FormGood, EditSlots, Editing
  <1>. QED BY <1>3 DEF g, h

\* Edits of the fields, custom fields and codes one by one.
LEMMA ModRange ==
    ASSUME NEW x \in Int, NEW n \in Nat, n > 0
    PROVE  (x % n) + 1 \in 1 .. n
  OBVIOUS

LEMMA MoveFocusEdits ==
    ASSUME form \in Forms, FormGood(form), MoveFocus
    PROVE  Edited(form, form')
  <1>1. PICK d \in {-1, 1} : form' = FocusBy(form, d)
    BY DEF MoveFocus
  <1>. DEFINE n == Len(Slots(form))
              i == ((form.focus - 1 + d) % n) + 1
  <1>2. form.focus \in Nat /\ n \in Nat /\ n > 0 /\ EditSlots(form) \in Nat /\ n <= EditSlots(form)
    BY SlotsInEdit DEF Forms
  <1>3. i \in 1 .. n
    <2>1. form.focus - 1 + d \in Int
      BY <1>2
    <2>. HIDE DEF n
    <2>. QED BY <1>2, <2>1, ModRange
  <1>4. i \in 1 .. EditSlots(form)
    <2>. HIDE DEF n, i
    <2>. QED BY <1>2, <1>3
  <1>5. form' = [form EXCEPT !.focus = i]
    BY <1>1 DEF FocusBy
  <1>. HIDE DEF i
  <1>. QED BY <1>2, <1>4, <1>5, FocusEdited

LEMMA ModeEdits ==
    ASSUME form \in Forms, FormGood(form), NEW m \in Modes, form' = [form EXCEPT !.mode = m],
           \/ form.mode = "view" /\ m \in {"confirmDelete", "downloadPicker"}
           \/ form.mode \in {"confirmDelete", "downloadPicker"} /\ m = "view"
           \/ form.mode \in Editing /\ m \in Editing
           \/ form.mode \in Editing /\ m = "view" /\ form.sid # NewSecret
    PROVE  Edited(form, form')
  <1>1. form.sid = NewSecret => form.mode \in Editing
    BY DEF FormGood
  <1>2. form.sid = NewSecret => m \in Editing
    BY <1>1 DEF Editing
  <1>3. m \in Editing => form.mode \in Editing
    BY DEF Editing
  <1>. QED BY <1>2, <1>3, ModeEdited

LEMMA PickFileEdits ==
    ASSUME form \in Forms, FormGood(form), PickFile
    PROVE  Edited(form, form')
  <1>1. PICK path \in Text \ {""} :
            form' = [form EXCEPT !.data.body = path, !.dirty = TRUE, !.mode = "edit",
                                 !.data.title = IF @ = "" THEN path ELSE @]
    BY DEF PickFile
  <1>. DEFINE d == [form.data EXCEPT !.body = path, !.title = IF @ = "" THEN path ELSE @]
  <1>2. form.data \in Data /\ form.mode = "filePicker"
    BY DEF Forms, PickFile, InMode
  <1>3. d \in Data /\ d.custom = form.data.custom /\ d.otps = form.data.otps
    BY <1>2 DEF Data
  <1>4. form' = [form EXCEPT !.data = d, !.dirty = TRUE, !.mode = "edit"]
    BY <1>1, <1>2 DEF Forms, Data
  <1>5. "edit" \in Modes /\ ("edit" \in Editing <=> form.mode \in Editing)
    BY <1>2 DEF Editing, Modes
  <1>. HIDE DEF d
  <1>. QED BY <1>3, <1>4, <1>5, DataEditedHere

\* One field, custom field or code is replaced: whatever it is, it is noticed.
LEMMA ReplacedIn ==
    ASSUME NEW S, NEW s \in Seq(S), NEW i \in 1 .. Len(s), NEW x \in S
    PROVE  /\ [s EXCEPT ![i] = x] \in Seq(S) /\ Len([s EXCEPT ![i] = x]) = Len(s)
           /\ [s EXCEPT ![i] = x] # s => s[i] # x
  <1>1. s \in [1 .. Len(s) -> S] /\ Len(s) \in Nat
    BY LenProperties
  <1>2. [s EXCEPT ![i] = x] \in [1 .. Len(s) -> S]
    BY <1>1
  <1>3. [s EXCEPT ![i] = x] \in Seq(S)
    BY <1>1, <1>2, SeqDef
  <1>4. DOMAIN [s EXCEPT ![i] = x] = 1 .. Len(s)
    BY <1>1, <1>2
  <1>5. Len([s EXCEPT ![i] = x]) = Len(s)
    BY <1>1, <1>3, <1>4, LenProperties
  <1>6. s[i] = x => [s EXCEPT ![i] = x] = s
    BY <1>1
  <1>. QED BY <1>3, <1>5, <1>6

LEMMA CustomEdits ==
    ASSUME NEW f \in Forms, FormGood(f), f.mode = "edit", NEW i \in 1 .. Len(f.data.custom), NEW text \in Text
    PROVE  Edited(f, [f EXCEPT !.data.custom[i] = text, !.dirty = @ \/ f.data.custom[i] # text])
  <1>. DEFINE c == [f.data.custom EXCEPT ![i] = text]
              d == [f.data EXCEPT !.custom = c]
              b == f.dirty \/ f.data.custom[i] # text
              g == [f EXCEPT !.data.custom[i] = text, !.dirty = @ \/ f.data.custom[i] # text]
  <1>1. f.data \in Data /\ f.data.custom \in Seq(Text) /\ Len(f.data.custom) \in Nat /\ Len(f.data.otps) \in Nat
    BY DataSeqs
  <1>2. c \in Seq(Text) /\ Len(c) = Len(f.data.custom) /\ (c # f.data.custom => f.data.custom[i] # text)
    BY <1>1, ReplacedIn
  <1>3. g = [f EXCEPT !.data = d, !.dirty = b, !.mode = "edit"]
    BY <1>1 DEF Forms, Data
  <1>. HIDE DEF c
  <1>4. d \in Data /\ d.custom = c /\ d.otps = f.data.otps /\ (d # f.data => c # f.data.custom)
    BY <1>1, <1>2 DEF Data
  <1>5. b \in BOOLEAN /\ (f.dirty => b) /\ (d # f.data => b)
    BY <1>2, <1>4
  <1>. HIDE DEF d, b
  <1>6. Edited(f, [f EXCEPT !.data = d, !.dirty = b, !.mode = "edit"])
    BY <1>2, <1>4, <1>5, DataEditedHere, EditingIs
  <1>. QED BY <1>3, <1>6

LEMMA OtpReplaced ==
    ASSUME NEW f \in Forms, FormGood(f), f.mode \in {"edit", "view"}, NEW i \in 1 .. Len(f.data.otps), NEW x \in Code,
           NEW b \in BOOLEAN, f.dirty => b, f.data.otps[i] # x => b
    PROVE  /\ [f.data EXCEPT !.otps = [f.data.otps EXCEPT ![i] = x]] \in Data
           /\ Edited(f, [f EXCEPT !.data = [f.data EXCEPT !.otps = [f.data.otps EXCEPT ![i] = x]],
                                  !.dirty = b, !.mode = f.mode])
  <1>. DEFINE c == [f.data.otps EXCEPT ![i] = x]
              d == [f.data EXCEPT !.otps = c]
  <1>1. f.data \in Data /\ f.data.otps \in Seq(Code) /\ Len(f.data.otps) \in Nat
    BY DataSeqs
  <1>2. c \in Seq(Code) /\ Len(c) = Len(f.data.otps) /\ (c # f.data.otps => f.data.otps[i] # x)
    BY <1>1, ReplacedIn
  <1>. HIDE DEF c
  <1>4. d \in Data /\ d.otps = c /\ d.custom = f.data.custom /\ (d # f.data => c # f.data.otps)
    BY <1>1, <1>2 DEF Data, Code
  <1>5. d # f.data => b
    BY <1>2, <1>4
  <1>6. f.mode \in Modes
    BY DEF Modes
  <1>. HIDE DEF d
  <1>7. Edited(f, [f EXCEPT !.data = d, !.dirty = b, !.mode = f.mode])
    BY <1>2, <1>4, <1>5, <1>6, DataEditedHere
  <1>. QED BY <1>4, <1>7 DEF c, d

LEMMA OtpIs ==
    ASSUME NEW f \in Forms, NEW i \in 1 .. Len(f.data.otps)
    PROVE  f.data.otps[i] \in Code
  <1>1. f.data.otps \in Seq(Code)
    BY DataSeqs
  <1>. QED BY <1>1, ElementOfSeq

LEMMA CodeEdits ==
    ASSUME NEW f \in Forms, FormGood(f), f.mode = "edit", NEW i \in 1 .. Len(f.data.otps), NEW text \in Text
    PROVE  Edited(f, [f EXCEPT !.data.otps[i].code = text, !.dirty = @ \/ f.data.otps[i].code # text])
  <1>. DEFINE x == [f.data.otps[i] EXCEPT !.code = text]
              b == f.dirty \/ f.data.otps[i].code # text
              g == [f EXCEPT !.data.otps[i].code = text, !.dirty = @ \/ f.data.otps[i].code # text]
              h == [f EXCEPT !.data = [f.data EXCEPT !.otps = [f.data.otps EXCEPT ![i] = x]],
                             !.dirty = b, !.mode = f.mode]
  <1>1. x \in Code /\ (f.data.otps[i] # x => f.data.otps[i].code # text)
    BY OtpIs DEF Code
  <1>2. b \in BOOLEAN /\ (f.dirty => b) /\ (f.data.otps[i] # x => b)
    BY <1>1 DEF Forms
  <1>3. g = h
    BY DataSeqs DEF Forms, Data
  <1>4. Edited(f, h)
    <2>. HIDE DEF x, b
    <2>. QED BY <1>1, <1>2, OtpReplaced
  <1>. QED BY <1>3, <1>4

\* A code is marked as used, or no longer.
LEMMA FlipEdits ==
    ASSUME NEW f \in Forms, FormGood(f), f.mode \in {"edit", "view"}, NEW i \in 1 .. Len(f.data.otps)
    PROVE  Edited(f, [f EXCEPT !.data.otps[i].used = ~@, !.dirty = TRUE])
  <1>. DEFINE x == [f.data.otps[i] EXCEPT !.used = ~@]
              g == [f EXCEPT !.data.otps[i].used = ~@, !.dirty = TRUE]
              h == [f EXCEPT !.data = [f.data EXCEPT !.otps = [f.data.otps EXCEPT ![i] = x]],
                             !.dirty = TRUE, !.mode = f.mode]
  <1>1. x \in Code
    BY OtpIs DEF Code
  <1>3. g = h
    BY DataSeqs DEF Forms, Data
  <1>4. Edited(f, h)
    <2>. HIDE DEF x
    <2>. QED BY <1>1, OtpReplaced
  <1>. QED BY <1>3, <1>4

LEMMA FieldEdits ==
    ASSUME NEW f \in Forms, FormGood(f), f.mode = "edit", NEW n \in {"title", "body"}, NEW text \in Text
    PROVE  Edited(f, [f EXCEPT !.data[n] = text, !.dirty = @ \/ f.data[n] # text])
  <1>. DEFINE d == [f.data EXCEPT ![n] = text]
              b == f.dirty \/ f.data[n] # text
              g == [f EXCEPT !.data[n] = text, !.dirty = @ \/ f.data[n] # text]
              h == [f EXCEPT !.data = d, !.dirty = b, !.mode = "edit"]
  <1>1. f.data \in Data
    BY DataSeqs
  <1>2. d \in Data /\ d.custom = f.data.custom /\ d.otps = f.data.otps /\ (d # f.data => f.data[n] # text)
    BY <1>1 DEF Data
  <1>3. b \in BOOLEAN /\ (f.dirty => b) /\ (d # f.data => b)
    BY <1>2 DEF Forms
  <1>4. g = h
    BY <1>1 DEF Forms
  <1>5. Edited(f, h)
    <2>. HIDE DEF d, b
    <2>. QED BY <1>2, <1>3, DataEditedHere, EditingIs
  <1>. QED BY <1>4, <1>5

LEMMA InputEdits ==
    ASSUME form \in Forms, FormGood(form), UpdateActiveInput
    PROVE  Edited(form, form')
  <1>. DEFINE slot == CurrentSlot(form)
  <1>1. PICK text \in Text : form' = Typed(form, slot, text)
    BY DEF UpdateActiveInput
  <1>2. form.mode = "edit" /\ slot.kind \in {"field", "custom", "otp"}
    BY DEF UpdateActiveInput, InMode
  <1>3. CASE slot.kind = "field"
    <2>1. slot.idx \in 1 .. 2
      BY <1>3, SlotOf
    <2>2. PICK n : n = FieldsForType[slot.idx]
      OBVIOUS
    <2>3. n \in {"title", "body"}
      BY <2>1, <2>2 DEF FieldsForType
    <2>. HIDE DEF slot
    <2>4. form' = [form EXCEPT !.data[n] = text, !.dirty = @ \/ form.data[n] # text]
      BY <1>1, <1>3, <2>2 DEF Typed
    <2>. QED BY <1>2, <2>3, <2>4, FieldEdits
  <1>4. CASE slot.kind = "custom"
    <2>1. PICK i : i = slot.idx
      OBVIOUS
    <2>2. i \in 1 .. Len(form.data.custom)
      BY <1>4, <2>1, SlotOf
    <2>. HIDE DEF slot
    <2>3. form' = [form EXCEPT !.data.custom[i] = text, !.dirty = @ \/ form.data.custom[i] # text]
      BY <1>1, <1>4, <2>1 DEF Typed
    <2>. QED BY <1>2, <2>2, <2>3, CustomEdits
  <1>5. CASE slot.kind = "otp"
    <2>1. PICK i : i = slot.idx
      OBVIOUS
    <2>2. i \in 1 .. Len(form.data.otps)
      BY <1>5, <2>1, SlotOf
    <2>. HIDE DEF slot
    <2>3. form' = [form EXCEPT !.data.otps[i].code = text, !.dirty = @ \/ form.data.otps[i].code # text]
      BY <1>1, <1>5, <2>1 DEF Typed
    <2>. QED BY <1>2, <2>2, <2>3, CodeEdits
  <1>. QED BY <1>2, <1>3, <1>4, <1>5

LEMMA EditedTwice ==
    ASSUME NEW f, NEW g, NEW h, Edited(f, g), Edited(g, h)
    PROVE  Edited(f, h)
  BY DEF Edited

LEMMA FocusSlotEdits ==
    ASSUME NEW f \in Forms, FormGood(f), NEW kind, NEW i, Slot(kind, i) \in Elements(Slots(f))
    PROVE  Edited(f, FocusSlot(f, kind, i))
  <1>. DEFINE n == CHOOSE k \in 1 .. Len(Slots(f)) : Slots(f)[k] = Slot(kind, i)
  <1>1. \E k \in 1 .. Len(Slots(f)) : Slots(f)[k] = Slot(kind, i)
    BY DEF Elements
  <1>2. n \in 1 .. Len(Slots(f))
    BY <1>1
  <1>3. FocusSlot(f, kind, i) = [f EXCEPT !.focus = n]
    BY DEF FocusSlot
  <1>. HIDE DEF n
  <1>4. n \in 1 .. EditSlots(f) /\ EditSlots(f) \in Nat
    BY <1>2, SlotsInEdit
  <1>. QED BY <1>3, <1>4, FocusEdited

LEMMA AppendedTo ==
    ASSUME NEW S, NEW s \in Seq(S), NEW x \in S
    PROVE  Append(s, x) \in Seq(S) /\ Len(s) \in Nat /\ Len(Append(s, x)) = Len(s) + 1
  OBVIOUS

LEMMA AddExtraEdits ==
    ASSUME form \in Forms, FormGood(form), AddExtra
    PROVE  Edited(form, form')
  <1>1. /\ form.mode = "edit" /\ form.data \in Data /\ form.data.custom \in Seq(Text)
        /\ form.data.otps \in Seq(Code) /\ Len(form.data.custom) \in Nat /\ Len(form.data.otps) \in Nat
    BY DataSeqs DEF AddExtra, InMode
  <1>2. CASE form' = FocusSlot([form EXCEPT !.data.custom = Append(@, ""), !.dirty = TRUE],
                               "custom", Len(form.data.custom) + 1)
    <2>. DEFINE c == Append(form.data.custom, "")
                d == [form.data EXCEPT !.custom = c]
                g == [form EXCEPT !.data = d, !.dirty = TRUE, !.mode = "edit"]
    <2>1. c \in Seq(Text) /\ Len(c) = Len(form.data.custom) + 1
      <3>1. "" \in Text
        BY DEF Text
      <3>. QED BY <1>1, <3>1, AppendedTo
    <2>2. [form EXCEPT !.data.custom = Append(@, ""), !.dirty = TRUE] = g
      BY <1>1 DEF Forms, Data
    <2>. HIDE DEF c
    <2>3. d \in Data /\ d.custom = c /\ d.otps = form.data.otps
      BY <1>1, <2>1 DEF Data
    <2>. HIDE DEF d
    <2>4. g.data = d /\ g \in Forms
      BY <2>3 DEF Forms, Modes
    <2>5. Edited(form, g)
      <3>1. /\ Len(d.custom) \in Nat /\ Len(d.otps) \in Nat
            /\ Len(d.custom) >= Len(form.data.custom) /\ Len(d.otps) >= Len(form.data.otps)
        BY <1>1, <2>1, <2>3
      <3>. QED BY <1>1, <2>3, <3>1, DataEdited, EditingIs
    <2>6. Slot("custom", Len(form.data.custom) + 1) \in SlotsOf("custom", Len(g.data.custom))
      <3>1. Len(g.data.custom) = Len(form.data.custom) + 1
        BY <2>1, <2>3, <2>4
      <3>2. Len(form.data.custom) + 1 \in 1 .. Len(form.data.custom) + 1
        BY <1>1
      <3>. QED BY <3>1, <3>2 DEF SlotsOf
    <2>. HIDE DEF g
    <2>7. Slot("custom", Len(form.data.custom) + 1) \in Elements(Slots(g))
      BY <2>4, <2>6, SlotsAre DEF SlotList
    <2>8. Edited(g, form')
      <3>1. form' = FocusSlot(g, "custom", Len(form.data.custom) + 1)
        BY <1>2, <2>2
      <3>2. FormGood(g)
        BY <2>5 DEF Edited
      <3>. QED BY <2>4, <2>7, <3>1, <3>2, FocusSlotEdits
    <2>. QED BY <2>5, <2>8, EditedTwice
  <1>3. CASE form' = FocusSlot([form EXCEPT !.data.otps = Append(@, [code |-> "", used |-> FALSE]),
                                            !.dirty = TRUE],
                               "otp", Len(form.data.otps) + 1)
    <2>. DEFINE c == Append(form.data.otps, [code |-> "", used |-> FALSE])
                d == [form.data EXCEPT !.otps = c]
                g == [form EXCEPT !.data = d, !.dirty = TRUE, !.mode = "edit"]
    <2>1. c \in Seq(Code) /\ Len(c) = Len(form.data.otps) + 1
      <3>1. [code |-> "", used |-> FALSE] \in Code
        BY DEF Code, Text
      <3>. QED BY <1>1, <3>1, AppendedTo
    <2>2. [form EXCEPT !.data.otps = Append(@, [code |-> "", used |-> FALSE]), !.dirty = TRUE] = g
      BY <1>1 DEF Forms, Data
    <2>. HIDE DEF c
    <2>3. d \in Data /\ d.otps = c /\ d.custom = form.data.custom
      BY <1>1, <2>1 DEF Data, Code
    <2>. HIDE DEF d
    <2>4. g.data = d /\ g \in Forms
      BY <2>3 DEF Forms, Modes
    <2>5. Edited(form, g)
      <3>1. /\ Len(d.custom) \in Nat /\ Len(d.otps) \in Nat
            /\ Len(d.custom) >= Len(form.data.custom) /\ Len(d.otps) >= Len(form.data.otps)
        BY <1>1, <2>1, <2>3
      <3>. QED BY <1>1, <2>3, <3>1, DataEdited, EditingIs
    <2>6. Slot("otp", Len(form.data.otps) + 1) \in SlotsOf("otp", Len(g.data.otps))
      <3>1. Len(g.data.otps) = Len(form.data.otps) + 1
        BY <2>1, <2>3, <2>4
      <3>2. Len(form.data.otps) + 1 \in 1 .. Len(form.data.otps) + 1
        BY <1>1
      <3>. QED BY <3>1, <3>2 DEF SlotsOf
    <2>. HIDE DEF g
    <2>7. Slot("otp", Len(form.data.otps) + 1) \in Elements(Slots(g))
      BY <2>4, <2>6, SlotsAre DEF SlotList
    <2>8. Edited(g, form')
      <3>1. form' = FocusSlot(g, "otp", Len(form.data.otps) + 1)
        BY <1>3, <2>2
      <3>2. FormGood(g)
        BY <2>5 DEF Edited
      <3>. QED BY <2>4, <2>7, <3>1, <3>2, FocusSlotEdits
    <2>. QED BY <2>5, <2>8, EditedTwice
  <1>. QED BY <1>2, <1>3 DEF AddExtra

LEMMA FlipOTPEdits ==
    ASSUME form \in Forms, FormGood(form), FlipOTP
    PROVE  Edited(form, form')
  <1>1. PICK i : i = CurrentSlot(form).idx
    OBVIOUS
  <1>2. i \in 1 .. Len(form.data.otps) /\ form.mode = "edit"
    BY <1>1, SlotOf DEF FlipOTP, InMode
  <1>3. form' = [form EXCEPT !.data.otps[i].used = ~@, !.dirty = TRUE]
    BY <1>1 DEF FlipOTP
  <1>. QED BY <1>2, <1>3, FlipEdits

\* A type is chosen only for a new secret, which starts empty: emptying the body makes no
\* difference that was not noticed before.
LEMMA CycleTypeEdits ==
    ASSUME form \in Forms, FormGood(form), CycleType
    PROVE  Edited(form, form')
  <1>. DEFINE n == Len(CreatableTypes)
              i == CHOOSE i \in 1 .. n : CreatableTypes[i] = form.type
              d == [form.data EXCEPT !.body = ""]
  <1>1. PICK k \in {-1, 1} :
            form' = [form EXCEPT !.type = CreatableTypes[((i - 1 + k) % n) + 1], !.data.body = ""]
    BY DEF CycleType
  <1>2. form.sid = NewSecret /\ form.mode = "edit"
    BY SlotOf DEF CycleType, InMode
  <1>3. n \in Nat /\ n > 0 /\ Types = {CreatableTypes[j] : j \in 1 .. n}
    BY FormAssumption DEF Types
  <1>4. i \in 1 .. n
    BY <1>3 DEF Forms
  <1>5. PICK type \in Types : type = CreatableTypes[((i - 1 + k) % n) + 1]
    <2>1. i - 1 + k \in Int
      BY <1>3, <1>4
    <2>2. ((i - 1 + k) % n) + 1 \in 1 .. n
      <3>. HIDE DEF i, n
      <3>. QED BY <1>3, <2>1, ModRange
    <2>. HIDE DEF i
    <2>. QED BY <1>3, <2>2
  <1>6. form.data \in Data
    BY DataSeqs
  <1>7. d \in Data /\ d.custom = form.data.custom /\ d.otps = form.data.otps
    BY <1>6 DEF Data, Text
  <1>8. form' = [form EXCEPT !.type = type, !.data = d]
    <2>. HIDE DEF i, n
    <2>. QED BY <1>1, <1>5, <1>6 DEF Forms
  <1>9. form.data = Blank => d = Blank
    <2>1. d.body = "" /\ d.title = form.data.title
      BY <1>6 DEF Data
    <2>. HIDE DEF d
    <2>2. d = [title |-> d.title, body |-> d.body, custom |-> d.custom, otps |-> d.otps]
      BY <1>7 DEF Data
    <2>3. ASSUME form.data = Blank
          PROVE  d.title = "" /\ d.custom = <<>> /\ d.otps = <<>>
      <3>1. Blank.title = "" /\ Blank.custom = <<>> /\ Blank.otps = <<>>
        BY DEF Blank
      <3>. QED BY <1>7, <2>1, <2>3, <3>1
    <2>4. ASSUME form.data = Blank
          PROVE  d = [title |-> "", body |-> "", custom |-> <<>>, otps |-> <<>>]
      BY <2>1, <2>2, <2>3, <2>4
    <2>. QED BY <2>4 DEF Blank
  <1>. HIDE DEF d, i, n
  <1>10. /\ form' \in Forms /\ form'.mode = form.mode /\ form'.sid = form.sid /\ form'.version = form.version
         /\ form'.seen = form.seen /\ form'.saving = form.saving /\ form'.start = form.start
         /\ form'.data = d /\ form'.focus = form.focus /\ form'.kept = form.kept /\ form'.dirty = form.dirty
    BY <1>5, <1>7, <1>8 DEF Forms
  <1>11. form.start = Blank /\ EditSlots(form') = EditSlots(form)
    BY <1>2, <1>7, <1>10 DEF FormGood, EditSlots
  <1>. QED BY <1>2, <1>9, <1>10, <1>11 DEF Edited, FormGood, Editing

----------------------------------------------------------------------------
(* The keys of the form come in three kinds. *)

FormInv ==
    /\ screen = "form" => FormGood(form)
    /\ screen # "form" => form.mode = "view" /\ ~form.saving
    /\ SavingAnswered

Elsewhere == UNCHANGED <<screen, locked, card, serverVars, log>>

\* The form is edited and nothing is started.
EditStep == screen = "form" /\ Edited(form, form') /\ Elsewhere /\ UNCHANGED <<cmds, msgs>>

\* The screen asks to be left.
LeaveStep ==
    /\ Sent(SwitchTo("dashboard"))
    /\ form' = form \/ (screen = "form" /\ Edited(form, form'))
    /\ Elsewhere /\ UNCHANGED cmds

\* A command is started on the secret of the form.
WriteStep(c) ==
    /\ screen = "form" /\ c \in Saves \cup Toggles \cup Deletes
    /\ c.s = form.sid /\ c.version = form.version /\ c.seen = form.seen
    /\ Started(c)
    /\ form' \in Forms /\ FormGood(form')
    /\ form'.sid = form.sid /\ form'.version = form.version /\ form'.seen = form.seen
    /\ form'.saving => form.saving \/ c.do = "save"
    /\ Elsewhere /\ UNCHANGED msgs

LEMMA SameEdited == ASSUME NEW f \in Forms, FormGood(f) PROVE Edited(f, f)
  BY DEF Edited

LEMMA EditKeys ==
    ASSUME form \in Forms, screen = "form" => FormGood(form),
           \/ MoveFocus \/ AskDelete \/ EnterEdit \/ OpenPicker \/ LeavePicker \/ PickFile
           \/ UpdateActiveInput \/ AddExtra \/ FlipOTP \/ CycleType
    PROVE  EditStep
  <1>1. screen = "form" /\ FormOnly
    BY DEF MoveFocus, AskDelete, EnterEdit, OpenPicker, LeavePicker, PickFile, UpdateActiveInput,
           AddExtra, FlipOTP, CycleType, InMode
  <1>2. FormGood(form)
    BY <1>1
  <1>3. CASE MoveFocus
    BY <1>2, <1>3, MoveFocusEdits, <1>1 DEF EditStep, FormOnly, Elsewhere
  <1>4. CASE AskDelete
    <2>1. form' = [form EXCEPT !.mode = "confirmDelete"] /\ form.mode = "view"
      BY <1>4 DEF AskDelete, InMode
    <2>2. Edited(form, form')
      BY <1>2, <2>1, ModeEdits DEF Modes
    <2>. QED BY <1>1, <2>2 DEF EditStep, FormOnly, Elsewhere
  <1>5. CASE EnterEdit
    <2>1. Edited(form, form')
      BY <1>2, <1>5, EditEntered DEF EnterEdit, InMode
    <2>. QED BY <1>1, <2>1 DEF EditStep, FormOnly, Elsewhere
  <1>6. CASE OpenPicker
    <2>1. Edited(form, form')
      <3>1. CASE form.mode = "edit" /\ form' = [form EXCEPT !.mode = "filePicker"]
        BY <1>2, <3>1, ModeEdits DEF Modes, Editing
      <3>2. CASE form.mode = "view" /\ form' = [form EXCEPT !.mode = "downloadPicker"]
        BY <1>2, <3>2, ModeEdits DEF Modes
      <3>. QED BY <1>6, <3>1, <3>2 DEF OpenPicker
    <2>. QED BY <1>1, <2>1 DEF EditStep, FormOnly, Elsewhere
  <1>7. CASE LeavePicker
    <2>1. Edited(form, form')
      <3>1. CASE form.mode = "filePicker" /\ form' = [form EXCEPT !.mode = "edit"]
        BY <1>2, <3>1, ModeEdits DEF Modes, Editing
      <3>2. CASE form.mode = "downloadPicker" /\ form' = [form EXCEPT !.mode = "view"]
        BY <1>2, <3>2, ModeEdits DEF Modes
      <3>. QED BY <1>7, <3>1, <3>2 DEF LeavePicker
    <2>. QED BY <1>1, <2>1 DEF EditStep, FormOnly, Elsewhere
  <1>8. CASE PickFile
    BY <1>2, <1>8, PickFileEdits, <1>1 DEF EditStep, FormOnly, Elsewhere
  <1>9. CASE UpdateActiveInput
    BY <1>2, <1>9, InputEdits, <1>1 DEF EditStep, FormOnly, Elsewhere
  <1>10. CASE AddExtra
    BY <1>2, <1>10, AddExtraEdits, <1>1 DEF EditStep, FormOnly, Elsewhere
  <1>11. CASE FlipOTP
    BY <1>2, <1>11, FlipOTPEdits, <1>1 DEF EditStep, FormOnly, Elsewhere
  <1>12. CASE CycleType
    BY <1>2, <1>12, CycleTypeEdits, <1>1 DEF EditStep, FormOnly, Elsewhere
  <1>. QED BY <1>3, <1>4, <1>5, <1>6, <1>7, <1>8, <1>9, <1>10, <1>11, <1>12

LEMMA WriteType ==
    ASSUME NEW f \in Forms
    PROVE  /\ Write("save", f) \in Saves
           /\ f.sid # NewSecret => Write("toggle", f) \in Toggles
           /\ \A do : Write(do, f).s = f.sid /\ Write(do, f).version = f.version
                      /\ Write(do, f).seen = f.seen /\ Write(do, f).do = do
  <1>1. Collected(f.data) \in Data
    BY DataSeqs, CollectedType
  <1>. QED BY <1>1 DEF Write, Forms, Saves, Toggles

LEMMA SaveSteps ==
    ASSUME form \in Forms, screen = "form", NEW f \in Forms, Edited(form, f), Save(f)
    PROVE  EditStep \/ \E c : WriteStep(c)
  <1>1. CASE Valid(f)
    <2>. DEFINE g == [f EXCEPT !.saving = TRUE]
    <2>1. /\ form' = g /\ Started(Write("save", f)) /\ Elsewhere /\ UNCHANGED msgs
      BY <1>1 DEF Save, Elsewhere
    <2>2. g \in Forms /\ FormGood(g) /\ g.sid = f.sid /\ g.version = f.version /\ g.seen = f.seen
      <3>1. /\ g \in Forms /\ g.sid = f.sid /\ g.version = f.version /\ g.seen = f.seen
            /\ g.mode = f.mode /\ g.start = f.start /\ g.data = f.data /\ g.focus = f.focus
            /\ g.kept = f.kept /\ g.dirty = f.dirty
        BY DEF Forms
      <3>. HIDE DEF g
      <3>. QED BY <3>1 DEF Edited, FormGood, EditSlots
    <2>. HIDE DEF g
    <2>3. WriteStep(Write("save", f))
      BY <2>1, <2>2, WriteType DEF WriteStep, Edited
    <2>. QED BY <2>3
  <1>2. CASE ~Valid(f)
    BY <1>2 DEF Save, EditStep, FormOnly, Elsewhere
  <1>. QED BY <1>1, <1>2

LEMMA ToggleSteps ==
    ASSUME form \in Forms, screen = "form" => FormGood(form), ToggleOTP
    PROVE  \E c : WriteStep(c)
  <1>1. PICK i : i = CurrentSlot(form).idx
    OBVIOUS
  <1>2. i \in 1 .. Len(form.data.otps) /\ form.mode = "view" /\ screen = "form" /\ FormGood(form)
    BY <1>1, SlotOf DEF ToggleOTP, InMode
  <1>. DEFINE f == [form EXCEPT !.data.otps[i].used = ~@, !.dirty = TRUE]
  <1>3. form' = f /\ Started(Write("toggle", f)) /\ Elsewhere /\ UNCHANGED msgs
    BY <1>1 DEF ToggleOTP, Elsewhere
  <1>4. Edited(form, f)
    BY <1>2, FlipEdits
  <1>. HIDE DEF f
  <1>5. form.sid # NewSecret
    BY <1>2 DEF FormGood, Editing
  <1>6. WriteStep(Write("toggle", f))
    BY <1>2, <1>3, <1>4, <1>5, WriteType DEF WriteStep, Edited
  <1>. QED BY <1>6

LEMMA BackLeaves ==
    ASSUME BackToDashboard
    PROVE  LeaveStep
  <1>1. /\ Sent(SwitchTo("dashboard"))
        /\ UNCHANGED <<screen, locked, form, card, serverVars, cmds, left, log>>
    BY DEF BackToDashboard
  <1>2. form' = form /\ Elsewhere /\ UNCHANGED cmds
    BY <1>1 DEF Elsewhere, serverVars
  <1>. QED BY <1>1, <1>2 DEF LeaveStep

LEMMA EscEditSteps ==
    ASSUME form \in Forms, screen = "form" => FormGood(form), EscEdit
    PROVE  EditStep \/ LeaveStep
  <1>1. screen = "form" /\ form.mode = "edit" /\ FormGood(form)
    BY DEF EscEdit, InMode
  <1>2. CASE form' = [form EXCEPT !.mode = "confirmExit"] /\ FormOnly
    <2>1. Edited(form, form')
      BY <1>1, <1>2, ModeEdits DEF Modes, Editing
    <2>. QED BY <1>1, <1>2, <2>1 DEF EditStep, FormOnly, Elsewhere
  <1>3. CASE BackToDashboard
    BY <1>3, BackLeaves
  <1>4. CASE form.sid # NewSecret /\ form' = [form EXCEPT !.mode = "view"] /\ FormOnly
    <2>1. Edited(form, form')
      BY <1>1, <1>4, ModeEdits DEF Modes, Editing
    <2>. QED BY <1>1, <1>4, <2>1 DEF EditStep, FormOnly, Elsewhere
  <1>. QED BY <1>2, <1>3, <1>4 DEF EscEdit

LEMMA ConfirmExitSteps ==
    ASSUME form \in Forms, screen = "form" => FormGood(form), ConfirmExit
    PROVE  EditStep \/ LeaveStep \/ \E c : WriteStep(c)
  <1>1. screen = "form" /\ form.mode = "confirmExit" /\ FormGood(form)
    BY DEF ConfirmExit, InMode
  <1>2. CASE Save([form EXCEPT !.mode = "edit"])
    <2>1. PICK f : f = [form EXCEPT !.mode = "edit"]
      OBVIOUS
    <2>2. f \in Forms
      BY <2>1 DEF Forms, Modes
    <2>3. Edited(form, f)
      BY <1>1, <2>1, ModeEdited DEF Modes, Editing
    <2>. QED BY <1>1, <1>2, <2>1, <2>2, <2>3, SaveSteps
  <1>3. CASE /\ form.sid = NewSecret /\ Sent(SwitchTo("dashboard"))
             /\ form' = [form EXCEPT !.dirty = FALSE, !.kept = TRUE]
             /\ UNCHANGED <<screen, locked, card, serverVars, cmds, left, log>>
    <2>1. /\ form' \in Forms /\ form'.mode = form.mode /\ form'.sid = form.sid /\ form'.version = form.version
          /\ form'.seen = form.seen /\ form'.saving = form.saving /\ form'.start = form.start
          /\ form'.data = form.data /\ form'.focus = form.focus /\ form'.kept = TRUE
      BY <1>3 DEF Forms
    <2>2. Edited(form, form')
      BY <1>1, <1>3, <2>1 DEF Edited, FormGood, EditSlots
    <2>. QED BY <1>1, <1>3, <2>2 DEF LeaveStep, Elsewhere
  <1>4. CASE /\ form.sid # NewSecret
             /\ form' = [form EXCEPT !.dirty = FALSE, !.mode = "view", !.kept = @ \/ form.data # form.start]
             /\ FormOnly
    <2>1. /\ form' \in Forms /\ form'.mode = "view" /\ form'.sid = form.sid /\ form'.version = form.version
          /\ form'.seen = form.seen /\ form'.saving = form.saving /\ form'.start = form.start
          /\ form'.data = form.data /\ form'.focus = form.focus
      BY <1>4 DEF Forms, Modes
    <2>2. Edited(form, form')
      BY <1>1, <1>4, <2>1 DEF Edited, FormGood, EditSlots, Editing
    <2>. QED BY <1>1, <1>4, <2>2 DEF EditStep, FormOnly, Elsewhere
  <1>5. CASE form' = [form EXCEPT !.mode = "edit"] /\ FormOnly
    <2>1. Edited(form, form')
      BY <1>1, <1>5, ModeEdits DEF Modes, Editing
    <2>. QED BY <1>1, <1>5, <2>1 DEF EditStep, FormOnly, Elsewhere
  <1>. QED BY <1>2, <1>3, <1>4, <1>5 DEF ConfirmExit

LEMMA ConfirmDeleteSteps ==
    ASSUME form \in Forms, screen = "form" => FormGood(form), ConfirmDelete
    PROVE  EditStep \/ \E c : WriteStep(c)
  <1>1. screen = "form" /\ form.mode = "confirmDelete" /\ FormGood(form)
    BY DEF ConfirmDelete, InMode
  <1>2. PICK c : c = [do |-> "delete", s |-> form.sid, version |-> form.version, seen |-> form.seen]
    OBVIOUS
  <1>3. CASE Started(c) /\ UNCHANGED <<screen, locked, form, card, serverVars, msgs, log>>
    <2>1. form.sid # NewSecret
      BY <1>1 DEF FormGood, Editing
    <2>2. c \in Deletes /\ c.s = form.sid /\ c.version = form.version /\ c.seen = form.seen
      BY <1>2, <2>1 DEF Forms, Deletes
    <2>3. form' = form /\ Elsewhere /\ UNCHANGED msgs
      BY <1>3 DEF Elsewhere
    <2>4. WriteStep(c)
      BY <1>1, <1>3, <2>2, <2>3 DEF WriteStep
    <2>. QED BY <2>4
  <1>4. CASE form' = [form EXCEPT !.mode = "view"] /\ FormOnly
    <2>1. Edited(form, form')
      BY <1>1, <1>4, ModeEdits DEF Modes
    <2>. QED BY <1>1, <1>4, <2>1 DEF EditStep, FormOnly, Elsewhere
  <1>. QED BY <1>2, <1>3, <1>4 DEF ConfirmDelete

----------------------------------------------------------------------------
(* What is waited for is not lost. *)

SaveRuns(c) == c.do = "save"
Answers(m) == m.msg \in {"switch", "conflict", "err"}

LEMMA WaitedFor ==
    ASSUME SavingAnswered, form'.saving => form.saving,
           \A c \in BagToSet(cmds) : SaveRuns(c) =>
               c \in BagToSet(cmds') \/ \E m \in BagToSet(msgs') : Answers(m),
           \A m \in BagToSet(msgs) : Answers(m) => m \in BagToSet(msgs')
    PROVE  SavingAnswered'
  BY DEF SavingAnswered, SaveRuns, Answers

\* What stays: the types of what no key of the form changes.
LEMMA ElsewhereTyped ==
    ASSUME StateTyped, Elsewhere, form' \in Forms,
           IsABag(cmds'), BagToSet(cmds') \subseteq Commands,
           IsABag(msgs'), BagToSet(msgs') \subseteq Messages
    PROVE  StateTyped'
  BY DEF StateTyped, Elsewhere, serverVars

LEMMA EditInv ==
    ASSUME StateTyped, FormInv, EditStep
    PROVE  StateTyped' /\ FormInv'
  <1>1. form' \in Forms /\ FormGood(form') /\ form'.saving = form.saving /\ screen = "form"
    BY DEF EditStep, Edited
  <1>2. cmds' = cmds /\ msgs' = msgs /\ Elsewhere
    BY DEF EditStep
  <1>3. StateTyped'
    BY <1>1, <1>2, ElsewhereTyped DEF StateTyped
  <1>4. SavingAnswered'
    BY <1>1, <1>2 DEF FormInv, SavingAnswered
  <1>5. screen' = screen
    BY <1>2 DEF Elsewhere
  <1>6. (screen = "form" => FormGood(form))'
    BY <1>1
  <1>. QED BY <1>1, <1>3, <1>4, <1>5, <1>6 DEF FormInv

LEMMA SwitchTyped == SwitchTo("dashboard") \in Messages /\ Answers(SwitchTo("dashboard"))
  BY DEF SwitchTo, Messages, Switches, Answers

LEMMA LeaveInv ==
    ASSUME StateTyped, FormInv, LeaveStep
    PROVE  StateTyped' /\ FormInv'
  <1>1. /\ form' \in Forms /\ form'.saving = form.saving
        /\ form' = form \/ (screen = "form" /\ FormGood(form'))
    BY DEF LeaveStep, Edited, StateTyped
  <1>2. cmds' = cmds /\ Elsewhere
    BY DEF LeaveStep
  <1>3. IsABag(msgs') /\ BagToSet(msgs') = BagToSet(msgs) \cup {SwitchTo("dashboard")}
    BY SentAdds DEF LeaveStep, StateTyped
  <1>4. StateTyped'
    BY <1>1, <1>2, <1>3, SwitchTyped, ElsewhereTyped DEF StateTyped
  <1>5. SavingAnswered'
    BY <1>1, <1>2, <1>3, WaitedFor DEF FormInv
  <1>6. screen' = screen
    BY <1>2 DEF Elsewhere
  <1>7. (screen = "form" => FormGood(form))'
    BY <1>1, <1>6 DEF FormInv
  <1>8. (screen # "form" => form.mode = "view" /\ ~form.saving)'
    BY <1>1, <1>6 DEF FormInv
  <1>. QED BY <1>4, <1>5, <1>7, <1>8 DEF FormInv

LEMMA WriteInv ==
    ASSUME StateTyped, FormInv, NEW c, WriteStep(c)
    PROVE  StateTyped' /\ FormInv'
  <1>1. /\ form' \in Forms /\ FormGood(form') /\ screen = "form"
        /\ form'.saving => form.saving \/ SaveRuns(c)
    BY DEF WriteStep, SaveRuns
  <1>2. msgs' = msgs /\ Elsewhere /\ c \in Commands
    BY DEF WriteStep, Commands
  <1>3. IsABag(cmds') /\ BagToSet(cmds') = BagToSet(cmds) \cup {c}
    BY StartedAdds DEF WriteStep, StateTyped
  <1>4. StateTyped'
    BY <1>1, <1>2, <1>3, ElsewhereTyped DEF StateTyped
  <1>5. SavingAnswered'
    <2>1. CASE SaveRuns(c)
      BY <1>3, <2>1 DEF SavingAnswered, SaveRuns
    <2>2. CASE ~SaveRuns(c)
      BY <1>1, <1>2, <1>3, <2>2, WaitedFor DEF FormInv
    <2>. QED BY <2>1, <2>2
  <1>6. screen' = screen
    BY <1>2 DEF Elsewhere
  <1>7. (screen = "form" => FormGood(form))'
    BY <1>1
  <1>. QED BY <1>1, <1>4, <1>5, <1>6, <1>7 DEF FormInv

----------------------------------------------------------------------------
(* A version that is taken along stands for what was shown. *)

\* The cache of the secret was put back to an older version once.
Stale(s) == s \in log.back

DataTyped ==
    /\ sec \in [Secrets -> Rows] /\ cache \in [Secrets -> Rows] /\ rows \in [Secrets -> Nat]
    /\ log \in [blind : SUBSET Secrets, back : SUBSET Secrets]

DataSeen ==
    /\ NoUnseenOverwrite
    /\ \A s \in Secrets : /\ cache[s].version <= sec[s].version
                          /\ rows[s] <= cache[s].version \/ Stale(s)

CmdSeen(c) ==
    /\ c.do = "open" => c.version <= cache[c.s].version \/ Stale(c.s)
    /\ c.do \in {"save", "toggle", "delete"} /\ c.s # NewSecret => c.version <= c.seen \/ Stale(c.s)
    /\ c.do \in {"mine", "server"} => c.card.theirs.version <= sec[c.card.s].version

MsgSeen(m) ==
    /\ m.msg = "form" => m.version <= m.seen \/ Stale(m.s)
    /\ m.msg \in {"conflict", "again"} => m.card.theirs.version <= sec[m.card.s].version

FormSeen == screen = "form" /\ form.sid # NewSecret => form.version <= form.seen \/ Stale(form.sid)
CardSeen == card # NoCard => card.theirs.version <= sec[card.s].version

SeenInv ==
    /\ DataSeen /\ FormSeen /\ CardSeen
    /\ \A c \in BagToSet(cmds) : CmdSeen(c)
    /\ \A m \in BagToSet(msgs) : MsgSeen(m)

\* Versions grow; the cache's too, or the secret is noted.
Grows ==
    /\ log.back \subseteq log'.back
    /\ \A s \in Secrets : /\ sec[s].version <= sec'[s].version
                          /\ cache[s].version <= cache'[s].version \/ s \in log'.back

DataStep == DataTyped' /\ DataSeen' /\ Grows

LEMMA RowFields ==
    ASSUME NEW g \in [Secrets -> Rows], NEW s \in Secrets
    PROVE  g[s] \in Rows /\ g[s].version \in Nat
  BY DEF Rows

LEMMA RowChanged ==
    ASSUME NEW row \in Rows, NEW d \in Data
    PROVE  /\ [row EXCEPT !.version = row.version + 1, !.data = d] \in Rows
           /\ [row EXCEPT !.version = row.version + 1, !.data = d].version = row.version + 1
  <1>1. PICK n : n = row.version + 1
    OBVIOUS
  <1>2. n \in Nat
    BY <1>1 DEF Rows
  <1>3. /\ [row EXCEPT !.version = n, !.data = d] \in Rows
        /\ [row EXCEPT !.version = n, !.data = d].version = n
    BY <1>2 DEF Rows
  <1>. QED BY <1>1, <1>3

LEMMA RowDeleted ==
    ASSUME NEW row \in Rows
    PROVE  /\ [row EXCEPT !.version = row.version + 1, !.deleted = TRUE] \in Rows
           /\ [row EXCEPT !.version = row.version + 1, !.deleted = TRUE].version = row.version + 1
  <1>1. PICK n : n = row.version + 1
    OBVIOUS
  <1>2. n \in Nat
    BY <1>1 DEF Rows
  <1>3. /\ [row EXCEPT !.version = n, !.deleted = TRUE] \in Rows
        /\ [row EXCEPT !.version = n, !.deleted = TRUE].version = n
    BY <1>2 DEF Rows
  <1>. QED BY <1>1, <1>3

\* The server's row of a secret and the cache's become a newer one that replaces what
\* was seen.
LEMMA ReplaceGrows ==
    ASSUME DataTyped, DataSeen, NEW s \in Secrets, NEW row \in Rows, NEW seen \in Nat,
           sec[s].version <= row.version, sec[s].version <= seen \/ Stale(s),
           Replace(s, row, seen)
    PROVE  DataStep
  <1>1. sec' = [sec EXCEPT ![s] = row] /\ cache' = [cache EXCEPT ![s] = row] /\ rows' = rows
    BY DEF Replace
  <1>2. /\ log'.back = log.back /\ log' \in [blind : SUBSET Secrets, back : SUBSET Secrets]
        /\ log'.blind = log.blind \/ (log'.blind = log.blind \cup {s} /\ seen < sec[s].version)
    BY DEF Replace, Noted, DataTyped
  <1>3. /\ sec' \in [Secrets -> Rows] /\ cache' \in [Secrets -> Rows] /\ rows' \in [Secrets -> Nat]
    BY <1>1 DEF DataTyped
  <1>4. \A t \in Secrets : /\ sec'[t] = IF t = s THEN row ELSE sec[t]
                           /\ cache'[t] = IF t = s THEN row ELSE cache[t]
    BY <1>1 DEF DataTyped
  <1>5. \A t \in Secrets : sec[t].version \in Nat /\ cache[t].version \in Nat /\ rows[t] \in Nat
    BY RowFields DEF DataTyped
  <1>6. row.version \in Nat
    BY DEF Rows
  <1>7. \A t \in Secrets : cache[t].version <= sec[t].version /\ (rows[t] <= cache[t].version \/ Stale(t))
    BY DEF DataSeen
  <1>8. Grows
    <2>1. ASSUME NEW t \in Secrets
          PROVE  sec[t].version <= sec'[t].version /\ cache[t].version <= cache'[t].version
      <3>1. CASE t = s
        BY <1>4, <1>5, <1>6, <1>7, <3>1
      <3>2. CASE t # s
        BY <1>4, <1>5, <3>2
      <3>. QED BY <3>1, <3>2
    <2>. QED BY <1>2, <2>1 DEF Grows
  <1>9. NoUnseenOverwrite'
    <2>1. log.blind \subseteq log.back
      BY DEF DataSeen, NoUnseenOverwrite
    <2>2. seen < sec[s].version => s \in log.back
      BY <1>5 DEF Stale
    <2>. QED BY <1>2, <2>1, <2>2 DEF NoUnseenOverwrite
  <1>10. ASSUME NEW t \in Secrets
         PROVE  cache'[t].version <= sec'[t].version /\ (rows'[t] <= cache'[t].version \/ t \in log'.back)
    <2>1. CASE t = s
      <3>1. sec'[t] = row /\ cache'[t] = row
        BY <1>4, <2>1
      <3>2. row.version <= row.version
        BY <1>6
      <3>3. rows[t] <= row.version \/ t \in log'.back
        BY <1>2, <1>5, <1>6, <1>7, <2>1 DEF Stale
      <3>. QED BY <1>1, <3>1, <3>2, <3>3
    <2>2. CASE t # s
      <3>1. sec'[t] = sec[t] /\ cache'[t] = cache[t] /\ rows'[t] = rows[t]
        BY <1>1, <1>4, <2>2
      <3>. QED BY <1>2, <1>7, <3>1 DEF Stale
    <2>. QED BY <2>1, <2>2
  <1>. QED BY <1>2, <1>3, <1>8, <1>9, <1>10 DEF DataStep, DataTyped, DataSeen, Stale

\* The cache's row becomes the one of an old card.
LEMMA BackGrows ==
    ASSUME DataTyped, DataSeen, NEW s \in Secrets, NEW row \in Rows, row.version <= sec[s].version,
           cache' = [cache EXCEPT ![s] = row], Noted("back", s, row.version < cache[s].version),
           sec' = sec, rows' = rows
    PROVE  DataStep
  <1>1. /\ log' \in [blind : SUBSET Secrets, back : SUBSET Secrets]
        /\ log'.blind = log.blind /\ log.back \subseteq log'.back
        /\ row.version < cache[s].version => s \in log'.back
    BY DEF Noted, DataTyped
  <1>2. cache' \in [Secrets -> Rows] /\ sec' \in [Secrets -> Rows] /\ rows' \in [Secrets -> Nat]
    BY DEF DataTyped
  <1>3. \A t \in Secrets : cache'[t] = IF t = s THEN row ELSE cache[t]
    BY DEF DataTyped
  <1>4. \A t \in Secrets : sec[t].version \in Nat /\ cache[t].version \in Nat /\ rows[t] \in Nat
    BY RowFields DEF DataTyped
  <1>5. row.version \in Nat
    BY DEF Rows
  <1>6. \A t \in Secrets : cache[t].version <= sec[t].version /\ (rows[t] <= cache[t].version \/ t \in log'.back)
    BY <1>1 DEF DataSeen, Stale
  <1>7. ASSUME NEW t \in Secrets
        PROVE  /\ sec[t].version <= sec'[t].version
               /\ cache[t].version <= cache'[t].version \/ t \in log'.back
               /\ cache'[t].version <= sec'[t].version
               /\ rows'[t] <= cache'[t].version \/ t \in log'.back
    <2>1. CASE t = s
      <3>1. cache'[t] = row /\ sec'[t] = sec[t] /\ rows'[t] = rows[t]
        BY <1>3, <2>1
      <3>. QED BY <1>1, <1>4, <1>5, <1>6, <2>1, <3>1
    <2>2. CASE t # s
      <3>1. cache'[t] = cache[t] /\ sec'[t] = sec[t] /\ rows'[t] = rows[t]
        BY <1>3, <2>2
      <3>. QED BY <1>4, <1>6, <3>1
    <2>. QED BY <2>1, <2>2
  <1>8. NoUnseenOverwrite'
    BY <1>1 DEF DataSeen, NoUnseenOverwrite
  <1>. QED BY <1>1, <1>2, <1>7, <1>8 DEF DataStep, Grows, DataTyped, DataSeen, Stale

LEMMA StayGrows ==
    ASSUME DataTyped, DataSeen, UNCHANGED <<sec, cache, rows, log>>
    PROVE  DataStep
  <1>1. \A t \in Secrets : sec[t].version \in Nat /\ cache[t].version \in Nat
    BY RowFields DEF DataTyped
  <1>. QED BY <1>1 DEF DataStep, Grows, DataTyped, DataSeen, NoUnseenOverwrite, Stale

LEMMA OtherDeviceGrows ==
    ASSUME DataTyped, DataSeen, NEW s \in Secrets, OtherDevice(s)
    PROVE  DataStep
  <1>1. PICK row : row = sec'[s]
    OBVIOUS
  <1>2. sec[s] \in Rows
    BY RowFields DEF DataTyped
  <1>3. /\ row \in Rows /\ row.version = sec[s].version + 1 /\ sec' = [sec EXCEPT ![s] = row]
    <2>1. CASE sec' = [sec EXCEPT ![s].version = @ + 1, ![s].data.body = "y"]
      <3>1. PICK r : r = [sec[s] EXCEPT !.version = sec[s].version + 1, !.data.body = "y"]
        OBVIOUS
      <3>2. sec' = [sec EXCEPT ![s] = r]
        BY <2>1, <3>1 DEF DataTyped
      <3>3. row = r
        BY <1>1, <3>2 DEF DataTyped
      <3>4. [sec[s].data EXCEPT !.body = "y"] \in Data
        BY <1>2 DEF Rows, Data, Text
      <3>5. r = [sec[s] EXCEPT !.version = sec[s].version + 1, !.data = [sec[s].data EXCEPT !.body = "y"]]
        BY <1>2, <3>1 DEF Rows
      <3>6. r \in Rows /\ r.version = sec[s].version + 1
        BY <1>2, <3>4, <3>5, RowChanged DEF Rows
      <3>. QED BY <3>2, <3>3, <3>6
    <2>2. CASE sec' = [sec EXCEPT ![s].version = @ + 1, ![s].deleted = TRUE]
      <3>1. PICK r : r = [sec[s] EXCEPT !.version = sec[s].version + 1, !.deleted = TRUE]
        OBVIOUS
      <3>2. sec' = [sec EXCEPT ![s] = r]
        BY <2>2, <3>1 DEF DataTyped
      <3>3. row = r
        BY <1>1, <3>2 DEF DataTyped
      <3>4. r \in Rows /\ r.version = sec[s].version + 1
        BY <1>2, <3>1, RowDeleted
      <3>. QED BY <3>2, <3>3, <3>4
    <2>. QED BY <2>1, <2>2 DEF OtherDevice
  <1>4. cache' = cache /\ rows' = rows /\ log' = log
    BY DEF OtherDevice
  <1>5. \A t \in Secrets : sec[t].version \in Nat /\ cache[t].version \in Nat
    BY RowFields DEF DataTyped
  <1>6. \A t \in Secrets : sec'[t] = IF t = s THEN row ELSE sec[t]
    BY <1>3 DEF DataTyped
  <1>7. \A t \in Secrets : sec[t].version <= sec'[t].version
    BY <1>3, <1>5, <1>6
  <1>8. \A t \in Secrets : sec'[t].version \in Nat
    BY <1>3, <1>5, <1>6
  <1>9. \A t \in Secrets : cache[t].version <= sec'[t].version
    BY <1>5, <1>7, <1>8 DEF DataSeen
  <1>10. sec' \in [Secrets -> Rows]
    BY <1>3 DEF DataTyped
  <1>. QED BY <1>4, <1>5, <1>7, <1>9, <1>10 DEF DataStep, Grows, DataTyped, DataSeen, NoUnseenOverwrite, Stale

LEMMA PullGrows ==
    ASSUME DataTyped, DataSeen, Pull
    PROVE  DataStep
  <1>1. cache' = sec /\ sec' = sec /\ rows' = rows /\ log' = log
    BY DEF Pull
  <1>2. \A t \in Secrets : sec[t].version \in Nat /\ cache[t].version \in Nat /\ rows[t] \in Nat
    BY RowFields DEF DataTyped
  <1>3. \A t \in Secrets : /\ cache[t].version <= sec[t].version
                           /\ rows[t] <= sec[t].version \/ t \in log.back
    BY <1>2 DEF DataSeen, Stale
  <1>. QED BY <1>1, <1>2, <1>3 DEF DataStep, Grows, DataTyped, DataSeen, NoUnseenOverwrite, Stale

LEMMA LoadRowsGrows ==
    ASSUME DataTyped, DataSeen, LoadRows
    PROVE  DataStep
  <1>1. /\ rows' = [s \in Secrets |-> IF cache[s].deleted THEN 0 ELSE cache[s].version]
        /\ cache' = cache /\ sec' = sec /\ log' = log
    BY DEF LoadRows
  <1>2. \A t \in Secrets : sec[t].version \in Nat /\ cache[t].version \in Nat
    BY RowFields DEF DataTyped
  <1>3. \A t \in Secrets : rows'[t] \in Nat /\ rows'[t] <= cache[t].version
    BY <1>1, <1>2
  <1>4. rows' \in [Secrets -> Nat]
    BY <1>1, <1>3
  <1>. QED BY <1>1, <1>2, <1>3, <1>4 DEF DataStep, Grows, DataTyped, DataSeen, NoUnseenOverwrite, Stale

LEMMA CmdStaysSeen ==
    ASSUME DataTyped, DataStep, NEW c \in Commands, CmdSeen(c)
    PROVE  CmdSeen(c)'
  <1>1. \A t \in Secrets : /\ sec[t].version \in Nat /\ cache[t].version \in Nat
                           /\ sec'[t].version \in Nat /\ cache'[t].version \in Nat
    BY RowFields DEF DataTyped, DataStep
  <1>2. CASE c \in Opens
    BY <1>1, <1>2 DEF CmdSeen, Opens, DataStep, Grows, Stale
  <1>3. CASE c \in Saves \cup Toggles \cup Deletes
    BY <1>3 DEF CmdSeen, Saves, Toggles, Deletes, DataStep, Grows, Stale
  <1>4. CASE c \in Choices
    <2>1. c.do \in {"mine", "server"} /\ c.card \in Cards
      BY <1>4 DEF Choices
    <2>2. c.card.s \in Secrets /\ c.card.theirs.version \in Nat
      BY <2>1 DEF Cards, Rows
    <2>3. c.card.theirs.version <= sec[c.card.s].version
      BY <2>1 DEF CmdSeen
    <2>4. sec[c.card.s].version <= sec'[c.card.s].version
      BY <2>2 DEF DataStep, Grows
    <2>5. c.card.theirs.version <= sec'[c.card.s].version
      BY <1>1, <2>2, <2>3, <2>4
    <2>. QED BY <2>1, <2>5 DEF CmdSeen
  <1>5. CASE c \in Downloads
    BY <1>5 DEF CmdSeen, Downloads
  <1>. QED BY <1>2, <1>3, <1>4, <1>5 DEF Commands

LEMMA MsgStaysSeen ==
    ASSUME DataTyped, DataStep, NEW m \in Messages, MsgSeen(m)
    PROVE  MsgSeen(m)'
  <1>1. \A t \in Secrets : sec[t].version \in Nat /\ sec'[t].version \in Nat
    BY RowFields DEF DataTyped, DataStep
  <1>2. CASE m \in Fills
    BY <1>2 DEF MsgSeen, Fills, DataStep, Grows, Stale
  <1>3. CASE m \in CardMessages
    <2>1. m.msg \in {"conflict", "again"} /\ m.card \in Cards
      BY <1>3 DEF CardMessages
    <2>2. m.card.s \in Secrets /\ m.card.theirs.version \in Nat
      BY <2>1 DEF Cards, Rows
    <2>3. m.card.theirs.version <= sec[m.card.s].version
      BY <2>1 DEF MsgSeen
    <2>4. sec[m.card.s].version <= sec'[m.card.s].version
      BY <2>2 DEF DataStep, Grows
    <2>5. m.card.theirs.version <= sec'[m.card.s].version
      BY <1>1, <2>2, <2>3, <2>4
    <2>. QED BY <2>1, <2>5 DEF MsgSeen
  <1>4. CASE m \in Switches \cup Creates \cup Notices
    BY <1>4 DEF MsgSeen, Switches, Creates, Notices
  <1>. QED BY <1>2, <1>3, <1>4 DEF Messages

\* What a step has to show: the data moved on, and what is new stands for what was seen.
LEMMA SeenKept ==
    ASSUME StateTyped, SeenInv, DataStep, FormSeen',
           card' # NoCard => card'.theirs.version <= sec'[card'.s].version,
           \A c \in BagToSet(cmds') : c \in BagToSet(cmds) \/ CmdSeen(c)',
           \A m \in BagToSet(msgs') : m \in BagToSet(msgs) \/ MsgSeen(m)'
    PROVE  SeenInv'
  <1>1. DataTyped
    BY DEF StateTyped, DataTyped
  <1>2. \A c \in BagToSet(cmds') : CmdSeen(c)'
    BY <1>1, CmdStaysSeen DEF SeenInv, StateTyped
  <1>3. \A m \in BagToSet(msgs') : MsgSeen(m)'
    BY <1>1, MsgStaysSeen DEF SeenInv, StateTyped
  <1>. QED BY <1>2, <1>3 DEF SeenInv, DataStep, CardSeen

LEMMA CardStaysSeen ==
    ASSUME StateTyped, SeenInv, DataStep, card' = card
    PROVE  card' # NoCard => card'.theirs.version <= sec'[card'.s].version
  <1>1. SUFFICES ASSUME card # NoCard
                 PROVE  card.theirs.version <= sec'[card.s].version
    OBVIOUS
  <1>2. card \in Cards
    BY <1>1 DEF StateTyped
  <1>3. card.s \in Secrets /\ card.theirs.version \in Nat
    BY <1>2 DEF Cards, Rows
  <1>4. card.theirs.version <= sec[card.s].version /\ sec[card.s].version <= sec'[card.s].version
    BY <1>1, <1>3 DEF SeenInv, CardSeen, DataStep, Grows
  <1>5. sec[card.s].version \in Nat /\ sec'[card.s].version \in Nat
    BY <1>3, RowFields DEF StateTyped, DataStep, DataTyped
  <1>. QED BY <1>3, <1>4, <1>5

LEMMA FormStaysSeen ==
    ASSUME SeenInv, DataStep, screen' = screen,
           form'.sid = form.sid, form'.version = form.version, form'.seen = form.seen
    PROVE  FormSeen'
  BY DEF SeenInv, FormSeen, DataStep, Grows, Stale

----------------------------------------------------------------------------
(* Every key of a screen is one of these steps, or starts what the form does not wait for. *)

\* A command or a message is started from another screen.
StartStep ==
    /\ Elsewhere /\ form' = form
    /\ \/ \E c \in Commands : Started(c) /\ CmdSeen(c) /\ msgs' = msgs
       \/ \E m \in Messages : Sent(m) /\ MsgSeen(m) /\ cmds' = cmds

LEMMA StartInv ==
    ASSUME StateTyped, FormInv, StartStep
    PROVE  StateTyped' /\ FormInv'
  <1>1. /\ IsABag(cmds') /\ BagToSet(cmds') \subseteq Commands /\ BagToSet(cmds) \subseteq BagToSet(cmds')
        /\ IsABag(msgs') /\ BagToSet(msgs') \subseteq Messages /\ BagToSet(msgs) \subseteq BagToSet(msgs')
    <2>1. CASE \E c \in Commands : Started(c) /\ CmdSeen(c) /\ msgs' = msgs
      BY <2>1, StartedAdds DEF StateTyped
    <2>2. CASE \E m \in Messages : Sent(m) /\ MsgSeen(m) /\ cmds' = cmds
      BY <2>2, SentAdds DEF StateTyped
    <2>. QED BY <2>1, <2>2 DEF StartStep
  <1>2. form' = form /\ Elsewhere
    BY DEF StartStep
  <1>3. StateTyped'
    BY <1>1, <1>2, ElsewhereTyped DEF StateTyped
  <1>4. SavingAnswered'
    BY <1>1, <1>2, WaitedFor DEF FormInv
  <1>5. screen' = screen
    BY <1>2 DEF Elsewhere
  <1>6. (screen = "form" => FormGood(form))' /\ (screen # "form" => form.mode = "view" /\ ~form.saving)'
    BY <1>2, <1>5 DEF FormInv
  <1>. QED BY <1>3, <1>4, <1>6 DEF FormInv

\* The directory of a download.
DownloadStep ==
    /\ screen = "form" /\ Edited(form, form') /\ Elsewhere
    /\ Started([do |-> "download"]) /\ UNCHANGED msgs

LEMMA DownloadInv ==
    ASSUME StateTyped, FormInv, DownloadStep
    PROVE  StateTyped' /\ FormInv'
  <1>1. form' \in Forms /\ FormGood(form') /\ form'.saving = form.saving /\ screen = "form"
    BY DEF DownloadStep, Edited
  <1>2. msgs' = msgs /\ Elsewhere
    BY DEF DownloadStep
  <1>3. IsABag(cmds') /\ BagToSet(cmds') = BagToSet(cmds) \cup {[do |-> "download"]}
    BY StartedAdds DEF DownloadStep, StateTyped
  <1>4. [do |-> "download"] \in Commands
    BY DEF Commands, Downloads
  <1>5. StateTyped'
    BY <1>1, <1>2, <1>3, <1>4, ElsewhereTyped DEF StateTyped
  <1>6. SavingAnswered'
    BY <1>1, <1>2, <1>3, WaitedFor DEF FormInv
  <1>7. screen' = screen
    BY <1>2 DEF Elsewhere
  <1>8. (screen = "form" => FormGood(form))'
    BY <1>1
  <1>. QED BY <1>1, <1>5, <1>6, <1>7, <1>8 DEF FormInv

LEMMA KeySteps ==
    ASSUME StateTyped, FormInv, SeenInv, Key
    PROVE  EditStep \/ LeaveStep \/ StartStep \/ DownloadStep \/ \E c : WriteStep(c)
  <1>1. form \in Forms /\ (screen = "form" => FormGood(form))
    BY DEF StateTyped, FormInv
  <1>2. ASSUME NEW s \in Secrets, NEW edit \in BOOLEAN, OpenForm(s, edit)
        PROVE  StartStep
    <2>1. PICK c : c = [do |-> "open", s |-> s, version |-> rows[s], edit |-> edit]
      OBVIOUS
    <2>2. c \in Commands
      BY <2>1 DEF Commands, Opens, StateTyped
    <2>3. Started(c) /\ msgs' = msgs /\ form' = form /\ Elsewhere
      BY <1>2, <2>1 DEF OpenForm, Elsewhere
    <2>4. CmdSeen(c)
      BY <2>1 DEF CmdSeen, SeenInv, DataSeen
    <2>. QED BY <2>2, <2>3, <2>4 DEF StartStep
  <1>3. ASSUME NEW type \in Types, NewForm(type)
        PROVE  StartStep
    <2>1. [msg |-> "create", type |-> type] \in Messages
      BY DEF Messages, Creates
    <2>2. Sent([msg |-> "create", type |-> type]) /\ cmds' = cmds /\ form' = form /\ Elsewhere
      BY <1>3 DEF NewForm, Elsewhere
    <2>3. MsgSeen([msg |-> "create", type |-> type])
      BY DEF MsgSeen
    <2>. QED BY <2>1, <2>2, <2>3 DEF StartStep
  <1>4. CASE MoveFocus \/ AskDelete \/ EnterEdit \/ OpenPicker \/ LeavePicker \/ PickFile
             \/ UpdateActiveInput \/ AddExtra \/ FlipOTP \/ CycleType
    BY <1>1, <1>4, EditKeys
  <1>5. CASE ToggleOTP
    BY <1>1, <1>5, ToggleSteps
  <1>6. CASE EscView \/ EscConflict
    BY <1>6, BackLeaves DEF EscView, EscConflict
  <1>7. CASE PickDirectory
    <2>1. screen = "form" /\ form.mode = "downloadPicker" /\ FormGood(form)
      BY <1>1, <1>7 DEF PickDirectory, InMode
    <2>2. /\ form' = [form EXCEPT !.mode = "view"] /\ Started([do |-> "download"])
          /\ Elsewhere /\ UNCHANGED msgs
      BY <1>7 DEF PickDirectory, Elsewhere
    <2>3. Edited(form, form')
      BY <1>1, <2>1, <2>2, ModeEdits DEF Modes
    <2>. QED BY <2>1, <2>2, <2>3 DEF DownloadStep
  <1>8. CASE EscEdit
    BY <1>1, <1>8, EscEditSteps
  <1>9. CASE CtrlS
    <2>1. screen = "form" /\ Save(form)
      BY <1>9 DEF CtrlS, InMode
    <2>. QED BY <1>1, <2>1, SameEdited, SaveSteps
  <1>10. CASE ConfirmExit
    BY <1>1, <1>10, ConfirmExitSteps
  <1>11. CASE ConfirmDelete
    BY <1>1, <1>11, ConfirmDeleteSteps
  <1>12. ASSUME NEW choice \in {"mine", "server"}, Resolve(choice)
         PROVE  StartStep
    <2>1. card \in Cards
      BY <1>12 DEF Resolve, StateTyped
    <2>2. [do |-> choice, card |-> card] \in Commands
      BY <2>1 DEF Commands, Choices
    <2>3. Started([do |-> choice, card |-> card]) /\ msgs' = msgs /\ form' = form /\ Elsewhere
      BY <1>12 DEF Resolve, Elsewhere
    <2>4. card.theirs.version <= sec[card.s].version
      BY <1>12 DEF Resolve, SeenInv, CardSeen
    <2>5. CmdSeen([do |-> choice, card |-> card])
      BY <2>4 DEF CmdSeen
    <2>. QED BY <2>2, <2>3, <2>5 DEF StartStep
  <1>. QED BY <1>2, <1>3, <1>4, <1>5, <1>6, <1>7, <1>8, <1>9, <1>10, <1>11, <1>12 DEF Key

----------------------------------------------------------------------------
(* The commands. *)

\* A command that runs: it answers, and what its answer says was just read.
CommandStep(c) ==
    /\ \E m \in Messages : Answer(c, m) /\ (SaveRuns(c) => Answers(m)) /\ MsgSeen(m)'
    /\ DataStep
    /\ UNCHANGED <<screen, locked, form, card>>

LEMMA CardAnswer ==
    ASSUME StateTyped, sec' = sec, NEW k \in Cards, k.theirs = sec[k.s],
           NEW kind \in {"conflict", "again"}, NEW m, m = [msg |-> kind, card |-> k]
    PROVE  m \in Messages /\ m.msg = kind /\ MsgSeen(m)'
  <1>1. m.msg = kind /\ m.card = k /\ m \in Messages
    BY DEF Messages, CardMessages
  <1>2. k.s \in Secrets
    BY DEF Cards
  <1>3. sec[k.s].version <= sec'[k.s].version
    BY <1>2, RowFields DEF StateTyped
  <1>. QED BY <1>1, <1>3 DEF MsgSeen

LEMMA NoticeSeen ==
    ASSUME NEW m, m \in Notices \cup Switches
    PROVE  m \in Messages /\ MsgSeen(m)'
  BY DEF Messages, Notices, Switches, MsgSeen

LEMMA NewRowType ==
    ASSUME NEW c \in Saves \cup Toggles
    PROVE  NewRow(c) \in Rows /\ NewRow(c).version = c.version + 1
  <1>1. c.data \in Data /\ c.type \in Types /\ c.version \in Nat
    BY DEF Saves, Toggles
  <1>2. [c.data EXCEPT !.body = ""] \in Data
    BY <1>1 DEF Data, Text
  <1>3. PICK n : n = c.version + 1
    OBVIOUS
  <1>4. PICK d : d = IF c.type = "binary" THEN [c.data EXCEPT !.body = ""] ELSE c.data
    OBVIOUS
  <1>5. n \in Nat /\ d \in Data
    <2>1. n \in Nat
      BY <1>1, <1>3
    <2>2. d \in Data
      BY <1>1, <1>2, <1>4
    <2>. QED BY <2>1, <2>2
  <1>6. NewRow(c) = [version |-> n, deleted |-> FALSE, type |-> c.type, data |-> d]
    BY <1>3, <1>4 DEF NewRow
  <1>7. NewRow(c) \in Rows /\ NewRow(c).version = n
    BY <1>1, <1>5, <1>6 DEF Rows
  <1>. QED BY <1>3, <1>7

\* A write on the version the form was filled with replaces what the form showed.
LEMMA WriteGrows ==
    ASSUME DataTyped, DataSeen, NEW c \in Saves \cup Toggles \cup Deletes, c.s \in Secrets, CmdSeen(c),
           ~Conflicts(c), NEW row \in Rows, row.version = c.version + 1, Replace(c.s, row, c.seen)
    PROVE  DataStep
  <1>1. sec[c.s].version = c.version
    BY DEF Conflicts
  <1>2. c.version \in Nat /\ c.seen \in Nat /\ c.do \in {"save", "toggle", "delete"}
    BY DEF Saves, Toggles, Deletes
  <1>3. c.s # NewSecret
    BY FormAssumption
  <1>4. c.version <= c.seen \/ Stale(c.s)
    BY <1>2, <1>3 DEF CmdSeen
  <1>5. sec[c.s].version <= row.version
    BY <1>1, <1>2
  <1>. QED BY <1>1, <1>2, <1>4, <1>5, ReplaceGrows

LEMMA CommandSteps ==
    ASSUME StateTyped, SeenInv, NEW c \in BagToSet(cmds), RunCommand(c)
    PROVE  CommandStep(c)
  <1>1. /\ c \in Commands /\ CmdSeen(c) /\ DataTyped /\ DataSeen
        /\ UNCHANGED <<screen, locked, form, card>>
    BY DEF StateTyped, SeenInv, DataTyped, RunCommand
  <1>2. ASSUME Unchanged
        PROVE  DataStep /\ sec' = sec /\ cache' = cache
    BY <1>1, <1>2, StayGrows DEF Unchanged, serverVars
  <1>. DEFINE Ok(m) == m \in Messages /\ Answer(c, m) /\ (SaveRuns(c) => Answers(m)) /\ MsgSeen(m)'
  <1>3. ASSUME NEW m, Ok(m), DataStep
        PROVE  CommandStep(c)
    BY <1>1, <1>3 DEF CommandStep
  <1>4. ASSUME NEW m \in {[msg |-> "toast"], [msg |-> "rowsErr"], [msg |-> "conflictErr"], [msg |-> "resolved"]},
               Answer(c, m), ~SaveRuns(c)
        PROVE  Ok(m)
    <2>1. m \in Notices
      BY DEF Notices
    <2>. QED BY <1>4, <2>1, NoticeSeen
  <1>5. ASSUME Answer(c, SwitchTo("dashboard"))
        PROVE  Ok(SwitchTo("dashboard"))
    <2>1. SwitchTo("dashboard") \in Switches
      BY DEF Switches, SwitchTo
    <2>. QED BY <1>5, <2>1, NoticeSeen, SwitchTyped
  <1>6. CASE LoadEditData(c)
    <2>1. c \in Opens /\ ~SaveRuns(c)
      BY <1>1, <1>6 DEF LoadEditData, Commands, Opens, Saves, Toggles, Deletes, Downloads, Choices, SaveRuns
    <2>2. c.s \in Secrets /\ c.version \in Nat /\ c.edit \in BOOLEAN
      BY <2>1 DEF Opens
    <2>3. cache[c.s] \in Rows
      BY <2>2 DEF StateTyped
    <2>4. DataStep /\ cache' = cache
      BY <1>2, <1>6 DEF LoadEditData
    <2>5. PICK m : m = [msg |-> "form", s |-> c.s, version |-> c.version, type |-> cache[c.s].type,
                        data |-> cache[c.s].data, seen |-> cache[c.s].version, edit |-> c.edit]
      OBVIOUS
    <2>6. /\ m \in Messages /\ m.msg = "form" /\ m.version = c.version /\ m.seen = cache[c.s].version
          /\ m.s = c.s
      BY <2>2, <2>3, <2>5 DEF Messages, Fills, Rows
    <2>7. c.version <= cache[c.s].version \/ Stale(c.s)
      BY <1>1, <2>1 DEF CmdSeen, Opens
    <2>8. MsgSeen(m)'
      <3>1. (Stale(c.s) => Stale(c.s)')
        BY <2>4 DEF DataStep, Grows, Stale
      <3>. QED BY <2>6, <2>7, <3>1 DEF MsgSeen, Stale
    <2>9. CASE Answer(c, m)
      BY <1>3, <2>1, <2>4, <2>6, <2>8, <2>9
    <2>10. CASE Answer(c, [msg |-> "rowsErr"])
      BY <1>3, <1>4, <2>1, <2>4, <2>10
    <2>. QED BY <1>6, <2>5, <2>9, <2>10 DEF LoadEditData
  <1>7. CASE Failed(c)
    <2>1. Error \in Notices /\ Answers(Error)
      BY DEF Error, Notices, Answers
    <2>2. Ok(Error)
      BY <1>7, <2>1, NoticeSeen DEF Failed
    <2>3. DataStep
      BY <1>2, <1>7 DEF Failed
    <2>. QED BY <1>3, <2>2, <2>3
  <1>8. CASE CreateSecret(c)
    <2>1. c \in Saves
      BY <1>1, <1>8 DEF CreateSecret, Commands, Opens, Saves, Toggles, Deletes, Downloads, Choices
    <2>2. PICK s \in Fresh :
              Replace(s, [version |-> 1, deleted |-> FALSE, type |-> c.type, data |-> c.data], 0)
      BY <1>8 DEF CreateSecret
    <2>3. s \in Secrets /\ sec[s].version = 0
      BY <2>2 DEF Fresh
    <2>4. PICK row : row = [version |-> 1, deleted |-> FALSE, type |-> c.type, data |-> c.data]
      OBVIOUS
    <2>5. row \in Rows /\ row.version = 1
      BY <2>1, <2>4 DEF Rows, Saves
    <2>6. DataStep
      BY <1>1, <2>2, <2>3, <2>4, <2>5, ReplaceGrows
    <2>. QED BY <1>3, <1>5, <1>8, <2>6 DEF CreateSecret
  <1>9. CASE UpdateSecret(c)
    <2>1. c \in Saves /\ c.s # NewSecret
      BY <1>1, <1>9 DEF UpdateSecret, Commands, Opens, Saves, Toggles, Deletes, Downloads, Choices
    <2>2. c.s \in Secrets /\ c.data \in Data
      BY <2>1 DEF Saves
    <2>3. CASE Answer(c, SwitchTo("dashboard")) /\ Unchanged
      BY <1>2, <1>3, <1>5, <2>3
    <2>4. CASE Answer(c, [msg |-> "conflict", card |-> CardOf(c.s, c.data, FALSE)]) /\ Unchanged
      <3>1. PICK k : k = CardOf(c.s, c.data, FALSE)
        OBVIOUS
      <3>2. k \in Cards /\ k.theirs = sec[k.s]
        BY <2>2, <3>1 DEF CardOf, Cards, StateTyped
      <3>3. PICK m : m = [msg |-> "conflict", card |-> k]
        OBVIOUS
      <3>4. m \in Messages /\ m.msg = "conflict" /\ MsgSeen(m)'
        BY <1>2, <2>4, <3>2, <3>3, CardAnswer
      <3>5. Ok(m)
        BY <2>4, <3>1, <3>3, <3>4 DEF Answers
      <3>. QED BY <1>2, <1>3, <2>4, <3>5
    <2>5. CASE ~Conflicts(c) /\ Answer(c, SwitchTo("dashboard")) /\ Replace(c.s, NewRow(c), c.seen)
      <3>1. DataStep
        BY <1>1, <2>1, <2>2, <2>5, NewRowType, WriteGrows
      <3>. QED BY <1>3, <1>5, <2>5, <3>1
    <2>. QED BY <1>9, <2>3, <2>4, <2>5 DEF UpdateSecret
  <1>10. CASE SaveOTPToggle(c)
    <2>1. c \in Toggles /\ ~SaveRuns(c)
      BY <1>1, <1>10 DEF SaveOTPToggle, Commands, Opens, Saves, Toggles, Deletes, Downloads, Choices, SaveRuns
    <2>2. c.s \in Secrets
      BY <2>1 DEF Toggles
    <2>3. Ok([msg |-> "toast"])
      BY <1>4, <1>10, <2>1 DEF SaveOTPToggle
    <2>4. CASE Unchanged
      BY <1>2, <1>3, <2>3, <2>4
    <2>5. CASE ~Conflicts(c) /\ Replace(c.s, NewRow(c), c.seen)
      <3>1. DataStep
        BY <1>1, <2>1, <2>2, <2>5, NewRowType, WriteGrows
      <3>. QED BY <1>3, <2>3, <3>1
    <2>. QED BY <1>10, <2>4, <2>5 DEF SaveOTPToggle
  <1>11. CASE DeleteSecret(c)
    <2>1. c \in Deletes /\ ~SaveRuns(c)
      BY <1>1, <1>11 DEF DeleteSecret, Commands, Opens, Saves, Toggles, Deletes, Downloads, Choices, SaveRuns
    <2>2. c.s \in Secrets /\ c.version \in Nat
      BY <2>1 DEF Deletes
    <2>3. CASE Answer(c, [msg |-> "conflict", card |-> CardOf(c.s, Blank, TRUE)]) /\ Unchanged
      <3>1. PICK k : k = CardOf(c.s, Blank, TRUE)
        OBVIOUS
      <3>2. k \in Cards /\ k.theirs = sec[k.s]
        BY <2>2, <3>1, BlankType DEF CardOf, Cards, StateTyped
      <3>3. PICK m : m = [msg |-> "conflict", card |-> k]
        OBVIOUS
      <3>4. m \in Messages /\ MsgSeen(m)'
        BY <1>2, <2>3, <3>2, <3>3, CardAnswer
      <3>5. Ok(m)
        BY <2>1, <2>3, <3>1, <3>3, <3>4
      <3>. QED BY <1>2, <1>3, <2>3, <3>5
    <2>4. CASE /\ ~Conflicts(c) /\ Answer(c, SwitchTo("dashboard"))
               /\ Replace(c.s, [sec[c.s] EXCEPT !.deleted = TRUE, !.version = @ + 1], c.seen)
      <3>1. PICK row : row = [sec[c.s] EXCEPT !.deleted = TRUE, !.version = sec[c.s].version + 1]
        OBVIOUS
      <3>2. row = [sec[c.s] EXCEPT !.deleted = TRUE, !.version = @ + 1]
        BY <3>1
      <3>3. row = [sec[c.s] EXCEPT !.version = sec[c.s].version + 1, !.deleted = TRUE]
        BY <2>2, <3>1 DEF StateTyped, Rows
      <3>4. row \in Rows /\ row.version = sec[c.s].version + 1
        BY <2>2, <3>3, RowFields, RowDeleted DEF StateTyped
      <3>5. row.version = c.version + 1
        BY <2>4, <3>4 DEF Conflicts
      <3>6. DataStep
        BY <1>1, <2>1, <2>2, <2>4, <3>2, <3>4, <3>5, WriteGrows
      <3>. QED BY <1>3, <1>5, <2>4, <3>6
    <2>. QED BY <1>11, <2>3, <2>4 DEF DeleteSecret
  <1>12. CASE Downloaded(c)
    <2>1. ~SaveRuns(c)
      BY <1>12 DEF Downloaded, SaveRuns
    <2>. QED BY <1>2, <1>3, <1>4, <1>12, <2>1 DEF Downloaded
  <1>13. CASE ResolveMine(c)
    <2>1. c \in Choices /\ ~SaveRuns(c)
      BY <1>1, <1>13 DEF ResolveMine, Commands, Opens, Saves, Toggles, Deletes, Downloads, Choices, SaveRuns
    <2>2. PICK k : k = c.card
      OBVIOUS
    <2>3. /\ k \in Cards /\ k.s \in Secrets /\ k.data \in Data /\ k.del \in BOOLEAN
          /\ k.theirs.version \in Nat
      BY <2>1, <2>2 DEF Choices, Cards, Rows
    <2>4. CASE /\ sec[k.s].version = k.theirs.version
               /\ Replace(k.s, IF k.del THEN [sec[k.s] EXCEPT !.deleted = TRUE, !.version = @ + 1]
                               ELSE [sec[k.s] EXCEPT !.data = k.data, !.version = @ + 1],
                          k.theirs.version)
               /\ Answer(c, [msg |-> "resolved"])
      <3>1. PICK row : row = IF k.del THEN [sec[k.s] EXCEPT !.deleted = TRUE, !.version = @ + 1]
                             ELSE [sec[k.s] EXCEPT !.data = k.data, !.version = @ + 1]
        OBVIOUS
      <3>2. sec[k.s] \in Rows /\ sec[k.s].version \in Nat
        BY <2>3, RowFields DEF StateTyped
      <3>3. row \in Rows /\ row.version = sec[k.s].version + 1
        <4>1. CASE k.del
          <5>1. row = [sec[k.s] EXCEPT !.version = sec[k.s].version + 1, !.deleted = TRUE]
            BY <3>1, <3>2, <4>1 DEF Rows
          <5>. QED BY <3>2, <5>1, RowDeleted
        <4>2. CASE ~k.del
          <5>1. row = [sec[k.s] EXCEPT !.version = sec[k.s].version + 1, !.data = k.data]
            BY <3>1, <3>2, <4>2 DEF Rows
          <5>. QED BY <2>3, <3>2, <5>1, RowChanged
        <4>. QED BY <4>1, <4>2
      <3>4. sec[k.s].version <= row.version /\ sec[k.s].version <= k.theirs.version
        BY <2>4, <3>2, <3>3
      <3>5. DataStep
        BY <1>1, <2>3, <2>4, <3>1, <3>3, <3>4, ReplaceGrows
      <3>. QED BY <1>3, <1>4, <2>1, <2>4, <3>5
    <2>5. CASE Answer(c, [msg |-> "again", card |-> CardOf(k.s, k.data, k.del)]) /\ Unchanged
      <3>1. PICK kk : kk = CardOf(k.s, k.data, k.del)
        OBVIOUS
      <3>2. kk \in Cards /\ kk.theirs = sec[kk.s]
        BY <2>3, <3>1 DEF CardOf, Cards, StateTyped
      <3>3. PICK m : m = [msg |-> "again", card |-> kk]
        OBVIOUS
      <3>4. m \in Messages /\ MsgSeen(m)'
        BY <1>2, <2>5, <3>2, <3>3, CardAnswer
      <3>5. Ok(m)
        BY <2>1, <2>5, <3>1, <3>3, <3>4
      <3>. QED BY <1>2, <1>3, <2>5, <3>5
    <2>6. CASE Answer(c, [msg |-> "conflictErr"]) /\ Unchanged
      BY <1>2, <1>3, <1>4, <2>1, <2>6
    <2>. QED BY <1>13, <2>2, <2>4, <2>5, <2>6 DEF ResolveMine
  <1>14. CASE ResolveServer(c)
    <2>1. c \in Choices /\ ~SaveRuns(c)
      BY <1>1, <1>14 DEF ResolveServer, Commands, Opens, Saves, Toggles, Deletes, Downloads, Choices, SaveRuns
    <2>2. PICK k : k = c.card
      OBVIOUS
    <2>3. k.s \in Secrets /\ k.theirs \in Rows
      BY <2>1, <2>2 DEF Choices, Cards
    <2>4. k.theirs.version <= sec[k.s].version
      BY <1>1, <2>1, <2>2 DEF CmdSeen, Choices
    <2>5. /\ cache' = [cache EXCEPT ![k.s] = k.theirs]
          /\ Noted("back", k.s, k.theirs.version < cache[k.s].version)
          /\ sec' = sec /\ rows' = rows /\ Answer(c, [msg |-> "resolved"])
      BY <1>14, <2>2 DEF ResolveServer
    <2>6. DataStep
      BY <1>1, <2>3, <2>4, <2>5, BackGrows
    <2>. QED BY <1>3, <1>4, <2>1, <2>5, <2>6
  <1>. QED BY <1>6, <1>7, <1>8, <1>9, <1>10, <1>11, <1>12, <1>13, <1>14 DEF RunCommand

LEMMA CommandInv ==
    ASSUME StateTyped, FormInv, SeenInv, NEW c \in BagToSet(cmds), CommandStep(c)
    PROVE  StateTyped' /\ FormInv' /\ SeenInv'
  <1>1. PICK m \in Messages : Answer(c, m) /\ (SaveRuns(c) => Answers(m)) /\ MsgSeen(m)'
    BY DEF CommandStep
  <1>2. /\ IsABag(cmds') /\ BagToSet(cmds') \subseteq BagToSet(cmds)
        /\ BagToSet(cmds) \ {c} \subseteq BagToSet(cmds')
        /\ IsABag(msgs') /\ BagToSet(msgs') = BagToSet(msgs) \cup {m}
    BY <1>1, EndsRemoves, SentAdds DEF Answer, StateTyped
  <1>3. DataStep /\ screen' = screen /\ locked' = locked /\ form' = form /\ card' = card
    BY DEF CommandStep
  <1>4. StateTyped'
    BY <1>2, <1>3 DEF StateTyped, DataStep, DataTyped
  <1>5. SavingAnswered'
    BY <1>1, <1>2, <1>3, WaitedFor DEF FormInv
  <1>6. FormInv'
    BY <1>3, <1>5 DEF FormInv
  <1>7. FormSeen'
    BY <1>3, FormStaysSeen
  <1>8. card' # NoCard => card'.theirs.version <= sec'[card'.s].version
    BY <1>3, CardStaysSeen
  <1>9. SeenInv'
    BY <1>1, <1>2, <1>3, <1>7, <1>8, SeenKept
  <1>. QED BY <1>4, <1>6, <1>9

----------------------------------------------------------------------------
(* The messages. *)

LEMMA FirstType == CreatableTypes[1] \in Types
  <1>1. CreatableTypes \in Seq(STRING) /\ CreatableTypes # <<>>
    BY FormAssumption
  <1>2. 1 \in DOMAIN CreatableTypes
    BY <1>1
  <1>. QED BY <1>2 DEF Types

LEMMA HiddenForm ==
    ASSUME NEW f \in Forms
    PROVE  /\ Hidden(f) \in Forms /\ Hidden(f).mode = "view" /\ ~Hidden(f).saving
  <1>1. /\ CreatableTypes[1] \in Types /\ Blank \in Data /\ NoSnapshot \in Snapshots /\ "view" \in Modes
        /\ f.focus \in Nat \ {0}
    BY FirstType, BlankType DEF Snapshots, Modes, Forms
  <1>. QED BY <1>1 DEF Hidden, Forms

LEMMA BlankLens == Len(Blank.custom) = 0 /\ Len(Blank.otps) = 0
  BY DEF Blank

LEMMA CreateForm ==
    ASSUME NEW f \in Forms, NEW type \in Types
    PROVE  /\ SetCreate(f, type) \in Forms /\ FormGood(SetCreate(f, type)) /\ ~SetCreate(f, type).saving
           /\ SetCreate(f, type).sid = NewSecret
  <1>1. Blank \in Data /\ NoSnapshot \in Snapshots /\ "edit" \in Modes
    BY BlankType DEF Snapshots, Modes
  <1>. DEFINE h == Reset(f)
  <1>2. h \in Forms /\ ~h.saving /\ h.data = Blank /\ h.start = Blank
    BY <1>1 DEF Forms, Reset
  <1>. HIDE DEF h
  <1>. DEFINE g == [h EXCEPT !.sid = NewSecret, !.version = 0, !.seen = 0, !.mode = "edit",
                             !.focus = 1, !.type = type]
  <1>3. /\ g \in Forms /\ ~g.saving /\ g.data = Blank /\ g.start = Blank /\ g.sid = NewSecret
        /\ g.mode = "edit" /\ g.focus = 1
    <2>1. ~g.saving /\ g.data = Blank /\ g.start = Blank
      BY <1>2 DEF Forms
    <2>2. g.sid = NewSecret /\ g.mode = "edit" /\ g.focus = 1
      BY <1>2 DEF Forms
    <2>3. g \in Forms
      <3>1. NewSecret \in Secrets \cup {NewSecret} /\ 0 \in Nat /\ 1 \in Nat \ {0}
        OBVIOUS
      <3>. HIDE DEF NewSecret
      <3>. QED BY <1>1, <1>2, <3>1 DEF Forms
    <2>. QED BY <2>1, <2>2, <2>3
  <1>4. SetCreate(f, type) = g
    BY DEF SetCreate, h
  <1>. HIDE DEF g
  <1>5. EditSlots(g) = 5
    BY <1>3, BlankLens DEF EditSlots
  <1>6. FormGood(g)
    BY <1>3, <1>5 DEF FormGood, Editing
  <1>. QED BY <1>3, <1>4, <1>6

LEMMA FilledType ==
    ASSUME NEW f \in Forms, NEW s \in Secrets \cup {NewSecret}, NEW version \in Nat, NEW seen \in Nat,
           NEW type \in Types, NEW focus \in Nat \ {0}, NEW data \in Data, NEW mode \in Modes
    PROVE  [f EXCEPT !.sid = s, !.version = version, !.seen = seen, !.type = type,
                     !.focus = focus, !.data = data, !.mode = mode] \in Forms
  BY DEF Forms

LEMMA FilledForm ==
    ASSUME NEW f \in Forms, NEW m \in Fills, NEW g, g = SetEditData(f, m)
    PROVE  /\ g \in Forms /\ FormGood(g) /\ ~g.saving
           /\ g.sid = m.s /\ g.version = m.version /\ g.seen = m.seen
  <1>1. Blank \in Data /\ NoSnapshot \in Snapshots /\ "edit" \in Modes /\ "view" \in Modes
    BY BlankType DEF Snapshots, Modes
  <1>2. /\ m.s \in Secrets /\ m.version \in Nat /\ m.type \in Types /\ m.data \in Data
        /\ m.seen \in Nat /\ m.edit \in BOOLEAN
    BY DEF Fills
  <1>. DEFINE r == Reset(f)
  <1>3. r \in Forms /\ ~r.saving
    BY <1>1 DEF Forms, Reset
  <1>. HIDE DEF r
  <1>4. PICK mode : mode = IF m.edit THEN "edit" ELSE "view"
    OBVIOUS
  <1>5. mode \in Modes
    BY <1>1, <1>4
  <1>. DEFINE h == [r EXCEPT !.sid = m.s, !.version = m.version, !.seen = m.seen,
                             !.type = m.type, !.focus = 1, !.data = m.data, !.mode = mode]
  <1>6. /\ h \in Forms /\ ~h.saving /\ h.data = m.data /\ h.sid = m.s
        /\ h.version = m.version /\ h.seen = m.seen /\ h.focus = 1
    <2>1. h \in Forms
      <3>1. m.s \in Secrets \cup {NewSecret} /\ 1 \in Nat \ {0}
        BY <1>2
      <3>. QED BY <1>2, <1>3, <1>5, <3>1, FilledType
    <2>2. ~h.saving /\ h.data = m.data /\ h.sid = m.s
      BY <1>3 DEF Forms
    <2>3. h.version = m.version /\ h.seen = m.seen /\ h.focus = 1
      BY <1>3 DEF Forms
    <2>. QED BY <2>1, <2>2, <2>3
  <1>7. g = TakeSnapshot(h)
    BY <1>4 DEF SetEditData, r
  <1>. HIDE DEF h
  <1>8. /\ g \in Forms /\ g.sid = h.sid /\ g.version = h.version /\ g.seen = h.seen
        /\ g.saving = h.saving /\ g.start = h.data /\ g.data = h.data /\ g.focus = h.focus
    BY <1>6, <1>7, TakeSnapshotFields
  <1>9. g.sid # NewSecret
    BY <1>2, <1>6, <1>8, FormAssumption
  <1>10. EditSlots(g) \in Nat /\ EditSlots(g) >= 4
    BY <1>8, SlotsInEdit
  <1>11. FormGood(g)
    BY <1>6, <1>8, <1>9, <1>10 DEF FormGood
  <1>. QED BY <1>6, <1>8, <1>11

\* What every message that is handled leaves as it is.
LEMMA HandledInv ==
    ASSUME StateTyped, FormInv, SeenInv, NEW m \in BagToSet(msgs), Handled(m),
           UNCHANGED <<locked, serverVars, cmds, log>>,
           screen' \in {"dashboard", "form", "conflict", "lock"},
           form' \in Forms, card' \in Cards \cup {NoCard},
           screen' = "form" => FormGood(form'),
           screen' # "form" => form'.mode = "view" /\ ~form'.saving,
           form'.saving => form.saving /\ ~Answers(m),
           FormSeen',
           card' # NoCard => card'.theirs.version <= sec[card'.s].version
    PROVE  StateTyped' /\ FormInv' /\ SeenInv'
  <1>1. /\ IsABag(msgs') /\ BagToSet(msgs') \subseteq BagToSet(msgs)
        /\ BagToSet(msgs) \ {m} \subseteq BagToSet(msgs')
    BY HandledRemoves DEF StateTyped
  <1>2. cmds' = cmds /\ locked' = locked /\ UNCHANGED <<sec, cache, rows, log>>
    BY DEF serverVars
  <1>3. StateTyped'
    BY <1>1, <1>2 DEF StateTyped
  <1>4. SavingAnswered'
    <2>1. CASE form'.saving
      BY <1>1, <1>2, <2>1, WaitedFor DEF FormInv
    <2>2. CASE ~form'.saving
      BY <2>2 DEF SavingAnswered
    <2>. QED BY <2>1, <2>2
  <1>5. FormInv'
    BY <1>4 DEF FormInv
  <1>6. DataStep
    BY <1>2, StayGrows DEF StateTyped, SeenInv, DataTyped
  <1>7. SeenInv'
    BY <1>1, <1>2, <1>6, SeenKept
  <1>. QED BY <1>3, <1>5, <1>7

LEMMA SwitchInv ==
    ASSUME StateTyped, FormInv, SeenInv, NEW m \in BagToSet(msgs), SwitchScreen(m)
    PROVE  StateTyped' /\ FormInv' /\ SeenInv'
  <1>1. /\ Handled(m) /\ UNCHANGED <<locked, serverVars, cmds, log>> /\ form \in Forms
        /\ m \in Messages /\ MsgSeen(m)
    BY DEF SwitchScreen, StateTyped, SeenInv, serverVars
  <1>2. CASE m.msg = "switch" /\ screen' = m.screen /\ form' = Hidden(form) /\ card' = NoCard
    <2>1. screen' = "dashboard"
      BY <1>1, <1>2 DEF Messages, Switches, Creates, Fills, CardMessages, Notices
    <2>2. form' \in Forms /\ form'.mode = "view" /\ ~form'.saving
      BY <1>1, <1>2, HiddenForm
    <2>3. FormSeen'
      BY <2>1 DEF FormSeen
    <2>. QED BY <1>1, <1>2, <2>1, <2>2, <2>3, HandledInv
  <1>3. CASE m.msg = "create" /\ screen' = "form" /\ form' = SetCreate(form, m.type) /\ card' = NoCard
    <2>1. m.type \in Types
      BY <1>1, <1>3 DEF Messages, Switches, Creates, Fills, CardMessages, Notices
    <2>2. form' \in Forms /\ FormGood(form') /\ ~form'.saving /\ form'.sid = NewSecret
      BY <1>1, <1>3, <2>1, CreateForm
    <2>3. FormSeen'
      BY <2>2 DEF FormSeen
    <2>. QED BY <1>1, <1>3, <2>2, <2>3, HandledInv
  <1>4. CASE m.msg = "form" /\ screen' = "form" /\ form' = SetEditData(form, m) /\ card' = NoCard
    <2>1. m \in Fills
      BY <1>1, <1>4 DEF Messages, Switches, Creates, Fills, CardMessages, Notices
    <2>2. PICK g : g = SetEditData(form, m)
      OBVIOUS
    <2>3. /\ g \in Forms /\ FormGood(g) /\ ~g.saving
          /\ g.sid = m.s /\ g.version = m.version /\ g.seen = m.seen
      BY <1>1, <2>1, <2>2, FilledForm
    <2>4. form' = g
      BY <1>4, <2>2
    <2>5. FormSeen'
      BY <1>1, <1>4, <2>3, <2>4 DEF FormSeen, MsgSeen, Stale
    <2>6. form' \in Forms /\ FormGood(form') /\ ~form'.saving
      BY <2>3, <2>4
    <2>. QED BY <1>1, <1>4, <2>5, <2>6, HandledInv
  <1>5. CASE m.msg = "conflict" /\ screen' = "conflict" /\ form' = Hidden(form) /\ card' = m.card
    <2>1. m.card \in Cards
      BY <1>1, <1>5 DEF Messages, Switches, Creates, Fills, CardMessages, Notices
    <2>2. form' \in Forms /\ form'.mode = "view" /\ ~form'.saving
      BY <1>1, <1>5, HiddenForm
    <2>3. FormSeen'
      BY <1>5 DEF FormSeen
    <2>4. card'.theirs.version <= sec[card'.s].version
      BY <1>1, <1>5 DEF MsgSeen
    <2>. QED BY <1>1, <1>5, <2>1, <2>2, <2>3, <2>4, HandledInv
  <1>. QED BY <1>2, <1>3, <1>4, <1>5 DEF SwitchScreen

LEMMA FormErrorInv ==
    ASSUME StateTyped, FormInv, SeenInv, NEW m \in BagToSet(msgs), FormError(m)
    PROVE  StateTyped' /\ FormInv' /\ SeenInv'
  <1>1. /\ Handled(m) /\ UNCHANGED <<locked, serverVars, cmds, log>>
        /\ screen' = screen /\ card' = card /\ form \in Forms
        /\ screen \in {"dashboard", "form", "conflict", "lock"} /\ card \in Cards \cup {NoCard}
    BY DEF FormError, StateTyped, serverVars
  <1>2. DataStep
    BY <1>1, StayGrows DEF StateTyped, SeenInv, DataTyped, serverVars
  <1>3. /\ form' \in Forms /\ ~form'.saving /\ (screen = "form" => FormGood(form'))
        /\ (screen # "form" => form'.mode = "view")
        /\ form'.sid = form.sid /\ form'.version = form.version /\ form'.seen = form.seen
    <2>1. CASE screen = "form"
      <3>1. form' = [form EXCEPT !.saving = FALSE] /\ FormGood(form)
        BY <2>1 DEF FormError, FormInv
      <3>2. /\ form' \in Forms /\ ~form'.saving
            /\ form'.sid = form.sid /\ form'.version = form.version /\ form'.seen = form.seen
            /\ form'.mode = form.mode /\ form'.start = form.start /\ form'.data = form.data
            /\ form'.focus = form.focus /\ form'.kept = form.kept /\ form'.dirty = form.dirty
        BY <1>1, <3>1 DEF Forms
      <3>. QED BY <2>1, <3>1, <3>2 DEF FormGood, EditSlots
    <2>2. CASE screen # "form"
      BY <1>1, <2>2 DEF FormError, FormInv
    <2>. QED BY <2>1, <2>2
  <1>4. FormSeen'
    BY <1>1, <1>2, <1>3, FormStaysSeen
  <1>5. card' # NoCard => card'.theirs.version <= sec[card'.s].version
    BY <1>1 DEF SeenInv, CardSeen
  <1>. QED BY <1>1, <1>3, <1>4, <1>5, HandledInv

LEMMA DroppedInv ==
    ASSUME StateTyped, FormInv, SeenInv, NEW m \in BagToSet(msgs), Dropped(m)
    PROVE  StateTyped' /\ FormInv' /\ SeenInv'
  <1>1. /\ Handled(m) /\ UNCHANGED <<locked, serverVars, cmds, log>> /\ ~Answers(m)
        /\ screen' = screen /\ card' = card /\ form' = form /\ form \in Forms
        /\ screen \in {"dashboard", "form", "conflict", "lock"} /\ card \in Cards \cup {NoCard}
    BY DEF Dropped, StateTyped, serverVars, Answers
  <1>2. DataStep
    BY <1>1, StayGrows DEF StateTyped, SeenInv, DataTyped, serverVars
  <1>3. FormSeen'
    BY <1>1, <1>2, FormStaysSeen
  <1>4. card' # NoCard => card'.theirs.version <= sec[card'.s].version
    BY <1>1 DEF SeenInv, CardSeen
  <1>5. /\ screen = "form" => FormGood(form)
        /\ screen # "form" => form.mode = "view" /\ ~form.saving
    BY DEF FormInv
  <1>. QED BY <1>1, <1>3, <1>4, <1>5, HandledInv

LEMMA ResolvedInv ==
    ASSUME StateTyped, FormInv, SeenInv, NEW m \in BagToSet(msgs), ConflictResolved(m)
    PROVE  StateTyped' /\ FormInv' /\ SeenInv'
  <1>1. /\ UNCHANGED <<locked, serverVars, cmds, log>> /\ ~Answers(m)
        /\ screen' = screen /\ form' = form /\ form \in Forms /\ screen = "conflict"
        /\ screen' # "form" /\ form.mode = "view" /\ ~form.saving
    BY DEF ConflictResolved, StateTyped, serverVars, Answers, FormInv
  <1>2. CASE Handled(m) /\ m.msg = "again" /\ card' = m.card
    <2>1. m.card \in Cards /\ MsgSeen(m)
      BY <1>2 DEF StateTyped, SeenInv, Messages, Switches, Creates, Fills, CardMessages, Notices
    <2>2. card'.theirs.version <= sec[card'.s].version
      BY <1>2, <2>1 DEF MsgSeen
    <2>3. FormSeen'
      BY <1>1 DEF FormSeen
    <2>. QED BY <1>1, <1>2, <2>1, <2>2, <2>3, HandledInv
  <1>3. CASE /\ msgs' = (msgs (-) SetToBag({m})) (+) SetToBag({SwitchTo("dashboard")})
             /\ card' = card
    <2>1. PICK less : less = msgs (-) SetToBag({m})
      OBVIOUS
    <2>2. IsABag(less) /\ BagToSet(less) \subseteq BagToSet(msgs)
      BY <2>1, BagLess DEF StateTyped
    <2>3. /\ IsABag(msgs') /\ BagToSet(msgs') = BagToSet(less) \cup {SwitchTo("dashboard")}
      BY <1>3, <2>1, <2>2, BagMore
    <2>4. MsgSeen(SwitchTo("dashboard"))'
      BY DEF SwitchTo, MsgSeen
    <2>5. StateTyped'
      BY <1>1, <1>3, <2>2, <2>3, SwitchTyped DEF StateTyped, serverVars
    <2>6. FormInv'
      BY <1>1 DEF FormInv, SavingAnswered
    <2>7. DataStep
      BY <1>1, StayGrows DEF StateTyped, SeenInv, DataTyped, serverVars
    <2>8. FormSeen'
      BY <1>1 DEF FormSeen
    <2>9. card' # NoCard => card'.theirs.version <= sec'[card'.s].version
      BY <1>3, <2>7, CardStaysSeen
    <2>10. \A x \in BagToSet(msgs') : x \in BagToSet(msgs) \/ MsgSeen(x)'
      <3>1. SUFFICES ASSUME NEW x \in BagToSet(msgs'), x \notin BagToSet(msgs)
                     PROVE  MsgSeen(x)'
        OBVIOUS
      <3>2. x = SwitchTo("dashboard")
        BY <2>2, <2>3, <3>1
      <3>. QED BY <3>2 DEF SwitchTo, MsgSeen
    <2>11. SeenInv'
      BY <1>1, <2>7, <2>8, <2>9, <2>10, SeenKept
    <2>. QED BY <2>5, <2>6, <2>11
  <1>. QED BY <1>2, <1>3 DEF ConflictResolved

----------------------------------------------------------------------------
(* The keys and what happens around. *)

LEMMA NoSeenChange ==
    ASSUME StateTyped, SeenInv, UNCHANGED <<sec, cache, rows, log>>
    PROVE  DataStep
  BY StayGrows DEF StateTyped, SeenInv, DataTyped

LEMMA ElsewhereStays ==
    ASSUME Elsewhere
    PROVE  screen' = screen /\ card' = card /\ UNCHANGED <<sec, cache, rows, log>>
  BY DEF Elsewhere, serverVars

\* The steps of the keys but the writing of a form: what is started is of a kind that
\* was seen.
LEMMA KeyStepSeen ==
    ASSUME StateTyped, SeenInv, Elsewhere,
           form'.sid = form.sid, form'.version = form.version, form'.seen = form.seen,
           \A c \in BagToSet(cmds') : c \in BagToSet(cmds) \/ CmdSeen(c)',
           \A m \in BagToSet(msgs') : m \in BagToSet(msgs) \/ MsgSeen(m)'
    PROVE  SeenInv'
  <1>1. DataStep /\ screen' = screen /\ card' = card
    BY ElsewhereStays, NoSeenChange
  <1>2. FormSeen'
    BY <1>1, FormStaysSeen
  <1>3. card' # NoCard => card'.theirs.version <= sec'[card'.s].version
    BY <1>1, CardStaysSeen
  <1>. QED BY <1>1, <1>2, <1>3, SeenKept

LEMMA EditSeen ==
    ASSUME StateTyped, SeenInv, EditStep
    PROVE  SeenInv'
  BY KeyStepSeen DEF EditStep, Edited

LEMMA LeaveSeen ==
    ASSUME StateTyped, SeenInv, LeaveStep
    PROVE  SeenInv'
  <1>1. /\ Elsewhere /\ cmds' = cmds
        /\ form'.sid = form.sid /\ form'.version = form.version /\ form'.seen = form.seen
    BY DEF LeaveStep, Edited
  <1>2. BagToSet(msgs') = BagToSet(msgs) \cup {SwitchTo("dashboard")}
    BY SentAdds DEF LeaveStep, StateTyped
  <1>3. \A m \in BagToSet(msgs') : m \in BagToSet(msgs) \/ MsgSeen(m)'
    BY <1>2 DEF SwitchTo, MsgSeen
  <1>. QED BY <1>1, <1>3, KeyStepSeen

LEMMA StartSeen ==
    ASSUME StateTyped, SeenInv, StartStep
    PROVE  SeenInv'
  <1>1. Elsewhere /\ form' = form
    BY DEF StartStep
  <1>2. DataStep /\ DataTyped
    BY <1>1, ElsewhereStays, NoSeenChange DEF StateTyped, DataTyped
  <1>3. CASE \E c \in Commands : Started(c) /\ CmdSeen(c) /\ msgs' = msgs
    <2>1. PICK c \in Commands : Started(c) /\ CmdSeen(c) /\ msgs' = msgs
      BY <1>3
    <2>2. CmdSeen(c)' /\ BagToSet(cmds') = BagToSet(cmds) \cup {c}
      BY <1>2, <2>1, CmdStaysSeen, StartedAdds DEF StateTyped
    <2>. QED BY <1>1, <2>1, <2>2, KeyStepSeen
  <1>4. CASE \E m \in Messages : Sent(m) /\ MsgSeen(m) /\ cmds' = cmds
    <2>1. PICK m \in Messages : Sent(m) /\ MsgSeen(m) /\ cmds' = cmds
      BY <1>4
    <2>2. MsgSeen(m)' /\ BagToSet(msgs') = BagToSet(msgs) \cup {m}
      BY <1>2, <2>1, MsgStaysSeen, SentAdds DEF StateTyped
    <2>. QED BY <1>1, <2>1, <2>2, KeyStepSeen
  <1>. QED BY <1>3, <1>4 DEF StartStep

LEMMA DownloadSeen ==
    ASSUME StateTyped, SeenInv, DownloadStep
    PROVE  SeenInv'
  <1>1. /\ Elsewhere /\ msgs' = msgs
        /\ form'.sid = form.sid /\ form'.version = form.version /\ form'.seen = form.seen
    BY DEF DownloadStep, Edited
  <1>2. BagToSet(cmds') = BagToSet(cmds) \cup {[do |-> "download"]}
    BY StartedAdds DEF DownloadStep, StateTyped
  <1>3. \A c \in BagToSet(cmds') : c \in BagToSet(cmds) \/ CmdSeen(c)'
    BY <1>2 DEF CmdSeen
  <1>. QED BY <1>1, <1>3, KeyStepSeen

LEMMA WriteSeen ==
    ASSUME StateTyped, SeenInv, NEW c, WriteStep(c)
    PROVE  SeenInv'
  <1>1. /\ Elsewhere /\ msgs' = msgs /\ c \in Commands
        /\ form'.sid = form.sid /\ form'.version = form.version /\ form'.seen = form.seen
    BY DEF WriteStep, Commands
  <1>2. DataStep /\ DataTyped
    BY <1>1, ElsewhereStays, NoSeenChange DEF StateTyped, DataTyped
  <1>3. CmdSeen(c)
    <2>1. c.do \in {"save", "toggle", "delete"}
      BY DEF WriteStep, Saves, Toggles, Deletes
    <2>2. c.s # NewSecret => c.version <= c.seen \/ Stale(c.s)
      BY DEF WriteStep, SeenInv, FormSeen
    <2>. QED BY <2>1, <2>2 DEF CmdSeen
  <1>4. CmdSeen(c)' /\ BagToSet(cmds') = BagToSet(cmds) \cup {c}
    BY <1>1, <1>2, <1>3, CmdStaysSeen, StartedAdds DEF WriteStep, StateTyped
  <1>. QED BY <1>1, <1>4, KeyStepSeen

LEMMA KeyInv ==
    ASSUME StateTyped, FormInv, SeenInv, Key
    PROVE  StateTyped' /\ FormInv' /\ SeenInv'
  <1>1. CASE EditStep
    BY <1>1, EditInv, EditSeen
  <1>2. CASE LeaveStep
    BY <1>2, LeaveInv, LeaveSeen
  <1>3. CASE StartStep
    BY <1>3, StartInv, StartSeen
  <1>4. CASE DownloadStep
    BY <1>4, DownloadInv, DownloadSeen
  <1>5. CASE \E c : WriteStep(c)
    BY <1>5, WriteInv, WriteSeen
  <1>. QED BY <1>1, <1>2, <1>3, <1>4, <1>5, KeySteps

\* The secret changes elsewhere, and nothing under way is touched.
LEMMA DataInv ==
    ASSUME StateTyped, FormInv, SeenInv, DataStep, UNCHANGED <<screen, locked, form, card, cmds, msgs>>
    PROVE  StateTyped' /\ FormInv' /\ SeenInv'
  <1>1. StateTyped'
    BY DEF StateTyped, DataStep, DataTyped
  <1>2. FormInv'
    BY DEF FormInv, SavingAnswered
  <1>3. FormSeen'
    BY FormStaysSeen
  <1>4. card' # NoCard => card'.theirs.version <= sec'[card'.s].version
    BY CardStaysSeen
  <1>5. SeenInv'
    BY <1>3, <1>4, SeenKept
  <1>. QED BY <1>1, <1>2, <1>5

\* The screen changes without a message: to the lock, and back.
LEMMA ScreenInv ==
    ASSUME StateTyped, FormInv, SeenInv, UNCHANGED <<serverVars, cmds, msgs, log>>,
           screen' \in {"dashboard", "lock"}, locked' \in BOOLEAN,
           form' \in Forms, form'.mode = "view", ~form'.saving, card' \in {card, NoCard}
    PROVE  StateTyped' /\ FormInv' /\ SeenInv'
  <1>1. UNCHANGED <<sec, cache, rows, log>> /\ cmds' = cmds /\ msgs' = msgs
    BY DEF serverVars
  <1>2. StateTyped'
    BY <1>1 DEF StateTyped
  <1>3. FormInv'
    BY DEF FormInv, SavingAnswered
  <1>4. DataStep
    BY <1>1, NoSeenChange
  <1>5. FormSeen'
    BY DEF FormSeen
  <1>6. card' # NoCard => card'.theirs.version <= sec'[card'.s].version
    BY <1>4, CardStaysSeen
  <1>7. SeenInv'
    BY <1>1, <1>4, <1>5, <1>6, SeenKept
  <1>. QED BY <1>2, <1>3, <1>7

LEMMA AroundInv ==
    ASSUME StateTyped, FormInv, SeenInv, Around
    PROVE  StateTyped' /\ FormInv' /\ SeenInv'
  <1>1. DataTyped /\ DataSeen /\ form \in Forms
    BY DEF StateTyped, SeenInv, DataTyped
  <1>2. ASSUME NEW s \in Secrets, OtherDevice(s)
        PROVE  DataStep /\ UNCHANGED <<screen, locked, form, card, cmds, msgs>>
    BY <1>1, <1>2, OtherDeviceGrows DEF OtherDevice
  <1>3. CASE Pull
    <2>1. DataStep /\ UNCHANGED <<screen, locked, form, card, cmds, msgs>>
      BY <1>1, <1>3, PullGrows DEF Pull
    <2>. QED BY <2>1, DataInv
  <1>4. CASE LoadRows
    <2>1. DataStep /\ UNCHANGED <<screen, locked, form, card, cmds, msgs>>
      BY <1>1, <1>4, LoadRowsGrows DEF LoadRows
    <2>. QED BY <2>1, DataInv
  <1>5. CASE Autolock
    <2>1. /\ form' = Hidden(form) /\ screen' = "lock" /\ locked' = TRUE /\ card' = NoCard
          /\ UNCHANGED <<serverVars, cmds, msgs, log>>
      BY <1>5 DEF Autolock
    <2>2. form' \in Forms /\ form'.mode = "view" /\ ~form'.saving
      BY <1>1, <2>1, HiddenForm
    <2>. QED BY <2>1, <2>2, ScreenInv
  <1>6. CASE Unlock
    <2>1. /\ form' = form /\ screen' = "dashboard" /\ locked' = FALSE /\ card' = card
          /\ UNCHANGED <<serverVars, cmds, msgs, log>> /\ screen = "lock"
      BY <1>6 DEF Unlock
    <2>2. form'.mode = "view" /\ ~form'.saving
      BY <2>1 DEF FormInv
    <2>. QED BY <1>1, <2>1, <2>2, ScreenInv
  <1>. QED BY <1>2, <1>3, <1>4, <1>5, <1>6, DataInv DEF Around

LEMMA InitInv ==
    ASSUME Init
    PROVE  StateTyped /\ FormInv /\ SeenInv
  <1>1. /\ screen = "dashboard" /\ locked = FALSE /\ card = NoCard
        /\ cmds = EmptyBag /\ msgs = EmptyBag /\ log = [blind |-> {}, back |-> {}]
        /\ cache = sec /\ rows = [s \in Secrets |-> sec[s].version]
        /\ form = Hidden([focus |-> 1])
    BY DEF Init
  <1>2. CreatableTypes[1] \in Types /\ Blank \in Data /\ NoSnapshot \in Snapshots /\ "view" \in Modes
    BY FirstType, BlankType DEF Snapshots, Modes
  <1>3. form \in Forms /\ form.mode = "view" /\ ~form.saving
    BY <1>1, <1>2 DEF Hidden, Forms
  <1>4. sec \in [Secrets -> Rows]
    <2>1. NoRow \in Rows
      BY <1>2 DEF NoRow, Rows
    <2>. DEFINE data == [Blank EXCEPT !.title = "x", !.otps = <<[code |-> "x", used |-> FALSE]>>]
    <2>2. data \in Data
      <3>1. [code |-> "x", used |-> FALSE] \in [code : Text, used : BOOLEAN]
        BY DEF Text
      <3>2. <<[code |-> "x", used |-> FALSE]>> \in Seq([code : Text, used : BOOLEAN])
        BY <3>1
      <3>3. "x" \in Text
        BY DEF Text
      <3>. QED BY <1>2, <3>2, <3>3 DEF Data
    <2>. HIDE DEF data
    <2>3. \A s \in DOMAIN Stored :
              [version |-> 1, deleted |-> FALSE, type |-> Stored[s], data |-> data] \in Rows
      BY <2>2, FormAssumption DEF Rows
    <2>4. sec = [s \in Secrets |->
                    IF s \in DOMAIN Stored
                    THEN [version |-> 1, deleted |-> FALSE, type |-> Stored[s], data |-> data]
                    ELSE NoRow]
      BY DEF Init, data
    <2>. QED BY <2>1, <2>3, <2>4
  <1>5. \A s \in Secrets : sec[s].version \in Nat
    BY <1>4, RowFields
  <1>6. IsABag(EmptyBag) /\ BagToSet(EmptyBag) = {}
    BY DEF EmptyBag, SetToBag, IsABag, BagToSet
  <1>7. StateTyped
    BY <1>1, <1>3, <1>4, <1>5, <1>6 DEF StateTyped
  <1>8. FormInv
    BY <1>1, <1>3 DEF FormInv, SavingAnswered
  <1>9. SeenInv
    BY <1>1, <1>5, <1>6 DEF SeenInv, DataSeen, FormSeen, CardSeen, NoUnseenOverwrite
  <1>. QED BY <1>7, <1>8, <1>9

LEMMA NextInv ==
    ASSUME StateTyped, FormInv, SeenInv, [Next]_vars
    PROVE  StateTyped' /\ FormInv' /\ SeenInv'
  <1>1. CASE Key
    BY <1>1, KeyInv
  <1>2. ASSUME NEW c \in BagToSet(cmds), RunCommand(c)
        PROVE  StateTyped' /\ FormInv' /\ SeenInv'
    BY <1>2, CommandSteps, CommandInv
  <1>3. ASSUME NEW m \in BagToSet(msgs), Deliver(m)
        PROVE  StateTyped' /\ FormInv' /\ SeenInv'
    BY <1>3, SwitchInv, FormErrorInv, DroppedInv, ResolvedInv DEF Deliver
  <1>4. CASE Around
    BY <1>4, AroundInv
  <1>5. CASE UNCHANGED vars
    <2>1. UNCHANGED <<screen, locked, form, card, cmds, msgs>> /\ UNCHANGED <<sec, cache, rows, log>>
      BY <1>5 DEF vars, serverVars
    <2>2. DataStep
      BY <2>1, NoSeenChange
    <2>. QED BY <2>1, <2>2, DataInv
  <1>. QED BY <1>1, <1>2, <1>3, <1>4, <1>5 DEF Next

----------------------------------------------------------------------------
(* The theorems. *)

\* The inductive invariant: what is in the form, the card, the commands and the messages
\* is of its kind, however many are under way (a new secret has no delete and no toggle, a
\* card is of a secret that exists); the form that is shown is what its mode says; and a
\* version that a form, a command or a message carries stands for the content it was read
\* with (secret_form_view.go, conflict_view.go, app.go).
THEOREM FormInvariance == Spec => [](StateTyped /\ FormInv /\ SeenInv)
  <1>1. Init => StateTyped /\ FormInv /\ SeenInv
    BY InitInv
  <1>2. StateTyped /\ FormInv /\ SeenInv /\ [Next]_vars => (StateTyped /\ FormInv /\ SeenInv)'
    BY NextInv
  <1>. QED BY <1>1, <1>2, PTL DEF Spec

\* Whatever is saved, toggled, deleted or resolved replaces a version whose content the
\* user had before him, unless the cache of the secret was put back by an old card before
\* (dashboard_table.go, secret_form_view.go, generic.go).
THEOREM NothingUnseenReplaced == Spec => []NoUnseenOverwrite
  <1>1. SeenInv => NoUnseenOverwrite
    BY DEF SeenInv, DataSeen
  <1>. QED BY <1>1, FormInvariance, PTL

\* applyFocus: while a form is edited, one of its slots has the focus, whatever was added
\* to it, cycled or filled before.
THEOREM SlotAlwaysFocused == Spec => []SomeSlotFocused
  <1>1. StateTyped /\ FormInv => SomeSlotFocused
    <2>1. SUFFICES ASSUME StateTyped, FormInv, form.mode = "edit"
                   PROVE  HasSlot(form)
      BY DEF SomeSlotFocused
    <2>2. form \in Forms /\ FormGood(form)
      BY <2>1 DEF StateTyped, FormInv
    <2>3. Len(Slots(form)) = EditSlots(form)
      BY <2>1, <2>2, SlotsInEdit
    <2>. QED BY <2>2, <2>3 DEF FormGood, HasSlot
  <1>. QED BY <1>1, FormInvariance, PTL

\* isDirty: a form that differs from what it was when editing began asks before it is
\* left, whichever of its fields, custom fields or codes the user changed.
THEOREM EscAlwaysAsks == Spec => []EscAsks
  <1>1. StateTyped /\ FormInv => EscAsks
    BY DEF StateTyped, FormInv, FormGood, EscAsks, IsDirty, Editing
  <1>. QED BY <1>1, FormInvariance, PTL

\* save, loginErrMsg: a form that shows "saving" is waited for by its command, or by a
\* message that takes it off the screen or clears the mark.
THEOREM SavingAlwaysAnswered == Spec => []SavingAnswered
  <1>1. FormInv => SavingAnswered
    BY DEF FormInv
  <1>. QED BY <1>1, FormInvariance, PTL
=============================================================================
