--------------------------- MODULE TuiKeysProofs ---------------------------
(***************************************************************************)
(* Proofs about Terminal: the keys of the editor (TuiComposer) and of the  *)
(* overlays with lists (TuiOverlays), for any lists of commands, files,    *)
(* models and sessions and any height of a popup.                          *)
(***************************************************************************)
EXTENDS TuiRunProofs

-----------------------------------------------------------------------------
(* Some elements of a sequence in their order (Lists), and two numbers.    *)

\* What is taken at places of a sequence is a sequence of what is there.
LEMMA TakenAtPlaces ==
  ASSUME NEW D, NEW s \in Seq(D), NEW P, P \subseteq DOMAIN s
  PROVE  /\ AtPlaces(s, P) \in Seq(D)
         /\ \A m \in DOMAIN AtPlaces(s, P) : \E i \in P : AtPlaces(s, P)[m] = s[i]
<1> DEFINE at(m) == CHOOSE i \in P : Rank(P, i) = m
           N == Cardinality(P)
<1>1. Len(s) \in Nat /\ DOMAIN s = 1..Len(s) /\ \A i \in DOMAIN s : s[i] \in D
  OBVIOUS
<1>2. N \in Nat /\ \A m \in 1..N : at(m) \in P
  <2>1. N \in Nat /\ \A m \in 1..N : \E i \in P : Rank(P, i) = m
    BY <1>1, Ranks
  <2>2. QED BY <2>1
<1>3. AtPlaces(s, P) = [m \in 1..N |-> s[at(m)]]
  BY DEF AtPlaces
<1> HIDE DEF at, N
<1>4. \A m \in 1..N : s[at(m)] \in D
  BY <1>1, <1>2
<1>5. QED BY <1>2, <1>3, <1>4

\* What Among finds are elements of the sequence and of the set.
LEMMA FoundAmong ==
  ASSUME NEW D, NEW s \in Seq(D), NEW S
  PROVE  Among(s, S) \in Seq(D \cap S)
<1> DEFINE P == {i \in DOMAIN s : s[i] \in S}
           a == AtPlaces(s, P)
<1>1. P \subseteq DOMAIN s /\ Among(s, S) = a
  BY DEF Among
<1>2. a \in Seq(D) /\ \A m \in DOMAIN a : \E i \in P : a[m] = s[i]
  <2> HIDE DEF P
  <2>1. QED BY <1>1, TakenAtPlaces
<1>3. \A m \in DOMAIN a : a[m] \in D \cap S
  <2>1. \A i \in P : s[i] \in D \cap S
    OBVIOUS
  <2> HIDE DEF P, a
  <2>2. QED BY <1>2, <2>1
<1> HIDE DEF a
<1>4. QED BY <1>1, <1>2, <1>3

\* The instances take elements as the module does.
LEMMA SameAmong == \A s, S : O!Among(s, S) = Among(s, S) /\ E!Among(s, S) = Among(s, S)
BY DEF O!Among, O!AtPlaces, O!Rank, O!Cardinality, E!Among, E!AtPlaces, E!Rank, E!Cardinality,
       Among, AtPlaces, Rank, Cardinality

\* The smaller and the larger one of two numbers.
LEMMA TwoNumbers ==
  ASSUME NEW a \in Int, NEW b \in Int
  PROVE  /\ E!Min({a, b}) = IF a <= b THEN a ELSE b
         /\ E!Max({a, b}) = IF a <= b THEN b ELSE a
<1>1. E!Min({a, b}) = IF a <= b THEN a ELSE b
  <2>1. (IF a <= b THEN a ELSE b) \in {a, b} /\ \A y \in {a, b} : (IF a <= b THEN a ELSE b) <= y
    OBVIOUS
  <2>2. E!Min({a, b}) \in {a, b} /\ \A y \in {a, b} : E!Min({a, b}) <= y
    BY <2>1 DEF E!Min
  <2>3. QED BY <2>2
<1>2. E!Max({a, b}) = IF a <= b THEN b ELSE a
  <2>1. (IF a <= b THEN b ELSE a) \in {a, b} /\ \A y \in {a, b} : (IF a <= b THEN b ELSE a) >= y
    OBVIOUS
  <2>2. E!Max({a, b}) \in {a, b} /\ \A y \in {a, b} : E!Max({a, b}) >= y
    BY <2>1 DEF E!Max
  <2>3. QED BY <2>2
<1>3. QED BY <1>1, <1>2

-----------------------------------------------------------------------------
(* The editor: TuiComposer, for any commands, files, completions and texts *)
(* and any height of a popup.                                              *)

\* What a popup may propose.
Proposed == UNION {E!ToSet(s) : s \in CommandSets \cup Indexes \cup Completions}

\* A popup is none, or one with an index in its list.
IsPopup(a) ==
  \/ a = <<>>
  \/ /\ a = <<[kind |-> a[1].kind, query |-> a[1].query, index |-> a[1].index,
               items |-> a[1].items]>>
     /\ a[1].items \in Seq(Proposed) /\ a[1].index \in 1..Len(a[1].items)

\* The list of files that takes the keys has one under the cursor.
PickerInv ==
  /\ inline \in BOOLEAN /\ picker \in Seq(E!IndexedFiles) /\ cursor \in Nat \ {0}
  /\ inline => picker # <<>>
  /\ picker # <<>> => cursor <= Len(picker)

\* The menu is one of commands, which the popup shows, too, and belongs to the text.
MenuInv ==
  /\ IsPopup(ac) /\ IsPopup(menu)
  /\ menu # <<>> => menu[1].kind = "slash"
  /\ E!MenuIsShown /\ E!MenuIsForText

ChipsInv ==
  /\ chips \in Seq(E!IndexedFiles) /\ focus \in Nat /\ E!AttachedOnce
  /\ chips # <<>> => focus <= Len(chips)

EditorInv ==
  /\ commands \in CommandSets /\ index \in Indexes
  /\ PickerInv /\ MenuInv /\ ChipsInv

\* The lists that are given, by what they hold.
LEMMA GivenLists ==
  ASSUME E!ComposerAssumption
  PROVE  /\ \A s \in CommandSets \cup Indexes \cup Completions : s \in Seq(Proposed)
         /\ \A s \in Indexes : s \in Seq(E!IndexedFiles)
         /\ Rows \in Nat \ {0}
<1>1. ASSUME NEW s \in CommandSets \cup Indexes \cup Completions
      PROVE  /\ s \in Seq(Proposed)
             /\ s \in Indexes => s \in Seq(E!IndexedFiles)
  <2>1. s \in Seq(E!ToSet(s))
    BY DEF E!ComposerAssumption
  <2>2. E!ToSet(s) \subseteq Proposed /\ (s \in Indexes => E!ToSet(s) \subseteq E!IndexedFiles)
    BY DEF Proposed, E!IndexedFiles
  <2>3. QED BY <2>1, <2>2
<1>2. QED BY <1>1 DEF E!ComposerAssumption

\* The index of a popup that is brought up to date is in the new list.
LEMMA KeptInList ==
  ASSUME IsPopup(ac), NEW kind, NEW t, NEW found \in Seq(Proposed), found # <<>>
  PROVE  IsPopup(E!Popup(kind, t, found))
<1>1. Len(found) \in Nat \ {0}
  OBVIOUS
<1>2. E!Kept(kind, t, Len(found)) \in 1..Len(found)
  <2>1. CASE ac # <<>>
    <3>1. ac[1].index \in Nat \ {0}
      BY <2>1 DEF IsPopup
    <3>2. E!Min({ac[1].index, Len(found)}) \in 1..Len(found)
      <4>1. E!Min({ac[1].index, Len(found)})
              = IF ac[1].index <= Len(found) THEN ac[1].index ELSE Len(found)
        BY <1>1, <3>1, TwoNumbers
      <4>2. QED BY <1>1, <3>1, <4>1
    <3>3. QED BY <1>1, <3>2 DEF E!Kept
  <2>2. CASE ac = <<>>
    BY <1>1, <2>2 DEF E!Kept
  <2>3. QED BY <2>1, <2>2
<1>3. QED BY <1>2 DEF IsPopup, E!Popup

LEMMA PickerStays ==
  ASSUME PickerInv, \/ UNCHANGED <<inline, picker, cursor>>
                    \/ inline' = FALSE /\ picker' = <<>> /\ cursor' = 1
  PROVE  PickerInv'
<1>1. CASE UNCHANGED <<inline, picker, cursor>>
  BY <1>1 DEF PickerInv, E!IndexedFiles
<1>2. CASE inline' = FALSE /\ picker' = <<>> /\ cursor' = 1
  <2>1. inline' \in BOOLEAN /\ ~inline'
    BY <1>2
  <2>2. picker' \in Seq(E!IndexedFiles')
    BY <1>2
  <2>3. cursor' \in Nat \ {0} /\ picker' = <<>>
    BY <1>2
  <2>4. QED BY <2>1, <2>2, <2>3 DEF PickerInv
<1>3. QED BY <1>1, <1>2

\* Without a menu there is nothing that could belong to another text.
LEMMA NoMenu ==
  ASSUME IsPopup(ac'), menu' = <<>>
  PROVE  MenuInv'
BY DEF MenuInv, IsPopup, E!MenuIsShown, E!MenuIsForText

\* The popup, the menu and the list of files after a key in the editor.
LEMMA UpdateFileInv ==
  ASSUME E!ComposerAssumption, EditorInv, NEW t \in DOMAIN Found, draft' = t, E!UpdateFile(t)
  PROVE  PickerInv' /\ MenuInv'
<1> DEFINE found == E!Among(index, Found[t])
           popup == E!Popup("file", t, found)
<1>1. found \in Seq(E!IndexedFiles) /\ found \in Seq(Proposed)
  <2>1. index \in Seq(E!IndexedFiles) /\ index \in Seq(Proposed)
    BY GivenLists DEF EditorInv
  <2>2. /\ Among(index, Found[t]) \in Seq(E!IndexedFiles \cap Found[t])
        /\ Among(index, Found[t]) \in Seq(Proposed \cap Found[t])
    BY <2>1, FoundAmong
  <2>3. QED BY <2>2, SameAmong
<1>2. CASE found = <<>>
  <2>1. /\ ac' = <<>> /\ menu' \in {menu, <<>>}
        /\ \/ inline' = FALSE /\ picker' = <<>> /\ cursor' = 1
           \/ UNCHANGED <<inline, picker, cursor>>
    BY <1>2 DEF E!UpdateFile, E!CloseInline
  <2>2. PickerInv'
    BY <2>1, PickerStays DEF EditorInv
  <2>3. MenuInv'
    BY <2>1 DEF EditorInv, MenuInv, IsPopup, E!MenuIsShown, E!MenuIsForText
  <2>4. QED BY <2>2, <2>3
<1>3. CASE found # <<>>
  <2>1. /\ ac' = popup /\ menu' = <<>> /\ inline' = TRUE /\ picker' = found
        /\ cursor' = popup[1].index
    BY <1>3 DEF E!UpdateFile
  <2>2. IsPopup(popup)
    BY <1>1, <1>3, KeptInList DEF EditorInv, MenuInv
  <2>3. popup # <<>> /\ popup[1].items = found
    BY DEF E!Popup
  <2> HIDE DEF popup, found
  <2>4. cursor' \in 1..Len(found)
    BY <2>1, <2>2, <2>3 DEF IsPopup
  <2>5. PickerInv'
    BY <1>1, <1>3, <2>1, <2>4 DEF PickerInv, E!IndexedFiles
  <2>6. MenuInv'
    <3>1. IsPopup(ac') /\ IsPopup(menu')
      BY <2>1, <2>2 DEF IsPopup
    <3>2. QED BY <2>1, <3>1 DEF MenuInv, IsPopup, E!MenuIsShown, E!MenuIsForText
  <2>7. QED BY <2>5, <2>6
<1>4. QED BY <1>2, <1>3

LEMMA UpdateCommandInv ==
  ASSUME E!ComposerAssumption, EditorInv, NEW t, draft' = t, E!UpdateCommand(t)
  PROVE  PickerInv' /\ MenuInv'
<1> DEFINE found == E!Among(commands, Matches[t])
           popup == E!Popup("slash", t, found)
<1>1. found \in Seq(Proposed)
  <2>1. commands \in Seq(Proposed)
    BY GivenLists DEF EditorInv
  <2>2. Among(commands, Matches[t]) \in Seq(Proposed \cap Matches[t])
    BY <2>1, FoundAmong
  <2>3. QED BY <2>2, SameAmong
<1>2. PickerInv'
  BY PickerStays DEF EditorInv, E!UpdateCommand
<1>3. CASE found = <<>>
  <2>1. ac' = <<>> /\ menu' = <<>>
    BY <1>3 DEF E!UpdateCommand
  <2>2. QED BY <1>2, <2>1, NoMenu DEF IsPopup
<1>4. CASE found # <<>>
  <2>1. ac' = popup /\ menu' = popup
    BY <1>4 DEF E!UpdateCommand
  <2>2. IsPopup(popup)
    BY <1>1, <1>4, KeptInList DEF EditorInv, MenuInv
  <2>3. popup[1].kind = "slash" /\ popup[1].query = t
    BY DEF E!Popup
  <2> HIDE DEF popup
  <2>4. MenuInv'
    <3>1. IsPopup(ac') /\ IsPopup(menu')
      BY <2>1, <2>2 DEF IsPopup
    <3>2. QED BY <2>1, <2>3, <3>1 DEF MenuInv, E!MenuIsShown, E!MenuIsForText
  <2>5. QED BY <1>2, <2>4
<1>5. QED BY <1>3, <1>4

LEMMA UpdateOtherInv ==
  ASSUME E!ComposerAssumption, EditorInv, NEW t, E!UpdateOther(t)
  PROVE  PickerInv' /\ MenuInv'
<1>1. PICK proposed \in Completions \cup {<<>>} :
        IF proposed = <<>>
        THEN ac' = <<>> /\ (IF inline THEN E!CloseInline ELSE UNCHANGED <<inline, picker, cursor>>)
        ELSE /\ ac' = <<[kind |-> "ext", query |-> t, index |-> 1, items |-> proposed]>>
             /\ UNCHANGED <<inline, picker, cursor>>
  BY DEF E!UpdateOther
<1>2. menu' = <<>>
  BY DEF E!UpdateOther
<1>3. PickerInv'
  BY <1>1, PickerStays DEF EditorInv, E!CloseInline
<1>4. IsPopup(ac')
  <2>1. CASE proposed = <<>>
    BY <1>1, <2>1 DEF IsPopup
  <2>2. CASE proposed # <<>>
    <3>1. proposed \in Seq(Proposed)
      BY <2>2, GivenLists
    <3>2. 1 \in 1..Len(proposed)
      BY <2>2, <3>1
    <3>3. QED BY <1>1, <2>2, <3>1, <3>2 DEF IsPopup, Proposed
  <2>3. QED BY <2>1, <2>2
<1>5. QED BY <1>2, <1>3, <1>4, NoMenu

\* What is in the attachments stays once when one is added or taken away.
LEMMA AttachedInv ==
  ASSUME ChipsInv, NEW f \in E!IndexedFiles, E!Attached(f)
  PROVE  ChipsInv'
<1>1. CASE f \in E!ToSet(chips)
  BY <1>1 DEF E!Attached, ChipsInv, E!AttachedOnce, E!IsInjective, E!IndexedFiles
<1>2. CASE f \notin E!ToSet(chips)
  <2>1. /\ chips' = Append(chips, f) /\ focus' = Len(chips) + 1
        /\ \A i \in DOMAIN chips : chips[i] # f
    BY <1>2 DEF E!Attached, E!ToSet
  <2>2. /\ chips' \in Seq(E!IndexedFiles) /\ Len(chips') = Len(chips) + 1 /\ Len(chips) \in Nat
        /\ DOMAIN chips' = 1..(Len(chips) + 1) /\ DOMAIN chips = 1..Len(chips)
        /\ chips'[Len(chips) + 1] = f /\ \A i \in 1..Len(chips) : chips'[i] = chips[i]
    BY <2>1 DEF ChipsInv
  <2>3. E!AttachedOnce'
    BY <2>1, <2>2 DEF ChipsInv, E!AttachedOnce, E!IsInjective
  <2>4. chips' \in Seq(E!IndexedFiles')
    BY <2>2 DEF E!IndexedFiles
  <2>5. QED BY <2>1, <2>2, <2>3, <2>4 DEF ChipsInv
<1>3. QED BY <1>1, <1>2

LEMMA RemovedInv ==
  ASSUME ChipsInv, chips # <<>>, NEW i \in 1..Len(chips), E!RemoveAttachment(i)
  PROVE  ChipsInv'
<1> DEFINE n == Len(chips)
<1>1. n \in Nat \ {0} /\ DOMAIN chips = 1..n /\ focus \in 0..n
  BY DEF ChipsInv
<1>2. /\ chips' = SubSeq(chips, 1, i - 1) \o SubSeq(chips, i + 1, n)
      /\ focus' = IF n = 1 THEN 0 ELSE E!Min({focus, n - 1})
  BY DEF E!RemoveAttachment, E!RemoveAt
<1>3. focus' = IF n = 1 THEN 0 ELSE IF focus <= n - 1 THEN focus ELSE n - 1
  BY <1>1, <1>2, TwoNumbers
<1>4. /\ chips' \in Seq(E!IndexedFiles) /\ Len(chips') = n - 1
      /\ \A k \in 1..(n - 1) : chips'[k] = IF k < i THEN chips[k] ELSE chips[k + 1]
  <2> DEFINE before == SubSeq(chips, 1, i - 1)
             after == SubSeq(chips, i + 1, n)
  <2>1. /\ before \in Seq(E!IndexedFiles) /\ Len(before) = i - 1
        /\ \A k \in 1..(i - 1) : before[k] = chips[k]
    BY <1>1 DEF ChipsInv
  <2>2. /\ after \in Seq(E!IndexedFiles) /\ Len(after) = n - i
        /\ \A k \in 1..(n - i) : after[k] = chips[i + k]
    <3>1. /\ i + 1 \in Int /\ n \in Int /\ i \in Nat /\ i <= n
          /\ \A k \in (i + 1)..n : chips[k] \in E!IndexedFiles
      BY <1>1 DEF ChipsInv
    <3> HIDE DEF n
    <3>2. /\ after \in Seq(E!IndexedFiles) /\ Len(after) = IF i + 1 <= n THEN n - (i + 1) + 1 ELSE 0
          /\ \A k \in 1..(n - (i + 1) + 1) : after[k] = chips[(i + 1) + k - 1]
      BY <3>1, SubSeqProperties
    <3> HIDE DEF after
    <3>3. /\ Len(after) = n - i /\ n - (i + 1) + 1 = n - i
          /\ \A k \in 1..(n - i) : (i + 1) + k - 1 = i + k
      BY <3>1, <3>2
    <3>4. QED BY <3>2, <3>3
  <2>3. chips' = before \o after
    BY <1>2
  <2> HIDE DEF before, after, n
  <2>4. /\ chips' \in Seq(E!IndexedFiles) /\ Len(chips') = n - 1
        /\ \A k \in 1..(n - 1) : chips'[k] = IF k <= i - 1 THEN before[k] ELSE after[k - (i - 1)]
    <3>1. /\ chips' \in Seq(E!IndexedFiles) /\ Len(chips') = Len(before) + Len(after)
          /\ \A k \in 1..(Len(before) + Len(after)) :
               chips'[k] = IF k <= Len(before) THEN before[k] ELSE after[k - Len(before)]
      BY <2>1, <2>2, <2>3, ConcatProperties
    <3>2. Len(before) = i - 1 /\ Len(before) + Len(after) = n - 1
      BY <1>1, <2>1, <2>2
    <3>3. QED BY <3>1, <3>2
  <2>5. \A k \in 1..(n - 1) : k >= i => k - (i - 1) \in 1..(n - i) /\ i + (k - (i - 1)) = k + 1
    BY <1>1
  <2>6. QED BY <1>1, <2>1, <2>2, <2>4, <2>5
<1>5. E!AttachedOnce'
  <2>1. ASSUME NEW k \in 1..(n - 1), NEW l \in 1..(n - 1), chips'[k] = chips'[l] PROVE k = l
    <3>1. \A a, b \in 1..n : chips[a] = chips[b] => a = b
      BY <1>1 DEF ChipsInv, E!AttachedOnce, E!IsInjective
    <3> HIDE DEF n
    <3>2. k \in 1..n /\ l \in 1..n /\ k + 1 \in 1..n /\ l + 1 \in 1..n
      BY <1>1
    <3>3. QED BY <1>1, <1>4, <2>1, <3>1, <3>2
  <2>2. DOMAIN chips' = 1..(n - 1)
    BY <1>1, <1>4
  <2>3. QED BY <2>1, <2>2 DEF E!AttachedOnce, E!IsInjective
<1>6. chips' \in Seq(E!IndexedFiles')
  BY <1>4 DEF E!IndexedFiles
<1> HIDE DEF n
<1>7. focus' \in Nat /\ (chips' # <<>> => focus' <= n - 1)
  BY <1>1, <1>3
<1>8. QED BY <1>1, <1>4, <1>5, <1>6, <1>7 DEF ChipsInv

\* A popup whose index moves stays one, for the same text.
LEMMA MovedPopup ==
  ASSUME NEW a, IsPopup(a), NEW by \in {-1, 1}
  PROVE  /\ IsPopup(E!Moved(a, by))
         /\ a = <<>> <=> E!Moved(a, by) = <<>>
         /\ a # <<>> => /\ E!Moved(a, by)[1].kind = a[1].kind
                       /\ E!Moved(a, by)[1].query = a[1].query
                       /\ [a EXCEPT ![1].index = E!Moved(a, by)[1].index] = E!Moved(a, by)
<1>1. CASE a = <<>>
  BY <1>1 DEF E!Moved, IsPopup
<1>2. CASE a # <<>>
  <2> DEFINE p == a[1]
             at == IF p.index + by \in DOMAIN p.items THEN p.index + by ELSE p.index
             b == <<[kind |-> p.kind, query |-> p.query, index |-> at, items |-> p.items]>>
  <2>1. /\ a = <<[kind |-> p.kind, query |-> p.query, index |-> p.index, items |-> p.items]>>
        /\ p.items \in Seq(Proposed) /\ p.index \in 1..Len(p.items)
    BY <1>2 DEF IsPopup
  <2>2. E!Moved(a, by) = [a EXCEPT ![1].index = at]
    BY <1>2 DEF E!Moved
  <2>3. [a EXCEPT ![1].index = at] = b
    <3> HIDE DEF at
    <3>1. QED BY <2>1
  <2>4. at \in 1..Len(p.items)
    BY <2>1
  <2>5. /\ b # <<>> /\ b[1].kind = p.kind /\ b[1].query = p.query /\ b[1].index = at
        /\ b[1].items = p.items
    OBVIOUS
  <2>6. IsPopup(b)
    <3> HIDE DEF at, p
    <3>1. QED BY <2>1, <2>4, <2>5 DEF IsPopup
  <2> HIDE DEF at, b
  <2>7. QED BY <1>2, <2>2, <2>3, <2>5, <2>6
<1>3. QED BY <1>1, <1>2

LEMMA UpDownInv == ASSUME EditorInv, E!UpDown PROVE EditorInv'
<1>1. PICK by \in {-1, 1} :
        /\ IF E!Listing
           THEN /\ cursor' = IF cursor + by \in DOMAIN picker THEN cursor + by ELSE cursor
                /\ UNCHANGED <<ac, menu>>
           ELSE /\ (ac # <<>> \/ menu # <<>>)
                /\ IF ac # <<>>
                   THEN /\ ac' = E!Moved(ac, by)
                        /\ menu' = IF menu = <<>> THEN <<>>
                                   ELSE [menu EXCEPT ![1].index = ac'[1].index]
                   ELSE menu' = E!Moved(menu, by) /\ UNCHANGED ac
                /\ cursor' = IF inline /\ ac # <<>> THEN ac'[1].index ELSE cursor
        /\ UNCHANGED <<draft, inline, picker, chips, focus, commands, index, unseen>>
  BY DEF E!UpDown, E!attached, E!world
<1>2. ChipsInv' /\ commands' \in CommandSets /\ index' \in Indexes
  BY <1>1 DEF EditorInv, ChipsInv, E!AttachedOnce, E!IsInjective, E!IndexedFiles
<1>3. CASE E!Listing
  <2>1. PickerInv'
    <3>1. picker \in Seq(E!IndexedFiles) /\ picker # <<>> /\ cursor \in 1..Len(picker)
      BY <1>3 DEF EditorInv, PickerInv, E!Listing
    <3>2. cursor' \in 1..Len(picker)
      BY <1>1, <1>3, <3>1
    <3>3. picker' \in Seq(E!IndexedFiles') /\ inline' \in BOOLEAN
      BY <1>1, <3>1 DEF E!IndexedFiles, EditorInv, PickerInv
    <3>4. QED BY <1>1, <3>1, <3>2, <3>3 DEF PickerInv
  <2>2. MenuInv'
    BY <1>1, <1>3 DEF EditorInv, MenuInv, IsPopup, Proposed, E!MenuIsShown, E!MenuIsForText
  <2>3. QED BY <1>2, <2>1, <2>2 DEF EditorInv
<1>4. CASE ~E!Listing
  <2>1. ~inline
    BY <1>4 DEF E!Listing, EditorInv, PickerInv
  <2>2. PickerInv'
    BY <1>1, <1>4, <2>1, PickerStays DEF EditorInv
  <2>3. IsPopup(ac) /\ IsPopup(menu)
    BY DEF EditorInv, MenuInv
  <2>4. CASE ac # <<>> /\ menu # <<>>
    <3>1. ac' = E!Moved(ac, by) /\ menu = ac /\ menu' = ac'
      <4>1. menu = ac
        BY <2>4 DEF EditorInv, MenuInv, E!MenuIsShown
      <4>2. ac' = E!Moved(ac, by) /\ menu' = [ac EXCEPT ![1].index = E!Moved(ac, by)[1].index]
        BY <1>1, <1>4, <2>4, <4>1
      <4>3. QED BY <2>3, <2>4, <4>1, <4>2, MovedPopup
    <3>2. /\ IsPopup(E!Moved(ac, by)) /\ E!Moved(ac, by) # <<>>
          /\ E!Moved(ac, by)[1].kind = ac[1].kind /\ E!Moved(ac, by)[1].query = ac[1].query
      BY <2>3, <2>4, MovedPopup
    <3>3. IsPopup(ac') /\ IsPopup(menu')
      BY <3>1, <3>2 DEF IsPopup, Proposed
    <3>4. MenuInv'
      BY <1>1, <2>4, <3>1, <3>2, <3>3 DEF EditorInv, MenuInv, E!MenuIsShown, E!MenuIsForText
    <3>5. QED BY <1>2, <2>2, <3>4 DEF EditorInv
  <2>5. CASE ac = <<>> /\ menu # <<>>
    <3>1. ac' = <<>> /\ menu' = E!Moved(menu, by)
      BY <1>1, <1>4, <2>5
    <3>2. /\ IsPopup(E!Moved(menu, by)) /\ E!Moved(menu, by)[1].kind = menu[1].kind
          /\ E!Moved(menu, by)[1].query = menu[1].query
      BY <2>3, <2>5, MovedPopup
    <3>3. IsPopup(ac') /\ IsPopup(menu')
      BY <3>1, <3>2 DEF IsPopup, Proposed
    <3>4. MenuInv'
      BY <1>1, <2>5, <3>1, <3>2, <3>3 DEF EditorInv, MenuInv, E!MenuIsShown, E!MenuIsForText
    <3>5. QED BY <1>2, <2>2, <3>4 DEF EditorInv
  <2>6. CASE menu = <<>>
    <3>1. menu' = <<>> /\ ac' = E!Moved(ac, by)
      BY <1>1, <1>4, <2>6
    <3>2. IsPopup(ac')
      <4>1. IsPopup(E!Moved(ac, by))
        BY <2>3, MovedPopup
      <4>2. QED BY <3>1, <4>1 DEF IsPopup, Proposed
    <3>3. QED BY <1>2, <2>2, <3>1, <3>2, NoMenu DEF EditorInv
  <2>7. QED BY <2>4, <2>5, <2>6
<1>5. QED BY <1>3, <1>4

\* What stays when the popups do, but for the text, or goes away with the menu.
LEMMA MenuStays ==
  ASSUME MenuInv, UNCHANGED <<ac, menu>>, menu = <<>> \/ unseen' \/ UNCHANGED <<draft, unseen>>
  PROVE  MenuInv'
BY DEF MenuInv, IsPopup, Proposed, E!MenuIsShown, E!MenuIsForText

LEMMA MenuLeaves ==
  ASSUME MenuInv, menu' = <<>>, UNCHANGED ac \/ ac' = <<>>
  PROVE  MenuInv'
<1>1. IsPopup(ac')
  BY DEF MenuInv, IsPopup, Proposed
<1>2. QED BY <1>1, NoMenu

LEMMA ChipsStay == ASSUME ChipsInv, UNCHANGED <<chips, focus>> PROVE ChipsInv'
BY DEF ChipsInv, E!AttachedOnce, E!IsInjective, E!IndexedFiles

LEMMA NoChips == ASSUME chips' = <<>>, focus' \in Nat PROVE ChipsInv'
BY DEF ChipsInv, E!AttachedOnce, E!IsInjective, E!IndexedFiles

\* Every step of the editor keeps the invariant.
LEMMA EditorKept ==
  ASSUME E!ComposerAssumption, EditorInv, [E!Next]_(E!vars)
  PROVE  EditorInv'
<1> USE DEF EditorInv
<1>1. ASSUME E!Type PROVE EditorInv'
  <2>1. PICK t : draft' = t /\ E!UpdateAutocomplete(t) /\ focus' = (IF t = draft THEN focus ELSE 0)
    BY <1>1 DEF E!Type
  <2>2. UNCHANGED <<chips, commands, index>>
    BY <1>1 DEF E!Type, E!world
  <2>3. PickerInv' /\ MenuInv'
    BY <2>1, UpdateFileInv, UpdateCommandInv, UpdateOtherInv DEF E!UpdateAutocomplete
  <2>4. ChipsInv'
    <3>1. focus' \in Nat /\ focus' <= focus
      BY <2>1 DEF ChipsInv
    <3>2. QED BY <2>2, <3>1 DEF ChipsInv, E!AttachedOnce, E!IsInjective, E!IndexedFiles
  <2>5. QED BY <2>2, <2>3, <2>4
<1>2. ASSUME E!SetValue PROVE EditorInv'
  BY <1>2, PickerStays, MenuStays, ChipsStay DEF E!SetValue, E!popups, E!attached, E!world
<1>3. ASSUME E!Clear PROVE EditorInv'
  <2>1. focus' \in Nat
    BY <1>3 DEF E!Clear, ChipsInv
  <2>2. QED BY <1>3, <2>1, PickerStays, MenuLeaves, NoChips DEF E!Clear, E!Dismiss, E!world
<1>4. ASSUME E!Esc PROVE EditorInv'
  BY <1>4, PickerStays, MenuLeaves, ChipsStay
     DEF E!Esc, E!Dismiss, E!CloseInline, E!attached, E!world
<1>5. ASSUME E!Tab PROVE EditorInv'
  <2>1. UNCHANGED <<inline, picker, cursor, chips, focus, commands, index, unseen>> /\ ac' = <<>>
    BY <1>5 DEF E!Tab, E!attached, E!world
  <2>2. menu' = <<>>
    <3>1. ac # <<>> /\ ac[1].kind = "ext" => menu = <<>>
      BY DEF MenuInv, E!MenuIsShown
    <3>2. QED BY <1>5, <3>1 DEF E!Tab, E!ApplySlash
  <2>3. QED BY <2>1, <2>2, PickerStays, MenuLeaves, ChipsStay
<1>6. ASSUME E!EnterFile PROVE EditorInv'
  <2>1. /\ ac' = <<>> /\ menu' = <<>> /\ inline' = FALSE /\ picker' = <<>> /\ cursor' = 1
        /\ UNCHANGED <<commands, index>>
    BY <1>6 DEF E!EnterFile, E!Dismiss, E!CloseInline, E!world
  <2>2. ChipsInv'
    <3>1. picker[cursor] \in E!IndexedFiles
      <4>1. picker \in Seq(E!IndexedFiles) /\ cursor \in 1..Len(picker)
        <5>1. picker # <<>>
          BY <1>6 DEF E!EnterFile, E!Listing
        <5>2. QED BY <5>1 DEF PickerInv
      <4>2. QED BY <4>1
    <3>2. E!Attached(picker[cursor]) \/ UNCHANGED <<chips, focus>>
      BY <1>6 DEF E!EnterFile, E!attached
    <3>3. QED BY <3>1, <3>2, AttachedInv, ChipsStay
  <2>3. QED BY <2>1, <2>2, PickerStays, MenuLeaves
<1>7. ASSUME E!EnterMenu PROVE EditorInv'
  BY <1>7, PickerStays, MenuLeaves, ChipsStay
     DEF E!EnterMenu, E!ApplySlash, E!attached, E!world
<1>8. ASSUME E!Submit PROVE EditorInv'
  <2>1. \/ UNCHANGED <<chips, focus>>
        \/ chips' = <<>> /\ focus' \in Nat
    <3>1. \/ UNCHANGED <<chips, focus>>
          \/ chips' = <<>> /\ focus' = 0
      BY <1>8 DEF E!Submit, E!attached
    <3>2. QED BY <3>1
  <2>2. QED BY <1>8, <2>1, PickerStays, MenuLeaves, ChipsStay, NoChips DEF E!Submit, E!world
<1>9. ASSUME E!AttachmentKey PROVE EditorInv'
  <2>1. UNCHANGED <<draft, ac, menu, inline, picker, cursor, commands, index, unseen>>
    BY <1>9 DEF E!AttachmentKey, E!popups, E!world
  <2>2. chips # <<>> /\ Len(chips) \in Nat \ {0} /\ focus \in 0..Len(chips)
    <3>1. chips # <<>>
      BY <1>9 DEF E!AttachmentKey
    <3>2. QED BY <3>1 DEF ChipsInv
  <2>3. CASE E!RemoveAttachment(IF focus > 0 THEN focus ELSE Len(chips))
    <3>1. (IF focus > 0 THEN focus ELSE Len(chips)) \in 1..Len(chips)
      BY <2>2
    <3>2. ChipsInv'
      BY <2>2, <2>3, <3>1, RemovedInv
    <3>3. QED BY <2>1, <3>2, PickerStays, MenuStays
  <2>4. CASE chips' = chips /\ focus' \in {E!Max({1, focus - 1}), E!Min({Len(chips), focus + 1})}
    <3>1. focus' \in 0..Len(chips)
      <4>1. /\ E!Max({1, focus - 1}) = IF 1 <= focus - 1 THEN focus - 1 ELSE 1
            /\ E!Min({Len(chips), focus + 1})
                 = IF Len(chips) <= focus + 1 THEN Len(chips) ELSE focus + 1
        <5>1. 1 \in Int /\ focus - 1 \in Int /\ Len(chips) \in Int /\ focus + 1 \in Int
          BY <2>2
        <5>2. QED BY <5>1, TwoNumbers
      <4>2. QED BY <2>2, <2>4, <4>1
    <3>2. ChipsInv'
      BY <2>2, <2>4, <3>1 DEF ChipsInv, E!AttachedOnce, E!IsInjective, E!IndexedFiles
    <3>3. QED BY <2>1, <3>2, PickerStays, MenuStays
  <2>5. QED BY <1>9, <2>3, <2>4 DEF E!AttachmentKey
<1>10. ASSUME E!Changes PROVE EditorInv'
  BY <1>10, PickerStays, MenuStays, ChipsStay DEF E!Changes, E!popups, E!attached
<1>11. ASSUME NEW f \in E!IndexedFiles, E!Attach(f) PROVE EditorInv'
  BY <1>11, PickerStays, MenuStays, AttachedInv DEF E!Attach, E!popups, E!world
<1>12. CASE UNCHANGED E!vars
  BY <1>12, PickerStays, MenuStays, ChipsStay DEF E!vars, E!popups, E!attached, E!world
<1>13. QED
  BY <1>1, <1>2, <1>3, <1>4, <1>5, <1>6, <1>7, <1>8, <1>9, <1>10, <1>11, <1>12, UpDownInv
     DEF E!Next

\* The row that is marked is drawn, wherever the popup is scrolled.
LEMMA RowIsDrawn ==
  ASSUME Rows \in Nat \ {0}, NEW total \in Nat, NEW at \in 1..total
  PROVE  /\ at \in E!ScrollStart(at, total)..(E!ScrollStart(at, total) + Rows - 1)
         /\ E!ScrollStart(at, total) + Rows - 1 <= E!Max({Rows, total})
<1> DEFINE half == at - Rows \div 2
           last == total - Rows + 1
           start == E!ScrollStart(at, total)
<1>1. Rows \div 2 \in Nat /\ 2 * (Rows \div 2) <= Rows /\ Rows < 2 * (Rows \div 2) + 2
  OBVIOUS
<1>2. /\ half \in Int
      /\ E!Max({Rows, total}) = IF Rows <= total THEN total ELSE Rows
      /\ E!Min({half, last}) = IF half <= last THEN half ELSE last
  <2>1. half \in Int /\ last \in Int /\ Rows \in Int /\ total \in Int
    BY <1>1
  <2> HIDE DEF half, last
  <2>2. QED BY <2>1, TwoNumbers
<1>3. start = IF total <= Rows \/ half < 1 THEN 1
              ELSE IF half <= last THEN half ELSE last
  BY <1>2 DEF E!ScrollStart
<1>4. half <= at /\ at <= half + Rows - 1
  BY <1>1
<1> HIDE DEF start
<1>5. QED BY <1>1, <1>2, <1>3, <1>4 DEF start

\* What the invariant says of the keys.
LEMMA EditorSound == ASSUME E!ComposerAssumption, EditorInv PROVE E!KeysActOnMenu
<1>1. E!IndicesInLists
  BY DEF EditorInv, MenuInv, IsPopup, PickerInv, ChipsInv, E!IndicesInLists, E!Listing
<1>2. E!MarkedIsDrawn
  <2>1. ASSUME NEW popup \in {ac, menu}, popup # <<>>
        PROVE  popup[1].index \in 1..Len(popup[1].items) /\ Len(popup[1].items) \in Nat
    BY <2>1 DEF EditorInv, MenuInv, IsPopup
  <2>2. Rows \in Nat \ {0}
    BY DEF E!ComposerAssumption
  <2>3. QED BY <2>1, <2>2, RowIsDrawn DEF E!MarkedIsDrawn
<1>3. QED BY <1>1, <1>2 DEF EditorInv, MenuInv, ChipsInv, E!KeysActOnMenu

\* In the editor no key indexes a list beyond its end, Enter completes what the popup marks and
\* for the word that it was proposed for, and a file is attached once (slashmenu.go,
\* autocomplete.go, filepicker.go, attachments_ui.go).
LEMMA EditorKeys == E!Spec => []E!KeysActOnMenu
<1>1. E!ComposerAssumption
  BY PartsAssumption
<1>2. E!Init => EditorInv
  <2>1. SUFFICES ASSUME E!Init PROVE EditorInv
    OBVIOUS
  <2>2. inline \in BOOLEAN /\ ~inline
    BY <2>1 DEF E!Init
  <2>3. PickerInv
    <3>1. picker = <<>> /\ cursor = 1
      BY <2>1 DEF E!Init
    <3>2. picker \in Seq(E!IndexedFiles) /\ cursor \in Nat \ {0}
      BY <3>1
    <3>3. QED BY <2>2, <3>1, <3>2 DEF PickerInv
  <2>4. MenuInv
    BY <2>1 DEF E!Init, MenuInv, IsPopup, E!MenuIsShown, E!MenuIsForText
  <2>5. ChipsInv
    <3>1. chips = <<>> /\ focus = 0
      BY <2>1 DEF E!Init
    <3>2. chips \in Seq(E!IndexedFiles) /\ focus \in Nat /\ E!AttachedOnce
      BY <3>1 DEF E!AttachedOnce, E!IsInjective
    <3>3. QED BY <3>1, <3>2 DEF ChipsInv
  <2>6. QED BY <2>1, <2>3, <2>4, <2>5 DEF E!Init, EditorInv
<1>3. EditorInv /\ [E!Next]_(E!vars) => EditorInv'
  BY <1>1, EditorKept
<1>4. EditorInv => E!KeysActOnMenu
  BY <1>1, EditorSound
<1>5. QED BY <1>2, <1>3, <1>4, PTL DEF E!Spec

-----------------------------------------------------------------------------
(* The overlays: TuiOverlays, for any models, sessions and other lists.    *)

Modes ==
  {"none", "scoped", "list", "sessions", "rename", "confirm", "component", "inline", "other"}

\* A frame on the stack or on top of it.
IsFrame(f) ==
  f \in [mode : Modes, cursor : Nat \ {0}, names : Seq(O!ToSet(Models) \cup O!ToSet(Others)),
         sess : Seq(O!ToSet(Files)), kept : BOOLEAN]

\* It has its cursor in its list, and lists sessions that exist.
IsSound(f, existing) ==
  /\ IsFrame(f)
  /\ f.kept /\ O!ListOf(f) # <<>> => f.cursor \in DOMAIN O!ListOf(f)
  /\ f.mode \in {"sessions", "rename"} => O!ToSet(f.sess) \subseteq existing

\* The question that would be answered first names the session that "y" deletes.
Asked(below, shown, session) ==
  /\ shown.mode = "confirm" => session \in {<<>>, shown.sess}
  /\ shown.mode # "confirm" =>
       \A i \in DOMAIN below :
         below[i].mode = "confirm"
           /\ (\A j \in DOMAIN below : j > i => below[j].mode # "confirm")
           => session \in {<<>>, below[i].sess}

StackInv ==
  /\ \E n \in Nat : stack = [i \in 1..n |-> stack[i]]
  /\ \A i \in DOMAIN stack : IsSound(stack[i], files)
  /\ IsSound(top, files)

FramesInv ==
  /\ files \subseteq O!ToSet(Files) /\ desc \in BOOLEAN /\ namedOnly \in BOOLEAN
  /\ StackInv /\ Asked(stack, top, deleting)

\* A frame that is new is a sound one, when its list is.
LEMMA NewFrame ==
  ASSUME NEW mode \in {"none", "scoped", "list", "sessions", "component", "other", "confirm"},
         NEW names \in Seq(O!ToSet(Models) \cup O!ToSet(Others)),
         NEW sess \in Seq(O!ToSet(Files)), NEW existing,
         mode = "sessions" => O!ToSet(sess) \subseteq existing
  PROVE  IsSound(O!Frame(mode, names, sess), existing)
<1> DEFINE f == O!Frame(mode, names, sess)
<1>1. f = [mode |-> mode, cursor |-> 1, names |-> names, sess |-> sess, kept |-> TRUE]
  BY DEF O!Frame
<1>2. O!ListOf(f) = <<>> \/ O!ListOf(f) = names \/ O!ListOf(f) = sess
  BY <1>1 DEF O!ListOf
<1>3. O!ListOf(f) # <<>> => 1 \in DOMAIN O!ListOf(f)
  BY <1>2
<1> HIDE DEF f
<1>4. IsFrame(f)
  <2>1. mode \in Modes
    BY DEF Modes
  <2>2. QED BY <1>1, <2>1 DEF IsFrame
<1>5. QED BY <1>1, <1>3, <1>4 DEF f, IsSound

\* The frames below are the same, or one more.
LEMMA Pushed ==
  ASSUME FramesInv, NEW below, NEW shown, O!Push(below, shown),
         below.mode = top.mode, below.sess = top.sess, IsSound(below, files),
         files' = files, IsSound(shown, files),
         shown.mode = "confirm" => deleting' = shown.sess,
         shown.mode # "confirm" => deleting' = deleting
  PROVE  StackInv' /\ Asked(stack, top, deleting)'
<1>1. PICK n \in Nat : stack = [i \in 1..n |-> stack[i]]
  BY DEF FramesInv, StackInv
<1>2. top' = shown /\ stack' = IF below.mode = "none" THEN stack ELSE Append(stack, below)
  BY DEF O!Push
<1>3. CASE below.mode = "none"
  <2>1. StackInv'
    BY <1>2, <1>3 DEF FramesInv, StackInv
  <2>2. Asked(stack, top, deleting)'
    BY <1>2, <1>3 DEF FramesInv, Asked
  <2>3. QED BY <2>1, <2>2
<1>4. CASE below.mode # "none"
  <2>1. /\ DOMAIN stack = 1..n /\ DOMAIN stack' = 1..(n + 1) /\ stack'[n + 1] = below
        /\ \A i \in 1..n : stack'[i] = stack[i]
        /\ stack' = [i \in 1..(n + 1) |-> stack'[i]]
    BY <1>1, <1>2, <1>4
  <2>2. \A i \in 1..(n + 1) : i \in 1..n \/ i = n + 1
    OBVIOUS
  <2>3. StackInv'
    <3>1. IsSound(shown, files') /\ \A i \in DOMAIN stack' : IsSound(stack'[i], files')
      BY <2>1, <2>2 DEF FramesInv, StackInv
    <3>2. n + 1 \in Nat
      OBVIOUS
    <3>3. QED BY <1>2, <2>1, <3>1, <3>2 DEF StackInv
  <2>4. Asked(stack, top, deleting)'
    <3>1. SUFFICES ASSUME shown.mode # "confirm", NEW i \in DOMAIN stack',
                          stack'[i].mode = "confirm",
                          \A j \in DOMAIN stack' : j > i => stack'[j].mode # "confirm"
                   PROVE  deleting \in {<<>>, stack'[i].sess}
      BY <1>2 DEF Asked
    <3>2. CASE i = n + 1
      BY <2>1, <3>1, <3>2 DEF FramesInv, Asked
    <3>3. CASE i \in 1..n
      <4>1. below.mode # "confirm"
        BY <2>1, <3>1, <3>3
      <4>2. \A j \in 1..n : j > i => stack[j].mode # "confirm"
        BY <2>1, <3>1
      <4>3. QED BY <2>1, <3>1, <3>3, <4>1, <4>2 DEF FramesInv, Asked
    <3>4. QED BY <2>1, <2>2, <3>2, <3>3
  <2>5. QED BY <2>3, <2>4
<1>5. QED BY <1>3, <1>4

\* What is below comes back, after an answer to a question or without one.
LEMMA Popped ==
  ASSUME FramesInv, O!Pop, files' = files,
         top.mode = "confirm" => deleting' = <<>>,
         top.mode # "confirm" => deleting' = deleting
  PROVE  StackInv' /\ Asked(stack, top, deleting)'
<1>1. PICK n \in Nat : stack = [i \in 1..n |-> stack[i]]
  BY DEF FramesInv, StackInv
<1>2. CASE stack = <<>>
  <2>1. top' = O!Nothing /\ stack' = <<>>
    BY <1>2 DEF O!Pop
  <2>2. IsSound(O!Nothing, files) /\ O!Nothing.mode = "none"
    <3>1. <<>> \in Seq(O!ToSet(Models) \cup O!ToSet(Others)) /\ <<>> \in Seq(O!ToSet(Files))
      OBVIOUS
    <3>2. IsSound(O!Nothing, files)
      BY <3>1, NewFrame DEF O!Nothing
    <3>3. QED BY <3>2 DEF O!Nothing, O!Frame
  <2>3. StackInv'
    BY <1>1, <1>2, <2>1, <2>2 DEF StackInv
  <2>4. QED BY <2>1, <2>2, <2>3 DEF Asked
<1>3. CASE stack # <<>>
  <2>1. n \in Nat \ {0} /\ Len(stack) = n /\ DOMAIN stack = 1..n
    BY <1>1, <1>3
  <2>2. top' = stack[n] /\ stack' = SubSeq(stack, 1, n - 1)
    BY <1>3, <2>1 DEF O!Pop, O!Last, O!Front
  <2>3. /\ stack' = [i \in 1..(n - 1) |-> stack[i]] /\ DOMAIN stack' = 1..(n - 1)
        /\ \A i \in 1..(n - 1) : stack'[i] = stack[i]
    BY <1>1, <2>1, <2>2
  <2>4. n - 1 \in Nat /\ n \in 1..n /\ \A i \in 1..n : i \in 1..(n - 1) \/ i = n
    BY <2>1
  <2>5. StackInv'
    <3>1. IsSound(top', files') /\ \A i \in DOMAIN stack' : IsSound(stack'[i], files')
      BY <2>1, <2>2, <2>3, <2>4 DEF FramesInv, StackInv
    <3>2. QED BY <2>3, <2>4, <3>1 DEF StackInv
  <2>6. Asked(stack, top, deleting)'
    <3>1. CASE top.mode = "confirm"
      BY <3>1 DEF Asked
    <3>2. CASE top.mode # "confirm"
      <4>1. ASSUME stack[n].mode = "confirm" PROVE deleting \in {<<>>, stack[n].sess}
        <5>1. \A j \in DOMAIN stack : ~(j > n)
          BY <2>1
        <5>2. QED BY <2>1, <2>4, <3>2, <4>1, <5>1 DEF FramesInv, Asked
      <4>2. ASSUME stack[n].mode # "confirm", NEW i \in 1..(n - 1), stack[i].mode = "confirm",
                   \A j \in 1..(n - 1) : j > i => stack[j].mode # "confirm"
            PROVE  deleting \in {<<>>, stack[i].sess}
        <5>1. i \in DOMAIN stack /\ \A j \in DOMAIN stack : j > i => stack[j].mode # "confirm"
          BY <2>1, <2>4, <4>2
        <5>2. QED BY <3>2, <4>2, <5>1 DEF FramesInv, Asked
      <4>3. ASSUME NEW i \in 1..(n - 1), stack'[i].mode = "confirm", top'.mode # "confirm",
                   \A j \in 1..(n - 1) : j > i => stack'[j].mode # "confirm"
            PROVE  deleting' \in {<<>>, stack'[i].sess}
        BY <2>2, <2>3, <3>2, <4>2, <4>3
      <4>4. top'.mode = "confirm" => deleting' \in {<<>>, top'.sess}
        BY <2>2, <3>2, <4>1
      <4>5. QED BY <2>3, <4>3, <4>4 DEF Asked
    <3>3. QED BY <3>1, <3>2
  <2>7. QED BY <2>5, <2>6
<1>4. QED BY <1>2, <1>3

\* Only what is on top changes, and is no question.
LEMMA InPlace ==
  ASSUME FramesInv, UNCHANGED <<stack, files, deleting>>, IsSound(top', files),
         top.mode # "confirm", top'.mode # "confirm"
  PROVE  StackInv' /\ Asked(stack, top, deleting)'
<1>1. StackInv'
  BY DEF FramesInv, StackInv
<1>2. QED BY <1>1 DEF FramesInv, Asked

LEMMA OthersUnchanged ==
  ASSUME FramesInv, UNCHANGED <<files, desc, namedOnly>>,
         StackInv' /\ Asked(stack, top, deleting)'
  PROVE  FramesInv'
BY DEF FramesInv

\* What the lists of frames are made of.
LEMMA ListedSessions ==
  ASSUME O!OverlayAssumption, NEW s, s \subseteq O!ToSet(Files), NEW descending, NEW named
  PROVE  /\ O!Sorted(s, descending, named) \in Seq(O!ToSet(Files))
         /\ O!ToSet(O!Sorted(s, descending, named)) \subseteq s
<1> DEFINE wanted == IF named /\ s \cap Named # {} THEN s \cap Named ELSE s
           listed == Among(Files, wanted)
<1>1. listed \in Seq(O!ToSet(Files) \cap wanted)
  BY FoundAmong DEF O!OverlayAssumption
<1>2. O!Sorted(s, descending, named) = IF descending THEN O!Reverse(listed) ELSE listed
  BY SameAmong DEF O!Sorted
<1>3. wanted \subseteq s
  OBVIOUS
<1> HIDE DEF wanted, listed
<1>4. listed \in Seq(s)
  BY <1>1, <1>3
<1>5. O!Reverse(listed) \in Seq(s)
  BY <1>4 DEF O!Reverse
<1>6. O!Sorted(s, descending, named) \in Seq(s)
  BY <1>2, <1>4, <1>5
<1>7. QED BY <1>6 DEF O!ToSet

LEMMA ListedNames ==
  ASSUME O!OverlayAssumption, NEW on
  PROVE  /\ Others \in Seq(O!ToSet(Models) \cup O!ToSet(Others))
         /\ <<>> \in Seq(O!ToSet(Models) \cup O!ToSet(Others)) /\ <<>> \in Seq(O!ToSet(Files))
         /\ O!Available \in Seq(O!ToSet(Models) \cup O!ToSet(Others))
         /\ O!OfProvider(on) \in Seq(O!ToSet(Models) \cup O!ToSet(Others))
<1>1. Models \in Seq(O!ToSet(Models)) /\ Others \in Seq(O!ToSet(Others))
  BY DEF O!OverlayAssumption
<1>2. ASSUME NEW S PROVE Among(Models, S) \in Seq(O!ToSet(Models) \cup O!ToSet(Others))
  <2>1. Among(Models, S) \in Seq(O!ToSet(Models) \cap S)
    BY <1>1, FoundAmong
  <2>2. QED BY <2>1
<1>3. QED BY <1>1, <1>2, SameAmong DEF O!Available, O!OfProvider

\* The frame on top, when the list of names behind it is replaced.
LEMMA ReplacedFrame ==
  ASSUME StackInv, NEW names \in Seq(O!ToSet(Models) \cup O!ToSet(Others))
  PROVE  /\ IsSound(O!Replaced(names), files)
         /\ O!Replaced(names).mode = top.mode /\ O!Replaced(names).sess = top.sess
<1> DEFINE f == O!Replaced(names)
           same == top.mode \in {"scoped", "list"} => names = top.names
<1>1. IsFrame(top) /\ (top.kept /\ O!ListOf(top) # <<>> => top.cursor \in DOMAIN O!ListOf(top))
      /\ (top.mode \in {"sessions", "rename"} => O!ToSet(top.sess) \subseteq files)
  BY DEF StackInv, IsSound
<1>2. ASSUME NEW x \in BOOLEAN
      PROVE  LET g == [top EXCEPT !.names = names, !.kept = x]
             IN  /\ IsFrame(g) /\ g.mode = top.mode /\ g.cursor = top.cursor /\ g.names = names
                 /\ g.sess = top.sess /\ g.kept = x
  BY <1>1 DEF IsFrame
<1>3. same \in BOOLEAN /\ top.kept \in BOOLEAN
  BY <1>1 DEF IsFrame
<1>4. /\ IsFrame(f) /\ f.mode = top.mode /\ f.cursor = top.cursor /\ f.names = names
      /\ f.sess = top.sess /\ f.kept = (top.kept /\ same)
  <2>1. f = [top EXCEPT !.names = names, !.kept = top.kept /\ same]
    BY DEF O!Replaced
  <2>2. (top.kept /\ same) \in BOOLEAN
    OBVIOUS
  <2> HIDE DEF f, same
  <2>3. QED BY <1>2, <2>1, <2>2
<1> HIDE DEF f
<1>5. f.kept /\ O!ListOf(f) # <<>> => f.cursor \in DOMAIN O!ListOf(f)
  <2>1. f.kept => top.kept /\ same
    BY <1>4
  <2>2. same => O!ListOf(f) = O!ListOf(top)
    BY <1>4 DEF O!ListOf
  <2>3. QED BY <1>1, <1>4, <2>1, <2>2
<1>6. QED BY <1>1, <1>4, <1>5 DEF f, IsSound

\* A frame that is changed by the keys of its overlay.
LEMMA EditedFrame ==
  ASSUME StackInv
  PROVE  /\ IsSound([top EXCEPT !.mode = "inline", !.cursor = 1], files)
         /\ top.mode = "rename" => IsSound([top EXCEPT !.mode = "sessions"], files)
         /\ top.mode = "sessions" => IsSound([top EXCEPT !.mode = "rename"], files)
<1>1. IsFrame(top) /\ (top.kept /\ O!ListOf(top) # <<>> => top.cursor \in DOMAIN O!ListOf(top))
      /\ (top.mode \in {"sessions", "rename"} => O!ToSet(top.sess) \subseteq files)
  BY DEF StackInv, IsSound
<1>2. ASSUME NEW m \in Modes, NEW c \in Nat \ {0}
      PROVE  LET f == [top EXCEPT !.mode = m, !.cursor = c]
             IN  /\ IsFrame(f) /\ f.mode = m /\ f.cursor = c /\ f.names = top.names
                 /\ f.sess = top.sess /\ f.kept = top.kept
  BY <1>1 DEF IsFrame
<1>3. ASSUME NEW m \in Modes
      PROVE  LET f == [top EXCEPT !.mode = m]
             IN  /\ IsFrame(f) /\ f.mode = m /\ f.cursor = top.cursor /\ f.names = top.names
                 /\ f.sess = top.sess /\ f.kept = top.kept
  BY <1>1 DEF IsFrame
<1>4. IsSound([top EXCEPT !.mode = "inline", !.cursor = 1], files)
  <2> DEFINE f == [top EXCEPT !.mode = "inline", !.cursor = 1]
  <2>1. IsFrame(f) /\ f.mode = "inline"
    <3>1. "inline" \in Modes /\ 1 \in Nat \ {0}
      BY DEF Modes
    <3>2. QED BY <1>2, <3>1
  <2> HIDE DEF f
  <2>2. O!ListOf(f) = <<>>
    BY <2>1 DEF O!ListOf
  <2>3. IsSound(f, files)
    BY <2>1, <2>2 DEF IsSound
  <2>4. QED BY <2>3 DEF f
<1>5. ASSUME top.mode = "rename" PROVE IsSound([top EXCEPT !.mode = "sessions"], files)
  <2> DEFINE f == [top EXCEPT !.mode = "sessions"]
  <2>1. /\ IsFrame(f) /\ f.mode = "sessions" /\ f.sess = top.sess /\ f.kept = top.kept
        /\ f.cursor = top.cursor
    BY <1>3 DEF Modes
  <2> HIDE DEF f
  <2>2. O!ListOf(f) = O!ListOf(top)
    BY <1>5, <2>1 DEF O!ListOf
  <2>3. f.kept /\ O!ListOf(f) # <<>> => f.cursor \in DOMAIN O!ListOf(f)
    BY <1>1, <2>1, <2>2
  <2>4. O!ToSet(f.sess) \subseteq files
    BY <1>1, <1>5, <2>1
  <2>5. IsSound(f, files)
    BY <2>1, <2>3, <2>4 DEF IsSound
  <2>6. QED BY <2>5 DEF f
<1>6. ASSUME top.mode = "sessions" PROVE IsSound([top EXCEPT !.mode = "rename"], files)
  <2> DEFINE f == [top EXCEPT !.mode = "rename"]
  <2>1. /\ IsFrame(f) /\ f.mode = "rename" /\ f.sess = top.sess /\ f.kept = top.kept
        /\ f.cursor = top.cursor
    BY <1>3 DEF Modes
  <2> HIDE DEF f
  <2>2. O!ListOf(f) = O!ListOf(top)
    BY <1>6, <2>1 DEF O!ListOf
  <2>3. f.kept /\ O!ListOf(f) # <<>> => f.cursor \in DOMAIN O!ListOf(f)
    BY <1>1, <2>1, <2>2
  <2>4. O!ToSet(f.sess) \subseteq files
    BY <1>1, <1>6, <2>1
  <2>5. IsSound(f, files)
    BY <2>1, <2>3, <2>4 DEF IsSound
  <2>6. QED BY <2>5 DEF f
<1>7. QED BY <1>4, <1>5, <1>6

\* The cursor on another row, and the list in another order.
LEMMA MovedFrame ==
  ASSUME StackInv, O!InList, NEW at \in Nat \ {0},
         top.kept /\ O!ListOf(top) # <<>> => at \in DOMAIN O!ListOf(top)
  PROVE  IsSound([top EXCEPT !.cursor = at], files)
<1> DEFINE f == [top EXCEPT !.cursor = at]
<1>1. IsFrame(top) /\ (top.mode \in {"sessions", "rename"} => O!ToSet(top.sess) \subseteq files)
  BY DEF StackInv, IsSound
<1>2. /\ IsFrame(f) /\ f.mode = top.mode /\ f.cursor = at /\ f.names = top.names
      /\ f.sess = top.sess /\ f.kept = top.kept
  BY <1>1 DEF IsFrame
<1> HIDE DEF f
<1>3. O!ListOf(f) = O!ListOf(top)
  BY <1>2 DEF O!ListOf
<1>4. QED BY <1>1, <1>2, <1>3 DEF f, IsSound

LEMMA SwappedFrame ==
  ASSUME StackInv, top.mode = "scoped", NEW i \in DOMAIN top.names,
         top.cursor \in DOMAIN top.names
  PROVE  IsSound([top EXCEPT !.names = [top.names EXCEPT ![i] = top.names[top.cursor],
                                                         ![top.cursor] = top.names[i]],
                             !.cursor = i], files)
<1> DEFINE moved == [top.names EXCEPT ![i] = top.names[top.cursor], ![top.cursor] = top.names[i]]
           f == [top EXCEPT !.names = moved, !.cursor = i]
           Names == O!ToSet(Models) \cup O!ToSet(Others)
<1>1. IsFrame(top) /\ top.names \in Seq(Names)
  BY DEF StackInv, IsSound, IsFrame
<1>2. moved \in Seq(Names) /\ DOMAIN moved = DOMAIN top.names /\ i \in Nat \ {0}
  <2> HIDE DEF Names
  <2>1. QED BY <1>1
<1> HIDE DEF moved
<1>3. /\ IsFrame(f) /\ f.mode = top.mode /\ f.cursor = i /\ f.names = moved
  BY <1>1, <1>2 DEF IsFrame
<1> HIDE DEF f
<1>4. O!ListOf(f) = moved
  BY <1>3 DEF O!ListOf
<1>5. QED BY <1>2, <1>3, <1>4 DEF f, moved, IsSound

\* The sessions that are listed, in the other order.
LEMMA SortedFrame ==
  ASSUME FramesInv, O!OverlayAssumption, top.mode = "sessions", NEW descending, NEW named
  PROVE  IsSound([top EXCEPT !.sess = O!Sorted(O!ToSet(top.sess), descending, named),
                             !.cursor = 1], files)
<1> DEFINE s == O!Sorted(O!ToSet(top.sess), descending, named)
           f == [top EXCEPT !.sess = s, !.cursor = 1]
<1>1. IsFrame(top) /\ O!ToSet(top.sess) \subseteq files /\ files \subseteq O!ToSet(Files)
  BY DEF FramesInv, StackInv, IsSound
<1>2. s \in Seq(O!ToSet(Files)) /\ O!ToSet(s) \subseteq files
  <2>1. O!ToSet(top.sess) \subseteq O!ToSet(Files)
    BY <1>1
  <2>2. QED BY <1>1, <2>1, ListedSessions
<1> HIDE DEF s
<1>3. /\ IsFrame(f) /\ f.mode = "sessions" /\ f.cursor = 1 /\ f.sess = s
  <2>1. ASSUME NEW c \in Nat \ {0}, NEW t \in Seq(O!ToSet(Files))
        PROVE  LET g == [top EXCEPT !.sess = t, !.cursor = c]
               IN  IsFrame(g) /\ g.mode = top.mode /\ g.cursor = c /\ g.sess = t
    BY <1>1 DEF IsFrame
  <2>2. 1 \in Nat \ {0}
    OBVIOUS
  <2>3. QED BY <1>2, <2>1, <2>2
<1> HIDE DEF f
<1>4. O!ListOf(f) = s
  BY <1>3 DEF O!ListOf
<1>5. s # <<>> => 1 \in DOMAIN s
  BY <1>2
<1>6. QED BY <1>2, <1>3, <1>4, <1>5 DEF f, s, IsSound

\* The sessions on disk, opened as a list.
LEMMA OpenedSessions ==
  ASSUME O!OverlayAssumption, NEW existing, existing \subseteq O!ToSet(Files),
         NEW descending, NEW named
  PROVE  LET s == O!Sorted(existing, descending, named)
         IN  IsSound(O!Frame("sessions", <<>>, s), existing)
<1> DEFINE s == O!Sorted(existing, descending, named)
<1>1. s \in Seq(O!ToSet(Files)) /\ O!ToSet(s) \subseteq existing
  BY ListedSessions
<1>2. <<>> \in Seq(O!ToSet(Models) \cup O!ToSet(Others))
  OBVIOUS
<1> HIDE DEF s
<1>3. QED BY <1>1, <1>2, NewFrame DEF s
LEMMA FramesKept ==
  ASSUME O!OverlayAssumption, FramesInv, [O!Next]_(O!vars)
  PROVE  FramesInv'
<1> DEFINE Names == Seq(O!ToSet(Models) \cup O!ToSet(Others))
           Moved == StackInv' /\ Asked(stack, top, deleting)'
<1>1. /\ files \subseteq O!ToSet(Files) /\ desc \in BOOLEAN /\ namedOnly \in BOOLEAN
      /\ StackInv /\ IsSound(top, files)
  BY DEF FramesInv, StackInv
<1>2. /\ Others \in Names /\ <<>> \in Names /\ <<>> \in Seq(O!ToSet(Files))
      /\ O!Available \in Names /\ \A p : O!OfProvider(p) \in Names
  BY ListedNames
<1>3. ASSUME O!Idle, Moved PROVE FramesInv'
  <2>1. UNCHANGED <<files, desc, namedOnly>>
    BY <1>3 DEF O!Idle, O!settings
  <2>2. QED BY <1>3, <2>1, OthersUnchanged
<1>4. ASSUME O!Idle PROVE UNCHANGED <<files, deleting>>
  BY <1>4 DEF O!Idle, O!settings
\* A list of names is opened on the frame with that list, or only replaced in it.
<1>5. ASSUME NEW names \in Names, NEW shown, O!Push(O!Replaced(names), shown),
             IsSound(shown, files), shown.mode # "confirm", UNCHANGED <<files, deleting>>
      PROVE  Moved
  <2>1. IsSound(O!Replaced(names), files) /\ O!Replaced(names).mode = top.mode
        /\ O!Replaced(names).sess = top.sess
    BY <1>1, ReplacedFrame
  <2>2. QED BY <1>5, <2>1, Pushed
<1>6. ASSUME NEW names \in Names, top' = O!Replaced(names), UNCHANGED <<stack, files, deleting>>,
             O!CanOpen
      PROVE  Moved
  <2>1. IsSound(O!Replaced(names), files) /\ O!Replaced(names).mode = top.mode
    BY <1>1, ReplacedFrame
  <2>2. top.mode # "confirm"
    BY <1>6 DEF O!CanOpen
  <2>3. QED BY <1>6, <2>1, <2>2, InPlace
<1>7. ASSUME NEW mode \in {"scoped", "list", "component", "other"}, NEW names \in Names
      PROVE  /\ IsSound(O!Frame(mode, names, <<>>), files)
             /\ O!Frame(mode, names, <<>>).mode # "confirm"
  <2>1. IsSound(O!Frame(mode, names, <<>>), files)
    BY <1>2, NewFrame
  <2>2. QED BY <2>1 DEF O!Frame
<1>8. /\ IsSound(O!SessionFrame, files)
      /\ O!SessionFrame.mode # "confirm"
  <2>1. IsSound(O!SessionFrame, files)
    BY <1>1, OpenedSessions DEF O!SessionFrame
  <2>2. QED BY <2>1 DEF O!SessionFrame, O!Frame
<1>9. ASSUME O!OpenSessions PROVE FramesInv'
  <2>1. O!Push(top, O!SessionFrame) /\ O!Idle
    BY <1>9 DEF O!OpenSessions
  <2>2. Moved
    BY <1>1, <1>4, <1>8, <2>1, Pushed
  <2>3. QED BY <1>3, <2>1, <2>2
<1>10. ASSUME O!OpenList PROVE FramesInv'
  <2>1. O!Idle /\ O!CanOpen
    BY <1>10 DEF O!OpenList
  <2>2. CASE \E at \in DOMAIN Others : O!PushNamesAt(Others, at)
    <3>1. PICK at \in DOMAIN Others :
            O!Push(O!Replaced(Others), [O!Frame("list", Others, <<>>) EXCEPT !.cursor = at])
      BY <2>2 DEF O!PushNamesAt
    <3> DEFINE g == O!Frame("list", Others, <<>>)
               f == [g EXCEPT !.cursor = at]
    <3>2. IsFrame(g) /\ g.mode = "list" /\ g.names = Others
      <4>1. IsFrame(g)
        BY <1>2, <1>7 DEF IsSound
      <4>2. QED BY <4>1 DEF O!Frame
    <3>3. at \in Nat \ {0}
      BY <1>2, <3>1
    <3> HIDE DEF g
    <3>4. IsFrame(f) /\ f.mode = "list" /\ f.cursor = at /\ f.names = Others
      BY <3>2, <3>3 DEF IsFrame
    <3> HIDE DEF f
    <3>5. IsSound(f, files) /\ f.mode # "confirm"
      <4>1. O!ListOf(f) = Others
        BY <3>4 DEF O!ListOf
      <4>2. QED BY <3>1, <3>4, <4>1 DEF IsSound
    <3>6. Moved
      BY <1>2, <1>4, <1>5, <2>1, <3>1, <3>5 DEF f, g
    <3>7. QED BY <1>3, <2>1, <3>6
  <2>3. CASE O!PushNames("list", <<>>)
    <3>1. Moved
      BY <1>2, <1>4, <1>5, <1>7, <2>1, <2>3 DEF O!PushNames
    <3>2. QED BY <1>3, <2>1, <3>1
  <2>4. CASE top' = O!Replaced(<<>>) /\ UNCHANGED stack
    <3>1. Moved
      BY <1>2, <1>4, <1>6, <2>1, <2>4
    <3>2. QED BY <1>3, <2>1, <3>1
  <2>5. QED BY <1>10, <2>2, <2>3, <2>4 DEF O!OpenList
<1>11. ASSUME O!OpenModels PROVE FramesInv'
  <2>1. O!Idle /\ O!CanOpen
    BY <1>11 DEF O!OpenModels
  <2>2. CASE O!PushNames("component", O!Available)
    <3>1. Moved
      BY <1>2, <1>4, <1>5, <1>7, <2>1, <2>2 DEF O!PushNames
    <3>2. QED BY <1>3, <2>1, <3>1
  <2>3. CASE top' = O!Replaced(O!Available) /\ UNCHANGED stack
    <3>1. Moved
      BY <1>2, <1>4, <1>6, <2>1, <2>3
    <3>2. QED BY <1>3, <2>1, <3>1
  <2>4. QED BY <1>11, <2>2, <2>3 DEF O!OpenModels
<1>12. ASSUME O!OpenScoped PROVE FramesInv'
  <2>1. O!Idle /\ O!PushNames("scoped", O!OfProvider(provider))
    BY <1>12 DEF O!OpenScoped
  <2>2. Moved
    BY <1>2, <1>4, <1>5, <1>7, <2>1 DEF O!PushNames
  <2>3. QED BY <1>3, <2>1, <2>2
<1>13. ASSUME O!OpenOther PROVE FramesInv'
  <2>1. O!Idle /\ O!Push(top, O!Frame("other", <<>>, <<>>))
    BY <1>13 DEF O!OpenOther
  <2>2. Moved
    BY <1>1, <1>2, <1>4, <1>7, <2>1, Pushed
  <2>3. QED BY <1>3, <2>1, <2>2
<1>14. ASSUME O!InlineAt PROVE FramesInv'
  <2>1. /\ O!Idle /\ UNCHANGED stack /\ top.mode # "confirm"
        /\ top' = [top EXCEPT !.mode = "inline", !.cursor = 1]
    BY <1>14 DEF O!InlineAt, O!CanOpen
  <2>2. IsSound(top', files)
    BY <1>1, <2>1, EditedFrame
  <2>3. top'.mode # "confirm"
    BY <1>1, <2>1 DEF IsSound, IsFrame
  <2>4. Moved
    BY <1>4, <2>1, <2>2, <2>3, InPlace
  <2>5. QED BY <1>3, <2>1, <2>4
<1>15. ASSUME O!Up \/ O!Down PROVE FramesInv'
  <2>1. PICK at \in {top.cursor - 1, top.cursor + 1} :
          /\ at \in Nat \ {0} /\ O!InList /\ top' = [top EXCEPT !.cursor = at]
          /\ top.kept /\ O!ListOf(top) # <<>> => at \in DOMAIN O!ListOf(top)
          /\ UNCHANGED stack /\ O!Idle
    <3>1. /\ top.cursor \in Nat \ {0}
          /\ top.kept /\ O!ListOf(top) # <<>> => top.cursor \in DOMAIN O!ListOf(top)
          /\ top.names \in Names /\ top.sess \in Seq(O!ToSet(Files))
      BY <1>1 DEF IsSound, IsFrame
    <3>2. O!InList => DOMAIN O!ListOf(top) = 1..Len(O!ListOf(top)) /\ Len(O!ListOf(top)) \in Nat
      BY <3>1 DEF O!InList, O!ListOf
    <3>3. CASE O!Up
      BY <3>1, <3>2, <3>3 DEF O!Up
    <3>4. CASE O!Down
      BY <3>1, <3>2, <3>4 DEF O!Down
    <3>5. QED BY <1>15, <3>3, <3>4
  <2>2. IsSound(top', files)
    BY <1>1, <2>1, MovedFrame
  <2>3. top.mode # "confirm" /\ top'.mode # "confirm"
    BY <1>1, <2>1 DEF O!InList, IsSound, IsFrame
  <2>4. Moved
    BY <1>4, <2>1, <2>2, <2>3, InPlace
  <2>5. QED BY <1>3, <2>1, <2>4
<1>16. ASSUME O!CloseOverlay PROVE FramesInv'
  <2>1. O!Pop /\ O!Idle /\ top.mode # "confirm"
    BY <1>16 DEF O!CloseOverlay
  <2>2. Moved
    BY <1>4, <2>1, Popped
  <2>3. QED BY <1>3, <2>1, <2>2
<1>17. ASSUME O!Esc PROVE FramesInv'
  <2>1. CASE /\ top.mode \in {"scoped", "list", "sessions", "component", "inline", "other"}
             /\ O!Pop /\ O!Idle
    <3>1. Moved
      BY <1>4, <2>1, Popped
    <3>2. QED BY <1>3, <2>1, <3>1
  <2>2. CASE top.mode = "rename" /\ top' = [top EXCEPT !.mode = "sessions"] /\ UNCHANGED stack
             /\ O!Idle
    <3>1. IsSound(top', files)
      BY <1>1, <2>2, EditedFrame
    <3>2. top.mode # "confirm" /\ top'.mode # "confirm"
      BY <1>1, <2>2 DEF IsSound, IsFrame
    <3>3. Moved
      BY <1>4, <2>2, <3>1, <3>2, InPlace
    <3>4. QED BY <1>3, <2>2, <3>3
  <2>3. CASE top.mode = "confirm" /\ O!Pop /\ deleting' = <<>> /\ UNCHANGED O!settings
    <3>1. UNCHANGED <<files, desc, namedOnly>>
      BY <2>3 DEF O!settings
    <3>2. Moved
      BY <2>3, <3>1, Popped
    <3>3. QED BY <3>1, <3>2, OthersUnchanged
  <2>4. QED BY <1>17, <2>1, <2>2, <2>3 DEF O!Esc
<1>18. ASSUME O!ToggleSort PROVE FramesInv'
  <2>1. /\ top.mode = "sessions" /\ desc' = ~desc /\ UNCHANGED <<stack, deleting, files, namedOnly>>
        /\ top' = [top EXCEPT !.sess = O!Sorted(O!ToSet(top.sess), ~desc, namedOnly), !.cursor = 1]
    BY <1>18 DEF O!ToggleSort
  <2>2. IsSound(top', files)
    BY <2>1, SortedFrame
  <2>3. top.mode # "confirm" /\ top'.mode # "confirm"
    BY <1>1, <2>1 DEF IsSound, IsFrame
  <2>4. Moved
    BY <2>1, <2>2, <2>3, InPlace
  <2>5. files' \subseteq O!ToSet(Files) /\ desc' \in BOOLEAN /\ namedOnly' \in BOOLEAN
    BY <1>1, <2>1
  <2>6. QED BY <2>4, <2>5 DEF FramesInv
<1>19. ASSUME O!ToggleNamed PROVE FramesInv'
  <2>1. /\ O!Push(top, O!SessionFrame') /\ UNCHANGED <<deleting, files, desc>>
        /\ namedOnly' = ~namedOnly
    BY <1>19 DEF O!ToggleNamed
  <2>2. O!SessionFrame' = O!Frame("sessions", <<>>, O!Sorted(files, desc, namedOnly'))
    BY <2>1 DEF O!SessionFrame
  <2>3. IsSound(O!SessionFrame', files)
    BY <1>1, <2>2, OpenedSessions
  <2>4. O!SessionFrame'.mode # "confirm"
    BY <2>2 DEF O!Frame
  <2>5. Moved
    BY <1>1, <2>1, <2>3, <2>4, Pushed
  <2>6. files' \subseteq O!ToSet(Files) /\ desc' \in BOOLEAN /\ namedOnly' \in BOOLEAN
    BY <1>1, <2>1
  <2>7. QED BY <2>5, <2>6 DEF FramesInv
<1>20. ASSUME O!AskDelete PROVE FramesInv'
  <2> DEFINE asked == <<top.sess[top.cursor]>>
             f == O!Frame("confirm", <<>>, asked)
  <2>1. /\ top.mode = "sessions" /\ deleting' = asked /\ O!Push(top, f)
        /\ UNCHANGED <<files, desc, namedOnly>> /\ top.cursor \in DOMAIN top.sess
    BY <1>20 DEF O!AskDelete, O!settings
  <2>2. asked \in Seq(O!ToSet(Files))
    BY <1>1, <2>1 DEF IsSound, IsFrame
  <2> HIDE DEF asked
  <2>3. IsSound(f, files)
    BY <1>2, <2>2, NewFrame
  <2>4. f.mode = "confirm" /\ f.sess = asked
    BY DEF O!Frame
  <2> HIDE DEF f
  <2>5. Moved
    BY <1>1, <2>1, <2>3, <2>4, Pushed
  <2>6. QED BY <2>1, <2>5, OthersUnchanged
\* Nothing is left below what is on top.
<1>21. ASSUME stack' = <<>>, IsSound(top', files'), top'.mode # "confirm"
       PROVE  Moved
  <2>1. stack' = [i \in 1..0 |-> stack'[i]] /\ DOMAIN stack' = {} /\ 0 \in Nat
    BY <1>21
  <2>2. QED BY <1>21, <2>1 DEF StackInv, Asked
<1>22. ASSUME O!Delete PROVE FramesInv'
  <2>1. files' \subseteq O!ToSet(Files) /\ desc' \in BOOLEAN /\ namedOnly' \in BOOLEAN
    BY <1>1, <1>22 DEF O!Delete, O!Clear
  <2>2. CASE O!Clear
    <3>1. IsSound(O!Nothing, files') /\ O!Nothing.mode = "none"
      <4>1. IsSound(O!Nothing, files')
        BY <1>2, NewFrame DEF O!Nothing
      <4>2. QED BY <4>1 DEF O!Nothing, O!Frame
    <3>2. Moved
      BY <1>21, <2>2, <3>1 DEF O!Clear
    <3>3. QED BY <2>1, <3>2 DEF FramesInv
  <2>3. CASE top' = O!SessionFrame' /\ stack' = <<>>
    <3>1. O!SessionFrame' = O!Frame("sessions", <<>>, O!Sorted(files', desc', namedOnly'))
      BY DEF O!SessionFrame
    <3>2. IsSound(O!SessionFrame', files') /\ O!SessionFrame'.mode = "sessions"
      <4>1. IsSound(O!SessionFrame', files')
        BY <2>1, <3>1, OpenedSessions
      <4>2. QED BY <3>1, <4>1 DEF O!Frame
    <3>3. Moved
      BY <1>21, <2>3, <3>2
    <3>4. QED BY <2>1, <3>3 DEF FramesInv
  <2>4. QED BY <1>22, <2>2, <2>3 DEF O!Delete
<1>23. ASSUME O!Rename PROVE FramesInv'
  <2>1. O!Idle
    BY <1>23 DEF O!Rename
  <2>2. CASE top.mode = "sessions" /\ top' = [top EXCEPT !.mode = "rename"] /\ UNCHANGED stack
    <3>1. IsSound(top', files)
      BY <1>1, <2>2, EditedFrame
    <3>2. top.mode # "confirm" /\ top'.mode # "confirm"
      BY <1>1, <2>2 DEF IsSound, IsFrame
    <3>3. Moved
      BY <1>4, <2>1, <2>2, <3>1, <3>2, InPlace
    <3>4. QED BY <1>3, <2>1, <3>3
  <2>3. CASE O!Push(top, O!SessionFrame)
    <3>1. Moved
      BY <1>1, <1>4, <1>8, <2>1, <2>3, Pushed
    <3>2. QED BY <1>3, <2>1, <3>1
  <2>4. QED BY <1>23, <2>2, <2>3 DEF O!Rename
<1>24. ASSUME O!Move PROVE FramesInv'
  <2>1. O!Idle /\ UNCHANGED stack /\ top.mode = "scoped"
    BY <1>24 DEF O!Move
  <2>2. PICK i \in DOMAIN top.names :
          /\ top.cursor \in DOMAIN top.names
          /\ top' = [top EXCEPT !.names = [top.names EXCEPT ![i] = top.names[top.cursor],
                                                          ![top.cursor] = top.names[i]],
                                !.cursor = i]
    BY <1>24 DEF O!Move
  <2>3. IsSound(top', files)
    BY <1>1, <2>1, <2>2, SwappedFrame
  <2>4. top.mode # "confirm" /\ top'.mode # "confirm"
    BY <1>1, <2>1, <2>2 DEF IsSound, IsFrame
  <2>5. Moved
    BY <1>4, <2>1, <2>3, <2>4, InPlace
  <2>6. QED BY <1>3, <2>1, <2>5
<1>25. ASSUME O!ToggleProvider PROVE FramesInv'
  <2>1. /\ O!PushNames("scoped", O!OfProvider(provider'))
        /\ UNCHANGED <<deleting, files, desc, namedOnly>>
    BY <1>25 DEF O!ToggleProvider
  <2>2. Moved
    BY <1>2, <1>5, <1>7, <2>1 DEF O!PushNames
  <2>3. QED BY <2>1, <2>2, OthersUnchanged
<1>26. ASSUME O!SaveScoped PROVE FramesInv'
  <2>1. top.mode = "scoped" /\ O!Pop /\ UNCHANGED <<deleting, files, desc, namedOnly>>
    BY <1>26 DEF O!SaveScoped
  <2>2. Moved
    BY <2>1, Popped
  <2>3. QED BY <2>1, <2>2, OthersUnchanged
<1>27. ASSUME UNCHANGED O!vars PROVE FramesInv'
  BY <1>27 DEF O!vars, O!settings, FramesInv, StackInv, Asked
<1>28. QED
  BY <1>9, <1>10, <1>11, <1>12, <1>13, <1>14, <1>15, <1>16, <1>17, <1>18, <1>19, <1>20, <1>22,
     <1>23, <1>24, <1>25, <1>26, <1>27 DEF O!Next

\* What the invariant says of the frames and of the question on top.
LEMMA OverlaysSound ==
  ASSUME FramesInv
  PROVE  O!CursorInList /\ O!DeletesWhatIsShown /\ O!ListedExist
<1>1. PICK n \in Nat : stack = [i \in 1..n |-> stack[i]]
  BY DEF FramesInv, StackInv
<1>2. \A f \in O!Frames : IsSound(f, files)
  <2>1. DOMAIN stack = 1..n /\ DOMAIN Append(stack, top) = 1..(n + 1)
        /\ \A i \in 1..n : Append(stack, top)[i] = stack[i]
        /\ Append(stack, top)[n + 1] = top
    BY <1>1
  <2>2. \A i \in 1..(n + 1) : IsSound(Append(stack, top)[i], files)
    BY <2>1 DEF FramesInv, StackInv
  <2>3. QED BY <2>1, <2>2 DEF O!Frames, O!ToSet
<1>3. QED BY <1>2 DEF IsSound, FramesInv, Asked, O!CursorInList, O!DeletesWhatIsShown, O!ListedExist

\* Esc leaves fewer frames, or the same ones with one name less to be given.
LEMMA EscKept ==
  ASSUME FramesInv, O!Esc
  PROVE  O!Depth' < O!Depth
<1> DEFINE Renamed(s) == {i \in DOMAIN s : s[i].mode = "rename"}
           Cost(f) == CASE f.mode = "none" -> 0 [] f.mode = "rename" -> 3 [] OTHER -> 2
<1>1. PICK n \in Nat : stack = [i \in 1..n |-> stack[i]]
  BY DEF FramesInv, StackInv
<1>2. /\ O!Depth = 2 * n + Cost(top) + Cardinality(Renamed(stack))
      /\ Len(stack) = n /\ DOMAIN stack = 1..n
  BY <1>1 DEF O!Depth, O!Cardinality, Cardinality
<1>3. IsFiniteSet(Renamed(stack)) /\ Cardinality(Renamed(stack)) \in Nat
  <2>1. IsFiniteSet(1..n) /\ Renamed(stack) \subseteq 1..n
    BY <1>2, FS_Interval
  <2>2. QED BY <2>1, FS_Subset, FS_CardinalityType
<1>4. CASE top.mode # "rename" /\ O!Pop
  <2>1. Cost(top) = 2
    BY <1>4 DEF O!Esc
  <2>2. CASE stack = <<>>
    <3>1. stack' = <<>> /\ top'.mode = "none"
      BY <1>4, <2>2 DEF O!Pop, O!Nothing, O!Frame
    <3>2. Renamed(stack') = {} /\ Len(stack') = 0 /\ Cost(top') = 0
      BY <3>1
    <3>3. O!Depth' = 0
      BY <3>2, FS_EmptySet DEF O!Depth, O!Cardinality, Cardinality
    <3>4. QED BY <1>2, <1>3, <2>1, <3>3
  <2>3. CASE stack # <<>>
    <3>1. n \in Nat \ {0}
      BY <1>1, <2>3
    <3>2. top' = stack[n] /\ stack' = [i \in 1..(n - 1) |-> stack[i]]
      <4>1. top' = stack[n] /\ stack' = SubSeq(stack, 1, n - 1)
        BY <1>2, <1>4, <2>3 DEF O!Pop, O!Last, O!Front
      <4>2. QED BY <1>1, <1>2, <3>1, <4>1
    <3>3. Len(stack') = n - 1 /\ DOMAIN stack' = 1..(n - 1)
          /\ \A i \in 1..(n - 1) : stack'[i] = stack[i]
      BY <3>1, <3>2
    <3>4. O!Depth' = 2 * (n - 1) + Cost(stack[n]) + Cardinality(Renamed(stack'))
      BY <3>2, <3>3 DEF O!Depth, O!Cardinality, Cardinality
    <3>5. CASE stack[n].mode = "rename"
      <4>1. Renamed(stack') = Renamed(stack) \ {n} /\ n \in Renamed(stack)
        BY <1>2, <3>1, <3>3, <3>5
      <4>2. Cardinality(Renamed(stack')) = Cardinality(Renamed(stack)) - 1
        BY <1>3, <4>1, FS_RemoveElement
      <4>3. Cost(stack[n]) = 3
        BY <3>5
      <4> HIDE DEF Cost, Renamed
      <4>4. QED BY <1>2, <1>3, <2>1, <3>1, <3>4, <4>2, <4>3
    <3>6. CASE stack[n].mode # "rename"
      <4>1. Renamed(stack') = Renamed(stack)
        BY <1>2, <3>1, <3>3, <3>6
      <4>2. Cost(stack[n]) \in {0, 2}
        BY <3>6
      <4> HIDE DEF Cost, Renamed
      <4>3. QED BY <1>2, <1>3, <2>1, <3>1, <3>4, <4>1, <4>2
    <3>7. QED BY <3>5, <3>6
  <2>4. QED BY <2>2, <2>3
<1>5. CASE top.mode = "rename" /\ top' = [top EXCEPT !.mode = "sessions"] /\ UNCHANGED stack
  <2>1. top'.mode = "sessions"
    BY <1>5 DEF FramesInv, StackInv, IsSound, IsFrame
  <2>2. Cost(top) = 3 /\ Cost(top') = 2
    BY <1>5, <2>1
  <2>3. O!Depth' = 2 * n + Cost(top') + Cardinality(Renamed(stack))
    <3>1. stack' = stack
      BY <1>5
    <3>2. Renamed(stack') = Renamed(stack) /\ Len(stack') = n
      BY <1>2, <3>1
    <3>3. O!Depth' = 2 * Len(stack') + Cost(top') + Cardinality(Renamed(stack'))
      BY DEF O!Depth, O!Cardinality, Cardinality
    <3> HIDE DEF Renamed, Cost
    <3>4. QED BY <3>2, <3>3
  <2>4. QED BY <1>2, <1>3, <2>2, <2>3
<1>6. QED BY <1>4, <1>5 DEF O!Esc

\* In the lists of overlays no key indexes a list beyond its end, "y" deletes the session that
\* the question names, no list shows a session that is gone, and Esc leads out, whatever is
\* opened on what (overlay_stack.go, overlay_keys.go, session_overlay.go,
\* scoped_models_overlay.go); and what EditorKeys says of the editor.
THEOREM KeysAct == O!Spec /\ E!Spec => KeysActOnLists
<1>1. O!OverlayAssumption
  BY PartsAssumption
<1>2. O!Init => FramesInv
  <2>1. SUFFICES ASSUME O!Init PROVE FramesInv
    OBVIOUS
  <2>2. /\ stack = <<>> /\ top = O!Nothing /\ deleting = <<>> /\ files = O!ToSet(Files)
        /\ desc \in BOOLEAN /\ namedOnly = FALSE
    BY <2>1 DEF O!Init
  <2>3. IsSound(O!Nothing, files) /\ O!Nothing.mode = "none"
    <3>1. IsSound(O!Nothing, files)
      BY <1>1, ListedNames, NewFrame DEF O!Nothing
    <3>2. QED BY <3>1 DEF O!Nothing, O!Frame
  <2>4. StackInv
    <3>1. stack = [i \in 1..0 |-> stack[i]] /\ DOMAIN stack = {} /\ 0 \in Nat
      BY <2>2
    <3>2. QED BY <2>2, <2>3, <3>1 DEF StackInv
  <2>5. Asked(stack, top, deleting)
    BY <2>2, <2>3 DEF Asked
  <2>6. namedOnly \in BOOLEAN
    BY <2>2
  <2>7. QED BY <2>2, <2>4, <2>5, <2>6 DEF FramesInv
<1>3. FramesInv /\ [O!Next]_(O!vars) => FramesInv'
  BY <1>1, FramesKept
<1>4. FramesInv => O!CursorInList /\ O!DeletesWhatIsShown /\ O!ListedExist
  BY OverlaysSound
<1>5. FramesInv /\ [O!Next]_(O!vars) => [O!Esc => O!Depth' < O!Depth]_(O!vars)
  BY EscKept
<1>6. O!Spec => O!KeysActOnShown
  BY <1>2, <1>3, <1>4, <1>5, PTL DEF O!Spec, O!KeysActOnShown, O!EscLeaves
<1>7. QED BY <1>6, EditorKeys, PTL DEF KeysActOnLists
=============================================================================
