----------------------------- MODULE TuiComposer -----------------------------
(***************************************************************************)
(* The editor of the terminal UI with its popups and attachments           *)
(* (src/internal/tui: autocomplete.go, slashmenu.go, filepicker.go,        *)
(* attachments_ui.go, popup.go, composer.go and the keys of tui.go).       *)
(*                                                                         *)
(* A text is what its last word makes it: a command to complete, the name  *)
(* of a file after @, or anything else.  The overlays that may cover the   *)
(* editor are in TuiOverlays.                                              *)
(***************************************************************************)
EXTENDS Integers, SequencesExt, Lists

CONSTANTS Matches,     \* for a text that is a command: the commands it is a prefix of
          Found,       \* for a text that is the name of a file: the files it matches
          Plain,       \* other texts
          CommandSets, \* the lists of commands there may be, extensions included
          Indexes,     \* the lists of files in the workspace
          Completions, \* what extensions propose
          Rows         \* height of a popup

ComposerAssumption ==
  /\ Rows \in Nat \ {0} /\ <<>> \in Completions /\ "" \notin Plain \cup DOMAIN Matches
  /\ \A s \in CommandSets \cup Indexes : IsInjective(s)
  /\ \A s \in CommandSets \cup Indexes \cup Completions : s \in Seq(ToSet(s))

VARIABLES
  text,
  ac,       \* Model.autocomplete: [kind, query, index, items], none or one
  menu,     \* Model.slashMenu, the same
  inline,   \* the list of files takes the keys
  picker, cursor,   \* Model.pickerFiles, overlayCursor
  chips, focus,     \* Model.attachments; attachmentFocus, 0 for none
  commands, index,  \* what there is
  unseen    \* the text was replaced since the popups were last brought up to date

popups == <<ac, menu, inline, picker, cursor>>
attached == <<chips, focus>>
world == <<commands, index>>
vars == <<text, popups, attached, world, unseen>>

IndexedFiles == UNION {ToSet(s) : s \in Indexes}

Init ==
  /\ text = "" /\ ac = <<>> /\ menu = <<>> /\ inline = FALSE /\ picker = <<>> /\ cursor = 1
  /\ chips = <<>> /\ focus = 0 /\ commands \in CommandSets /\ index \in Indexes /\ unseen = FALSE

-----------------------------------------------------------------------------
(* Popups.                                                                 *)

\* closeOverlay and dismissPopups.
CloseInline == inline' = FALSE /\ picker' = <<>> /\ cursor' = 1
Dismiss == ac' = <<>> /\ menu' = <<>>

\* The index stays while the same text is completed, inside the new list.
Kept(kind, query, n) ==
  IF ac # <<>> /\ ac[1].kind = kind /\ ac[1].query = query THEN Min({ac[1].index, n}) ELSE 1

Popup(kind, query, items) ==
  <<[kind |-> kind, query |-> query, index |-> Kept(kind, query, Len(items)), items |-> items]>>

\* A name without files closes the list, but leaves a menu of commands as it is.
UpdateFile(t) ==
  LET found == Among(index, Found[t])
      popup == Popup("file", t, found)
  IN IF found = <<>>
     THEN /\ ac' = <<>>
          /\ IF inline THEN CloseInline /\ menu' = <<>> ELSE UNCHANGED <<menu, inline, picker, cursor>>
     ELSE /\ ac' = popup /\ menu' = <<>>
          /\ inline' = TRUE /\ picker' = found /\ cursor' = popup[1].index

UpdateCommand(t) ==
  LET found == Among(commands, Matches[t])
      popup == IF found = <<>> THEN <<>> ELSE Popup("slash", t, found)
  IN ac' = popup /\ menu' = popup /\ UNCHANGED <<inline, picker, cursor>>

\* Extensions complete any other text that is not empty; then an open list of files stays.
UpdateOther(t) ==
  \E answer \in IF t = "" THEN {<<>>} ELSE Completions :
    /\ menu' = <<>>
    /\ IF answer = <<>>
       THEN ac' = <<>> /\ (IF inline THEN CloseInline ELSE UNCHANGED <<inline, picker, cursor>>)
       ELSE /\ ac' = <<[kind |-> "ext", query |-> t, index |-> 1, items |-> answer]>>
            /\ UNCHANGED <<inline, picker, cursor>>

UpdateAutocomplete(t) ==
  CASE t \in DOMAIN Found -> UpdateFile(t)
    [] t \in DOMAIN Matches -> UpdateCommand(t)
    [] OTHER -> UpdateOther(t)

\* popupScrollStart: the first row that is drawn.
ScrollStart(at, total) ==
  LET half == at - Rows \div 2
  IN CASE total <= Rows -> 1
       [] total > Rows /\ half < 1 -> 1
       [] total > Rows /\ half >= 1 -> Min({half, total - Rows + 1})

-----------------------------------------------------------------------------
(* Keys.  The list of files is asked first, then the attachments.          *)

Listing == inline /\ picker # <<>>

\* A key for the editor: text is typed, pasted into it or deleted, or the cursor moves.
Type ==
  \E t \in {"", text} \cup Plain \cup DOMAIN Matches \cup DOMAIN Found :
    /\ text' = t /\ UpdateAutocomplete(t)
    /\ focus' = IF t = text THEN focus ELSE 0
    /\ unseen' = FALSE
    /\ UNCHANGED <<chips, world>>

\* A restored message, the clipboard, an external editor and an extension replace the text.
SetValue ==
  /\ \E t \in Plain \cup DOMAIN Matches : text' = t /\ t # text
  /\ unseen' = TRUE
  /\ UNCHANGED <<popups, attached, world>>

\* actionClear.
Clear ==
  /\ text' = "" /\ chips' = <<>> /\ Dismiss
  /\ UNCHANGED <<inline, picker, cursor, focus, world, unseen>>

Moved(popup, by) ==
  IF popup = <<>> THEN <<>>
  ELSE [popup EXCEPT ![1].index = IF @ + by \in DOMAIN popup[1].items THEN @ + by ELSE @]

\* Up and down: in the list of files, else in the popup, and the menu gets its index.
UpDown ==
  \E by \in {-1, 1} :
    /\ IF Listing THEN cursor' = (IF cursor + by \in DOMAIN picker THEN cursor + by ELSE cursor)
                       /\ UNCHANGED <<ac, menu>>
       ELSE /\ (ac # <<>> \/ menu # <<>>)
            /\ IF ac # <<>>
               THEN /\ ac' = Moved(ac, by)
                    /\ menu' = IF menu = <<>> THEN <<>> ELSE [menu EXCEPT ![1].index = ac'[1].index]
               ELSE menu' = Moved(menu, by) /\ UNCHANGED ac
            /\ cursor' = IF inline /\ ac # <<>> THEN ac'[1].index ELSE cursor
    /\ UNCHANGED <<text, inline, picker, attached, world, unseen>>

\* Esc: the list of files, or else the popups, go away.
Esc ==
  /\ inline \/ ac # <<>> \/ menu # <<>>
  /\ Dismiss /\ IF inline THEN CloseInline ELSE UNCHANGED <<inline, picker, cursor>>
  /\ UNCHANGED <<text, attached, world, unseen>>

\* applySlashSelection puts the selected command in the place of the last word.
ApplySlash ==
  /\ menu # <<>>
  /\ text' = menu[1].items[menu[1].index] /\ menu' = <<>>

\* Tab: down in the list of files, otherwise applyAutocomplete.
Tab ==
  /\ ~Listing
  /\ \/ ac # <<>> /\ ac[1].kind = "ext" /\ text' \in Plain /\ UNCHANGED menu
     \/ (ac # <<>> => ac[1].kind # "ext") /\ ApplySlash
     \/ ac # <<>> /\ ac[1].kind # "ext" /\ menu = <<>> /\ UNCHANGED <<text, menu>>
  /\ ac' = <<>>
  /\ UNCHANGED <<inline, picker, cursor, attached, world, unseen>>

\* addAttachment, by a pasted image or from the list of files.
Attached(f) ==
  /\ chips' = IF f \in ToSet(chips) THEN chips ELSE Append(chips, f)
  /\ focus' = IF f \in ToSet(chips) THEN focus ELSE Len(chips) + 1

Attach(f) == Attached(f) /\ UNCHANGED <<text, popups, world, unseen>>

\* insertInlinePicker: the word after @ is taken out of the text.
EnterFile ==
  /\ Listing
  /\ IF text \in DOMAIN Found THEN Attached(picker[cursor]) /\ text' = ""
     ELSE UNCHANGED <<text, attached>>
  /\ Dismiss /\ CloseInline
  /\ UNCHANGED <<world, unseen>>

\* Enter completes a command, unless it is the selected one already, ...
EnterMenu ==
  /\ ~Listing /\ menu # <<>> /\ menu[1].items[menu[1].index] # text
  /\ ApplySlash
  /\ UNCHANGED <<ac, inline, picker, cursor, attached, world, unseen>>

\* ... else it submits: a command or a prompt clears the text, a prompt the attachments too,
\* and what a hook or the service refuses, or a command of the shell, stays.  The popup is
\* not dismissed.
Submit ==
  /\ ~Listing /\ (menu # <<>> => menu[1].items[menu[1].index] = text)
  /\ text # "" \/ chips # <<>>
  /\ text' = "" /\ menu' = <<>>
  /\ \/ text \in DOMAIN Matches /\ UNCHANGED attached
     \/ chips' = <<>> /\ focus' = 0
  /\ UNCHANGED <<ac, inline, picker, cursor, world, unseen>>

-----------------------------------------------------------------------------
(* Attachments: keys of an empty editor.                                   *)

\* removeAttachment.
RemoveAttachment(i) ==
  /\ chips' = RemoveAt(chips, i)
  /\ focus' = IF Len(chips) = 1 THEN 0 ELSE Min({focus, Len(chips) - 1})

AttachmentKey ==
  /\ chips # <<>> /\ text = ""
  /\ \/ RemoveAttachment(IF focus > 0 THEN focus ELSE Len(chips))
     \/ focus' = Max({1, focus - 1}) /\ UNCHANGED chips
     \/ focus' = Min({Len(chips), focus + 1}) /\ UNCHANGED chips
  /\ UNCHANGED <<text, popups, world, unseen>>

-----------------------------------------------------------------------------
\* External: extensions are reloaded, the workspace is indexed.
Changes ==
  /\ commands' \in CommandSets /\ index' \in Indexes
  /\ UNCHANGED <<text, popups, attached, unseen>>

Next ==
  \/ Type \/ SetValue \/ Clear \/ UpDown \/ Esc \/ Tab \/ EnterFile \/ EnterMenu \/ Submit
  \/ AttachmentKey \/ Changes \/ \E f \in IndexedFiles : Attach(f)

Spec == Init /\ [][Next]_vars

-----------------------------------------------------------------------------
(* Properties.                                                             *)

\* The indices that keys use without a look at the list are inside of it: otherwise the
\* program would panic.  The editor with attachments has the focus on one of them.
IndicesInLists ==
  /\ \A popup \in {ac, menu} : popup # <<>> => popup[1].index \in DOMAIN popup[1].items
  /\ Listing => cursor \in DOMAIN picker
  /\ chips # <<>> => focus \in 0..Len(chips)

\* Enter completes from the menu, the screen shows the popup: both mark the same command.
MenuIsShown == menu # <<>> /\ ac # <<>> => menu = ac


\* Enter never replaces a word by a command that was proposed for another one, unless the
\* text came from elsewhere or names a file that does not exist.
MenuIsForText == menu # <<>> /\ ~unseen => menu[1].query = text \/ text \in DOMAIN Found

\* A file is attached once.
AttachedOnce == IsInjective(chips)

\* The row that is marked is one of those drawn.
MarkedIsDrawn ==
  \A popup \in {ac, menu} : popup # <<>> =>
    LET start == ScrollStart(popup[1].index, Len(popup[1].items))
    IN popup[1].index \in start..(start + Rows - 1) /\ start + Rows - 1 <= Max({Rows, Len(popup[1].items)})

\* Keys act on the menu that belongs to the text, and inside of it.
KeysActOnMenu ==
  IndicesInLists /\ MenuIsShown /\ MarkedIsDrawn /\ MenuIsForText /\ AttachedOnce
=============================================================================
