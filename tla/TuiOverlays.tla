----------------------------- MODULE TuiOverlays -----------------------------
(***************************************************************************)
(* The overlays with lists of the terminal UI and the stack they are kept  *)
(* on (src/internal/tui: overlay_stack.go, overlay_keys.go,                *)
(* tree_overlay.go, session_overlay.go, session_rename_overlay.go,         *)
(* scoped_models_overlay.go, model_overlay.go, commands.go, filepicker.go).*)
(* The tree itself is in TuiTree, the overlays of extensions are in        *)
(* ExtensionUI: here they are "other".                                     *)
(*                                                                         *)
(* A frame carries the lists of the model, which the keys of the overlay   *)
(* on top index with the cursor; `kept` says that nothing has replaced     *)
(* that list since, except the keys of the overlay itself.                 *)
(***************************************************************************)
EXTENDS Integers, SequencesExt, Lists

CONSTANTS Models, Others,  \* Config.Models and the names of another list, as sequences
          Provider,        \* the provider of each model
          Files, Named,    \* sessions on disk, from old to new, and those with a name
          MaxFrames        \* bound on the frames below the one on top

OverlayAssumption ==
  /\ \A s \in {Models, Others, Files} : IsInjective(s) /\ s \in Seq(ToSet(s))
  /\ DOMAIN Provider = ToSet(Models) /\ Named \subseteq ToSet(Files) /\ MaxFrames \in Nat

VARIABLES
  top,       \* what is on the screen: [mode, cursor, names, sess, kept]
  stack,     \* Model.overlayStack
  deleting,  \* Model.pendingDeleteSession, as a sequence of at most one
  files,     \* the sessions on disk
  desc, namedOnly,    \* Model.sessionSortDesc, sessionNamedOnly
  enabled,   \* Settings.EnabledModels
  provider   \* Model.scopedProvider, {} for none

settings == <<files, desc, namedOnly, enabled, provider>>
vars == <<top, stack, deleting, settings>>

Frame(mode, names, sess) ==
  [mode |-> mode, cursor |-> 1, names |-> names, sess |-> sess, kept |-> TRUE]
Nothing == Frame("none", <<>>, <<>>)

\* The list that the keys of an overlay index.
ListOf(f) ==
  CASE f.mode \in {"scoped", "list"} -> f.names
    [] f.mode \in {"sessions", "rename"} -> f.sess
    [] OTHER -> <<>>

Init ==
  /\ top = Nothing /\ stack = <<>> /\ deleting = <<>>
  /\ files = ToSet(Files) /\ desc \in BOOLEAN /\ namedOnly = FALSE
  /\ enabled = {} /\ provider = {}

-----------------------------------------------------------------------------
(* The stack.                                                              *)

\* pushOverlayFrame: the frame on top is saved as it is now.
Push(below, f) ==
  /\ Len(stack) < MaxFrames
  /\ stack' = IF below.mode = "none" THEN stack ELSE Append(stack, below)
  /\ top' = f

\* popOverlayFrame and clearOverlayState.
Pop ==
  IF stack = <<>> THEN top' = Nothing /\ UNCHANGED stack
  ELSE top' = Last(stack) /\ stack' = Front(stack)

Clear == top' = Nothing /\ stack' = <<>>

Idle == UNCHANGED <<deleting, settings>>

-----------------------------------------------------------------------------
(* Opening; keys that an overlay does not handle open another one on it,   *)
(* but a confirmation and the name of a session take them all.             *)

CanOpen == top.mode \notin {"confirm", "rename"}

\* sortSessionItems: the filter is ignored when it would leave nothing.
Sorted(s, descending, named) ==
  LET kept == Among(Files, IF named /\ s \cap Named # {} THEN s \cap Named ELSE s)
  IN IF descending THEN Reverse(kept) ELSE kept

SessionFrame ==
  LET s == Sorted(files, desc, namedOnly) IN Frame("sessions", <<>>, s)

\* openSessionOverlay.
OpenSessions ==
  /\ CanOpen /\ files # {}
  /\ Push(top, SessionFrame)
  /\ Idle

\* The lists of models, themes, skills and prompts are built in Model.modelNames before
\* the frame on top is saved.
Replaced(names) ==
  [top EXCEPT !.names = names,
              !.kept = top.kept /\ (top.mode \in {"scoped", "list"} => names = top.names)]
PushNames(mode, names) == Push(Replaced(names), Frame(mode, names, <<>>))
PushNamesAt(names, at) == Push(Replaced(names), [Frame("list", names, <<>>) EXCEPT !.cursor = at])

\* openThemeOverlay (on the theme that is active), openSkillOverlay and openPromptOverlay;
\* without themes nothing is opened, but the list is replaced.
OpenList ==
  /\ CanOpen
  /\ \/ \E at \in DOMAIN Others : PushNamesAt(Others, at)
     \/ PushNames("list", <<>>)
     \/ top' = Replaced(<<>>) /\ UNCHANGED stack
  /\ Idle

\* availableModels: what is enabled, or everything.
Available == LET on == Among(Models, enabled) IN IF on = <<>> THEN Models ELSE on

\* openModelOverlayFiltered: a list component, which has a cursor of its own.
OpenModels ==
  /\ CanOpen
  /\ \/ PushNames("component", Available)
     \/ top' = Replaced(Available) /\ UNCHANGED stack
  /\ Idle

OfProvider(p) == Among(Models, {x \in ToSet(Models) : p = {} \/ Provider[x] \in p})

\* openScopedModelsOverlay.
OpenScoped ==
  /\ CanOpen
  /\ PushNames("scoped", OfProvider(provider))
  /\ Idle

\* Settings, the preview, a request of an extension; the latter at any time.
OpenOther ==
  /\ Push(top, Frame("other", <<>>, <<>>))
  /\ Idle

\* updateAutocomplete turns the overlay on top into the list of files, in place.
InlineAt ==
  /\ CanOpen /\ top.mode \notin {"component", "inline", "other"}
  /\ top' = [top EXCEPT !.mode = "inline", !.cursor = 1]
  /\ UNCHANGED stack /\ Idle

-----------------------------------------------------------------------------
(* Keys of the overlay on top.                                             *)

InList == top.mode \in {"scoped", "list", "sessions"}

Up ==
  /\ InList /\ top.cursor > 1
  /\ top' = [top EXCEPT !.cursor = @ - 1] /\ UNCHANGED stack /\ Idle

Down ==
  /\ InList /\ top.cursor < Len(ListOf(top))
  /\ top' = [top EXCEPT !.cursor = @ + 1] /\ UNCHANGED stack /\ Idle

\* Enter on a list, and the end of what is on top: the frame below appears.  A session, a
\* skill or a theme is chosen with the cursor.
CloseOverlay ==
  /\ top.mode \in {"list", "sessions", "component", "inline", "other"}
  /\ Pop /\ Idle

\* Esc: back to the list of sessions from a name, to what is below otherwise.
Esc ==
  \/ /\ top.mode \in {"scoped", "list", "sessions", "component", "inline", "other"}
     /\ Pop /\ Idle
  \/ top.mode = "rename" /\ top' = [top EXCEPT !.mode = "sessions"] /\ UNCHANGED stack /\ Idle
  \/ top.mode = "confirm" /\ Pop /\ deleting' = <<>> /\ UNCHANGED settings

\* actionSessionToggleSort sorts what is listed, ...
ToggleSort ==
  /\ top.mode = "sessions"
  /\ desc' = ~desc
  /\ LET s == Sorted(ToSet(top.sess), ~desc, namedOnly)
     IN top' = [top EXCEPT !.sess = s, !.cursor = 1]
  /\ UNCHANGED <<stack, deleting, files, namedOnly, enabled, provider>>

\* ... actionSessionToggleNamed opens a second list over the first.
ToggleNamed ==
  /\ top.mode = "sessions" /\ files # {} /\ namedOnly' = ~namedOnly
  /\ UNCHANGED <<deleting, files, desc, enabled, provider>>
  /\ Push(top, SessionFrame')

\* Mutant: the question names the first session of the list.
AskDeleteFirst ==
  /\ top.mode = "sessions" /\ top.cursor \in DOMAIN top.sess
  /\ deleting' = <<top.sess[top.cursor]>>
  /\ Push(top, Frame("confirm", <<>>, <<top.sess[1]>>))
  /\ UNCHANGED settings

\* confirmDeleteSession.
AskDelete ==
  /\ top.mode = "sessions" /\ top.cursor \in DOMAIN top.sess
  /\ deleting' = <<top.sess[top.cursor]>>
  /\ Push(top, Frame("confirm", <<>>, <<top.sess[top.cursor]>>))
  /\ UNCHANGED settings

\* "y": every overlay is closed; after a deletion, which may fail, the list is opened anew.
Delete ==
  /\ top.mode = "confirm"
  /\ deleting' = <<>>
  /\ UNCHANGED <<desc, namedOnly, enabled, provider>>
  /\ \/ files' = files /\ Clear
     \/ /\ deleting # <<>> /\ files' = files \ ToSet(deleting)
        /\ IF files' # {} THEN top' = SessionFrame' /\ stack' = <<>> ELSE Clear

\* openSessionRenameOverlay, in place; Enter names the session the service has open, and
\* opens the list of sessions over the name.
Rename ==
  /\ \/ /\ top.mode = "sessions" /\ top.cursor \in DOMAIN top.sess
        /\ top' = [top EXCEPT !.mode = "rename"] /\ UNCHANGED stack
     \/ top.mode = "rename" /\ files # {} /\ Push(top, SessionFrame)
  /\ Idle

\* alt+up and alt+down in the list of models.
Move ==
  /\ top.mode = "scoped"
  /\ \E i \in {top.cursor - 1, top.cursor + 1} \cap DOMAIN top.names :
       /\ top.cursor \in DOMAIN top.names
       /\ LET moved == [top.names EXCEPT ![i] = top.names[top.cursor],
                                         ![top.cursor] = top.names[i]]
          IN top' = [top EXCEPT !.names = moved, !.cursor = i]
  /\ UNCHANGED stack /\ Idle

\* ctrl+p: the models of the provider of the one under the cursor, or all, in a list over
\* the list.
ToggleProvider ==
  /\ top.mode = "scoped" /\ top.cursor \in DOMAIN top.names
  /\ LET p == IF top.names[top.cursor] \in ToSet(Models) THEN {Provider[top.names[top.cursor]]} ELSE {}
     IN provider' = IF provider = p THEN {} ELSE p
  /\ PushNames("scoped", OfProvider(provider'))
  /\ UNCHANGED <<deleting, files, desc, namedOnly, enabled>>

\* saveScopedModels: the models of the list that are switched on.
SaveScoped ==
  /\ top.mode = "scoped"
  /\ \E on \in SUBSET ToSet(top.names) : enabled' = on
  /\ Pop
  /\ UNCHANGED <<deleting, files, desc, namedOnly, provider>>

-----------------------------------------------------------------------------
Next ==
  \/ OpenSessions \/ OpenList \/ OpenModels \/ OpenScoped \/ OpenOther \/ InlineAt
  \/ Up \/ Down \/ CloseOverlay \/ Esc \/ ToggleSort \/ ToggleNamed \/ AskDelete \/ Delete
  \/ Rename \/ Move \/ ToggleProvider \/ SaveScoped

Spec == Init /\ [][Next]_vars

-----------------------------------------------------------------------------
(* Properties.                                                             *)

Frames == ToSet(Append(stack, top))

\* The keys index the list of the overlay on top with the cursor: outside of it the program
\* would panic.  A frame that comes back to the top keeps its cursor in its list, too,
\* unless that was replaced meanwhile.
CursorInList ==
  \A f \in Frames : f.kept /\ ListOf(f) # <<>> => f.cursor \in DOMAIN ListOf(f)

\* "y" deletes the session that the question names, or nothing.
DeletesWhatIsShown == top.mode = "confirm" => deleting \in {<<>>, top.sess}

\* A list never shows a session that was deleted from another one.
ListedExist == \A f \in Frames : f.mode \in {"sessions", "rename"} => ToSet(f.sess) \subseteq files

\* Esc, pressed again and again, leads out of every overlay.
Depth == 2 * Len(stack) + (CASE top.mode = "none" -> 0 [] top.mode = "rename" -> 3 [] OTHER -> 2)
           + Cardinality({i \in DOMAIN stack : stack[i].mode = "rename"})
EscLeaves == [][Esc => Depth' < Depth]_vars

\* Keys act on what is shown and exists, and Esc leads out.
KeysActOnShown == [](CursorInList /\ DeletesWhatIsShown /\ ListedExist) /\ EscLeaves
=============================================================================
