------------------------------- MODULE Terminal -------------------------------
(***************************************************************************)
(* The terminal UI: its runs (TuiRun), its cards (TuiChat), its overlays   *)
(* (TuiOverlays), the tree (TuiTree) and the editor (TuiComposer), side by *)
(* side.  The modules share no state here; each property has one name for  *)
(* those who check it and those who prove it.                              *)
(***************************************************************************)
EXTENDS TuiRun

CONSTANTS MaxAnswers, MaxCalls, MaxCommands, MaxPrompts, MaxInfos, BashCap,
          MaxEntries, Grown, MaxFolded,
          Models, Provider, Others, Files, Named, MaxFrames,
          Matches, Found, Plain, CommandSets, Indexes, Completions, Rows

VARIABLES
  lines, streams, buf, thinkIdx, turn, answer, calls, made, text, told, replaced, prompts,
  infos, bashIdx, bashCh, bashPc, inbox, waiters, upset,
  entries, leaf, filter, search, folded, items, row, open,
  top, stack, deleting, files, desc, namedOnly, enabled, provider,
  draft, ac, menu, inline, picker, cursor, chips, focus, commands, index, unseen

C == INSTANCE TuiChat WITH streaming <- streams
T == INSTANCE TuiTree WITH cursor <- row
O == INSTANCE TuiOverlays
E == INSTANCE TuiComposer WITH text <- draft

ASSUME PartsAssumption ==
  C!ChatAssumption /\ T!TreeAssumption /\ O!OverlayAssumption /\ E!ComposerAssumption

chatVars == <<lines, streams, buf, thinkIdx, turn, answer, calls, made, text, told, replaced,
              prompts, infos, bashIdx, bashCh, bashPc, inbox, waiters, upset>>
treeVars == <<entries, leaf, filter, search, folded, items, row, open>>
overlayVars == <<top, stack, deleting, files, desc, namedOnly, enabled, provider>>
editorVars == <<draft, ac, menu, inline, picker, cursor, chips, focus, commands, index, unseen>>

\* The properties of TuiChat, TuiTree, TuiOverlays and TuiComposer, stated there.
CardsShowOwn == C!CardsShowOwn
RowsOfTree == T!RowsOfTree
KeysActOnLists == O!KeysActOnShown /\ []E!KeysActOnMenu
=============================================================================
