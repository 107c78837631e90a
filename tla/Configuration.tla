---------------------------- MODULE Configuration ----------------------------
(***************************************************************************)
(* What programs keep in files and decide from them, side by side: the     *)
(* packages (Packages), the settings (Settings), the lists of models       *)
(* (Models) and the size of a conversation (Compaction).  The modules      *)
(* share no state here; each property has one name for those who check it  *)
(* and those who prove it.                                                 *)
(***************************************************************************)
EXTENDS Packages

CONSTANTS
  Keys, MaxEdits, None,
  Order, Ids, OtherNames, Adders, GlobalFiles, ProjectFiles,
  Sizes, Summaries, Conversations, MaxLen, Floor, DefaultReserve, DefaultMaxOut, LocalWindow,
  RemoteWindow, DefaultKeep, MaxCap, MinOutput, Levels

VARIABLES
  settings, custom, hasDir, mem, chosen, older, given, saved, edits,
  global, project, listed, adding, doing, added, overlapped,
  config, history, phase, removed

S == INSTANCE Settings WITH files <- settings, dir <- hasDir
M == INSTANCE Models WITH Names <- OtherNames
C == INSTANCE Compaction WITH Configs <- Conversations

ASSUME PartsAssumption ==
  S!SettingsAssumption /\ M!ModelsAssumption /\ C!CompactionAssumption

settingsVars == <<settings, custom, hasDir, mem, chosen, older, given, saved, edits>>
modelVars == <<global, project, listed, adding, doing, added, overlapped>>
sizeVars == <<config, history, phase, removed>>

\* The properties of Settings, Models and Compaction, stated there.
ChoicesKept == S!ChoicesKept
ModelsKept == M!ModelsKept
CompactionSound == C!CompactionSound
=============================================================================
