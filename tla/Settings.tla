------------------------------ MODULE Settings ------------------------------
(***************************************************************************)
(* The settings of package config and the programs that use them: files in *)
(* JSON that are read and merged when a program starts, kept by it while   *)
(* it runs, and written back as a whole when its user chooses a value in   *)
(* the settings overlay or saves the list of models.  `stell config set`   *)
(* and the permissions of extensions change single keys of a file.         *)
(*                                                                         *)
(* A field stands for all settings that merge like it:                     *)
(*   editor     a word, taken from a profile of the file when it is empty  *)
(*   mode       a word that Validate looks at                              *)
(*   images     a pointer to a bool: unset, on or off                      *)
(*   idle       a number that 0 leaves as it was, 0 meaning "off" too      *)
(*   rows       a number with a range                                      *)
(*   pad        0 or 1, where a file that is silent says 0                 *)
(*   execution  the mode of the tools                                      *)
(*   grants     a map, of which a file only adds keys                      *)
(* Zero values are left out of a file (omitempty), so that in a file the   *)
(* zero value and no value are the same.                                   *)
(***************************************************************************)
EXTENDS Naturals, FiniteSets

CONSTANTS Programs, Keys, MaxEdits, None

VARIABLES
  files,   \* the files that exist, of "global", "custom" (STELL_CONFIG) and "project"
  custom,  \* STELL_CONFIG names the file that is read in place of the global one
  dir,     \* the workspace has a directory .stell
  mem,     \* Config.Settings of the programs that run
  chosen,  \* history: the value that a user chose last in an overlay and nobody overwrote
  older,   \* history: what was chosen or granted by others since a program loaded
  given,   \* history: the permissions that were written to a file and not overwritten
  saved,   \* history: the global file was written by a program last
  edits    \* history: how often something was changed

vars == <<files, custom, dir, mem, chosen, older, given, saved, edits>>

Fields == {"editor", "mode", "images", "idle", "rows", "pad", "execution"}

Unset == [editor |-> "", mode |-> "", images |-> "unset", idle |-> 0, rows |-> 0, pad |-> 0,
          execution |-> "", grants |-> {}]

DefaultSettings == [Unset EXCEPT !.mode = "one", !.idle = 9, !.rows = 5, !.pad = 1]

\* What a user may write into a file, and the values that the overlay offers.
Written == [editor |-> {"vim"}, mode |-> {"all", "bad"}, images |-> {"on", "off"},
            idle |-> {1}, rows |-> {3, 25}, pad |-> {1, 2}, execution |-> {"sequential"}]
Offered == [editor |-> {"vim", "nano"}, mode |-> {"all", "one"}, images |-> {"on", "off"},
            idle |-> {0, 1}, rows |-> {3, 5}, pad |-> {0, 1}, execution |-> {}]

SettingsAssumption ==
  /\ Programs # {} /\ IsFiniteSet(Keys) /\ MaxEdits \in Nat
  /\ \A f \in Fields : None \notin Offered[f]

\* A file: its settings and the editor of its default profile.
File(settings, profile) == [settings |-> settings, profile |-> profile]

Contents ==
  {File(Unset, ""), File([Unset EXCEPT !.images = "on", !.execution = "sequential"], "emacs"),
   File([Unset EXCEPT !.editor = "vim", !.rows = 25, !.idle = 1], "emacs"),
   File([Unset EXCEPT !.mode = "bad", !.rows = 3, !.pad = 1], ""),
   File([Unset EXCEPT !.mode = "all", !.pad = 2], "")}

Init ==
  /\ custom \in BOOLEAN /\ dir \in BOOLEAN
  /\ \E places \in SUBSET {"global", "custom", "project"} :
       /\ "custom" \in places => custom
       /\ "project" \in places => dir
       /\ files \in [places -> Contents]
  /\ custom => ~dir /\ ("global" \in DOMAIN files => files["global"] = File(Unset, ""))
  /\ mem = <<>>
  /\ chosen = [f \in Fields |-> None] /\ older = [p \in Programs |-> {}]
  /\ given = {} /\ saved = FALSE /\ edits = 0

-----------------------------------------------------------------------------
(* Reading.                                                                *)

\* mergeCompaction, mergeBranchSummary: a switch that is set replaces one.
MergeSwitch(base, over) == IF over # "unset" THEN over ELSE base

\* mergeRetry, mergeRetryProvider: a number that is not 0 replaces one.
MergeNumber(base, over) == IF over # 0 THEN over ELSE base

\* mergeSettings.
Merge(base, over) ==
  [editor |-> IF over.editor # "" THEN over.editor ELSE base.editor,
   mode |-> IF over.mode # "" THEN over.mode ELSE base.mode,
   images |-> MergeSwitch(base.images, over.images),
   idle |-> MergeNumber(base.idle, over.idle),
   rows |-> IF over.rows \in 3..20 THEN over.rows ELSE base.rows,
   pad |-> IF over.pad \in {0, 1} THEN over.pad ELSE base.pad,
   execution |-> base.execution,
   grants |-> base.grants \cup over.grants]

\* readSettings with mergeProfileFallback.
Read(file) ==
  IF file.settings.editor = "" THEN [file.settings EXCEPT !.editor = file.profile]
  ELSE file.settings

Over(base, place) ==
  IF place \in DOMAIN files THEN Merge(base, Read(files[place])) ELSE base

\* The user's file: the one that Load reads and `stell config set` writes.
UserFile == IF custom THEN "custom" ELSE "global"

\* The settings that Load finds.
Loaded == Over(Over(DefaultSettings, UserFile), "project")

Validate(settings) == settings.mode \in {"", "all", "one"}

\* ImagesEnabled and the like: a switch that is not set has a value anyway, ...
SwitchOrDefault(switch) == IF switch = "unset" THEN "on" ELSE switch

\* ... and so has a number that is not in its range.
NumberOrDefault(f, number) ==
  CASE f = "rows" -> IF number \in 3..20 THEN number ELSE 5
    [] f = "pad" -> IF number \in {0, 1} THEN number ELSE 1
    [] OTHER -> number

\* What a program goes by.
Effective(settings, f) ==
  CASE f = "images" -> SwitchOrDefault(settings.images)
    [] f \in {"rows", "pad", "idle"} -> NumberOrDefault(f, settings[f])
    [] OTHER -> settings[f]

-----------------------------------------------------------------------------
(* Programs.                                                               *)

With(f, x, v) == [y \in {x} \cup DOMAIN f |-> IF y = x THEN v ELSE f[y]]

Start(p) ==
  /\ p \notin DOMAIN mem /\ Validate(Loaded)
  /\ mem' = With(mem, p, Loaded) /\ older' = [older EXCEPT ![p] = {}]
  /\ UNCHANGED <<files, custom, dir, chosen, given, saved, edits>>

Quit(p) ==
  /\ p \in DOMAIN mem
  /\ mem' = [q \in DOMAIN mem \ {p} |-> mem[q]] /\ older' = [older EXCEPT ![p] = {}]
  /\ UNCHANGED <<files, custom, dir, chosen, given, saved, edits>>

\* Another program chose or granted something: those that run do not know of it.
Unknown(p, what) ==
  [q \in Programs |-> IF q \in DOMAIN mem \ {p} THEN older[q] \cup {what} ELSE older[q]]

\* Mutant: only what differs from the defaults is written.
SaveChanged(p) ==
  files' = With(files, "global", File([f \in DOMAIN Unset |->
             IF f \in {"mode", "editor"} /\ mem'[p][f] = mem[p][f] THEN Unset[f] ELSE mem'[p][f]],
             ""))

\* SaveGlobalSettings: everything that the program knows, and nothing else, into the
\* global file.
Save(p) == files' = With(files, "global", File(mem'[p], ""))

\* applySettingValue, and saveScopedModels for another field.
Choose(p, f, v) ==
  /\ p \in DOMAIN mem /\ edits < MaxEdits /\ edits' = edits + 1
  /\ mem' = [mem EXCEPT ![p][f] = v]
  /\ Save(p)
  /\ chosen' = [g \in Fields |-> CASE g = f -> v
                                   [] g # f /\ mem[p][g] = chosen[g] -> chosen[g]
                                   [] OTHER -> None]
  /\ given' = IF dir THEN given ELSE given \cap mem[p].grants
  /\ older' = Unknown(p, f) /\ saved' = TRUE
  /\ UNCHANGED <<custom, dir>>

GrantFile == IF dir THEN "project" ELSE "global"

\* PersistExtensionGrant fails without a file, ...
Persist(k) ==
  IF GrantFile \in DOMAIN files
  THEN /\ files' = [files EXCEPT ![GrantFile].settings.grants = @ \cup {k}]
       /\ given' = given \cup {k}
  ELSE UNCHANGED <<files, given>>

\* ... which RequestGrant, with an answer of the user, does not look at.
Grant(p, k) ==
  /\ p \in DOMAIN mem /\ k \notin mem[p].grants /\ edits < MaxEdits /\ edits' = edits + 1
  /\ mem' = [mem EXCEPT ![p].grants = @ \cup {k}]
  /\ Persist(k)
  /\ older' = Unknown(p, "grants")
  /\ UNCHANGED <<custom, dir, chosen, saved>>

\* `stell config set`: one key of the file is replaced, the rest stays as it is.
ConfigSet(f, v) ==
  /\ edits < MaxEdits /\ edits' = edits + 1
  /\ LET file == IF UserFile \in DOMAIN files THEN files[UserFile] ELSE File(Unset, "")
     IN files' = With(files, UserFile, [file EXCEPT !.settings[f] = v])
  /\ chosen' = [chosen EXCEPT ![f] = None] /\ saved' = (saved /\ custom)
  /\ UNCHANGED <<custom, dir, mem, older, given>>

Next ==
  \/ \E p \in Programs : Start(p) \/ Quit(p)
  \/ \E p \in Programs, f \in Fields : \E v \in Offered[f] : Choose(p, f, v)
  \/ \E p \in Programs, k \in Keys : Grant(p, k)
  \/ \E f \in Fields : \E v \in Written[f] : ConfigSet(f, v)

Spec == Init /\ [][Next]_vars

-----------------------------------------------------------------------------
(* Properties.                                                             *)

\* The project's file decides about a field.
Hidden(f) ==
  "project" \in DOMAIN files /\ (f = "pad" \/ Merge(Unset, Read(files["project"]))[f] # Unset[f])

Kept == Fields \ {"idle"}

\* What the user chose in an overlay is what the next program finds, whatever else the
\* files say, unless the project says otherwise or STELL_CONFIG names another file; "off"
\* of a timeout apart.
ChosenIsLoaded ==
  ~custom => \A f \in Kept : chosen[f] # None /\ ~Hidden(f) => Effective(Loaded, f) = chosen[f]

\* A program overwrites a value that was chosen elsewhere only if it was started before:
\* what it loaded it keeps when it saves something else.
OnlyOlderOverwrite ==
  [][\A f \in Kept, p \in Programs :
       /\ chosen[f] # None /\ chosen'[f] = None /\ p \in DOMAIN mem \cap DOMAIN mem'
       /\ mem'[p] # mem[p] /\ ~custom /\ ~Hidden(f)
       => f \in older[p]]_vars

\* Settings that a program wrote do not keep the next one from starting.
SavedLoads == saved /\ ~custom => Validate(Loaded)

\* Permissions that were written are there when a program starts, and a program that saves
\* takes away none that it could know.
GrantsKept ==
  [][~custom =>
       /\ given' \subseteq Loaded.grants'
       /\ \A k \in given \ given', p \in DOMAIN mem :
            p \in DOMAIN mem' /\ mem'[p] # mem[p] => "grants" \in older[p]]_vars

\* What was chosen or granted is found again, and lets a program start.
ChoicesKept == [](ChosenIsLoaded /\ SavedLoads) /\ OnlyOlderOverwrite /\ GrantsKept
=============================================================================
