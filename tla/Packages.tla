------------------------------ MODULE Packages ------------------------------
(***************************************************************************)
(* The packages of package packages and the programs that install them:    *)
(* `stell install`, `stell pkg` and `stell update`, the command /pkg of    *)
(* the terminal UI, and the start of every program, which installs what    *)
(* settings.packages names.                                                *)
(*                                                                         *)
(* A store is a directory with a file of records (state.json) and one      *)
(* directory for each package.  Its place follows Config.ProjectDir, which *)
(* is the directory .stell of the workspace, or empty without one:         *)
(*   "global"  packages of the user's directory                            *)
(*   "outer"   .stell/packages of the working directory                    *)
(*   "inner"   .stell/.stell/packages                                      *)
(* Programs run in the workspace.  Sources are directories and git         *)
(* remotes; what is in them changes, and what git does is modelled from    *)
(* its use: a clone is what the remote has then, or an error.              *)
(***************************************************************************)
EXTENDS Naturals, Sequences, SequencesExt, FiniteSets

CONSTANTS
  Programs, Names,
  Kind,        \* of the sources: "git", "pinned" (to a ref) or "local"
  Configs,     \* what settings.packages may be, sequences of sources
  MaxChanges,  \* bound of the changes of sources
  MaxJobs,     \* bound of the starts of programs and the commands of users
  MaxFaults    \* bound of the operations that fail halfway

ASSUME PackagesAssumption ==
  /\ \A s \in DOMAIN Kind : Kind[s] \in {"git", "pinned", "local"}
  /\ Configs # {} /\ Configs \subseteq Seq(DOMAIN Kind)
  /\ {MaxChanges, MaxJobs, MaxFaults} \subseteq Nat

VARIABLES
  dir,        \* the workspace has a directory .stell
  configured, \* settings.packages
  sources,    \* what the sources are: a manifest of "package", of something else ("plain") or "none"
  records,    \* of each store: name -> source and version
  files,      \* of each store: directory -> what was copied
  prog,       \* the programs
  installed,  \* history: <<store, name>> of those that a program said were installed
  hurt,       \* history: <<store, name>> where an operation was cut off, or the source changed in it
  mixed,      \* history: two programs changed a store at the same time
  changes, jobs, faults  \* history: their numbers

vars == <<dir, configured, sources, records, files, prog, installed, hurt, mixed, changes, jobs, faults>>

Sources == DOMAIN Kind
Stores == {"global", "outer", "inner"}

Manifest(kind, name, version) == [kind |-> kind, name |-> name, version |-> version]
Nothing == Manifest("none", "", 0)

\* A program: what it does in which store, the sources that it still has to install, the
\* one it installs, its manifest and the records as they were read, what it found at its
\* start and installed in it, and whether it is alone: no source changed and no other
\* program worked since its job began.
Off == [pc |-> "off", job |-> "", project |-> "", store |-> "", todo |-> <<>>, source |-> "",
        peek |-> Nothing, read |-> <<>>, catalog |-> {}, fetched |-> {}, alone |-> TRUE]

Init ==
  /\ dir \in BOOLEAN /\ configured \in Configs
  /\ sources \in [Sources -> {Manifest("package", n, 0) : n \in Names}]
  /\ records = [s \in Stores |-> <<>>] /\ files = [s \in Stores |-> <<>>]
  /\ prog = [p \in Programs |-> Off]
  /\ installed = {} /\ hurt = {} /\ mixed = FALSE /\ changes = 0 /\ jobs = 0 /\ faults = 0

-----------------------------------------------------------------------------
(* Stores.                                                                 *)

\* installRoot of a manager for the project, made by a program that starts now.
ProjectStore == IF dir THEN "inner" ELSE "outer"

\* LoadManifest.
Loads(manifest) == manifest.kind # "none"

\* EnabledResourceDirs of a store: the packages that are listed and can be read.
Found(store) ==
  {<<store, n>> : n \in {m \in DOMAIN records[store] : m \in DOMAIN files[store] /\ Loads(files[store][m])}}

\* pkgLister and discovery: those of the user and those of the project.
FoundBy(project) == Found("global") \cup Found(project)

\* gitHasAvailableUpdate, of a clone.
IsBehind(copy, s) == copy.version # sources[s].version

\* checkRecordUpdate: only branches get new versions.
HasUpdate(store, n) ==
  LET s == records[store][n].source
  IN Kind[s] = "git" /\ n \in DOMAIN files[store] /\ IsBehind(files[store][n], s)

\* CheckForAvailableUpdates.
Available(store) == {n \in DOMAIN records[store] : HasUpdate(store, n)}

\* CheckAllScopes, which takes the stores for the names.
Notices(project) == Available("global") \cup Available(project)

Works(p) == prog[p].pc \notin {"off", "idle", "next"}

\* A program begins a job: it is not alone with it if another one has one, nor is that one.
Begins(p, job) ==
  prog' = [q \in Programs |->
             CASE q = p -> [job EXCEPT !.alone = \A r \in Programs \ {p} : prog[r].pc \in {"off", "idle"}]
               [] q # p /\ prog[q].pc \in {"off", "idle"} -> prog[q]
               [] OTHER -> [prog[q] EXCEPT !.alone = FALSE]]

-----------------------------------------------------------------------------
(* Programs.                                                               *)

\* bootstrap: the configuration, the catalog of what is installed, ...
Start(p) ==
  /\ prog[p].pc = "off" /\ jobs < MaxJobs /\ jobs' = jobs + 1
  /\ Begins(p, [Off EXCEPT !.pc = "next", !.job = "start", !.project = ProjectStore,
                           !.store = ProjectStore, !.todo = configured, !.catalog = FoundBy(ProjectStore)])
  /\ UNCHANGED <<dir, configured, sources, records, files, installed, hurt, mixed, changes, faults>>

\* ... ensureConfiguredPackages, for one source that is there, ...
IsInstalled(p) ==
  \E n \in DOMAIN records[prog[p].store] : records[prog[p].store][n].source = Head(prog[p].todo)

Skip(p) ==
  /\ prog[p].pc = "next" /\ prog[p].job = "start" /\ prog[p].todo # <<>> /\ IsInstalled(p)
  /\ prog' = [prog EXCEPT ![p].todo = Tail(@)]
  /\ UNCHANGED <<dir, configured, sources, records, files, installed, hurt, mixed, changes, jobs, faults>>

\* ... and Install for one that is not, or the next one of an update: the manifest first.
Peek(p) ==
  /\ prog[p].pc = "next" /\ prog[p].todo # <<>> /\ (prog[p].job = "start" => ~IsInstalled(p))
  /\ LET s == Head(prog[p].todo)
     IN /\ sources[s].kind = "package"
        /\ prog' = [prog EXCEPT ![p].pc = "peeked", ![p].source = s, ![p].peek = sources[s],
                                ![p].todo = Tail(@)]
  /\ mixed' = (mixed \/ \E q \in Programs \ {p} : Works(q) /\ prog[q].store = prog[p].store)
  /\ UNCHANGED <<dir, configured, sources, records, files, installed, hurt, changes, jobs, faults>>

\* An error ends the start of a program, or its command.
Failed(p) == [prog EXCEPT ![p] = IF prog[p].job = "start" THEN Off
                                 ELSE [Off EXCEPT !.pc = "idle", !.project = prog[p].project]]

PeekFails(p) ==
  /\ prog[p].pc = "next" /\ prog[p].todo # <<>> /\ (prog[p].job = "start" => ~IsInstalled(p))
  /\ prog' = Failed(p)
  /\ UNCHANGED <<dir, configured, sources, records, files, installed, hurt, mixed, changes, jobs, faults>>

Without(f, n) == [m \in DOMAIN f \ {n} |-> f[m]]
With(f, n, x) == [m \in DOMAIN f \cup {n} |-> IF m = n THEN x ELSE f[m]]

\* The place of the package is made empty, ...
Clear(p) ==
  /\ prog[p].pc = "peeked"
  /\ LET store == prog[p].store
     IN files' = [files EXCEPT ![store] = Without(@, prog[p].peek.name)]
  /\ dir' = (dir \/ prog[p].store # "global")
  /\ prog' = [prog EXCEPT ![p].pc = "cleared"]
  /\ UNCHANGED <<configured, sources, records, installed, hurt, mixed, changes, jobs, faults>>

\* ... filled with what the source has by then, and looked at, ...
Copy(p) ==
  /\ prog[p].pc = "cleared"
  /\ LET store == prog[p].store
         now == sources[prog[p].source]
         n == prog[p].peek.name
     IN /\ hurt' = IF now = prog[p].peek THEN hurt ELSE hurt \cup {<<store, n>>}
        /\ IF Loads(now)
           THEN /\ files' = [files EXCEPT ![store] = With(@, n, now)]
                /\ prog' = [prog EXCEPT ![p].pc = "copied"]
           ELSE /\ files' = [files EXCEPT ![store] = Without(@, n)]
                /\ prog' = Failed(p)
  /\ UNCHANGED <<dir, configured, sources, records, installed, mixed, changes, jobs, faults>>

\* ... or not: a clone leaves nothing, a copy what it had.
CopyFails(p) ==
  /\ prog[p].pc = "cleared" /\ faults < MaxFaults /\ faults' = faults + 1
  /\ LET store == prog[p].store
         n == prog[p].peek.name
     IN /\ hurt' = hurt \cup {<<store, n>>}
        /\ \/ UNCHANGED files
           \/ /\ Kind[prog[p].source] = "local"
              /\ files' = [files EXCEPT ![store] = With(@, n, Manifest("none", n, 0))]
  /\ prog' = Failed(p)
  /\ UNCHANGED <<dir, configured, sources, records, installed, mixed, changes, jobs>>

\* loadState, ...
ReadState(p) ==
  /\ prog[p].pc = "copied"
  /\ prog' = [prog EXCEPT ![p].pc = "read", ![p].read = records[prog[p].store]]
  /\ UNCHANGED <<dir, configured, sources, records, files, installed, hurt, mixed, changes, jobs, faults>>

Record(p) == [source |-> prog[p].source, version |-> prog[p].peek.version]

\* Mutant: the records of the store are those of this program.
RecordAlone(p) == With(<<>>, prog[p].peek.name, Record(p))

\* The records with the new one.
Recorded(p) == With(prog[p].read, prog[p].peek.name, Record(p))

\* ... and saveState, after which an update goes on with the next package.
WriteState(p) ==
  /\ prog[p].pc = "read"
  /\ LET store == prog[p].store
         one == <<store, prog[p].peek.name>>
     IN /\ records' = [records EXCEPT ![store] = Recorded(p)]
        /\ installed' = installed \cup {one}
        /\ hurt' = IF one[2] \in DOMAIN files[store] /\ files[store][one[2]] = prog[p].peek
                   THEN hurt \ {one} ELSE hurt
        /\ prog' = [prog EXCEPT ![p].pc = "next", ![p].peek = Nothing, ![p].read = <<>>, ![p].source = "",
                                ![p].fetched = @ \cup {one}]
  /\ UNCHANGED <<dir, configured, sources, files, mixed, changes, jobs, faults>>

\* Nothing is left to install: a program that starts runs the extensions that it finds.
Done(p) ==
  /\ prog[p].pc = "next" /\ prog[p].todo = <<>>
  /\ prog' = [prog EXCEPT ![p] = [Off EXCEPT !.pc = "idle", !.project = prog[p].project]]
  /\ UNCHANGED <<dir, configured, sources, records, files, installed, hurt, mixed, changes, jobs, faults>>

Quit(p) ==
  /\ prog[p].pc = "idle"
  /\ prog' = [prog EXCEPT ![p] = Off]
  /\ UNCHANGED <<dir, configured, sources, records, files, installed, hurt, mixed, changes, jobs, faults>>

\* A program that is stopped by a signal leaves what it did.
Killed(p) ==
  /\ Works(p) /\ faults < MaxFaults /\ faults' = faults + 1
  /\ hurt' = IF prog[p].pc \in {"cleared", "copied", "read", "dropped"}
             THEN hurt \cup {<<prog[p].store, prog[p].peek.name>>} ELSE hurt
  /\ prog' = [prog EXCEPT ![p] = Off]
  /\ UNCHANGED <<dir, configured, sources, records, files, installed, mixed, changes, jobs>>

-----------------------------------------------------------------------------
(* Commands.                                                               *)

Command(p, job, store, todo) ==
  /\ prog[p].pc = "idle" /\ store \in {"global", prog[p].project}
  /\ jobs < MaxJobs /\ jobs' = jobs + 1
  /\ Begins(p, [prog[p] EXCEPT !.pc = "next", !.job = job, !.store = store, !.todo = todo])
  /\ UNCHANGED <<dir, configured, sources, records, files, installed, hurt, mixed, changes, faults>>

\* `stell install`.
Install(p, store, s) == Command(p, "install", store, <<s>>)

\* `stell pkg update` of one package, and `stell update --extension`.
UpdateOne(p, store, n) ==
  n \in DOMAIN records[store] /\ Command(p, "update", store, <<records[store][n].source>>)

\* Mutant: the package that comes first.
UpdateFirst(p, store) ==
  \E n \in DOMAIN records[store] : Command(p, "all", store, <<records[store][n].source>>)

\* Of all packages, in any order.
UpdateAll(p, store) ==
  \E order \in SetToSeqs(DOMAIN records[store]) :
    Command(p, "all", store, <<>> \o [i \in DOMAIN order |-> records[store][order[i]].source])

\* `stell pkg remove` reads the records, ...
RemovePackage(p, store, n) ==
  /\ prog[p].pc = "idle" /\ store \in {"global", prog[p].project} /\ n \in DOMAIN records[store]
  /\ jobs < MaxJobs /\ jobs' = jobs + 1
  /\ Begins(p, [prog[p] EXCEPT !.pc = "listed", !.job = "remove", !.store = store,
                               !.peek = Manifest("package", n, 0), !.read = records[store]])
  /\ mixed' = (mixed \/ \E q \in Programs \ {p} : Works(q) /\ prog[q].store = store)
  /\ UNCHANGED <<dir, configured, sources, records, files, installed, hurt, changes, faults>>

\* ... writes them without the package ...
RemoveRecord(p) ==
  /\ prog[p].pc = "listed"
  /\ LET store == prog[p].store
         n == prog[p].peek.name
     IN /\ records' = [records EXCEPT ![store] = Without(prog[p].read, n)]
        /\ installed' = installed \ {<<store, n>>}
  /\ prog' = [prog EXCEPT ![p].pc = "dropped"]
  /\ UNCHANGED <<dir, configured, sources, files, hurt, mixed, changes, jobs, faults>>

\* ... and removes its directory.
RemoveFiles(p) ==
  /\ prog[p].pc = "dropped"
  /\ LET store == prog[p].store
         n == prog[p].peek.name
     IN files' = [files EXCEPT ![store] = Without(@, n)] /\ hurt' = hurt \ {<<store, n>>}
  /\ prog' = [prog EXCEPT ![p] = [Off EXCEPT !.pc = "idle", !.project = prog[p].project]]
  /\ UNCHANGED <<dir, configured, sources, records, installed, mixed, changes, jobs, faults>>

\* Somebody changes a source: a new version, another name, or no package any more.
Change(s, kind, n) ==
  /\ changes < MaxChanges /\ changes' = changes + 1
  /\ kind = "package" \/ n = sources[s].name
  /\ sources' = [sources EXCEPT ![s] = Manifest(kind, n, changes + 1)]
  /\ prog' = [p \in Programs |-> IF prog[p].pc \in {"off", "idle"} THEN prog[p]
                                ELSE [prog[p] EXCEPT !.alone = FALSE]]
  /\ UNCHANGED <<dir, configured, records, files, installed, hurt, mixed, jobs, faults>>

Next ==
  \/ \E p \in Programs :
       \/ Start(p) \/ Skip(p) \/ Peek(p) \/ PeekFails(p) \/ Clear(p) \/ Copy(p) \/ CopyFails(p)
       \/ ReadState(p) \/ WriteState(p) \/ Done(p) \/ Quit(p) \/ Killed(p)
       \/ RemoveRecord(p) \/ RemoveFiles(p)
       \/ \E store \in Stores :
            \/ \E s \in Sources : Install(p, store, s)
            \/ \E n \in Names : UpdateOne(p, store, n) \/ RemovePackage(p, store, n)
            \/ UpdateAll(p, store)
  \/ \E s \in Sources, kind \in {"package", "plain", "none"}, n \in Names : Change(s, kind, n)

Spec == Init /\ [][Next]_vars

-----------------------------------------------------------------------------
(* Properties.                                                             *)

\* Unless programs work on a store, it has the files of the packages that it lists, as they
\* were when they were recorded, and no others: all but where an operation was cut off or
\* the source changed under it, and unless two programs changed a store at once.
RecordsMatchFiles ==
  ~mixed => \A store \in Stores :
    (\A p \in Programs : Works(p) => prog[p].store # store) =>
      \A n \in DOMAIN records[store] \cup DOMAIN files[store] :
        \/ <<store, n>> \in hurt
        \/ /\ n \in DOMAIN records[store] \cap DOMAIN files[store]
           /\ files[store][n].version = records[store][n].version /\ files[store][n].name = n

\* A store lists what was installed in it and not removed, whatever failed.
InstalledIsListed ==
  ~mixed => \A one \in installed : one[2] \in DOMAIN records[one[1]]

\* A program that is alone has the packages of its settings when it has started, unless two
\* of them have one name.
ConfiguredRun ==
  [][\A p \in Programs :
       /\ prog[p].pc = "next" /\ prog'[p].pc = "idle" /\ prog[p].job = "start" /\ prog[p].alone
       /\ IsInjective([i \in DOMAIN configured |-> sources[configured[i]].name]) /\ changes = 0
       => \A s \in ToSet(configured) :
            \E n \in DOMAIN records[prog[p].store] : records[prog[p].store][n].source = s]_vars

\* What it finds then for the extensions is what it found before for skills and prompts, and
\* what it installed in between.
CatalogIsWhole ==
  \A p \in Programs :
    prog[p].pc = "next" /\ prog[p].job = "start" /\ prog[p].alone
      => FoundBy(prog[p].project) \subseteq prog[p].catalog \cup prog[p].fetched

\* After an update of all packages of a store a program offers none of them, if no source
\* changed meanwhile, but for those whose sources have another name now.
UpdateSettles ==
  [][\A p \in Programs :
       prog[p].pc = "next" /\ prog'[p].pc = "idle" /\ prog[p].job = "all" /\ prog[p].todo = <<>>
         /\ prog[p].alone
       => \A n \in Notices(prog[p].project) :
            \E store \in {"global", prog[p].project} :
              /\ n \in Available(store)
              /\ store = prog[p].store => sources[records[store][n].source].name # n]_vars

\* A store has what it lists and lists what was installed; a program finds all of it.
StoresKept == RecordsMatchFiles /\ InstalledIsListed /\ CatalogIsWhole

\* What a start installs and an update brings is there when they have ended.
JobsTakeEffect == ConfiguredRun /\ UpdateSettles
=============================================================================
