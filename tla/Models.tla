------------------------------- MODULE Models -------------------------------
(***************************************************************************)
(* The lists of models of package config: models.json of the user and of   *)
(* the project, each with a list of models or with providers and their     *)
(* models, read when a program starts and when its list of models opens,   *)
(* and changed by `stell models add`.                                      *)
(*                                                                         *)
(* A file has `legacy`, a sequence of models, and `providers`, a function  *)
(* from the providers that it names.  Of the settings of a model the       *)
(* window of its context stands for those that belong to it alone, the     *)
(* address for those that belong to its provider, and two flags of         *)
(* compatibility for those that a model takes from its provider.           *)
(***************************************************************************)
EXTENDS Naturals, FiniteSets, Sequences, SequencesExt, FiniteSetsExt, TLC

CONSTANTS
  Order,    \* the providers in the order of their names
  Ids,      \* the models
  Names,    \* a name for a model that is not its id
  Adders,   \* runs of `stell models add`
  GlobalFiles, ProjectFiles  \* what models.json may be at the start

ModelsAssumption ==
  IsInjective(Order) /\ IsFiniteSet(Adders) /\ GlobalFiles # {} /\ ProjectFiles # {}

VARIABLES
  global, project,  \* the two files; one that does not exist is an empty one
  listed,           \* Config.Models of a program, <<>> before it started
  adding,           \* where a run of `stell models add` is: "none", "read" or "done"
  doing,            \* what those that are at "read" read, and what they add
  added,            \* history: the names that were added
  overlapped        \* history: two runs of `stell models add` at the same time

vars == <<global, project, listed, adding, doing, added, overlapped>>

Providers == ToSet(Order)

Unset == [role |-> "unset", format |-> "unset"]

Entry(id, name, window, compat) == [id |-> id, name |-> name, window |-> window, compat |-> compat]

Empty == [legacy |-> <<>>, providers |-> <<>>]

\* The defaults that `stell models add` has for a provider.
Defaults == [base |-> "local", compat |-> [role |-> "off", format |-> "unset"]]

Init ==
  /\ global \in GlobalFiles /\ project \in ProjectFiles
  /\ listed = <<>>
  /\ adding = [a \in Adders |-> "none"]
  /\ doing = <<>> /\ added = {} /\ overlapped = FALSE

-----------------------------------------------------------------------------
(* Reading a file.                                                         *)

NamesOf(models) == [i \in DOMAIN models |-> models[i].name]

\* mergeModelList and mergeModels: the names in the order in which they come first, each
\* with the last model that has it.
MergeModels(base, extra) ==
  LET all == base \o extra
      Named(names, m) == IF Contains(names, m.name) THEN names ELSE Append(names, m.name)
      names == FoldLeft(Named, NamesOf(base), extra)
  IN <<>> \o [i \in DOMAIN names |-> all[Max({j \in DOMAIN all : all[j].name = names[i]})]]

MergeCompat(base, over) == [f \in DOMAIN base |-> IF over[f] # "unset" THEN over[f] ELSE base[f]]

ProviderEntryToModel(p, pc, entry) ==
  [name |-> IF entry.name = "" THEN entry.id ELSE entry.name, provider |-> p, id |-> entry.id,
   window |-> entry.window, base |-> pc.base, compat |-> MergeCompat(pc.compat, entry.compat)]

ExpandProviders(providers) ==
  FoldLeft(LAMBDA models, p :
             IF p \notin DOMAIN providers THEN models
             ELSE LET pc == providers[p]
                  IN models \o [j \in DOMAIN pc.models |-> ProviderEntryToModel(p, pc, pc.models[j])],
           <<>>, Order)

ApplyProviderLevel(m, pc) ==
  [m EXCEPT !.base = IF pc.base # "" THEN pc.base ELSE @, !.compat = MergeCompat(pc.compat, @)]

\* mergeModelOverride builds the model anew from the override, but for its name.
MergeModelOverride(m, pc, over) ==
  LET patched == ProviderEntryToModel(m.provider, pc, over)
  IN IF over.name = "" THEN [patched EXCEPT !.name = m.name] ELSE patched

ApplyProviderConfig(models, providers) ==
  <<>> \o [i \in DOMAIN models |->
    LET m == models[i]
    IN IF m.provider \notin DOMAIN providers THEN m
       ELSE LET pc == providers[m.provider]
                leveled == ApplyProviderLevel(m, pc)
            IN IF m.id \in DOMAIN pc.overrides THEN MergeModelOverride(leveled, pc, pc.overrides[m.id])
               ELSE leveled]

\* ParseModelsJSON.
Parse(file) ==
  IF file.providers = <<>> THEN file.legacy
  ELSE ApplyProviderConfig(MergeModels(file.legacy, ExpandProviders(file.providers)),
                           file.providers)

Validate(models) == IsInjective(NamesOf(models))

\* Load and ReloadModels.
Loaded == IF project = Empty THEN Parse(global) ELSE MergeModels(Parse(global), Parse(project))

\* The model of a program that starts: what the settings name, of the provider that they
\* name, else the first of that provider, else the first at all or the one of the name.
DefaultModel(models, name, provider) ==
  LET Best(fits) == IF fits = {} THEN {} ELSE {Min(fits)}
      both == {i \in DOMAIN models : name = models[i].name /\ provider \in {"", models[i].provider}}
      ofProvider == {i \in DOMAIN models : models[i].provider = provider}
      other == {i \in DOMAIN models : name \in {"", models[i].name}}
  IN CASE both # {} -> Best(both)
       [] both = {} /\ ofProvider # {} -> Best(ofProvider)
       [] OTHER -> Best(other)

-----------------------------------------------------------------------------
(* A program, and `stell models add`.                                      *)

\* A program that starts refuses an invalid list; one that runs keeps what it has.
Load ==
  /\ LET models == Loaded
     IN Validate(models) /\ listed # models /\ listed' = models
  /\ UNCHANGED <<global, project, adding, doing, added, overlapped>>

\* modelsAdd reads the file; ...
AddReads(a, p, entry) ==
  /\ adding[a] = "none"
  /\ adding' = [adding EXCEPT ![a] = "read"]
  /\ doing' = a :> [file |-> global, provider |-> p, entry |-> entry] @@ doing
  /\ overlapped' = (overlapped \/ doing # <<>>)
  /\ UNCHANGED <<global, project, listed, added>>

\* Mutant: the providers are those of the defaults.
AddProviderModelAnew(file, p, entry) ==
  p :> [base |-> Defaults.base, compat |-> Defaults.compat, models |-> <<entry>>, overrides |-> <<>>]
    @@ file.providers

\* AddProviderModel: the provider gets the model, and the defaults where it says nothing.
AddProviderModel(file, p, entry) ==
  LET old == IF p \in DOMAIN file.providers THEN file.providers[p]
             ELSE [base |-> "", compat |-> Unset, models |-> <<>>, overrides |-> <<>>]
      new == [old EXCEPT !.base = IF @ = "" THEN Defaults.base ELSE @,
                         !.compat = IF @.role = "unset" THEN Defaults.compat ELSE @,
                         !.models = Append(@, entry)]
  IN p :> new @@ file.providers

\* ... and writes it, with its providers only, unless the provider has the model.
AddWrites(a) ==
  /\ adding[a] = "read"
  /\ LET file == doing[a].file
         p == doing[a].provider
         entry == doing[a].entry
         known == p \in DOMAIN file.providers
                    /\ \E i \in DOMAIN file.providers[p].models : file.providers[p].models[i].id = entry.id
     IN IF known THEN UNCHANGED <<global, added>>
        ELSE /\ global' = [legacy |-> <<>>, providers |-> AddProviderModel(file, p, entry)]
             /\ added' = added \cup {ProviderEntryToModel(p, Defaults, entry).name}
  /\ adding' = [adding EXCEPT ![a] = "done"]
  /\ doing' = [b \in DOMAIN doing \ {a} |-> doing[b]]
  /\ UNCHANGED <<project, listed, overlapped>>

Next ==
  \/ Load
  \/ \E a \in Adders : AddWrites(a)
  \/ \E a \in Adders, p \in Providers, id \in Ids, name \in Names \cup {""} :
       AddReads(a, p, Entry(id, name, 0, Unset))

Spec == Init /\ [][Next]_vars

-----------------------------------------------------------------------------
(* Properties.                                                             *)

\* Of the user's models that Parse finds.
Own == Parse(global)

\* The names of models that an override lists under a name of its own.
Renamed(file) ==
  UNION {LET pc == file.providers[p]
             renamed == {entry \in ToSet(pc.models) :
                           entry.id \in DOMAIN pc.overrides /\ pc.overrides[entry.id].name # ""}
         IN {ProviderEntryToModel(p, pc, entry).name : entry \in renamed} : p \in DOMAIN file.providers}

\* A model that was added is there when a program starts, unless two were added at once or
\* an override gives it, or another of its name, a name.
AddedIsListed == ~overlapped => added \ Renamed(global) \subseteq ToSet(NamesOf(Own))

KeepsNames(file, next) ==
  \A name \in {Parse(file)[i].name : i \in DOMAIN Parse(file)} : Contains(NamesOf(Parse(next)), name)

\* Adding a model takes no other from a file of providers, unless it has the name of one
\* that an override renames.
AddKeepsOthers ==
  [][/\ global' # global /\ ~overlapped' /\ global.legacy = <<>>
     /\ added' \cap Renamed(global') = {}
     => KeepsNames(global, global')]_vars

\* The list of a program is that of the user, with the models of the project in the place
\* of those of their names: a project hides no model, and adds to the end.
ProjectExtends ==
  listed = Loaded =>
    LET own == NamesOf(Own)
    IN SubSeq(NamesOf(listed), 1, Len(own)) = own
         /\ ToSet(NamesOf(listed)) = ToSet(own) \cup ToSet(NamesOf(Parse(project)))

\* The settings of a provider hold for each of its models, wherever a file names it.
ProviderHolds ==
  \A p \in DOMAIN global.providers, m \in ToSet(Own) :
    m.provider = p /\ global.providers[p].base # "" => m.base = global.providers[p].base

\* A program finds a model to start with unless the one it is to use is not listed, and one
\* of the provider it is to use when that has any.
DefaultFits ==
  \A name \in {""} \cup Ids, provider \in {""} \cup Providers :
    LET found == DefaultModel(listed, name, provider)
        ofProvider == {i \in DOMAIN listed : listed[i].provider = provider}
    IN /\ found = {} => listed = <<>> \/ (name \notin ToSet(NamesOf(listed)) /\ name # "")
       /\ provider # "" /\ ofProvider # {} => found \subseteq ofProvider

\* Every model that a file or a user gave is listed, with the settings of its provider.
ModelsKept == [](AddedIsListed /\ ProjectExtends /\ ProviderHolds /\ DefaultFits) /\ AddKeepsOthers
=============================================================================
