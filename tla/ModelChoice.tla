---------------------------- MODULE ModelChoice ----------------------------
(***************************************************************************)
(* The model and the thinking level of agent.Service while a program runs: *)
(* the user cycles and chooses models, extensions choose them, register    *)
(* and withdraw providers with models of their own, and the list of models *)
(* is read again when its overlay opens.  The UI thread and the goroutine  *)
(* that reads an extension run beside one another; Config.Models and       *)
(* Registry have no lock, Service.Model is locked for each access alone.   *)
(***************************************************************************)
EXTENDS Naturals, FiniteSets, Sequences, SequencesExt, FiniteSetsExt, Lists

CONSTANTS
  Extensions,  \* the extensions, each with a goroutine that reads it
  ModelFiles,  \* the lists of models that models.json may give
  Enabled,     \* the settings EnabledModels that are tried, sets of names
  Offers,      \* for each extension the providers it registers, each with its models
  LevelMaps,   \* for a name of a model its ThinkingLevelMap, if it has one
  MaxFileEdits, MaxRegistrations \* bounds: changes of models.json and of the providers

ModelChoiceAssumption ==
  /\ IsFiniteSet(Extensions) /\ {"", "ui"} \cap Extensions = {}
  /\ ModelFiles # {} /\ <<>> \notin ModelFiles
  /\ \A list \in ModelFiles : list \in Seq(ToSet(list))
  /\ \A e \in Extensions : \A p \in DOMAIN Offers[e] : Offers[e][p] \in Seq(ToSet(Offers[e][p]))
  /\ {MaxFileEdits, MaxRegistrations} \subseteq Nat

VARIABLES
  file,       \* models.json as another program left it
  base,       \* ProviderOverrides.baseSnap
  models,     \* Config.Models
  enabled,    \* Settings.EnabledModels
  registry,   \* the names that Registry knows
  overrides,  \* ProviderOverrides.byName: the owner and models of a registered provider
  model,      \* Service.Model
  record,     \* the last change of model in the session, "" when it has none
  level,      \* Service.thinkingLevel
  pc,         \* where the thread of the UI and those of the extensions are
  tmp,        \* the list or the model that a thread holds
  edited,     \* how often models.json was changed
  registered, \* how often providers were registered and withdrawn
  drift,      \* history: why the list need not be the effective one
  outdated,   \* history: the threads whose list was taken before the last registration
  lastList,   \* history: the thread that set Config.Models last, "" at first
  unbuilt,    \* history: the registry was not made from the list, or not from this one
  mixed,      \* history: two threads chose a model of this session at the same time
  cycled      \* history: the level is one that cycling gave for this model

vars == <<file, base, models, enabled, registry, overrides, model, record, level, pc, tmp,
          edited, registered, drift, outdated, lastList, unbuilt, mixed, cycled>>

listVars == <<models, registry, overrides, registered, drift, outdated, lastList, unbuilt>>
modelVars == <<model, record, mixed, cycled>>
fixed == <<file, base, enabled, edited>>

Threads == {"ui"} \cup Extensions
Names(list) == {list[i].name : i \in DOMAIN list}

Init ==
  /\ base \in ModelFiles /\ file = base /\ models = base
  /\ enabled \in Enabled
  /\ registry = Names(base)
  /\ overrides = <<>>
  /\ model = base[1] /\ record = "" /\ level = ""
  /\ pc = [t \in Threads |-> "idle"] /\ tmp = [t \in Threads |-> <<>>]
  /\ edited = 0 /\ registered = 0 /\ drift = {} /\ outdated = {} /\ lastList = "" /\ unbuilt = FALSE
  /\ mixed = FALSE /\ cycled = FALSE

Goto(t, l) == pc' = [pc EXCEPT ![t] = l]

-----------------------------------------------------------------------------
(* Providers of extensions.                                                *)

\* applyOverrides: the models of a registered provider get its address, and the models that
\* it brings follow those of the file, the providers in any order.
EffectiveModels ==
  LET known == [i \in DOMAIN base |->
                  IF base[i].provider \in DOMAIN overrides
                  THEN [base[i] EXCEPT !.base = overrides[base[i].provider].owner]
                  ELSE base[i]]
  IN {known \o FlattenSeq([i \in DOMAIN order |-> overrides[order[i]].models]) :
        order \in SetToSeqs(DOMAIN overrides)}

Changes(new) ==
  /\ registered < MaxRegistrations /\ registered' = registered + 1
  /\ overrides' = new
  /\ outdated' = outdated \cup {t \in Threads : pc[t] = "assign"}

\* host/providers/register: whoever had registered the name loses it.
RegisterProvider(e, p) ==
  /\ pc[e] = "idle" /\ p \in DOMAIN Offers[e]
  /\ Changes([q \in {p} \cup DOMAIN overrides |->
                IF q = p THEN [owner |-> e, models |-> Offers[e][p]] ELSE overrides[q]])
  /\ Goto(e, "rebuild")
  /\ UNCHANGED <<fixed, modelVars, models, registry, drift, lastList, unbuilt, level, tmp>>

\* Mutant: the models of a withdrawn provider stay until something else is registered.
UnregisterAlone(e, p) ==
  /\ pc[e] = "idle" /\ p \in DOMAIN overrides
  /\ Changes([q \in DOMAIN overrides \ {p} |-> overrides[q]])
  /\ UNCHANGED <<fixed, modelVars, models, registry, drift, lastList, unbuilt, level, pc, tmp>>

\* host/providers/unregister: any extension may name any provider.
UnregisterProvider(e, p) ==
  /\ pc[e] = "idle" /\ p \in DOMAIN overrides
  /\ Changes([q \in DOMAIN overrides \ {p} |-> overrides[q]])
  /\ Goto(e, "rebuild")
  /\ UNCHANGED <<fixed, modelVars, models, registry, drift, lastList, unbuilt, level, tmp>>

\* rebuildModelsFromOverrides takes the list under the lock of the overrides ...
TakeEffective(e) ==
  /\ pc[e] = "rebuild"
  /\ \E list \in EffectiveModels : tmp' = [tmp EXCEPT ![e] = list]
  /\ outdated' = outdated \ {e}
  /\ Goto(e, "assign")
  /\ UNCHANGED <<fixed, modelVars, models, registry, overrides, registered, drift, lastList, unbuilt, level>>

\* ... stores it without one ...
AssignModels(e) ==
  /\ pc[e] = "assign"
  /\ models' = tmp[e]
  /\ drift' = IF e \in outdated THEN {"raced"} ELSE {}
  /\ lastList' = e
  /\ Goto(e, "build")
  /\ UNCHANGED <<fixed, modelVars, registry, overrides, registered, outdated, unbuilt, level, tmp>>

\* ... and makes the registry from it, unless a model of it has no usable provider.
BuildRegistry(e) ==
  /\ pc[e] = "build"
  /\ \/ registry' = Names(tmp[e]) /\ unbuilt' = (lastList # e)
     \/ unbuilt' = TRUE /\ UNCHANGED registry
  /\ Goto(e, "idle") /\ tmp' = [tmp EXCEPT ![e] = <<>>]
  /\ UNCHANGED <<fixed, modelVars, models, overrides, registered, drift, outdated, lastList, level>>

\* Supervisor.stopAll takes the providers of an extension away; nothing makes a new list.
StopExtension(e) ==
  /\ \E p \in DOMAIN overrides : overrides[p].owner = e
  /\ Changes([p \in {q \in DOMAIN overrides : overrides[q].owner # e} |-> overrides[p]])
  /\ drift' = drift \cup {"stopped"}
  /\ UNCHANGED <<fixed, modelVars, models, registry, lastList, unbuilt, level, pc, tmp>>

\* Another program changes models.json.
EditFile ==
  /\ edited < MaxFileEdits /\ edited' = edited + 1
  /\ file' \in ModelFiles \ {file}
  /\ UNCHANGED <<base, enabled, listVars, modelVars, level, pc, tmp>>

\* openModelOverlayFiltered reads the list again: the models of extensions are not in it, and
\* neither baseSnap nor the registry follows.
OpenModelOverlay ==
  /\ pc["ui"] = "idle"
  /\ models' = file
  /\ drift' = drift \cup {"reloaded"} /\ lastList' = "ui" /\ unbuilt' = TRUE
  /\ UNCHANGED <<fixed, modelVars, registry, overrides, registered, outdated, level, pc, tmp>>

-----------------------------------------------------------------------------
(* Choosing a model.                                                       *)

First(list, S) == IF S = {} THEN 1 ELSE Min(S)

Available ==
  LET allowed == SelectSeq(models, LAMBDA m : m.name \in enabled)
  IN IF enabled = {} \/ allowed = <<>> THEN models ELSE allowed

\* Mutant: at the end of the list it stays there.
StayAtEnd(list, name) ==
  LET hits == {i \in DOMAIN list : list[i].name = name}
  IN IF hits = {} THEN list[1] ELSE list[Min({Min(hits) + 1, Len(list)})]

\* What comes after the first of these places in a list; its first element, when there is none.
After(list, hits) == IF hits = {} THEN list[1] ELSE list[(Min(hits) % Len(list)) + 1]

\* The model after that of this name.
Following(list, name) == After(list, {i \in DOMAIN list : list[i].name = name})

Preceding(list, name) ==
  LET i == First(list, {j \in DOMAIN list : list[j].name = name})
  IN IF i = 1 THEN Last(list) ELSE list[i - 1]

Choosing(t) == \E u \in Threads \ {t} : pc[u] \in {"reread", "set", "append"}

Chooses(t, m) == tmp' = [tmp EXCEPT ![t] = m] /\ Goto(t, "set")

\* CycleModel: the next of all models, enabled or not ...
CycleModel ==
  /\ pc["ui"] = "idle"
  /\ model' = Following(models, model.name)
  /\ mixed' = (mixed \/ Choosing("ui")) /\ cycled' = FALSE
  /\ Goto("ui", "reread")
  /\ UNCHANGED <<fixed, listVars, record, level, tmp>>

\* ... which it reads once more, without the lock, to record it.
CycleReads ==
  /\ pc["ui"] = "reread"
  /\ Chooses("ui", model)
  /\ UNCHANGED <<fixed, listVars, modelVars, level>>

\* cycleModelBackward goes among the enabled models, and selectModel by the name.
CycleModelBackward ==
  /\ pc["ui"] = "idle"
  /\ LET name == Preceding(Available, model.name).name
     IN Chooses("ui", Available[Min({i \in DOMAIN Available : Available[i].name = name})])
  /\ UNCHANGED <<fixed, listVars, modelVars, level>>

\* Enter in the list of models; the name may be one that is gone since the list opened.
SelectModel ==
  /\ pc["ui"] = "idle"
  /\ \E i \in DOMAIN Available :
       /\ \A j \in 1..i - 1 : Available[j].name # Available[i].name
       /\ Chooses("ui", Available[i])
  /\ UNCHANGED <<fixed, listVars, modelVars, level>>

\* SetModelByName, for /model and for host/set_model: the first model with this name or id.
SetModelByName(t, name) ==
  /\ pc[t] = "idle"
  /\ LET hits == {i \in DOMAIN models : name \in {models[i].name, models[i].id}}
     IN hits # {} /\ Chooses(t, models[Min(hits)])
  /\ UNCHANGED <<fixed, listVars, modelVars, level>>

\* SetModelRecord stores the model ...
SetModel(t) ==
  /\ pc[t] = "set"
  /\ model' = tmp[t]
  /\ mixed' = (mixed \/ Choosing(t)) /\ cycled' = FALSE
  /\ Goto(t, "append")
  /\ UNCHANGED <<fixed, listVars, record, level, tmp>>

\* ... and appends the change to the session.
AppendModelChange(t) ==
  /\ pc[t] = "append"
  /\ record' = tmp[t].name
  /\ Goto(t, "idle") /\ tmp' = [tmp EXCEPT ![t] = <<>>]
  /\ UNCHANGED <<fixed, listVars, model, mixed, cycled, level>>

\* A new session has no record; a choice that is under way may still be appended to it.
NewSession ==
  /\ pc["ui"] = "idle"
  /\ record' = "" /\ mixed' = Choosing("ui")
  /\ UNCHANGED <<fixed, listVars, model, cycled, level, pc, tmp>>

-----------------------------------------------------------------------------
(* The thinking level.                                                     *)

AllLevels == <<"off", "minimal", "low", "medium", "high", "xhigh", "max">>
UsualLevels == <<"off", "low", "medium", "high">>

LevelMap(m) == IF m.name \in DOMAIN LevelMaps THEN LevelMaps[m.name] ELSE <<>>

\* MapThinkingLevel: "nil" is a level that the model does not have, "" one that it has under
\* the name that is usual here.
MapThinkingLevel(m, l) ==
  IF l \notin DOMAIN LevelMap(m) \/ LevelMap(m)[l] = "" THEN l ELSE LevelMap(m)[l]

SupportedThinkingLevels(m) ==
  LET has == Among(AllLevels, {l \in ToSet(AllLevels) : MapThinkingLevel(m, l) # "nil"})
  IN IF LevelMap(m) = <<>> \/ has = <<>> THEN UsualLevels ELSE has

NextLevel(order, l) == After(order, {i \in DOMAIN order : order[i] = l})

CycleThinkingLevel ==
  /\ level' = NextLevel(SupportedThinkingLevels(model), IF level = "" THEN "off" ELSE level)
  /\ cycled' = TRUE
  /\ UNCHANGED <<fixed, listVars, model, record, mixed, pc, tmp>>

\* The settings, RPC and extensions store any level.
SetThinkingLevel ==
  /\ level' \in ToSet(AllLevels) /\ cycled' = FALSE
  /\ UNCHANGED <<fixed, listVars, model, record, mixed, pc, tmp>>

\* ChatTokenBudget: what a request carries; a level that the model lacks becomes "off".
LevelSent ==
  LET l == MapThinkingLevel(model, level) IN IF l = "nil" THEN "off" ELSE l

Next ==
  \/ \E e \in Extensions :
       \/ \E p \in DOMAIN Offers[e] : RegisterProvider(e, p)
       \/ \E p \in DOMAIN overrides : UnregisterProvider(e, p)
       \/ TakeEffective(e) \/ AssignModels(e) \/ BuildRegistry(e) \/ StopExtension(e)
  \/ EditFile \/ OpenModelOverlay
  \/ CycleModel \/ CycleReads \/ CycleModelBackward \/ SelectModel \/ NewSession
  \/ \E t \in Threads :
       \/ \E i \in DOMAIN models : SetModelByName(t, models[i].name) \/ SetModelByName(t, models[i].id)
       \/ SetModel(t) \/ AppendModelChange(t)
  \/ CycleThinkingLevel \/ SetThinkingLevel

Spec == Init /\ [][Next]_vars

-----------------------------------------------------------------------------
(* Properties.                                                             *)

Rebuilding == \E e \in Extensions : pc[e] \in {"rebuild", "assign", "build"}

\* Once every registration and withdrawal of a provider has returned, the program lists what
\* the file had at the start with the providers of the extensions applied, unless two
\* registrations overlapped, an extension was stopped or the list was read again.
ListIsEffective ==
  ~Rebuilding /\ drift = {} => \E list \in EffectiveModels : ToSet(models) = ToSet(list)

\* A model that is listed can be used: the registry that a turn asks knows its name, unless
\* the list was read again, or a rebuild failed or crossed another.
ListedAreRegistered == ~Rebuilding /\ ~unbuilt => Names(models) \subseteq registry

\* When no choice is under way, the last change of model in the session names the model that
\* turns use, so that a reader of the session learns which model answered; two threads that
\* choose at the same time may record it in the other order.
RecordIsModel ==
  (\A t \in Threads : pc[t] \notin {"reread", "set", "append"}) /\ record # "" /\ ~mixed =>
    record = model.name

\* Cycling comes to every model of the list, as long as no two have one name, whichever is
\* the current one and even when that is not listed any more.
CyclingReachesAll ==
  LET visited[k \in 0..Len(models)] ==
        IF k = 0 THEN model.name ELSE Following(models, visited[k - 1]).name
  IN Cardinality(Names(models)) = Len(models) =>
       Names(models) \subseteq {visited[k] : k \in 0..Len(models)}

\* Cycling comes to every thinking level that the model has, from any level.
LevelsReachAll ==
  LET order == SupportedThinkingLevels(model)
      reached[k \in 0..Len(order)] == IF k = 0 THEN level ELSE NextLevel(order, reached[k - 1])
  IN ToSet(order) \subseteq {reached[k] : k \in 0..Len(order)}

\* A level that cycling gave is sent under the name that the model has for it: it is not
\* turned off without a word, unless the model has no level at all.
CycledLevelIsSent ==
  cycled /\ (\E l \in ToSet(AllLevels) : MapThinkingLevel(model, l) # "nil") =>
    LevelSent = MapThinkingLevel(model, level)

\* The list of models, the registry, the session and the providers of extensions agree.
ListsAgree == ListIsEffective /\ ListedAreRegistered /\ RecordIsModel

\* Cycling comes to every model and to every level, and those levels are sent.
CyclingComesRound == CyclingReachesAll /\ LevelsReachAll /\ CycledLevelIsSent
=============================================================================
