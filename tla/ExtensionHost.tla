---------------------------- MODULE ExtensionHost ----------------------------
(***************************************************************************)
(* The supervisor of extensions (src/internal/extensions: supervisor.go,   *)
(* host.go, provider_overrides.go, autocomplete.go; the service's side in  *)
(* src/internal/agent/service_provider.go): what a start or a reload and   *)
(* the requests of extensions make of the shared registries, and a hook    *)
(* that calls the extensions one after the other.                          *)
(*                                                                         *)
(* A client is a number, used once; its process may exit at any time.      *)
(* External: the registry of tools (tools.Runtime): Register refuses a     *)
(* name that is taken, RegisterOrReplace does not, Unregister goes by name.*)
(***************************************************************************)
EXTENDS Naturals, FiniteSets

CONSTANTS Exts,       \* extensions, by key: package and name
          Tools,      \* names of tools
          Declares,   \* what each extension may declare when it is initialised: sets of tools
          Reloaders,  \* who calls Bootstrap or Reload
          MaxClients, \* bound on the processes started
          MaxAsks,    \* bound on the requests of extensions
          MaxHooks,   \* bound on the hooks emitted
          None

ASSUME HostAssumption ==
  /\ Declares \in [Exts -> SUBSET SUBSET Tools] /\ None \notin Exts
  /\ {MaxClients, MaxAsks, MaxHooks} \subseteq Nat

VARIABLES
  started,   \* clients so far: 1..started
  of,        \* the extension of each client
  alive,     \* clients whose process runs
  running,   \* Supervisor.running: the client of each extension, 0 for none
  tools,     \* tools.Runtime: the client behind each name, 0 for none
  names,     \* runningExt.toolNames of each client
  overrides, \* ProviderOverrides.byName, one provider: its owner
  models,    \* Config.Models: the owner whose override is in them
  complete,  \* autocompleteRegistry, one id: owner and client
  boot,      \* where each Reload stands
  ask,       \* the request of each client, handled on its reading goroutine
  asks,      \* requests so far
  hook,      \* EmitHook: extensions still to call and the merged answer
  hooks,     \* hooks so far
  torn,      \* history: clients whose start failed on a tool, or whose request outlived a stop
  overlapped \* history: a Reload began before another had ended

vars == <<started, of, alive, running, tools, names, overrides, models, complete, boot, ask,
          asks, hook, hooks, torn, overlapped>>
starts == <<started, of>>
registries == <<overrides, models, complete>>
requests == <<ask, asks>>
emits == <<hook, hooks>>
history == <<torn, overlapped>>

Clients == 1..MaxClients
Live == {running[e] : e \in Exts} \ {0}

NoBoot == [at |-> "idle", todo |-> {}, client |-> 0, declared |-> {}, left |-> {}]
NoAsk == [at |-> "idle", owner |-> 0, tool |-> None, seen |-> None]
NoHook == [at |-> "idle", todo |-> {}, cancel |-> FALSE, vetoed |-> FALSE]
NoCompletion == [owner |-> None, client |-> 0]

Init ==
  /\ started = 0 /\ of = [c \in Clients |-> None] /\ alive = {}
  /\ running = [e \in Exts |-> 0]
  /\ tools = [t \in Tools |-> 0] /\ names = [c \in Clients |-> {}]
  /\ overrides = None /\ models = None /\ complete = NoCompletion
  /\ boot = [r \in Reloaders |-> NoBoot]
  /\ ask = [c \in Clients |-> NoAsk] /\ asks = 0
  /\ hook = NoHook /\ hooks = 0
  /\ torn = {} /\ overlapped = FALSE

Booting(r) == boot[r].at # "idle"

-----------------------------------------------------------------------------
(* Reload and Bootstrap.                                                   *)

\* Mutant: the override of a provider outlives its owner.
StopAllKeepsOverride(r) ==
  /\ ~Booting(r) /\ started < MaxClients
  /\ boot' = [boot EXCEPT ![r] = [NoBoot EXCEPT !.at = "next", !.todo = Exts]]
  /\ overlapped' = (overlapped \/ \E s \in Reloaders \ {r} : Booting(s))
  /\ torn' = torn \cup {c \in Live : ask[c].at # "idle"}
  /\ tools' = [t \in Tools |-> IF \E c \in Live : t \in names[c] THEN 0 ELSE tools[t]]
  /\ complete' = IF complete.owner # None /\ running[complete.owner] # 0 THEN NoCompletion ELSE complete
  /\ alive' = alive \ Live
  /\ running' = [e \in Exts |-> 0]
  /\ UNCHANGED <<starts, names, overrides, models, requests, emits>>

\* stopAll holds the lock of the supervisor from the first extension to the last: each
\* loses its tools, by name, and what it registered, and its process is closed.
StopAll(r) ==
  /\ ~Booting(r) /\ started < MaxClients
  /\ boot' = [boot EXCEPT ![r] = [NoBoot EXCEPT !.at = "next", !.todo = Exts]]
  /\ overlapped' = (overlapped \/ \E s \in Reloaders \ {r} : Booting(s))
  /\ torn' = torn \cup {c \in Live : ask[c].at # "idle"}
  /\ tools' = [t \in Tools |-> IF \E c \in Live : t \in names[c] THEN 0 ELSE tools[t]]
  /\ overrides' = IF overrides # None /\ running[overrides] # 0 THEN None ELSE overrides
  /\ complete' = IF complete.owner # None /\ running[complete.owner] # 0 THEN NoCompletion ELSE complete
  /\ alive' = alive \ Live
  /\ running' = [e \in Exts |-> 0]
  /\ UNCHANGED <<starts, names, models, requests, emits>>

At(r, from, to) == boot[r].at = from /\ boot' = [boot EXCEPT ![r] = to]

\* No manifest, another type, permissions refused, or a command that does not start.
Skip(r) ==
  /\ \E e \in boot[r].todo : At(r, "next", [boot[r] EXCEPT !.todo = @ \ {e}])
  /\ UNCHANGED <<starts, alive, running, tools, names, registries, requests, emits, history>>

StartProcess(r) ==
  /\ started < MaxClients
  /\ \E e \in boot[r].todo :
       /\ At(r, "next", [boot[r] EXCEPT !.at = "init", !.todo = @ \ {e}, !.client = started + 1])
       /\ of' = [of EXCEPT ![started + 1] = e]
  /\ started' = started + 1
  /\ alive' = alive \cup {started + 1}
  /\ UNCHANGED <<running, tools, names, registries, requests, emits, history>>

Initialized(r) ==
  /\ boot[r].at = "init"
  /\ \E declared \in Declares[of[boot[r].client]] :
       At(r, "init", [boot[r] EXCEPT !.at = "tools", !.declared = declared, !.left = declared])
  /\ UNCHANGED <<starts, alive, running, tools, names, registries, requests, emits, history>>

\* Mutant: the process that did not answer is not closed.
InitFailsOpen(r) ==
  /\ At(r, "init", [boot[r] EXCEPT !.at = "next", !.client = 0])
  /\ UNCHANGED <<starts, alive, running, tools, names, registries, requests, emits, history>>

InitFails(r) ==
  /\ At(r, "init", [boot[r] EXCEPT !.at = "next", !.client = 0])
  /\ alive' = alive \ {boot[r].client}
  /\ UNCHANGED <<starts, running, tools, names, registries, requests, emits, history>>

RegisterTool(r) ==
  /\ \E t \in boot[r].left :
       /\ tools[t] = 0
       /\ At(r, "tools", [boot[r] EXCEPT !.left = @ \ {t}])
       /\ tools' = [tools EXCEPT ![t] = boot[r].client]
  /\ UNCHANGED <<starts, alive, running, names, registries, requests, emits, history>>

\* The client is closed; the tools registered before the one in conflict stay.
ToolConflict(r) ==
  /\ \E t \in boot[r].left : tools[t] # 0
  /\ At(r, "tools", [boot[r] EXCEPT !.at = "next", !.client = 0, !.declared = {}, !.left = {}])
  /\ alive' = alive \ {boot[r].client}
  /\ torn' = torn \cup {boot[r].client}
  /\ UNCHANGED <<starts, running, tools, names, registries, requests, emits, overlapped>>

\* From here on the extension is found as the owner of its requests.
Publish(r) ==
  /\ boot[r].left = {}
  /\ At(r, "tools", [boot[r] EXCEPT !.at = "next", !.client = 0, !.declared = {}])
  /\ running' = [running EXCEPT ![of[boot[r].client]] = boot[r].client]
  /\ names' = [names EXCEPT ![boot[r].client] = boot[r].declared]
  /\ UNCHANGED <<starts, alive, tools, registries, requests, emits, history>>

BootEnds(r) ==
  /\ boot[r].todo = {}
  /\ At(r, "next", NoBoot)
  /\ UNCHANGED <<starts, alive, running, tools, names, registries, requests, emits, history>>

\* A process that exits on its own stays in the table, with everything it registered.
Exit(c) ==
  /\ c \in alive /\ alive' = alive \ {c}
  /\ UNCHANGED <<starts, running, tools, names, registries, boot, requests, emits, history>>

-----------------------------------------------------------------------------
(* Requests, each in two steps: findOwner takes the lock of the supervisor *)
(* and gives it back before the request is handled.                        *)

Answered(c) == ask' = [ask EXCEPT ![c] = NoAsk]
Goto(c, from, to) == ask[c].at = from /\ ask' = [ask EXCEPT ![c].at = to]

FindOwner(c) ==
  /\ c \in alive /\ ask[c].at = "idle" /\ asks < MaxAsks
  /\ asks' = asks + 1
  /\ ask' = [ask EXCEPT ![c] = [NoAsk EXCEPT !.at = "found", !.owner = IF c \in Live THEN c ELSE 0]]
  /\ UNCHANGED <<starts, alive, running, tools, names, registries, boot, emits, history>>

\* "unknown extension": until it is published, and after it was stopped.
Refused(c) ==
  /\ ask[c].at = "found" /\ ask[c].owner = 0
  /\ Answered(c)
  /\ UNCHANGED <<starts, alive, running, tools, names, registries, boot, asks, emits, history>>

\* host/tools/register takes over a name, whoever has it ...
ReplaceTool(c) ==
  /\ ask[c].at = "found" /\ ask[c].owner = c
  /\ \E t \in Tools :
       /\ tools' = [tools EXCEPT ![t] = c]
       /\ ask' = [ask EXCEPT ![c].at = "append", ![c].tool = t]
  /\ UNCHANGED <<starts, alive, running, names, registries, boot, asks, emits, history>>

\* ... and the owner remembers it.
AppendName(c) ==
  /\ ask[c].at = "append"
  /\ names' = [names EXCEPT ![c] = @ \cup {ask[c].tool}]
  /\ Answered(c)
  /\ UNCHANGED <<starts, alive, running, tools, registries, boot, asks, emits, history>>

\* host/providers/register: the table of overrides first, ...
RegisterProvider(c) ==
  /\ ask[c].owner = c
  /\ Goto(c, "found", "models")
  /\ overrides' = of[c]
  /\ UNCHANGED <<starts, alive, running, tools, names, models, complete, boot, asks, emits, history>>

\* ... any extension may take any provider out again, ...
UnregisterProvider(c) ==
  /\ Goto(c, "found", "models")
  /\ overrides' = None
  /\ UNCHANGED <<starts, alive, running, tools, names, models, complete, boot, asks, emits, history>>

\* ... then the models made from it, without a lock, ...
EffectiveModels(c) ==
  /\ ask[c].at = "models"
  /\ ask' = [ask EXCEPT ![c].at = "assign", ![c].seen = overrides]
  /\ UNCHANGED <<starts, alive, running, tools, names, registries, boot, asks, emits, history>>

\* ... take the place of those of the configuration.
AssignModels(c) ==
  /\ ask[c].at = "assign"
  /\ models' = ask[c].seen
  /\ Answered(c)
  /\ UNCHANGED <<starts, alive, running, tools, names, overrides, complete, boot, asks, emits, history>>

\* host/ui/register_autocomplete replaces the provider with the same id.
RegisterAutocomplete(c) ==
  /\ ask[c].at = "found" /\ ask[c].owner = c
  /\ complete' = [owner |-> of[c], client |-> c]
  /\ Answered(c)
  /\ UNCHANGED <<starts, alive, running, tools, names, overrides, models, boot, asks, emits, history>>

-----------------------------------------------------------------------------
(* EmitHook.                                                               *)

\* The subscribers are those of this moment; they are called without the lock.
HookBegins ==
  /\ hook.at = "idle" /\ hooks < MaxHooks
  /\ \E subscribed \in SUBSET Exts \ {{}} :
       hook' = [NoHook EXCEPT !.at = "calls", !.todo = {running[e] : e \in subscribed} \ {0}]
  /\ hooks' = hooks + 1
  /\ UNCHANGED <<starts, alive, running, tools, names, registries, boot, requests, history>>

\* Mutant: the last answer decides.
HookAnswersLast ==
  /\ hook.at = "calls"
  /\ \E c \in hook.todo \cap alive, cancel \in BOOLEAN :
       hook' = [hook EXCEPT !.todo = @ \ {c}, !.cancel = cancel, !.vetoed = @ \/ cancel]
  /\ UNCHANGED <<starts, alive, running, tools, names, registries, boot, requests, hooks, history>>

\* cancel and block of any extension count (of text, args and command the last one).
HookAnswers ==
  /\ hook.at = "calls"
  /\ \E c \in hook.todo \cap alive, cancel \in BOOLEAN :
       hook' = [hook EXCEPT !.todo = @ \ {c}, !.cancel = @ \/ cancel, !.vetoed = @ \/ cancel]
  /\ UNCHANGED <<starts, alive, running, tools, names, registries, boot, requests, hooks, history>>

\* An error, a process that is gone among them, is kept and the others are called.
HookFails ==
  /\ hook.at = "calls"
  /\ \E c \in hook.todo : hook' = [hook EXCEPT !.todo = @ \ {c}]
  /\ UNCHANGED <<starts, alive, running, tools, names, registries, boot, requests, hooks, history>>

\* applyHookResponse, also when an extension failed.
HookEnds ==
  /\ hook.at = "calls" /\ hook.todo = {}
  /\ hook' = [hook EXCEPT !.at = "applied"]
  /\ UNCHANGED <<starts, alive, running, tools, names, registries, boot, requests, hooks, history>>

HookOver ==
  /\ hook.at = "applied"
  /\ hook' = NoHook
  /\ UNCHANGED <<starts, alive, running, tools, names, registries, boot, requests, hooks, history>>

-----------------------------------------------------------------------------
Reload(r) ==
  \/ StopAll(r) \/ Skip(r) \/ StartProcess(r) \/ Initialized(r) \/ InitFails(r)
  \/ RegisterTool(r) \/ ToolConflict(r) \/ Publish(r) \/ BootEnds(r)

HostRequest(c) ==
  \/ FindOwner(c) \/ Refused(c) \/ ReplaceTool(c) \/ AppendName(c) \/ RegisterProvider(c)
  \/ UnregisterProvider(c) \/ EffectiveModels(c) \/ AssignModels(c) \/ RegisterAutocomplete(c)

EmitHook == HookBegins \/ HookAnswers \/ HookFails \/ HookEnds \/ HookOver

Next ==
  \/ \E r \in Reloaders : Reload(r)
  \/ \E c \in Clients : HostRequest(c) \/ Exit(c)
  \/ EmitHook

Spec == Init /\ [][Next]_vars

-----------------------------------------------------------------------------
(* Properties.                                                             *)

TypeOK ==
  /\ started \in 0..MaxClients /\ alive \subseteq 1..started
  /\ running \in [Exts -> 0..started] /\ tools \in [Tools -> 0..started]
  /\ \A e \in Exts : running[e] # 0 => of[running[e]] = e
  /\ names \in [Clients -> SUBSET Tools]
  /\ {overrides, models, complete.owner} \subseteq Exts \cup {None}
  /\ \A r \in Reloaders : boot[r].client # 0 => boot[r].at \in {"init", "tools"}
  /\ asks \in 0..MaxAsks /\ hooks \in 0..MaxHooks

Quiet == \A r \in Reloaders : ~Booting(r)
Calm == \A c \in Clients : ask[c].at = "idle"

\* Once every Reload has ended, each process that still runs is the one its extension is
\* known by: no failed start, conflict or stop leaves a process behind.  Two Reloads at
\* the same time may (overlapped).
NoOrphans == Quiet /\ ~overlapped => alive \subseteq Live

\* A tool leads to a client that is known or being started, and will be taken out with
\* it.  The exceptions are the code's two leaks: a start that failed on a later tool, and
\* a request that found its owner before the stop.
ToolsOwned ==
  Calm /\ ~overlapped =>
    \A t \in Tools : tools[t] \notin {0} \cup torn =>
      \/ tools[t] \in Live /\ t \in names[tools[t]]
      \/ \E r \in Reloaders : boot[r].client = tools[t]

\* What an extension registered for providers and completion goes with it, but for a
\* request that outlived the stop.
RegisteredOwned ==
  Calm /\ ~overlapped =>
    \A e \in {overrides, complete.owner} \ {None} :
      running[e] # 0 \/ \E c \in torn : of[c] = e

\* Two extensions never share a name: a tool declared by a running extension is its own,
\* or was taken over by a request.
DeclaredToolsKept ==
  asks = 0 /\ ~overlapped =>
    \A e \in Exts : running[e] # 0 => \A t \in names[running[e]] : tools[t] = running[e]

\* A veto of any extension reaches the program, whatever the others answer and whichever
\* of them fail.
VetoKept == hook.at = "applied" => hook.vetoed = hook.cancel

\* What is registered belongs to an extension that runs.
RegistriesOwned == TypeOK /\ ToolsOwned /\ RegisteredOwned /\ DeclaredToolsKept
=============================================================================
