------------------------- MODULE ExtensionHostProofs -------------------------
(***************************************************************************)
(* Proofs about Processes: about ExtensionHost, for any number of          *)
(* extensions, tools, calls of Reload, processes, requests and hooks; and  *)
(* about ExtensionClient, ModelChoice and RpcServer.                       *)
(***************************************************************************)
EXTENDS Processes, Lists, Sequences, FiniteSetTheorems, WellFoundedInduction, TLAPS

-----------------------------------------------------------------------------
(* The inductive invariant.                                                *)

BootStates ==
  [at : {"idle", "next", "init", "tools"}, todo : SUBSET Exts, client : Clients \cup {0},
   declared : SUBSET Tools, left : SUBSET Tools]

AskStates ==
  [at : {"idle", "found", "append", "models", "assign"}, owner : Clients \cup {0},
   tool : Tools \cup {None}, seen : Exts \cup {None}]

HookStates ==
  [at : {"idle", "calls", "applied"}, todo : SUBSET Nat, cancel : BOOLEAN, vetoed : BOOLEAN]

\* Clients are numbered in the order in which they start; each is known by its extension
\* only.
ClientType ==
  /\ started \in 0..MaxClients /\ alive \subseteq 1..started /\ torn \subseteq 1..started
  /\ of \in [Clients -> Exts \cup {None}]
  /\ \A c \in 1..started : of[c] \in Exts
  /\ running \in [Exts -> 0..started]
  /\ \A e \in Exts : running[e] # 0 => of[running[e]] = e
  /\ \A r \in Reloaders : boot[r].client <= started
  /\ \A c \in Clients : ask[c].at # "idle" => c <= started

RegistryType ==
  /\ tools \in [Tools -> 0..started] /\ names \in [Clients -> SUBSET Tools]
  /\ {overrides, models} \subseteq Exts \cup {None}
  /\ complete \in [owner : Exts \cup {None}, client : Clients \cup {0}]

StepType ==
  /\ boot \in [Reloaders -> BootStates] /\ ask \in [Clients -> AskStates]
  /\ \A c \in Clients : ask[c].at = "append" => ask[c].tool \in Tools
  /\ asks \in 0..MaxAsks /\ hooks \in 0..MaxHooks
  /\ hook \in HookStates /\ overlapped \in BOOLEAN

Typed == ClientType /\ RegistryType /\ StepType

\* The extension of client c is known by it.
Known(c) == running[of[c]] = c

\* A start has a client from StartProcess to Publish or a failure, and has registered the
\* tools that it declared and are not left.
BootInv ==
  \A r \in Reloaders :
    /\ boot[r].client # 0 <=> boot[r].at \in {"init", "tools"}
    /\ boot[r].left \subseteq boot[r].declared

\* Without a second Reload, one at a time starts the extensions that none is known for.
AloneInv ==
  /\ \A r, s \in Reloaders : Booting(r) /\ Booting(s) => r = s
  /\ \A r \in Reloaders :
       /\ Booting(r) => \A e \in boot[r].todo : running[e] = 0
       /\ boot[r].client # 0 =>
            /\ of[boot[r].client] \notin boot[r].todo
            /\ running[of[boot[r].client]] = 0
            /\ ask[boot[r].client].owner = 0

\* The owner of a request is the client that made it, and known unless it was stopped.
AskInv ==
  \A c \in Clients :
    /\ ask[c].owner # 0 => ask[c].owner = c /\ ask[c].at # "idle" /\ (Known(c) \/ c \in torn)
    /\ ask[c].at = "append" => ask[c].owner = c
    /\ ask[c].at # "idle" => asks # 0

\* Reload r has registered tool t.
Registered(r, t) == boot[r].at = "tools" /\ t \in boot[r].declared \ boot[r].left

\* Each tool is in the list of its client, or a request or a start is about to put it
\* there.
ToolInv ==
  \A t \in Tools :
    tools[t] \notin {0} \cup torn =>
      \/ /\ Known(tools[t])
         /\ \/ t \in names[tools[t]]
            \/ ask[tools[t]].at = "append" /\ ask[tools[t]].tool = t
      \/ \E r \in Reloaders : boot[r].client = tools[t] /\ Registered(r, t)

\* A provider or a completion belongs to an extension that is known, or to one whose
\* request outlived the stop.
OwnerInv ==
  \A e \in {overrides, complete.owner} \ {None} : running[e] # 0 \/ \E c \in torn : of[c] = e

\* Without requests, what was declared was also got.
DeclaredInv ==
  asks = 0 =>
    /\ \A e \in Exts : running[e] # 0 => \A t \in names[running[e]] : tools[t] = running[e]
    /\ \A r \in Reloaders, t \in Tools : Registered(r, t) => tools[t] = boot[r].client

\* A process that runs is known, or is being started.
AliveInv == \A c \in alive : Known(c) \/ \E r \in Reloaders : boot[r].client = c

ReloadInv == AloneInv /\ ToolInv /\ OwnerInv /\ DeclaredInv /\ AliveInv

IInv ==
  /\ Typed /\ BootInv
  /\ \A c \in Clients : ask[c].at # "idle" => asks # 0
  /\ ~overlapped => AskInv /\ ReloadInv
  /\ hook.vetoed = hook.cancel

-----------------------------------------------------------------------------
(* What a step changes.                                                    *)

\* A step of a Reload changes the record of that Reload only.
LEMMA Moved ==
  ASSUME boot \in [Reloaders -> BootStates], NEW r \in Reloaders, NEW from,
         NEW to \in BootStates, At(r, from, to)
  PROVE  /\ boot' \in [Reloaders -> BootStates]
         /\ boot[r] \in BootStates /\ boot[r].at = from /\ boot'[r] = to
         /\ \A s \in Reloaders \ {r} : boot'[s] = boot[s]
BY DEF At

\* The record of a Reload, field by field.
Is(n, at, todo, client, declared, left) ==
  /\ n \in BootStates
  /\ n.at = at /\ n.todo = todo /\ n.client = client /\ n.declared = declared /\ n.left = left

\* What the steps make of the record.
LEMMA Edits ==
  ASSUME NEW b \in BootStates
  PROVE  /\ \A e \in Exts :
              Is([b EXCEPT !.todo = @ \ {e}],
                 b.at, b.todo \ {e}, b.client, b.declared, b.left)
         /\ \A e \in Exts, c \in Clients :
              Is([b EXCEPT !.at = "init", !.todo = @ \ {e}, !.client = c],
                 "init", b.todo \ {e}, c, b.declared, b.left)
         /\ \A d \in SUBSET Tools :
              Is([b EXCEPT !.at = "tools", !.declared = d, !.left = d],
                 "tools", b.todo, b.client, d, d)
         /\ \A t \in Tools :
              Is([b EXCEPT !.left = @ \ {t}],
                 b.at, b.todo, b.client, b.declared, b.left \ {t})
         /\ Is([b EXCEPT !.at = "next", !.client = 0],
               "next", b.todo, 0, b.declared, b.left)
         /\ Is([b EXCEPT !.at = "next", !.client = 0, !.declared = {}],
               "next", b.todo, 0, {}, b.left)
         /\ Is([b EXCEPT !.at = "next", !.client = 0, !.declared = {}, !.left = {}],
               "next", b.todo, 0, {}, {})
         /\ Is(NoBoot,
               "idle", {}, 0, {}, {})
         /\ Is([NoBoot EXCEPT !.at = "next", !.todo = Exts],
               "next", Exts, 0, {}, {})
<1> USE DEF BootStates, NoBoot
<1>1. ASSUME NEW e \in Exts, NEW n, n = [b EXCEPT !.todo = @ \ {e}]
      PROVE  Is(n, b.at, b.todo \ {e}, b.client, b.declared, b.left)
  BY <1>1 DEF Is
<1>2. ASSUME NEW e \in Exts, NEW c \in Clients,
             NEW n, n = [b EXCEPT !.at = "init", !.todo = @ \ {e}, !.client = c]
      PROVE  Is(n, "init", b.todo \ {e}, c, b.declared, b.left)
  BY <1>2 DEF Is
<1>3. ASSUME NEW d \in SUBSET Tools,
             NEW n, n = [b EXCEPT !.at = "tools", !.declared = d, !.left = d]
      PROVE  Is(n, "tools", b.todo, b.client, d, d)
  BY <1>3 DEF Is
<1>4. ASSUME NEW t \in Tools, NEW n, n = [b EXCEPT !.left = @ \ {t}]
      PROVE  Is(n, b.at, b.todo, b.client, b.declared, b.left \ {t})
  BY <1>4 DEF Is
<1>5. ASSUME NEW n, n = [b EXCEPT !.at = "next", !.client = 0]
      PROVE  Is(n, "next", b.todo, 0, b.declared, b.left)
  BY <1>5 DEF Is
<1>6. ASSUME NEW n, n = [b EXCEPT !.at = "next", !.client = 0, !.declared = {}]
      PROVE  Is(n, "next", b.todo, 0, {}, b.left)
  BY <1>6 DEF Is
<1>7. ASSUME NEW n, n = [b EXCEPT !.at = "next", !.client = 0, !.declared = {}, !.left = {}]
      PROVE  Is(n, "next", b.todo, 0, {}, {})
  BY <1>7 DEF Is
<1>8. ASSUME NEW n, n = NoBoot
      PROVE  Is(n, "idle", {}, 0, {}, {})
  BY <1>8 DEF Is
<1>9. ASSUME NEW n, n = [NoBoot EXCEPT !.at = "next", !.todo = Exts]
      PROVE  Is(n, "next", Exts, 0, {}, {})
  BY <1>9 DEF Is
<1>10. QED BY <1>1, <1>2, <1>3, <1>4, <1>5, <1>6, <1>7, <1>8, <1>9

\* Numbers of clients.
LEMMA Numbers ==
  ASSUME ClientType
  PROVE  /\ started \in Nat /\ 0 \notin Clients /\ 1..started \subseteq Clients
         /\ \A c \in Clients : c \in Nat /\ (c <= started <=> c \in 1..started)
         /\ started < MaxClients =>
              /\ started + 1 \in Clients /\ started + 1 \notin 0..started
              /\ started + 1 \in 0..MaxClients
              /\ 1..(started + 1) = 1..started \cup {started + 1}
BY HostAssumption DEF ClientType, Clients, HostAssumption

-----------------------------------------------------------------------------
(* The steps of a Reload.                                                  *)

LEMMA SkipKeeps ==
  ASSUME IInv, NEW r \in Reloaders, Skip(r)
  PROVE  IInv'
<1> USE DEF IInv, starts, registries, requests, emits, history
<1>1. PICK e \in boot[r].todo : At(r, "next", [boot[r] EXCEPT !.todo = @ \ {e}])
  BY DEF Skip
<1>2. boot[r] \in BootStates /\ e \in Exts
  BY <1>1 DEF Typed, StepType, BootStates
<1>3. Is([boot[r] EXCEPT !.todo = @ \ {e}],
         boot[r].at, boot[r].todo \ {e}, boot[r].client, boot[r].declared, boot[r].left)
  BY <1>2, Edits
<1>4. /\ boot' \in [Reloaders -> BootStates] /\ boot[r].at = "next"
      /\ boot'[r].at = "next" /\ boot'[r].todo = boot[r].todo \ {e}
      /\ boot'[r].client = boot[r].client /\ boot'[r].declared = boot[r].declared
      /\ boot'[r].left = boot[r].left
      /\ \A s \in Reloaders \ {r} : boot'[s] = boot[s]
  BY <1>1, <1>3, Moved DEF Typed, StepType, Is
<1>5. UNCHANGED <<started, of, alive, running, tools, names, overrides, models, complete, ask,
                  asks, hook, hooks, torn, overlapped>>
  BY DEF Skip
<1>6. Typed'
  <2>1. ClientType'
    BY <1>4, <1>5 DEF Typed, ClientType
  <2>2. RegistryType' /\ StepType'
    BY <1>4, <1>5 DEF Typed, RegistryType, StepType
  <2>3. QED BY <2>1, <2>2 DEF Typed
<1>7. BootInv'
  BY <1>4 DEF BootInv
<1>8. ~overlapped => AskInv'
  BY <1>5 DEF AskInv, Known
<1>9. ~overlapped => AloneInv'
  BY <1>4, <1>5 DEF ReloadInv, AloneInv, Booting
<1>10. ~overlapped => ToolInv'
  BY <1>4, <1>5 DEF ReloadInv, ToolInv, Known, Registered
<1>11. ~overlapped => OwnerInv'
  BY <1>5 DEF ReloadInv, OwnerInv
<1>12. ~overlapped => DeclaredInv'
  BY <1>4, <1>5 DEF ReloadInv, DeclaredInv, Registered
<1>13. ~overlapped => AliveInv'
  BY <1>4, <1>5 DEF ReloadInv, AliveInv, Known
<1>14. QED
  BY <1>5, <1>6, <1>7, <1>8, <1>9, <1>10, <1>11, <1>12, <1>13 DEF ReloadInv

LEMMA BootEndsKeeps ==
  ASSUME IInv, NEW r \in Reloaders, BootEnds(r)
  PROVE  IInv'
<1> USE DEF IInv, starts, registries, requests, emits, history
<1>1. Is(NoBoot, "idle", {}, 0, {}, {})
  BY Edits DEF Typed, StepType
<1>2. /\ boot' \in [Reloaders -> BootStates] /\ boot[r].at = "next"
      /\ boot'[r].at = "idle" /\ boot'[r].client = 0
      /\ boot'[r].declared = {} /\ boot'[r].left = {}
      /\ \A s \in Reloaders \ {r} : boot'[s] = boot[s]
  BY <1>1, Moved DEF BootEnds, Typed, StepType, Is
<1>3. UNCHANGED <<started, of, alive, running, tools, names, overrides, models, complete, ask,
                  asks, hook, hooks, torn, overlapped>>
  BY DEF BootEnds
<1>4. Typed'
  <2>1. started \in Nat
    BY Numbers DEF Typed
  <2>2. ClientType'
    BY <1>2, <1>3, <2>1 DEF Typed, ClientType
  <2>3. RegistryType' /\ StepType'
    BY <1>2, <1>3 DEF Typed, RegistryType, StepType
  <2>4. QED BY <2>2, <2>3 DEF Typed
<1>5. BootInv' /\ boot[r].client = 0
  BY <1>2 DEF BootInv
<1>6. ~overlapped => AskInv'
  BY <1>3 DEF AskInv, Known
<1>7. ~overlapped => AloneInv'
  BY <1>2, <1>3 DEF ReloadInv, AloneInv, Booting
<1>8. ~overlapped => ToolInv'
  BY <1>2, <1>3 DEF ReloadInv, ToolInv, Known, Registered
<1>9. ~overlapped => OwnerInv'
  BY <1>3 DEF ReloadInv, OwnerInv
<1>10. ~overlapped => DeclaredInv'
  BY <1>2, <1>3 DEF ReloadInv, DeclaredInv, Registered
<1>11. ~overlapped => AliveInv'
  BY <1>2, <1>3, <1>5, Numbers DEF ReloadInv, AliveInv, Known, Typed, ClientType
<1>12. QED
  BY <1>3, <1>4, <1>5, <1>6, <1>7, <1>8, <1>9, <1>10, <1>11 DEF ReloadInv

LEMMA InitializedKeeps ==
  ASSUME IInv, NEW r \in Reloaders, Initialized(r)
  PROVE  IInv'
<1> USE DEF IInv, starts, registries, requests, emits, history
<1>1. boot[r] \in BootStates /\ boot[r].at = "init"
  BY DEF Typed, StepType, Initialized
<1>2. boot[r].client # 0 /\ boot[r].client \in 1..started /\ of[boot[r].client] \in Exts
  BY <1>1, Numbers DEF BootInv, Typed, ClientType, BootStates, StepType
<1>3. PICK d \in SUBSET Tools :
        At(r, "init", [boot[r] EXCEPT !.at = "tools", !.declared = d, !.left = d])
  BY <1>2, HostAssumption DEF Initialized, HostAssumption
<1>4. Is([boot[r] EXCEPT !.at = "tools", !.declared = d, !.left = d],
         "tools", boot[r].todo, boot[r].client, d, d)
  BY <1>1, Edits
<1>5. PICK n : At(r, "init", n) /\ Is(n, "tools", boot[r].todo, boot[r].client, d, d)
  BY <1>3, <1>4, Zenon
<1>6. /\ boot' \in [Reloaders -> BootStates]
      /\ boot'[r].at = "tools" /\ boot'[r].todo = boot[r].todo
      /\ boot'[r].client = boot[r].client /\ boot'[r].declared = d /\ boot'[r].left = d
      /\ \A s \in Reloaders \ {r} : boot'[s] = boot[s]
  BY <1>5, Moved DEF Typed, StepType, Is
<1>7. UNCHANGED <<started, of, alive, running, tools, names, overrides, models, complete, ask,
                  asks, hook, hooks, torn, overlapped>>
  BY DEF Initialized
<1>8. Typed'
  <2>1. ClientType'
    BY <1>6, <1>7 DEF Typed, ClientType
  <2>2. RegistryType' /\ StepType'
    BY <1>6, <1>7 DEF Typed, RegistryType, StepType
  <2>3. QED BY <2>1, <2>2 DEF Typed
<1>9. BootInv'
  BY <1>1, <1>6 DEF BootInv
<1>10. ~overlapped => AskInv'
  BY <1>7 DEF AskInv, Known
<1>11. ~overlapped => AloneInv'
  BY <1>1, <1>6, <1>7 DEF ReloadInv, AloneInv, Booting
<1>12. ~overlapped => ToolInv'
  BY <1>1, <1>6, <1>7 DEF ReloadInv, ToolInv, Known, Registered
<1>13. ~overlapped => OwnerInv'
  BY <1>7 DEF ReloadInv, OwnerInv
<1>14. ~overlapped => DeclaredInv'
  BY <1>6, <1>7 DEF ReloadInv, DeclaredInv, Registered
<1>15. ~overlapped => AliveInv'
  BY <1>6, <1>7 DEF ReloadInv, AliveInv, Known
<1>16. QED
  BY <1>7, <1>8, <1>9, <1>10, <1>11, <1>12, <1>13, <1>14, <1>15 DEF ReloadInv

LEMMA InitFailsKeeps ==
  ASSUME IInv, NEW r \in Reloaders, InitFails(r)
  PROVE  IInv'
<1> USE DEF IInv, starts, registries, requests, emits, history
<1>1. Is([boot[r] EXCEPT !.at = "next", !.client = 0],
         "next", boot[r].todo, 0, boot[r].declared, boot[r].left)
  BY Edits DEF Typed, StepType
<1>2. PICK n : At(r, "init", n) /\ Is(n, "next", boot[r].todo, 0, boot[r].declared, boot[r].left)
  BY <1>1, Zenon DEF InitFails
<1>3. /\ boot' \in [Reloaders -> BootStates] /\ boot[r].at = "init"
      /\ boot'[r].at = "next" /\ boot'[r].client = 0 /\ boot'[r].todo = boot[r].todo
      /\ boot'[r].declared = boot[r].declared /\ boot'[r].left = boot[r].left
      /\ \A s \in Reloaders \ {r} : boot'[s] = boot[s]
  BY <1>2, Moved DEF Typed, StepType, Is
<1>4. /\ alive' = alive \ {boot[r].client}
      /\ UNCHANGED <<started, of, running, tools, names, overrides, models, complete, ask, asks,
                     hook, hooks, torn, overlapped>>
  BY DEF InitFails
<1>5. Typed'
  <2>1. started \in Nat
    BY Numbers DEF Typed
  <2>2. ClientType'
    <3>1. alive' \subseteq 1..started
      BY <1>4 DEF Typed, ClientType
    <3>2. \A s \in Reloaders : boot'[s].client <= started
      BY <1>3, <2>1 DEF Typed, ClientType
    <3>3. QED BY <1>4, <3>1, <3>2 DEF Typed, ClientType
  <2>3. RegistryType' /\ StepType'
    BY <1>3, <1>4 DEF Typed, RegistryType, StepType
  <2>4. QED BY <2>2, <2>3 DEF Typed
<1>6. BootInv'
  BY <1>3 DEF BootInv
<1>7. ~overlapped => AskInv'
  BY <1>4 DEF AskInv, Known
<1>8. ~overlapped => AloneInv'
  BY <1>3, <1>4 DEF ReloadInv, AloneInv, Booting
<1>9. ~overlapped => ToolInv'
  BY <1>3, <1>4 DEF ReloadInv, ToolInv, Known, Registered
<1>10. ~overlapped => OwnerInv'
  BY <1>4 DEF ReloadInv, OwnerInv
<1>11. ~overlapped => DeclaredInv'
  BY <1>3, <1>4 DEF ReloadInv, DeclaredInv, Registered
<1>12. ~overlapped => AliveInv'
  BY <1>3, <1>4 DEF ReloadInv, AliveInv, Known
<1>13. QED
  BY <1>4, <1>5, <1>6, <1>7, <1>8, <1>9, <1>10, <1>11, <1>12 DEF ReloadInv

\* A start that has a client: who it is, and that nothing else is being started.
LEMMA Starting ==
  ASSUME IInv, NEW r \in Reloaders, boot[r].at \in {"init", "tools"}
  PROVE  /\ boot[r] \in BootStates /\ started \in Nat
         /\ boot[r].client # 0 /\ boot[r].client \in 1..started
         /\ boot[r].client \in Clients /\ of[boot[r].client] \in Exts
         /\ ~overlapped =>
              /\ running[of[boot[r].client]] = 0
              /\ of[boot[r].client] \notin boot[r].todo
              /\ ask[boot[r].client].owner = 0
              /\ \A s \in Reloaders \ {r} : boot[s].at = "idle" /\ boot[s].client = 0
<1> USE DEF IInv
<1>1. boot[r] \in BootStates /\ boot[r].client # 0
  BY DEF BootInv, Typed, StepType
<1>2. started \in Nat /\ boot[r].client \in Clients /\ boot[r].client <= started
  BY <1>1, Numbers DEF Typed, ClientType, BootStates
<1>3. boot[r].client \in 1..started /\ of[boot[r].client] \in Exts
  BY <1>2, Numbers DEF Typed, ClientType
<1>4. ASSUME ~overlapped
      PROVE  /\ running[of[boot[r].client]] = 0 /\ of[boot[r].client] \notin boot[r].todo
             /\ ask[boot[r].client].owner = 0
  BY <1>1, <1>4 DEF ReloadInv, AloneInv
<1>5. ASSUME ~overlapped, NEW s \in Reloaders \ {r}
      PROVE  boot[s].at = "idle" /\ boot[s].client = 0
  BY <1>5 DEF ReloadInv, AloneInv, Booting, BootInv
<1>6. QED BY <1>1, <1>2, <1>3, <1>4, <1>5

LEMMA RegisterToolKeeps ==
  ASSUME IInv, NEW r \in Reloaders, RegisterTool(r)
  PROVE  IInv'
<1> USE DEF IInv, starts, registries, requests, emits, history
<1>1. PICK t \in boot[r].left :
        /\ tools[t] = 0 /\ At(r, "tools", [boot[r] EXCEPT !.left = @ \ {t}])
        /\ tools' = [tools EXCEPT ![t] = boot[r].client]
  BY DEF RegisterTool
<1>2. /\ boot[r].at = "tools" /\ boot[r] \in BootStates /\ t \in Tools /\ started \in Nat
      /\ boot[r].client \in 1..started /\ boot[r].client # 0
  BY <1>1, Starting DEF At, BootStates
<1>3. PICK n :
        /\ At(r, "tools", n)
        /\ Is(n, "tools", boot[r].todo, boot[r].client, boot[r].declared, boot[r].left \ {t})
  <2>1. Is([boot[r] EXCEPT !.left = @ \ {t}],
           "tools", boot[r].todo, boot[r].client, boot[r].declared, boot[r].left \ {t})
    BY <1>2, Edits
  <2>2. QED BY <1>1, <2>1, Zenon
<1>4. /\ boot' \in [Reloaders -> BootStates]
      /\ boot'[r].at = "tools" /\ boot'[r].todo = boot[r].todo
      /\ boot'[r].client = boot[r].client /\ boot'[r].declared = boot[r].declared
      /\ boot'[r].left = boot[r].left \ {t}
      /\ \A s \in Reloaders \ {r} : boot'[s] = boot[s]
  BY <1>3, Moved DEF Typed, StepType, Is
<1>5. /\ tools' \in [Tools -> 0..started] /\ tools'[t] = boot[r].client
      /\ \A u \in Tools \ {t} : tools'[u] = tools[u]
  BY <1>1, <1>2 DEF Typed, RegistryType
<1>6. UNCHANGED <<started, of, alive, running, names, overrides, models, complete, ask, asks,
                  hook, hooks, torn, overlapped>>
  BY DEF RegisterTool
<1>7. Typed'
  <2>1. ClientType'
    BY <1>4, <1>6 DEF Typed, ClientType
  <2>2. RegistryType' /\ StepType'
    BY <1>4, <1>5, <1>6 DEF Typed, RegistryType, StepType
  <2>3. QED BY <2>1, <2>2 DEF Typed
<1>8. BootInv'
  BY <1>2, <1>4 DEF BootInv
<1>9. ~overlapped => AskInv'
  BY <1>6 DEF AskInv, Known
<1>10. ~overlapped => AloneInv'
  BY <1>2, <1>4, <1>6 DEF ReloadInv, AloneInv, Booting
<1>11. ~overlapped => ToolInv'
  <2>1. Registered(r, t)'
    BY <1>1, <1>4 DEF BootInv, Registered
  <2>2. \A s \in Reloaders, u \in Tools : Registered(s, u) => Registered(s, u)'
    BY <1>2, <1>4 DEF Registered
  <2>3. \A s \in Reloaders : boot'[s].client = boot[s].client
    BY <1>4
  <2>4. QED
    BY <1>5, <1>6, <2>1, <2>2, <2>3 DEF ReloadInv, ToolInv, Known
<1>12. ~overlapped => OwnerInv'
  BY <1>6 DEF ReloadInv, OwnerInv
<1>13. ~overlapped => DeclaredInv'
  <2>1. \A s \in Reloaders, u \in Tools \ {t} : Registered(s, u)' => Registered(s, u)
    BY <1>2, <1>4 DEF Registered
  <2>2. ASSUME ~overlapped, NEW s \in Reloaders, Registered(s, t)'
        PROVE  s = r
    BY <1>2, <1>4, <2>2, Starting DEF Registered
  <2>3. \A s \in Reloaders : boot'[s].client = boot[s].client
    BY <1>4
  <2>4. QED
    BY <1>1, <1>5, <1>6, <2>1, <2>2, <2>3 DEF ReloadInv, DeclaredInv, Typed, RegistryType
<1>14. ~overlapped => AliveInv'
  BY <1>4, <1>6 DEF ReloadInv, AliveInv, Known
<1>15. QED
  BY <1>6, <1>7, <1>8, <1>9, <1>10, <1>11, <1>12, <1>13, <1>14 DEF ReloadInv

LEMMA ToolConflictKeeps ==
  ASSUME IInv, NEW r \in Reloaders, ToolConflict(r)
  PROVE  IInv'
<1> USE DEF IInv, starts, registries, requests, emits, history
<1>1. /\ boot[r].at = "tools" /\ boot[r] \in BootStates /\ started \in Nat
      /\ boot[r].client \in 1..started
  BY Starting DEF ToolConflict, At
<1>2. PICK n : At(r, "tools", n) /\ Is(n, "next", boot[r].todo, 0, {}, {})
  <2>1. Is([boot[r] EXCEPT !.at = "next", !.client = 0, !.declared = {}, !.left = {}],
           "next", boot[r].todo, 0, {}, {})
    BY <1>1, Edits
  <2>2. QED BY <2>1, Zenon DEF ToolConflict
<1>3. /\ boot' \in [Reloaders -> BootStates]
      /\ boot'[r].at = "next" /\ boot'[r].todo = boot[r].todo
      /\ boot'[r].client = 0 /\ boot'[r].declared = {} /\ boot'[r].left = {}
      /\ \A s \in Reloaders \ {r} : boot'[s] = boot[s]
  BY <1>2, Moved DEF Typed, StepType, Is
<1>4. /\ alive' = alive \ {boot[r].client} /\ torn' = torn \cup {boot[r].client}
      /\ UNCHANGED <<started, of, running, tools, names, overrides, models, complete, ask, asks,
                     hook, hooks, overlapped>>
  BY DEF ToolConflict
<1>5. Typed'
  <2>1. alive' \subseteq 1..started /\ torn' \subseteq 1..started
    BY <1>1, <1>4 DEF Typed, ClientType
  <2>2. \A s \in Reloaders : boot'[s].client <= started
    BY <1>1, <1>3 DEF Typed, ClientType
  <2>3. ClientType'
    BY <1>4, <2>1, <2>2 DEF Typed, ClientType
  <2>4. RegistryType' /\ StepType'
    BY <1>3, <1>4 DEF Typed, RegistryType, StepType
  <2>5. QED BY <2>3, <2>4 DEF Typed
<1>6. BootInv'
  BY <1>3 DEF BootInv
<1>7. ~overlapped => AskInv'
  BY <1>4 DEF AskInv, Known
<1>8. ~overlapped => AloneInv'
  BY <1>1, <1>3, <1>4 DEF ReloadInv, AloneInv, Booting
<1>9. ~overlapped => ToolInv'
  BY <1>1, <1>3, <1>4 DEF ReloadInv, ToolInv, Known, Registered
<1>10. ~overlapped => OwnerInv'
  BY <1>4 DEF ReloadInv, OwnerInv
<1>11. ~overlapped => DeclaredInv'
  BY <1>3, <1>4 DEF ReloadInv, DeclaredInv, Registered
<1>12. ~overlapped => AliveInv'
  BY <1>3, <1>4 DEF ReloadInv, AliveInv, Known
<1>13. QED
  BY <1>4, <1>5, <1>6, <1>7, <1>8, <1>9, <1>10, <1>11, <1>12 DEF ReloadInv

LEMMA PublishKeeps ==
  ASSUME IInv, NEW r \in Reloaders, Publish(r)
  PROVE  IInv'
<1> USE DEF IInv, starts, registries, requests, emits, history
<1> DEFINE c == boot[r].client
           x == of[c]
<1>1. /\ boot[r].at = "tools" /\ boot[r].left = {} /\ boot[r] \in BootStates
      /\ started \in Nat /\ c # 0 /\ c \in 1..started /\ c \in Clients /\ x \in Exts
      /\ boot[r].declared \subseteq Tools
  BY Starting DEF Publish, At, BootStates
<1>2. PICK n : At(r, "tools", n) /\ Is(n, "next", boot[r].todo, 0, {}, boot[r].left)
  <2>1. Is([boot[r] EXCEPT !.at = "next", !.client = 0, !.declared = {}],
           "next", boot[r].todo, 0, {}, boot[r].left)
    BY <1>1, Edits
  <2>2. QED BY <2>1, Zenon DEF Publish
<1>3. /\ boot' \in [Reloaders -> BootStates]
      /\ boot'[r].at = "next" /\ boot'[r].todo = boot[r].todo
      /\ boot'[r].client = 0 /\ boot'[r].declared = {} /\ boot'[r].left = {}
      /\ \A s \in Reloaders \ {r} : boot'[s] = boot[s]
  BY <1>1, <1>2, Moved DEF Typed, StepType, Is
<1>4. /\ running' \in [Exts -> 0..started] /\ running'[x] = c
      /\ \A e \in Exts \ {x} : running'[e] = running[e]
      /\ names' \in [Clients -> SUBSET Tools] /\ names'[c] = boot[r].declared
      /\ \A d \in Clients \ {c} : names'[d] = names[d]
  BY <1>1 DEF Publish, Typed, ClientType, RegistryType
<1>5. UNCHANGED <<started, of, alive, tools, overrides, models, complete, ask, asks, hook, hooks,
                  torn, overlapped>>
  BY DEF Publish
<1>6. Typed'
  <2>1. \A e \in Exts : running'[e] # 0 => of[running'[e]] = e
    BY <1>4 DEF Typed, ClientType
  <2>2. \A s \in Reloaders : boot'[s].client <= started
    BY <1>1, <1>3 DEF Typed, ClientType
  <2>3. ClientType'
    BY <1>4, <1>5, <2>1, <2>2 DEF Typed, ClientType
  <2>4. RegistryType' /\ StepType'
    BY <1>3, <1>4, <1>5 DEF Typed, RegistryType, StepType
  <2>5. QED BY <2>3, <2>4 DEF Typed
<1>7. BootInv'
  BY <1>3 DEF BootInv
<1>8. SUFFICES ASSUME ~overlapped PROVE AskInv' /\ ReloadInv'
  BY <1>5, <1>6, <1>7
<1>9. /\ running[x] = 0 /\ x \notin boot[r].todo
      /\ \A s \in Reloaders \ {r} : boot[s].at = "idle" /\ boot[s].client = 0
  BY <1>1, <1>8, Starting
<1>10. ASSUME NEW d \in 1..started, running[of[d]] = d
       PROVE  d # c /\ d # 0 /\ running'[of[d]] = d
  <2>1. d # 0 /\ d # c
    BY <1>1, <1>9, <1>10
  <2>2. of[d] \in Exts /\ of[d] # x
    BY <1>9, <1>10, <2>1 DEF Typed, ClientType
  <2>3. QED BY <1>4, <1>10, <2>1, <2>2
<1>11. AskInv'
  BY <1>5, <1>8, <1>10, Numbers DEF AskInv, Known, Typed, ClientType
<1>12. AloneInv'
  BY <1>1, <1>3, <1>4, <1>5, <1>8, <1>9 DEF ReloadInv, AloneInv, Booting, BootStates
<1>13. ToolInv'
  <2>1. SUFFICES ASSUME NEW t \in Tools, tools[t] # 0, tools[t] \notin torn
                 PROVE  /\ running'[of[tools[t]]] = tools[t]
                        /\ \/ t \in names'[tools[t]]
                           \/ ask[tools[t]].at = "append" /\ ask[tools[t]].tool = t
    BY <1>5 DEF ToolInv, Known
  <2>2. tools[t] \in 1..started /\ tools[t] \in Clients
    BY <1>1, <2>1, Numbers DEF Typed, RegistryType
  <2>3. CASE /\ Known(tools[t])
             /\ \/ t \in names[tools[t]]
                \/ ask[tools[t]].at = "append" /\ ask[tools[t]].tool = t
    BY <1>4, <1>10, <2>2, <2>3 DEF Known
  <2>4. CASE \E s \in Reloaders : boot[s].client = tools[t] /\ Registered(s, t)
    <3>1. tools[t] = c /\ t \in boot[r].declared
      BY <1>9, <2>1, <2>4 DEF Registered
    <3>2. QED BY <1>4, <3>1
  <2>5. QED BY <1>8, <2>1, <2>3, <2>4 DEF ReloadInv, ToolInv
<1>14. OwnerInv'
  BY <1>1, <1>4, <1>5, <1>8 DEF ReloadInv, OwnerInv, Typed, RegistryType
<1>15. DeclaredInv'
  <2>1. SUFFICES ASSUME asks = 0 PROVE DeclaredInv'
    BY <1>5 DEF DeclaredInv
  <2>2. \A t \in boot[r].declared : tools[t] = c
    BY <1>1, <1>8, <2>1 DEF ReloadInv, DeclaredInv, Registered
  <2>3. ASSUME NEW e \in Exts \ {x}, running[e] # 0
        PROVE  running[e] \in Clients \ {c}
    BY <1>1, <2>3, Numbers DEF Typed, ClientType
  <2>4. \A e \in Exts : running'[e] # 0 => \A t \in names'[running'[e]] : tools[t] = running'[e]
    BY <1>4, <1>8, <2>1, <2>2, <2>3 DEF ReloadInv, DeclaredInv
  <2>5. \A s \in Reloaders, t \in Tools : ~Registered(s, t)'
    BY <1>3, <1>9 DEF Registered
  <2>6. QED BY <1>5, <2>4, <2>5 DEF DeclaredInv
<1>16. AliveInv'
  <2>1. SUFFICES ASSUME NEW d \in alive
                 PROVE  running'[of[d]] = d \/ \E s \in Reloaders : boot'[s].client = d
    BY <1>5 DEF AliveInv, Known
  <2>2. d \in 1..started /\ d # 0
    <3>1. alive \subseteq 1..started
      BY <1>1 DEF Typed, ClientType
    <3>2. QED BY <2>1, <3>1
  <2>3. CASE Known(d)
    BY <1>10, <2>2, <2>3 DEF Known
  <2>4. CASE \E s \in Reloaders : boot[s].client = d
    BY <1>4, <1>9, <2>2, <2>4
  <2>5. QED BY <1>8, <2>1, <2>3, <2>4 DEF ReloadInv, AliveInv
<1>17. QED BY <1>11, <1>12, <1>13, <1>14, <1>15, <1>16 DEF ReloadInv

LEMMA StartProcessKeeps ==
  ASSUME IInv, NEW r \in Reloaders, StartProcess(r)
  PROVE  IInv'
<1> USE DEF IInv, starts, registries, requests, emits, history
<1> DEFINE c == started + 1
<1>1. PICK e \in boot[r].todo :
        /\ At(r, "next", [boot[r] EXCEPT !.at = "init", !.todo = @ \ {e}, !.client = c])
        /\ of' = [of EXCEPT ![c] = e]
  BY DEF StartProcess
<1>2. /\ boot[r] \in BootStates /\ boot[r].at = "next" /\ e \in Exts /\ started \in Nat
      /\ c \in Clients /\ c \notin 0..started /\ c \in 0..MaxClients
      /\ 1..c = 1..started \cup {c} /\ c # 0
  BY <1>1, Numbers DEF StartProcess, Typed, StepType, BootStates, At
<1>3. PICK n : At(r, "next", n)
               /\ Is(n, "init", boot[r].todo \ {e}, c, boot[r].declared, boot[r].left)
  <2>1. Is([boot[r] EXCEPT !.at = "init", !.todo = @ \ {e}, !.client = c],
           "init", boot[r].todo \ {e}, c, boot[r].declared, boot[r].left)
    BY <1>2, Edits
  <2>2. QED BY <1>1, <2>1, Zenon
<1>4. /\ boot' \in [Reloaders -> BootStates]
      /\ boot'[r].at = "init" /\ boot'[r].todo = boot[r].todo \ {e}
      /\ boot'[r].client = c /\ boot'[r].declared = boot[r].declared
      /\ boot'[r].left = boot[r].left
      /\ \A s \in Reloaders \ {r} : boot'[s] = boot[s]
  BY <1>3, Moved DEF Typed, StepType, Is
<1>5. /\ of' \in [Clients -> Exts \cup {None}] /\ of'[c] = e
      /\ \A d \in Clients \ {c} : of'[d] = of[d]
      /\ \A d \in 1..started : of'[d] = of[d]
  BY <1>1, <1>2, Numbers DEF Typed, ClientType
<1>6. /\ started' = c /\ alive' = alive \cup {c}
      /\ UNCHANGED <<running, tools, names, overrides, models, complete, ask, asks, hook, hooks,
                     torn, overlapped>>
  BY DEF StartProcess
<1>7. Typed'
  <2>1. 0..started \subseteq 0..c /\ 1..started \subseteq 1..c
    BY <1>2
  <2>2. /\ started' \in 0..MaxClients /\ alive' \subseteq 1..started'
        /\ torn' \subseteq 1..started' /\ \A d \in 1..started' : of'[d] \in Exts
    BY <1>2, <1>5, <1>6, <2>1 DEF Typed, ClientType
  <2>3. /\ running' \in [Exts -> 0..started']
        /\ \A x \in Exts : running'[x] # 0 => of'[running'[x]] = x
    BY <1>2, <1>5, <1>6, <2>1 DEF Typed, ClientType
  <2>4. \A s \in Reloaders : boot'[s].client <= started'
    BY <1>2, <1>4, <1>6, Numbers DEF Typed, ClientType, StepType, BootStates
  <2>5. \A d \in Clients : ask'[d].at # "idle" => d <= started'
    BY <1>2, <1>6, Numbers DEF Typed, ClientType
  <2>6. ClientType'
    BY <1>5, <2>2, <2>3, <2>4, <2>5 DEF ClientType
  <2>7. RegistryType'
    BY <1>6, <2>1 DEF Typed, RegistryType
  <2>8. StepType'
    BY <1>4, <1>6 DEF Typed, StepType
  <2>9. QED BY <2>6, <2>7, <2>8 DEF Typed
<1>8. BootInv'
  BY <1>2, <1>4 DEF BootInv
<1>9. SUFFICES ASSUME ~overlapped PROVE AskInv' /\ ReloadInv'
  BY <1>6, <1>7, <1>8
<1>10. /\ running[e] = 0 /\ ask[c].at = "idle" /\ ask[c].owner = 0
       /\ \A s \in Reloaders \ {r} : boot[s].at = "idle" /\ boot[s].client = 0
       /\ boot[r].client = 0
  <2>1. running[e] = 0
    BY <1>1, <1>2, <1>9 DEF ReloadInv, AloneInv, Booting
  <2>2. ask[c].at = "idle"
    BY <1>2, Numbers DEF Typed, ClientType
  <2>3. ask[c].owner = 0
    BY <1>2, <1>9, <2>2 DEF AskInv
  <2>4. boot[r].client = 0
    BY <1>2 DEF BootInv
  <2>5. ASSUME NEW s \in Reloaders \ {r}
        PROVE  boot[s].at = "idle" /\ boot[s].client = 0
    BY <1>2, <1>9, <2>5 DEF ReloadInv, AloneInv, Booting, BootInv
  <2>6. QED BY <2>1, <2>2, <2>3, <2>4, <2>5
<1>11. \A d \in 1..started : Known(d) => running[of'[d]] = d
  BY <1>5 DEF Known
<1>12. AskInv'
  <2>1. ASSUME NEW d \in Clients, ask[d].owner # 0
        PROVE  ask[d].owner = d /\ ask[d].at # "idle" /\ (running[of'[d]] = d \/ d \in torn)
    <3>1. ask[d].owner = d /\ ask[d].at # "idle" /\ (Known(d) \/ d \in torn)
      BY <1>9, <2>1 DEF AskInv
    <3>2. d \in 1..started
      BY <3>1, Numbers DEF Typed, ClientType
    <3>3. QED BY <1>11, <3>1, <3>2
  <2>2. \A d \in Clients : ask[d].at = "append" => ask[d].owner = d
    BY <1>9 DEF AskInv
  <2>3. QED BY <1>6, <2>1, <2>2 DEF AskInv, Known
<1>13. AloneInv'
  BY <1>2, <1>4, <1>5, <1>6, <1>9, <1>10 DEF ReloadInv, AloneInv, Booting
<1>14. ToolInv'
  <2>1. SUFFICES ASSUME NEW t \in Tools, tools[t] # 0, tools[t] \notin torn
                 PROVE  /\ running[of'[tools[t]]] = tools[t]
                        /\ \/ t \in names[tools[t]]
                           \/ ask[tools[t]].at = "append" /\ ask[tools[t]].tool = t
    BY <1>6 DEF ToolInv, Known
  <2>2. tools[t] \in 1..started
    BY <1>2, <2>1 DEF Typed, RegistryType
  <2>3. ~ \E s \in Reloaders : boot[s].client = tools[t] /\ Registered(s, t)
    BY <1>10, <2>1
  <2>4. QED BY <1>9, <1>11, <2>1, <2>2, <2>3 DEF ReloadInv, ToolInv
<1>15. OwnerInv'
  BY <1>5, <1>6, <1>9 DEF ReloadInv, OwnerInv, Typed, ClientType
<1>16. DeclaredInv'
  BY <1>4, <1>6, <1>9, <1>10 DEF ReloadInv, DeclaredInv, Registered
<1>17. AliveInv'
  <2>1. SUFFICES ASSUME NEW d \in alive PROVE running[of'[d]] = d
    BY <1>4, <1>6 DEF AliveInv, Known
  <2>2. d \in 1..started
    BY <2>1 DEF Typed, ClientType
  <2>3. Known(d)
    <3>1. d # 0
      BY <1>2, <2>2
    <3>2. QED BY <1>9, <1>10, <2>1, <3>1 DEF ReloadInv, AliveInv
  <2>4. QED BY <1>11, <2>2, <2>3
<1>18. QED BY <1>12, <1>13, <1>14, <1>15, <1>16, <1>17 DEF ReloadInv

LEMMA StopAllKeeps ==
  ASSUME IInv, NEW r \in Reloaders, StopAll(r)
  PROVE  IInv'
<1> USE DEF IInv, starts, registries, requests, emits, history
<1>1. PICK n : boot' = [boot EXCEPT ![r] = n] /\ Is(n, "next", Exts, 0, {}, {})
  BY Edits, Zenon DEF StopAll, Typed, StepType
<1>2. /\ boot' \in [Reloaders -> BootStates]
      /\ boot'[r].at = "next" /\ boot'[r].todo = Exts
      /\ boot'[r].client = 0 /\ boot'[r].declared = {} /\ boot'[r].left = {}
      /\ \A s \in Reloaders \ {r} : boot'[s] = boot[s]
  BY <1>1 DEF Typed, StepType, Is
<1>3. /\ boot[r].at = "idle" /\ boot[r].client = 0 /\ started \in Nat
      /\ overlapped' = (overlapped \/ \E s \in Reloaders \ {r} : Booting(s))
      /\ torn' = torn \cup {c \in Live : ask[c].at # "idle"}
      /\ alive' = alive \ Live
      /\ UNCHANGED <<started, of, names, models, ask, asks, hook, hooks>>
  BY Numbers DEF StopAll, Booting, BootInv, Typed
<1>4. /\ running' \in [Exts -> {0}] /\ \A e \in Exts : running'[e] = 0
      /\ tools' \in [Tools -> 0..started]
      /\ \A t \in Tools : tools'[t] # 0 => /\ tools'[t] = tools[t]
                                          /\ \A c \in Live : t \notin names[c]
  BY <1>3 DEF StopAll, Typed, RegistryType
<1>5. /\ overrides' \in Exts \cup {None}
      /\ overrides' # None => overrides' = overrides /\ running[overrides] = 0
  BY DEF StopAll, Typed, RegistryType
<1>6. /\ complete' \in [owner : Exts \cup {None}, client : Clients \cup {0}]
      /\ complete'.owner # None => complete' = complete /\ running[complete.owner] = 0
  BY DEF StopAll, Typed, RegistryType, NoCompletion
<1>7. Live \subseteq 1..started
  BY <1>3 DEF Live, Typed, ClientType
<1>8. Typed'
  <2>1. running' \in [Exts -> 0..started]
    BY <1>3, <1>4
  <2>2. \A s \in Reloaders : boot'[s].client <= started
    BY <1>2, <1>3 DEF Typed, ClientType
  <2>3. ClientType'
    BY <1>3, <1>4, <1>7, <2>1, <2>2 DEF Typed, ClientType
  <2>4. RegistryType'
    BY <1>3, <1>4, <1>5, <1>6 DEF Typed, RegistryType
  <2>5. overlapped' \in BOOLEAN
    BY <1>3 DEF Typed, StepType
  <2>6. StepType'
    BY <1>2, <1>3, <2>5 DEF Typed, StepType
  <2>7. QED BY <2>3, <2>4, <2>6 DEF Typed
<1>9. BootInv'
  BY <1>2 DEF BootInv
<1>10. SUFFICES ASSUME ~overlapped' PROVE AskInv' /\ ReloadInv'
  BY <1>3, <1>8, <1>9
<1>11. /\ ~overlapped
       /\ \A s \in Reloaders : boot[s].at = "idle" /\ boot[s].client = 0
  BY <1>3, <1>10 DEF Booting, BootInv
<1>12. \A c \in 1..started : Known(c) => c \in Live
  BY <1>3 DEF Known, Live, Typed, ClientType
<1>13. AskInv'
  <2>1. ASSUME NEW c \in Clients, ask[c].owner # 0
        PROVE  ask[c].owner = c /\ ask[c].at # "idle" /\ c \in torn'
    <3>1. ask[c].owner = c /\ ask[c].at # "idle" /\ (Known(c) \/ c \in torn)
      BY <1>11, <2>1 DEF AskInv
    <3>2. c \in 1..started
      BY <3>1, Numbers DEF Typed, ClientType
    <3>3. QED BY <1>3, <1>12, <3>1, <3>2
  <2>2. \A c \in Clients : ask[c].at = "append" => ask[c].owner = c
    BY <1>11 DEF AskInv
  <2>3. QED BY <1>3, <2>1, <2>2 DEF AskInv
<1>14. AloneInv'
  BY <1>2, <1>4, <1>11 DEF AloneInv, Booting
<1>15. ToolInv'
  <2>1. ASSUME NEW t \in Tools, tools'[t] # 0, tools'[t] \notin torn'
        PROVE  FALSE
    <3>1. /\ tools[t] # 0 /\ tools[t] \notin torn /\ tools[t] \notin torn'
          /\ tools[t] \in 1..started /\ \A c \in Live : t \notin names[c]
      BY <1>3, <1>4, <2>1 DEF Typed, RegistryType
    <3>2. /\ Known(tools[t])
          /\ t \in names[tools[t]] \/ ask[tools[t]].at = "append"
      BY <1>11, <3>1 DEF ReloadInv, ToolInv
    <3>3. QED BY <1>3, <1>12, <3>1, <3>2
  <2>2. QED BY <2>1 DEF ToolInv
<1>16. OwnerInv'
  <2>1. ASSUME NEW e, e # None, e = overrides' \/ e = complete'.owner
        PROVE  \E c \in torn' : of'[c] = e
    BY <1>3, <1>5, <1>6, <1>11, <2>1 DEF ReloadInv, OwnerInv
  <2>2. QED BY <2>1 DEF OwnerInv
<1>17. DeclaredInv'
  BY <1>2, <1>4, <1>11 DEF DeclaredInv, Registered
<1>18. AliveInv'
  <2>1. ASSUME NEW c \in alive'
        PROVE  FALSE
    <3>1. c \in alive /\ c \notin Live /\ c \in 1..started
      BY <1>3, <2>1 DEF Typed, ClientType
    <3>2. c # 0 /\ Known(c)
      BY <1>3, <1>11, <3>1 DEF ReloadInv, AliveInv
    <3>3. QED BY <1>12, <3>1, <3>2
  <2>2. QED BY <2>1 DEF AliveInv
<1>19. QED BY <1>13, <1>14, <1>15, <1>16, <1>17, <1>18 DEF ReloadInv

LEMMA ExitKeeps ==
  ASSUME IInv, NEW c \in Clients, Exit(c)
  PROVE  IInv'
<1> USE DEF IInv, starts, registries, requests, emits, history
<1>1. /\ alive' \subseteq alive
      /\ UNCHANGED <<started, of, running, tools, names, overrides, models, complete, boot, ask,
                     asks, hook, hooks, torn, overlapped>>
  BY DEF Exit
<1>2. Typed' /\ BootInv'
  BY <1>1 DEF Typed, ClientType, RegistryType, StepType, BootInv
<1>3. ~overlapped => AskInv' /\ AloneInv'
  BY <1>1 DEF AskInv, ReloadInv, AloneInv, Known, Booting
<1>4. ~overlapped => ToolInv' /\ OwnerInv'
  BY <1>1 DEF ReloadInv, ToolInv, OwnerInv, Known, Registered
<1>5. ~overlapped => DeclaredInv' /\ AliveInv'
  BY <1>1 DEF ReloadInv, DeclaredInv, AliveInv, Known, Registered
<1>6. QED BY <1>1, <1>2, <1>3, <1>4, <1>5 DEF ReloadInv

-----------------------------------------------------------------------------
(* Requests.                                                               *)

\* What the steps of a request have in common: they move the record of that request, and
\* of the rest they change the registries only.
RequestStep(c) ==
  /\ ask[c].at # "idle"
  /\ ask' \in [Clients -> AskStates] /\ \A d \in Clients \ {c} : ask'[d] = ask[d]
  /\ \/ ask'[c] = NoAsk
     \/ /\ ask'[c].owner = ask[c].owner /\ ask'[c].at # "idle"
        /\ ask'[c].at = "append" => ask'[c].tool \in Tools /\ ask[c].owner = c
  /\ UNCHANGED <<started, of, alive, running, boot, asks, hook, hooks, torn, overlapped>>

LEMMA RequestKeeps ==
  ASSUME IInv, NEW c \in Clients, RequestStep(c), RegistryType',
         ~overlapped => ToolInv' /\ OwnerInv'
  PROVE  IInv'
<1> USE DEF IInv, RequestStep, NoAsk
<1>1. Typed'
  <2>1. ClientType'
    BY DEF Typed, ClientType
  <2>2. StepType'
    BY DEF Typed, StepType
  <2>3. QED BY <2>1, <2>2 DEF Typed
<1>2. BootInv' /\ asks # 0
  BY DEF BootInv
<1>3. ~overlapped => AskInv'
  BY DEF AskInv, Known
<1>4. ~overlapped => AloneInv'
  BY Numbers DEF AskInv, ReloadInv, AloneInv, Booting, Typed, StepType, BootStates
<1>5. ~overlapped => DeclaredInv' /\ AliveInv'
  BY <1>2 DEF ReloadInv, DeclaredInv, AliveInv, Known
<1>6. QED BY <1>1, <1>2, <1>3, <1>4, <1>5 DEF ReloadInv

\* The end of a request, and the step to its models.
LEMMA AskEdits ==
  ASSUME IInv, NEW c \in Clients, ask[c].at # "idle"
  PROVE  /\ Answered(c) => ask' \in [Clients -> AskStates] /\ ask'[c] = NoAsk
         /\ Goto(c, "found", "models") =>
              /\ ask' \in [Clients -> AskStates] /\ ask'[c].at = "models"
              /\ ask'[c].owner = ask[c].owner
<1>1. ask \in [Clients -> AskStates]
  BY DEF IInv, Typed, StepType
<1>2. Answered(c) => ask' \in [Clients -> AskStates] /\ ask'[c] = NoAsk
  BY <1>1 DEF Answered, AskStates, NoAsk
<1>3. Goto(c, "found", "models") =>
        /\ ask' \in [Clients -> AskStates] /\ ask'[c].at = "models"
        /\ ask'[c].owner = ask[c].owner
  BY <1>1 DEF Goto, AskStates
<1>4. QED BY <1>2, <1>3

LEMMA FindOwnerKeeps ==
  ASSUME IInv, NEW c \in Clients, FindOwner(c)
  PROVE  IInv'
<1> USE DEF IInv, starts, registries, requests, emits, history
<1> DEFINE o == IF c \in Live THEN c ELSE 0
<1>1. PICK n : /\ ask' = [ask EXCEPT ![c] = n] /\ n \in AskStates
               /\ n.at = "found" /\ n.owner = o
  <2>1. ASSUME NEW n, n = [NoAsk EXCEPT !.at = "found", !.owner = o]
        PROVE  n \in AskStates /\ n.at = "found" /\ n.owner = o
    BY <2>1 DEF NoAsk, AskStates
  <2>2. QED BY <2>1, Zenon DEF FindOwner
<1>2. /\ ask' \in [Clients -> AskStates] /\ ask'[c].at = "found" /\ ask'[c].owner = o
      /\ \A d \in Clients \ {c} : ask'[d] = ask[d]
  BY <1>1 DEF Typed, StepType
<1>3. /\ ask[c].at = "idle" /\ asks' \in 0..MaxAsks /\ asks' # 0 /\ c \in alive
      /\ c \in 1..started /\ c <= started
      /\ UNCHANGED <<started, of, alive, running, tools, names, overrides, models, complete,
                     boot, hook, hooks, torn, overlapped>>
  BY Numbers, HostAssumption DEF FindOwner, Typed, ClientType, StepType, HostAssumption
<1>4. o # 0 => Known(c) /\ o = c
  BY <1>3 DEF Live, Known, Typed, ClientType
<1>5. Typed'
  <2>1. ClientType'
    BY <1>2, <1>3 DEF Typed, ClientType
  <2>2. RegistryType' /\ StepType'
    BY <1>2, <1>3 DEF Typed, RegistryType, StepType
  <2>3. QED BY <2>1, <2>2 DEF Typed
<1>6. BootInv'
  BY <1>3 DEF BootInv
<1>7. ~overlapped => AskInv'
  BY <1>2, <1>3, <1>4 DEF AskInv, Known
<1>8. ~overlapped => AloneInv'
  <2>1. ASSUME ~overlapped, NEW r \in Reloaders, boot[r].client = c, o # 0
        PROVE  FALSE
    BY <1>4, <2>1, Numbers DEF ReloadInv, AloneInv, Known, Typed
  <2>2. \A r \in Reloaders : boot[r].client \in Clients \cup {0}
    BY DEF Typed, StepType, BootStates
  <2>3. QED BY <1>2, <1>3, <2>1, <2>2 DEF ReloadInv, AloneInv, Booting
<1>9. ~overlapped => ToolInv'
  BY <1>2, <1>3, Numbers DEF ReloadInv, ToolInv, Known, Registered, Typed, RegistryType
<1>10. ~overlapped => OwnerInv' /\ DeclaredInv'
  BY <1>3 DEF ReloadInv, OwnerInv, DeclaredInv
<1>11. ~overlapped => AliveInv'
  BY <1>3 DEF ReloadInv, AliveInv, Known
<1>12. QED BY <1>3, <1>5, <1>6, <1>7, <1>8, <1>9, <1>10, <1>11 DEF ReloadInv

LEMMA RefusedKeeps ==
  ASSUME IInv, NEW c \in Clients, Refused(c)
  PROVE  IInv'
<1> USE DEF IInv, starts, registries, requests, emits, history
<1>1. ask' \in [Clients -> AskStates] /\ ask'[c] = NoAsk
  BY AskEdits DEF Refused
<1>2. ask[c].at = "found" /\ RequestStep(c)
  BY <1>1 DEF RequestStep, Refused, Answered
<1>3. UNCHANGED <<tools, names, overrides, models, complete>>
  BY DEF Refused
<1>4. RegistryType'
  BY <1>2, <1>3 DEF RequestStep, Typed, RegistryType
<1>5. ~overlapped => ToolInv' /\ OwnerInv'
  BY <1>1, <1>2, <1>3, Numbers
     DEF RequestStep, ReloadInv, ToolInv, OwnerInv, Known, Registered, Typed, RegistryType
<1>6. QED BY <1>2, <1>4, <1>5, RequestKeeps

LEMMA ReplaceToolKeeps ==
  ASSUME IInv, NEW c \in Clients, ReplaceTool(c)
  PROVE  IInv'
<1> USE DEF IInv, starts, registries, requests, emits, history
<1>1. PICK t \in Tools :
        /\ tools' = [tools EXCEPT ![t] = c]
        /\ ask' = [ask EXCEPT ![c].at = "append", ![c].tool = t]
  BY DEF ReplaceTool
<1>2. /\ ask' \in [Clients -> AskStates] /\ ask'[c].at = "append" /\ ask'[c].tool = t
      /\ ask'[c].owner = ask[c].owner
  <2>1. ask \in [Clients -> AskStates]
    BY DEF Typed, StepType
  <2>2. QED BY <1>1, <2>1 DEF AskStates
<1>3. ask[c].at = "found" /\ ask[c].owner = c /\ RequestStep(c)
  BY <1>1, <1>2 DEF RequestStep, ReplaceTool
<1>4. UNCHANGED <<names, overrides, models, complete>>
  BY DEF ReplaceTool
<1>5. c # 0 /\ c \in 0..started
  BY <1>3, Numbers DEF Typed, ClientType
<1>6. /\ tools' \in [Tools -> 0..started] /\ tools'[t] = c
      /\ \A u \in Tools \ {t} : tools'[u] = tools[u]
  BY <1>1, <1>5 DEF Typed, RegistryType
<1>7. RegistryType'
  BY <1>3, <1>4, <1>6 DEF RequestStep, Typed, RegistryType
<1>8. ~overlapped => ToolInv'
  <2>1. ASSUME ~overlapped, NEW u \in Tools \ {t}, tools[u] \notin {0} \cup torn
        PROVE  \/ /\ Known(tools[u])
                  /\ \/ u \in names[tools[u]]
                     \/ ask'[tools[u]].at = "append" /\ ask'[tools[u]].tool = u
               \/ \E r \in Reloaders : boot[r].client = tools[u] /\ Registered(r, u)
    <3>1. tools[u] \in Clients
      BY <2>1, Numbers DEF Typed, RegistryType
    <3>2. QED BY <1>3, <2>1, <3>1 DEF RequestStep, ReloadInv, ToolInv
  <2>2. ~overlapped => c \in torn \/ Known(c)
    BY <1>3, <1>5 DEF AskInv
  <2>3. QED BY <1>2, <1>3, <1>4, <1>6, <2>1, <2>2 DEF RequestStep, ToolInv, Known, Registered
<1>9. ~overlapped => OwnerInv'
  BY <1>3, <1>4 DEF RequestStep, ReloadInv, OwnerInv
<1>10. QED BY <1>3, <1>7, <1>8, <1>9, RequestKeeps

LEMMA AppendNameKeeps ==
  ASSUME IInv, NEW c \in Clients, AppendName(c)
  PROVE  IInv'
<1> USE DEF IInv, starts, registries, requests, emits, history
<1>1. ask' \in [Clients -> AskStates] /\ ask'[c] = NoAsk
  BY AskEdits DEF AppendName
<1>2. ask[c].at = "append" /\ RequestStep(c)
  BY <1>1 DEF RequestStep, AppendName, Answered
<1>3. UNCHANGED <<tools, overrides, models, complete>>
  BY DEF AppendName
<1>4. /\ names' \in [Clients -> SUBSET Tools] /\ names'[c] = names[c] \cup {ask[c].tool}
      /\ \A d \in Clients \ {c} : names'[d] = names[d]
  BY <1>2 DEF AppendName, Typed, RegistryType, StepType
<1>5. RegistryType'
  BY <1>2, <1>3, <1>4 DEF RequestStep, Typed, RegistryType
<1>6. ~overlapped => ToolInv'
  <2>1. ASSUME ~overlapped, NEW t \in Tools, tools[t] \notin {0} \cup torn
        PROVE  \/ /\ Known(tools[t])
                  /\ \/ t \in names'[tools[t]]
                     \/ ask'[tools[t]].at = "append" /\ ask'[tools[t]].tool = t
               \/ \E r \in Reloaders : boot[r].client = tools[t] /\ Registered(r, t)
    <3>1. tools[t] \in Clients
      BY <2>1, Numbers DEF Typed, RegistryType
    <3>2. QED BY <1>2, <1>4, <2>1, <3>1 DEF RequestStep, ReloadInv, ToolInv
  <2>2. QED BY <1>2, <1>3, <2>1 DEF RequestStep, ToolInv, Known, Registered
<1>7. ~overlapped => OwnerInv'
  BY <1>2, <1>3 DEF RequestStep, ReloadInv, OwnerInv
<1>8. QED BY <1>2, <1>5, <1>6, <1>7, RequestKeeps

\* The steps that are about the provider or the completion leave the tools alone.
LEMMA ToolsStay ==
  ASSUME IInv, NEW c \in Clients, RequestStep(c), ask[c].at # "append",
         ask'[c].at # "append", UNCHANGED <<tools, names>>
  PROVE  ~overlapped => ToolInv'
<1>1. SUFFICES ASSUME ~overlapped, NEW t \in Tools, tools[t] \notin {0} \cup torn
               PROVE  \/ /\ Known(tools[t])
                         /\ \/ t \in names[tools[t]]
                            \/ ask'[tools[t]].at = "append" /\ ask'[tools[t]].tool = t
                      \/ \E r \in Reloaders : boot[r].client = tools[t] /\ Registered(r, t)
  BY DEF RequestStep, ToolInv, Known, Registered
<1>2. tools[t] \in Clients
  BY <1>1, Numbers DEF IInv, Typed, RegistryType
<1>3. QED BY <1>1, <1>2 DEF RequestStep, IInv, ReloadInv, ToolInv

LEMMA RegisterProviderKeeps ==
  ASSUME IInv, NEW c \in Clients, RegisterProvider(c)
  PROVE  IInv'
<1> USE DEF IInv, starts, registries, requests, emits, history
<1>1. /\ ask' \in [Clients -> AskStates] /\ ask'[c].at = "models"
      /\ ask'[c].owner = ask[c].owner
  BY AskEdits DEF RegisterProvider, Goto
<1>2. ask[c].at = "found" /\ RequestStep(c) /\ ask[c].owner = c
  BY <1>1 DEF RequestStep, RegisterProvider, Goto
<1>3. overrides' = of[c] /\ UNCHANGED <<tools, names, models, complete>>
  BY DEF RegisterProvider
<1>4. overrides' \in Exts \cup {None}
  BY <1>2, <1>3, Numbers DEF Typed, ClientType
<1>5. RegistryType'
  BY <1>2, <1>3, <1>4 DEF RequestStep, Typed, RegistryType
<1>6. ~overlapped => ToolInv'
  BY <1>1, <1>2, <1>3, ToolsStay
<1>7. ~overlapped => OwnerInv'
  <2>1. c # 0 /\ of[c] \in Exts
    BY <1>2, Numbers DEF Typed, ClientType
  <2>2. ~overlapped => running[of[c]] # 0 \/ c \in torn
    BY <1>2, <2>1 DEF AskInv, Known
  <2>3. QED BY <1>2, <1>3, <2>2 DEF RequestStep, ReloadInv, OwnerInv
<1>8. QED BY <1>2, <1>5, <1>6, <1>7, RequestKeeps

LEMMA UnregisterProviderKeeps ==
  ASSUME IInv, NEW c \in Clients, UnregisterProvider(c)
  PROVE  IInv'
<1> USE DEF IInv, starts, registries, requests, emits, history
<1>1. /\ ask' \in [Clients -> AskStates] /\ ask'[c].at = "models"
      /\ ask'[c].owner = ask[c].owner
  BY AskEdits DEF UnregisterProvider, Goto
<1>2. ask[c].at = "found" /\ RequestStep(c)
  BY <1>1 DEF RequestStep, UnregisterProvider, Goto
<1>3. overrides' = None /\ UNCHANGED <<tools, names, models, complete>>
  BY DEF UnregisterProvider
<1>4. overrides' \in Exts \cup {None}
  BY <1>2, <1>3 DEF Typed, ClientType
<1>5. RegistryType'
  BY <1>2, <1>3, <1>4 DEF RequestStep, Typed, RegistryType
<1>6. ~overlapped => ToolInv'
  BY <1>1, <1>2, <1>3, ToolsStay
<1>7. ~overlapped => OwnerInv'
  BY <1>2, <1>3 DEF RequestStep, ReloadInv, OwnerInv
<1>8. QED BY <1>2, <1>5, <1>6, <1>7, RequestKeeps

LEMMA EffectiveModelsKeeps ==
  ASSUME IInv, NEW c \in Clients, EffectiveModels(c)
  PROVE  IInv'
<1> USE DEF IInv, starts, registries, requests, emits, history
<1>1. ask' \in [Clients -> AskStates] /\ ask'[c].at = "assign" /\ ask'[c].owner = ask[c].owner
  <2>1. ask \in [Clients -> AskStates] /\ overrides \in Exts \cup {None}
    BY DEF Typed, RegistryType, StepType
  <2>2. QED BY <2>1 DEF EffectiveModels, AskStates
<1>2. ask[c].at = "models" /\ RequestStep(c)
  BY <1>1 DEF RequestStep, EffectiveModels
<1>3. UNCHANGED <<tools, names, overrides, models, complete>>
  BY DEF EffectiveModels
<1>4. RegistryType'
  BY <1>2, <1>3 DEF RequestStep, Typed, RegistryType
<1>5. ~overlapped => ToolInv' /\ OwnerInv'
  BY <1>1, <1>2, <1>3, ToolsStay DEF RequestStep, ReloadInv, OwnerInv
<1>6. QED BY <1>2, <1>4, <1>5, RequestKeeps

LEMMA AssignModelsKeeps ==
  ASSUME IInv, NEW c \in Clients, AssignModels(c)
  PROVE  IInv'
<1> USE DEF IInv, starts, registries, requests, emits, history
<1>1. ask' \in [Clients -> AskStates] /\ ask'[c] = NoAsk
  BY AskEdits DEF AssignModels
<1>2. ask[c].at = "assign" /\ RequestStep(c)
  BY <1>1 DEF RequestStep, AssignModels, Answered
<1>3. models' \in Exts \cup {None} /\ UNCHANGED <<tools, names, overrides, complete>>
  BY DEF AssignModels, Typed, StepType, AskStates
<1>4. RegistryType'
  BY <1>2, <1>3 DEF RequestStep, Typed, RegistryType
<1>5. ~overlapped => ToolInv' /\ OwnerInv'
  BY <1>1, <1>2, <1>3, ToolsStay DEF RequestStep, ReloadInv, OwnerInv, NoAsk
<1>6. QED BY <1>2, <1>4, <1>5, RequestKeeps

LEMMA RegisterAutocompleteKeeps ==
  ASSUME IInv, NEW c \in Clients, RegisterAutocomplete(c)
  PROVE  IInv'
<1> USE DEF IInv, starts, registries, requests, emits, history
<1>1. ask' \in [Clients -> AskStates] /\ ask'[c] = NoAsk
  BY AskEdits DEF RegisterAutocomplete
<1>2. ask[c].at = "found" /\ ask[c].owner = c /\ RequestStep(c)
  BY <1>1 DEF RequestStep, RegisterAutocomplete, Answered
<1>3. complete' = [owner |-> of[c], client |-> c] /\ UNCHANGED <<tools, names, overrides, models>>
  BY DEF RegisterAutocomplete
<1>4. c # 0 /\ of[c] \in Exts
  BY <1>2, Numbers DEF Typed, ClientType
<1>5. RegistryType'
  BY <1>2, <1>3, <1>4 DEF RequestStep, Typed, RegistryType
<1>6. ~overlapped => ToolInv'
  BY <1>1, <1>2, <1>3, ToolsStay DEF NoAsk
<1>7. ~overlapped => OwnerInv'
  <2>1. ~overlapped => running[of[c]] # 0 \/ c \in torn
    BY <1>2, <1>4 DEF AskInv, Known
  <2>2. complete'.owner = of[c]
    BY <1>3
  <2>3. QED BY <1>2, <1>3, <2>1, <2>2 DEF RequestStep, ReloadInv, OwnerInv
<1>8. QED BY <1>2, <1>5, <1>6, <1>7, RequestKeeps

-----------------------------------------------------------------------------
(* Hooks, and the whole.                                                   *)

LEMMA HookKeeps ==
  ASSUME IInv, EmitHook
  PROVE  IInv'
<1> USE DEF IInv, starts, registries, requests, emits, history
<1>1. UNCHANGED <<started, of, alive, running, tools, names, overrides, models, complete, boot,
                  ask, asks, torn, overlapped>>
  BY DEF EmitHook, HookBegins, HookAnswers, HookFails, HookEnds, HookOver
<1>2. hook' \in HookStates /\ hook'.vetoed = hook'.cancel /\ hooks' \in 0..MaxHooks
  <2> USE HostAssumption DEF HostAssumption
  <2>1. hook \in HookStates /\ hooks \in 0..MaxHooks
    BY DEF Typed, StepType
  <2>2. \A todo : todo \in SUBSET Nat =>
          \A n : n = [NoHook EXCEPT !.at = "calls", !.todo = todo] =>
            n \in HookStates /\ n.vetoed = n.cancel
    BY DEF NoHook, HookStates
  <2>3. CASE HookBegins
    <3>1. \A subscribed \in SUBSET Exts : {running[e] : e \in subscribed} \ {0} \in SUBSET Nat
      BY Numbers DEF Typed, ClientType
    <3>2. PICK todo \in SUBSET Nat : hook' = [NoHook EXCEPT !.at = "calls", !.todo = todo]
      BY <2>3, <3>1, Zenon DEF HookBegins
    <3>3. hook' \in HookStates /\ hook'.vetoed = hook'.cancel
      BY <2>2, <3>2, Zenon
    <3>4. hooks' \in 0..MaxHooks
      BY <2>1, <2>3 DEF HookBegins
    <3>5. QED BY <3>3, <3>4
  <2>4. CASE HookAnswers
    <3>1. PICK c \in hook.todo \cap alive, cancel \in BOOLEAN :
            hook' = [hook EXCEPT !.todo = @ \ {c}, !.cancel = @ \/ cancel, !.vetoed = @ \/ cancel]
      BY <2>4 DEF HookAnswers
    <3>2. hook' \in HookStates
      BY <2>1, <3>1 DEF HookStates
    <3>3. hook'.vetoed = hook'.cancel
      BY <2>1, <3>1 DEF HookStates
    <3>4. QED BY <2>1, <2>4, <3>2, <3>3 DEF HookAnswers
  <2>5. CASE HookFails
    BY <2>1, <2>5 DEF HookFails, HookStates
  <2>6. CASE HookEnds
    BY <2>1, <2>6 DEF HookEnds, HookStates
  <2>7. CASE HookOver
    BY <2>1, <2>7 DEF HookOver, HookStates, NoHook
  <2>8. QED BY <2>3, <2>4, <2>5, <2>6, <2>7 DEF EmitHook
<1>3. Typed' /\ BootInv'
  BY <1>1, <1>2 DEF Typed, ClientType, RegistryType, StepType, BootInv
<1>4. ~overlapped => AskInv' /\ AloneInv'
  BY <1>1 DEF AskInv, ReloadInv, AloneInv, Known, Booting
<1>5. ~overlapped => ToolInv' /\ OwnerInv'
  BY <1>1 DEF ReloadInv, ToolInv, OwnerInv, Known, Registered
<1>6. ~overlapped => DeclaredInv' /\ AliveInv'
  BY <1>1 DEF ReloadInv, DeclaredInv, AliveInv, Known, Registered
<1>7. QED BY <1>1, <1>2, <1>3, <1>4, <1>5, <1>6 DEF ReloadInv

LEMMA InitInv == Init => IInv
<1> SUFFICES ASSUME Init PROVE IInv
  OBVIOUS
<1> USE HostAssumption DEF Init, HostAssumption
<1>1. ClientType
  BY DEF ClientType, NoBoot, NoAsk
<1>2. RegistryType
  BY DEF RegistryType, NoCompletion
<1>3. StepType
  <2>1. NoBoot \in BootStates /\ NoAsk \in AskStates /\ NoHook \in HookStates
    BY DEF NoBoot, NoAsk, NoHook, BootStates, AskStates, HookStates
  <2>2. boot \in [Reloaders -> BootStates] /\ ask \in [Clients -> AskStates]
    BY <2>1
  <2>3. \A c \in Clients : ask[c].at # "append"
    BY DEF NoAsk
  <2>4. asks \in 0..MaxAsks /\ hooks \in 0..MaxHooks
    OBVIOUS
  <2>5. hook \in HookStates /\ overlapped \in BOOLEAN
    BY <2>1
  <2>6. QED BY <2>2, <2>3, <2>4, <2>5 DEF StepType
<1>4. BootInv /\ AskInv /\ AloneInv
  BY DEF BootInv, AskInv, AloneInv, Booting, NoBoot, NoAsk
<1>5. ToolInv /\ OwnerInv /\ DeclaredInv /\ AliveInv
  BY DEF ToolInv, OwnerInv, DeclaredInv, AliveInv, Registered, NoBoot, NoCompletion
<1>6. hook.vetoed = hook.cancel /\ \A c \in Clients : ask[c].at = "idle"
  BY DEF NoHook, NoAsk
<1>7. QED BY <1>1, <1>2, <1>3, <1>4, <1>5, <1>6 DEF IInv, Typed, ReloadInv

LEMMA NextInv ==
  ASSUME IInv, [Next]_vars
  PROVE  IInv'
<1>1. ASSUME NEW r \in Reloaders, Reload(r)
      PROVE  IInv'
  BY <1>1, StopAllKeeps, SkipKeeps, StartProcessKeeps, InitializedKeeps, InitFailsKeeps,
     RegisterToolKeeps, ToolConflictKeeps, PublishKeeps, BootEndsKeeps DEF Reload
<1>2. ASSUME NEW c \in Clients, HostRequest(c)
      PROVE  IInv'
  BY <1>2, FindOwnerKeeps, RefusedKeeps, ReplaceToolKeeps, AppendNameKeeps, RegisterProviderKeeps,
     UnregisterProviderKeeps, EffectiveModelsKeeps, AssignModelsKeeps, RegisterAutocompleteKeeps
     DEF HostRequest
<1>3. ASSUME UNCHANGED vars
      PROVE  IInv'
  <2>1. Typed' /\ BootInv'
    BY <1>3 DEF vars, IInv, Typed, ClientType, RegistryType, StepType, BootInv
  <2>2. ~overlapped => AskInv' /\ AloneInv' /\ OwnerInv'
    BY <1>3 DEF vars, IInv, AskInv, ReloadInv, AloneInv, OwnerInv, Known, Booting
  <2>3. ~overlapped => ToolInv' /\ DeclaredInv' /\ AliveInv'
    BY <1>3 DEF vars, IInv, ReloadInv, ToolInv, DeclaredInv, AliveInv, Known, Registered
  <2>4. QED BY <1>3, <2>1, <2>2, <2>3 DEF vars, IInv, ReloadInv
<1>4. QED BY <1>1, <1>2, <1>3, ExitKeeps, HookKeeps DEF Next

LEMMA Invariant == Spec => []IInv
BY InitInv, NextInv, PTL DEF Spec

-----------------------------------------------------------------------------
(* The theorems.                                                           *)

\* A client that is known by its extension is in the table of the supervisor.
LEMMA KnownIsLive ==
  ASSUME Typed, NEW c \in 1..started
  PROVE  Known(c) <=> c \in Live
BY Numbers DEF Typed, ClientType, Known, Live

\* Whichever starts fail, whichever processes exit and whatever a stop interrupts: once
\* every Reload has ended, a process that still runs is the one its extension is known by.
THEOREM NoProcessIsLost == Spec => []NoOrphans
<1>1. IInv => NoOrphans
  <2> SUFFICES ASSUME IInv, Quiet, ~overlapped, NEW c \in alive
               PROVE  c \in Live
    BY DEF NoOrphans
  <2>1. c \in 1..started /\ c # 0
    BY Numbers DEF IInv, Typed, ClientType
  <2>2. \A r \in Reloaders : boot[r].client = 0
    BY DEF Quiet, Booting, IInv, BootInv
  <2>3. Known(c)
    BY <2>1, <2>2 DEF IInv, ReloadInv, AliveInv
  <2>4. QED BY <2>1, <2>3, KnownIsLive DEF IInv
<1>2. QED BY <1>1, Invariant, PTL

\* The registries hold nothing that no known extension would take out again: every tool,
\* provider and completion has its owner, but for the leaks that `torn` names.
THEOREM RegistriesAreOwned == Spec => []RegistriesOwned
<1> SUFFICES ASSUME IInv PROVE RegistriesOwned
  BY Invariant, PTL
<1> USE DEF IInv
<1>1. TypeOK
  <2>1. \A r \in Reloaders : boot[r].client # 0 => boot[r].at \in {"init", "tools"}
    BY DEF BootInv
  <2>2. QED BY <2>1 DEF TypeOK, Typed, ClientType, RegistryType, StepType
<1>2. ToolsOwned
  <2> SUFFICES ASSUME Calm, ~overlapped, NEW t \in Tools, tools[t] # 0, tools[t] \notin torn
               PROVE  \/ tools[t] \in Live /\ t \in names[tools[t]]
                      \/ \E r \in Reloaders : boot[r].client = tools[t]
    BY DEF ToolsOwned
  <2>1. tools[t] \in 1..started /\ tools[t] \in Clients
    BY Numbers DEF Typed, RegistryType
  <2>2. QED BY <2>1, KnownIsLive DEF Calm, ReloadInv, ToolInv
<1>3. RegisteredOwned
  BY DEF RegisteredOwned, ReloadInv, OwnerInv
<1>4. DeclaredToolsKept
  BY DEF DeclaredToolsKept, ReloadInv, DeclaredInv
<1>5. QED BY <1>1, <1>2, <1>3, <1>4 DEF RegistriesOwned

\* A veto of any extension is in the merged answer that the program applies.
THEOREM VetoReachesProgram == Spec => []VetoKept
<1>1. IInv => VetoKept
  BY DEF IInv, VetoKept
<1>2. QED BY <1>1, Invariant, PTL

-----------------------------------------------------------------------------
(* The client of one extension process: for any calls and notices, any     *)
(* room in the pipes and any number of requests and of answers that nobody *)
(* asked for.                                                              *)

\* What the pipes hold.
Sent == [kind : {"call", "reply"}, call : Calls \cup {C!NoCall}]
Answers == [kind : {"answer"}, call : Calls]
Received == Answers \cup [kind : {"request"}, call : {C!NoCall}]

PipeType ==
  /\ toExt \in Seq(Sent) /\ fromExt \in Seq(Received)
  /\ Len(toExt) <= Cap /\ Len(fromExt) <= Cap

CallType ==
  /\ pending \subseteq Calls \ Notices
  /\ answers \in [Calls -> 0..1] /\ endedCalls \subseteq Calls
  /\ callPc \in [Calls -> {"idle", "lock", "encode", "wait", "returned"}]
  /\ result \in [Calls -> {"", "answer", "cancelled", "exited", "unsent"}]

ReaderType ==
  /\ readLoop \in [at : {"read", "answer", "request", "deliver", "handler", "nested", "reply",
                         "replying"}, call : Calls \cup {C!NoCall}]
  /\ readLoop.at \in {"answer", "deliver"} => readLoop.call \in Calls
  /\ proc \in {"alive", "exited", "waited"}

\* The lock is with the one call that encodes, with the reader that replies, or free.
LockInv ==
  /\ mu \in Calls \cup {"", "reader"}
  /\ mu = "reader" <=> readLoop.at = "replying"
  /\ \A k \in Calls : callPc[k] = "encode" <=> mu = k

Delivers(k) == readLoop.at = "deliver" /\ readLoop.call = k

\* A call has an answer in its channel, on its way to it, or an entry in the table: one of them,
\* and none before it began.
TableInv ==
  /\ \A k \in Calls :
       /\ k \in pending \/ Delivers(k) => answers[k] = 0
       /\ ~(k \in pending /\ Delivers(k))
       /\ callPc[k] \in {"idle", "lock"} => k \notin pending /\ answers[k] = 0 /\ ~Delivers(k)
  /\ C!PendingAccounted

XInv == PipeType /\ CallType /\ ReaderType /\ LockInv /\ TableInv

LEMMA PipeIs ==
  ASSUME NEW S, NEW s \in Seq(S)
  PROVE  /\ <<>> \in Seq(S) /\ Len(<<>>) = 0 /\ Len(s) \in Nat
         /\ \A m \in S : Append(s, m) \in Seq(S) /\ Len(Append(s, m)) = Len(s) + 1
         /\ s # <<>> => Head(s) \in S /\ Tail(s) \in Seq(S) /\ Len(Tail(s)) <= Len(s)
OBVIOUS

LEMMA PipesTyped ==
  ASSUME C!ClientAssumption, PipeType, CallType, ReaderType, C!Next
  PROVE  PipeType'
<1>1. /\ Cap \in Nat /\ toExt \in Seq(Sent) /\ fromExt \in Seq(Received)
      /\ Len(toExt) \in Nat /\ Len(toExt) <= Cap /\ Len(fromExt) \in Nat /\ Len(fromExt) <= Cap
  BY PipeIs DEF C!ClientAssumption, PipeType
<1>2. /\ \A k \in Calls : C!Message("call", k) \in Sent /\ C!Message("answer", k) \in Received
      /\ C!Message("reply", C!NoCall) \in Sent /\ C!Message("request", C!NoCall) \in Received
  BY DEF C!Message, Sent, Received, Answers
<1>3. \/ toExt' = toExt \/ (toExt # <<>> /\ toExt' = Tail(toExt))
      \/ Len(toExt) < Cap /\ \E m \in Sent : toExt' = Append(toExt, m)
  BY <1>2
     DEF C!Next, C!Caller, C!ReadLoop, C!Extension, C!Begin, C!Lock, C!Encode,
         C!EncodeFails, C!Returned, C!ContextEnds, C!Wire, C!Read, C!TakeAnswer,
         C!Deliver, C!TakeRequest, C!HandlerReturns, C!HandlerCalls, C!NestedReturns,
         C!ReplyLock, C!Reply, C!ExtReads, C!ExtAnswers, C!ExtRepeats, C!ExtAsks,
         C!Close, C!Exit, C!Waited, C!Write, C!pipes
<1>4. \/ fromExt' = fromExt \/ (fromExt # <<>> /\ fromExt' = Tail(fromExt)) \/ fromExt' = <<>>
      \/ Len(fromExt) < Cap /\ \E m \in Received : fromExt' = Append(fromExt, m)
  BY <1>2
     DEF C!Next, C!Caller, C!ReadLoop, C!Extension, C!Begin, C!Lock, C!Encode,
         C!EncodeFails, C!Returned, C!ContextEnds, C!Wire, C!Read, C!TakeAnswer,
         C!Deliver, C!TakeRequest, C!HandlerReturns, C!HandlerCalls, C!NestedReturns,
         C!ReplyLock, C!Reply, C!ExtReads, C!ExtAnswers, C!ExtRepeats, C!ExtAsks,
         C!Close, C!Exit, C!Waited, C!Write, C!pipes
<1>5. toExt' \in Seq(Sent) /\ Len(toExt') <= Cap
  <2>1. CASE Len(toExt) < Cap /\ \E m \in Sent : toExt' = Append(toExt, m)
    <3>1. PICK m \in Sent : toExt' = Append(toExt, m)
      BY <2>1
    <3>2. toExt' \in Seq(Sent) /\ Len(toExt') = Len(toExt) + 1
      BY <1>1, <3>1, PipeIs
    <3>3. QED BY <1>1, <2>1, <3>2
  <2>2. CASE toExt # <<>> /\ toExt' = Tail(toExt)
    <3>1. toExt' \in Seq(Sent) /\ Len(toExt') <= Len(toExt) /\ Len(toExt') \in Nat
      BY <1>1, <2>2, PipeIs
    <3>2. QED BY <1>1, <3>1
  <2>3. QED BY <1>1, <1>3, <2>1, <2>2
<1>6. fromExt' \in Seq(Received) /\ Len(fromExt') <= Cap
  <2>1. CASE Len(fromExt) < Cap /\ \E m \in Received : fromExt' = Append(fromExt, m)
    <3>1. PICK m \in Received : fromExt' = Append(fromExt, m)
      BY <2>1
    <3>2. fromExt' \in Seq(Received) /\ Len(fromExt') = Len(fromExt) + 1
      BY <1>1, <3>1, PipeIs
    <3>3. QED BY <1>1, <2>1, <3>2
  <2>2. CASE fromExt # <<>> /\ fromExt' = Tail(fromExt)
    <3>1. fromExt' \in Seq(Received) /\ Len(fromExt') <= Len(fromExt) /\ Len(fromExt') \in Nat
      BY <1>1, <2>2, PipeIs
    <3>2. QED BY <1>1, <3>1
  <2>3. CASE fromExt' = <<>>
    <3>1. fromExt' \in Seq(Received) /\ Len(fromExt') = 0
      BY <1>1, <2>3, PipeIs
    <3>2. QED BY <1>1, <3>1
  <2>4. QED BY <1>1, <1>4, <2>1, <2>2, <2>3
<1>7. QED BY <1>5, <1>6 DEF PipeType

\* The steps of a call.
LEMMA CallKeeps ==
  ASSUME C!ClientAssumption, CallType, ReaderType, LockInv, TableInv, NEW k \in Calls,
         C!Begin(k) \/ C!Caller(k) \/ C!ContextEnds(k)
  PROVE  CallType' /\ ReaderType' /\ LockInv' /\ TableInv'
<1> USE DEF C!Goto, C!Returns, C!pipes, C!life
<1>1. UNCHANGED <<readLoop, proc>> /\ \A j \in Calls : j # "" /\ j # "reader"
  BY DEF C!ClientAssumption, C!Begin, C!Caller, C!ContextEnds, C!Lock, C!Encode,
         C!EncodeFails, C!Returned
<1>2. ReaderType'
  BY <1>1 DEF ReaderType
<1>3. CASE C!Begin(k)
  <2>1. CallType'
    BY <1>3 DEF C!Begin, CallType
  <2>2. LockInv'
    BY <1>1, <1>3 DEF C!Begin, CallType, LockInv
  <2>3. TableInv'
    BY <1>1, <1>3 DEF C!Begin, CallType, TableInv, Delivers, C!PendingAccounted
  <2>4. QED BY <1>2, <2>1, <2>2, <2>3
<1>4. CASE C!Lock(k)
  <2>1. CallType'
    BY <1>4 DEF C!Lock, CallType
  <2>2. LockInv'
    <3>1. /\ mu = "" /\ mu' = k /\ callPc' = [callPc EXCEPT ![k] = "encode"]
          /\ DOMAIN callPc = Calls
      BY <1>4 DEF C!Lock, CallType
    <3>2. QED BY <1>1, <3>1 DEF LockInv
  <2>3. TableInv'
    BY <1>1, <1>4 DEF C!Lock, CallType, TableInv, Delivers, C!PendingAccounted
  <2>4. QED BY <1>2, <2>1, <2>2, <2>3
<1>5. CASE C!Encode(k)
  <2>1. CallType'
    BY <1>5 DEF C!Encode, CallType
  <2>2. LockInv'
    <3>1. PICK to \in {"returned", "wait"} :
            callPc[k] = "encode" /\ mu' = "" /\ callPc' = [callPc EXCEPT ![k] = to]
      BY <1>5 DEF C!Encode
    <3>2. DOMAIN callPc = Calls
      BY DEF CallType
    <3>3. QED BY <1>1, <3>1, <3>2 DEF LockInv
  <2>3. TableInv'
    BY <1>1, <1>5 DEF C!Encode, CallType, TableInv, Delivers, C!PendingAccounted
  <2>4. QED BY <1>2, <2>1, <2>2, <2>3
<1>6. CASE C!EncodeFails(k)
  <2>1. CallType'
    BY <1>6 DEF C!EncodeFails, CallType
  <2>2. LockInv'
    <3>1. /\ callPc[k] = "encode" /\ mu' = "" /\ callPc' = [callPc EXCEPT ![k] = "returned"]
          /\ DOMAIN callPc = Calls
      BY <1>6 DEF C!EncodeFails, CallType
    <3>2. QED BY <1>1, <3>1 DEF LockInv
  <2>3. TableInv'
    BY <1>1, <1>6 DEF C!EncodeFails, CallType, TableInv, Delivers, C!PendingAccounted
  <2>4. QED BY <1>2, <2>1, <2>2, <2>3
<1>7. CASE C!Returned(k)
  <2>1. /\ callPc[k] = "wait" /\ callPc' = [callPc EXCEPT ![k] = "returned"]
        /\ UNCHANGED <<mu, pending, endedCalls>>
    BY <1>7 DEF C!Returned
  <2>2. PICK got \in {"answer", "cancelled", "exited"} :
          /\ result' = [result EXCEPT ![k] = got]
          /\ \/ got = "answer" /\ answers[k] > 0 /\ answers' = [answers EXCEPT ![k] = @ - 1]
             \/ got # "answer" /\ answers' = answers
    BY <1>7 DEF C!Returned
  <2>3. /\ answers' = answers \/ (answers[k] # 0 /\ answers' = [answers EXCEPT ![k] = 0])
        /\ answers' = answers => got \in {"cancelled", "exited"}
    <3>1. answers[k] \in 0..1 /\ DOMAIN answers = Calls
      BY DEF CallType
    <3>2. answers[k] > 0 => answers[k] = 1 /\ answers[k] - 1 = 0
      BY <3>1
    <3>3. QED BY <2>2, <3>1, <3>2
  <2>4. CallType'
    <3>1. 0 \in 0..1
      OBVIOUS
    <3>2. QED BY <2>1, <2>2, <2>3, <3>1 DEF CallType
  <2>5. LockInv'
    BY <1>1, <2>1 DEF CallType, LockInv
  <2>6. TableInv'
    <3>1. /\ DOMAIN callPc = Calls /\ DOMAIN answers = Calls /\ DOMAIN result = Calls
          /\ pending \subseteq Calls
      BY DEF CallType
    <3>2. answers' # answers => k \notin pending
      BY <2>3 DEF TableInv
    <3>3. \A j \in Calls : answers[j] = 0 => answers'[j] = 0
      BY <2>3, <3>1
    <3>4. \A j \in Calls : /\ callPc'[j] = IF j = k THEN "returned" ELSE callPc[j]
                           /\ result'[j] = IF j = k THEN got ELSE result[j]
      BY <2>1, <2>2, <3>1
    <3>5. C!PendingAccounted'
      BY <2>1, <2>3, <3>1, <3>2, <3>4 DEF TableInv, C!PendingAccounted
    <3>6. \A j \in Calls : Delivers(j)' <=> Delivers(j)
      BY <1>1 DEF Delivers
    <3>7. QED BY <2>1, <3>3, <3>4, <3>5, <3>6 DEF TableInv
  <2>7. QED BY <1>2, <2>4, <2>5, <2>6
<1>8. CASE C!ContextEnds(k)
  <2>1. CallType'
    BY <1>8 DEF C!ContextEnds, CallType
  <2>2. LockInv' /\ TableInv'
    BY <1>1, <1>8 DEF C!ContextEnds, LockInv, TableInv, Delivers, C!PendingAccounted
  <2>3. QED BY <1>2, <2>1, <2>2
<1>9. QED BY <1>3, <1>4, <1>5, <1>6, <1>7, <1>8 DEF C!Caller

\* The steps of the goroutine that reads.
LEMMA ReaderKeeps ==
  ASSUME C!ClientAssumption, PipeType, CallType, ReaderType, LockInv, TableInv, C!ReadLoop
  PROVE  CallType' /\ ReaderType' /\ LockInv' /\ TableInv'
<1> USE DEF C!pipes, C!life, C!calls, C!Reader
<1>1. CASE C!Read
  <2>1. Head(fromExt) \in Received
    BY <1>1, PipeIs DEF PipeType, C!Read
  <2>2. /\ readLoop'.at \in {"answer", "request"} /\ readLoop'.call \in Calls \cup {C!NoCall}
        /\ readLoop'.at = "answer" => readLoop'.call \in Calls
        /\ readLoop' \in [at : {"answer", "request"}, call : Calls \cup {C!NoCall}]
        /\ readLoop.at = "read"
    BY <1>1, <2>1 DEF C!Read, Received, Answers
  <2>3. UNCHANGED <<mu, pending, answers, callPc, result, endedCalls, proc>>
    BY <1>1 DEF C!Read
  <2>4. QED
    BY <2>2, <2>3 DEF CallType, ReaderType, LockInv, TableInv, Delivers, C!PendingAccounted
<1>2. CASE C!TakeAnswer
  <2>1. /\ readLoop.at = "answer" /\ readLoop.call \in Calls
        /\ pending' = pending \ {readLoop.call}
        /\ UNCHANGED <<mu, answers, callPc, result, endedCalls, proc>>
    BY <1>2 DEF C!TakeAnswer, ReaderType
  <2>2. CASE readLoop.call \in pending
    <3>1. readLoop' = [at |-> "deliver", call |-> readLoop.call]
      BY <1>2, <2>2 DEF C!TakeAnswer
    <3>2. readLoop'.at = "deliver" /\ readLoop'.call = readLoop.call
      BY <3>1
    <3>3. CallType' /\ ReaderType'
      BY <2>1, <3>1 DEF CallType, ReaderType
    <3>4. LockInv'
      BY <2>1, <3>2 DEF LockInv
    <3>5. TableInv'
      BY <2>1, <2>2, <3>2 DEF TableInv, Delivers, C!PendingAccounted
    <3>6. QED BY <3>3, <3>4, <3>5
  <2>3. CASE readLoop.call \notin pending
    <3>1. readLoop' = [at |-> "read", call |-> C!NoCall]
      BY <1>2, <2>3 DEF C!TakeAnswer
    <3>2. readLoop'.at = "read"
      BY <3>1
    <3>3. CallType' /\ ReaderType'
      BY <2>1, <3>1 DEF CallType, ReaderType
    <3>4. LockInv' /\ TableInv'
      BY <2>1, <3>2 DEF LockInv, TableInv, Delivers, C!PendingAccounted
    <3>5. QED BY <3>3, <3>4
  <2>4. QED BY <2>2, <2>3
<1>3. CASE C!Deliver
  <2>1. /\ readLoop.at = "deliver" /\ readLoop.call \in Calls
        /\ answers' = [answers EXCEPT ![readLoop.call] = 1]
        /\ readLoop' = [at |-> "read", call |-> C!NoCall]
        /\ UNCHANGED <<mu, pending, callPc, result, endedCalls, proc>>
    BY <1>3 DEF C!Deliver, ReaderType
  <2>2. readLoop'.at = "read"
    BY <2>1
  <2>3. CallType' /\ ReaderType'
    <3>1. 1 \in 0..1
      OBVIOUS
    <3>2. CallType'
      BY <2>1, <3>1 DEF CallType
    <3>3. ReaderType'
      BY <2>1 DEF ReaderType
    <3>4. QED BY <3>2, <3>3
  <2>4. LockInv'
    BY <2>1, <2>2 DEF LockInv
  <2>5. TableInv'
    BY <2>1, <2>2 DEF CallType, TableInv, Delivers, C!PendingAccounted
  <2>6. QED BY <2>3, <2>4, <2>5
<1>4. CASE C!TakeRequest \/ C!HandlerReturns \/ C!NestedReturns
  <2>1. /\ readLoop' \in [at : {"read", "handler", "reply"}, call : {C!NoCall}]
        /\ readLoop.at \in {"request", "handler", "nested"}
        /\ UNCHANGED <<mu, pending, answers, callPc, result, endedCalls, proc>>
    <3>1. PICK at \in {"read", "handler", "reply"} : readLoop' = [at |-> at, call |-> C!NoCall]
      BY <1>4 DEF C!TakeRequest, C!HandlerReturns, C!NestedReturns
    <3>2. readLoop.at \in {"request", "handler", "nested"}
      BY <1>4 DEF C!TakeRequest, C!HandlerReturns, C!NestedReturns
    <3>3. UNCHANGED <<mu, pending, answers, callPc, result, endedCalls, proc>>
      BY <1>4 DEF C!TakeRequest, C!HandlerReturns, C!NestedReturns
    <3>4. QED BY <3>1, <3>2, <3>3
  <2>2. readLoop'.at \in {"read", "handler", "reply"}
    BY <2>1
  <2>3. CallType' /\ ReaderType'
    BY <2>1 DEF CallType, ReaderType
  <2>4. QED BY <2>1, <2>2, <2>3 DEF LockInv, TableInv, Delivers, C!PendingAccounted
<1>5. CASE \E k \in Calls : C!HandlerCalls(k)
  <2>1. PICK k \in Calls :
          /\ callPc[k] = "idle" /\ callPc' = [callPc EXCEPT ![k] = "lock"]
          /\ readLoop.at = "handler" /\ readLoop' = [at |-> "nested", call |-> k]
          /\ UNCHANGED <<mu, pending, answers, result, endedCalls, proc>>
    BY <1>5 DEF C!HandlerCalls, C!Goto
  <2>2. readLoop'.at = "nested"
    BY <2>1
  <2>3. CallType' /\ ReaderType'
    BY <2>1 DEF CallType, ReaderType
  <2>4. LockInv'
    BY <2>1, <2>2 DEF CallType, LockInv
  <2>5. TableInv'
    BY <2>1, <2>2 DEF CallType, TableInv, Delivers, C!PendingAccounted
  <2>6. QED BY <2>3, <2>4, <2>5
<1>6. CASE C!ReplyLock \/ C!Reply
  <2>1. /\ readLoop' \in [at : {"read", "replying"}, call : {C!NoCall}]
        /\ \/ mu = "" /\ mu' = "reader" /\ readLoop'.at = "replying" /\ readLoop.at = "reply"
           \/ mu' = "" /\ readLoop'.at = "read" /\ readLoop.at = "replying"
        /\ UNCHANGED <<pending, answers, callPc, result, endedCalls, proc>>
    <3>1. CASE C!ReplyLock
      <4>1. /\ readLoop' = [at |-> "replying", call |-> C!NoCall] /\ readLoop.at = "reply"
            /\ mu = "" /\ mu' = "reader"
            /\ UNCHANGED <<pending, answers, callPc, result, endedCalls, proc>>
        BY <3>1 DEF C!ReplyLock
      <4>2. QED BY <4>1
    <3>2. CASE C!Reply
      <4>1. /\ readLoop' = [at |-> "read", call |-> C!NoCall] /\ readLoop.at = "replying"
            /\ mu' = "" /\ UNCHANGED <<pending, answers, callPc, result, endedCalls, proc>>
        BY <3>2 DEF C!Reply
      <4>2. QED BY <4>1
    <3>3. QED BY <1>6, <3>1, <3>2
  <2>2. CallType' /\ ReaderType'
    BY <2>1 DEF CallType, ReaderType
  <2>3. LockInv'
    BY <2>1 DEF C!ClientAssumption, LockInv
  <2>4. TableInv'
    BY <2>1 DEF TableInv, Delivers, C!PendingAccounted
  <2>5. QED BY <2>2, <2>3, <2>4
<1>7. QED BY <1>1, <1>2, <1>3, <1>4, <1>5, <1>6 DEF C!ReadLoop

\* Those of the extension and of its process.
LEMMA ProcessKeeps ==
  ASSUME CallType, ReaderType, LockInv, TableInv,
         C!Wire \/ C!Extension \/ C!Close \/ C!Exit \/ C!Waited \/ UNCHANGED C!vars
  PROVE  CallType' /\ ReaderType' /\ LockInv' /\ TableInv'
<1>1. /\ UNCHANGED <<mu, pending, answers, callPc, result, endedCalls, readLoop>>
      /\ proc' = proc \/ proc' \in {"exited", "waited"}
  <2> USE DEF C!pipes, C!life, C!calls
  <2>1. CASE C!Wire \/ C!Close \/ C!ExtReads \/ C!ExtAsks
    BY <2>1 DEF C!Wire, C!Close, C!ExtReads, C!ExtAsks
  <2>2. CASE \E k \in Calls : C!ExtAnswers(k) \/ C!ExtRepeats(k)
    BY <2>2 DEF C!ExtAnswers, C!ExtRepeats
  <2>3. CASE C!Exit \/ C!Waited
    BY <2>3 DEF C!Exit, C!Waited
  <2>4. CASE UNCHANGED C!vars
    BY <2>4 DEF C!vars
  <2>5. QED BY <2>1, <2>2, <2>3, <2>4 DEF C!Extension
<1>2. CallType' /\ ReaderType'
  BY <1>1 DEF CallType, ReaderType
<1>3. QED BY <1>1, <1>2 DEF LockInv, TableInv, Delivers, C!PendingAccounted

\* Whatever an extension sends, each answer goes to at most one caller: the channel of a call
\* has room when its answer comes, so that the goroutine that reads never waits for a caller
\* (client.go: readLoop, Call), and an entry that stays in the table belongs to a call in
\* progress or to one that its context or the end of the process ended.
THEOREM AnswersAreDelivered == C!Spec => []AnswersDelivered
<1>1. C!ClientAssumption
  BY PartsAssumption
<1>2. C!Init => XInv
  <2>1. SUFFICES ASSUME C!Init PROVE XInv
    OBVIOUS
  <2>2. PipeType
    <3>1. toExt = <<>> /\ fromExt = <<>> /\ Cap \in Nat
      BY <1>1, <2>1 DEF C!Init, C!ClientAssumption
    <3>2. QED BY <3>1 DEF PipeType
  <2>3. /\ pending = {} /\ answers = [k \in Calls |-> 0] /\ endedCalls = {} /\ mu = ""
        /\ callPc = [k \in Calls |-> "idle"] /\ result = [k \in Calls |-> ""]
        /\ readLoop = [at |-> "read", call |-> C!NoCall] /\ proc = "alive"
    BY <2>1 DEF C!Init, C!Reader
  <2>4. CallType
    <3>1. 0 \in 0..1
      OBVIOUS
    <3>2. QED BY <2>3, <3>1 DEF CallType
  <2>5. ReaderType
    BY <2>3 DEF ReaderType
  <2>6. LockInv
    <3>1. "" \notin Calls
      BY <1>1 DEF C!ClientAssumption
    <3>2. readLoop.at = "read"
      BY <2>3
    <3>3. QED BY <2>3, <3>1, <3>2 DEF LockInv
  <2>7. TableInv
    <3>1. readLoop.at = "read"
      BY <2>3
    <3>2. QED BY <2>3, <3>1 DEF TableInv, Delivers, C!PendingAccounted
  <2>8. QED BY <2>2, <2>4, <2>5, <2>6, <2>7 DEF XInv
<1>3. XInv /\ [C!Next]_(C!vars) => XInv'
  <2>1. SUFFICES ASSUME XInv, [C!Next]_(C!vars) PROVE XInv'
    OBVIOUS
  <2>2. PipeType'
    <3>1. CASE UNCHANGED C!vars
      BY <2>1, <3>1 DEF C!vars, XInv, PipeType
    <3>2. QED BY <1>1, <2>1, <3>1, PipesTyped DEF XInv
  <2>3. CallType' /\ ReaderType' /\ LockInv' /\ TableInv'
    BY <1>1, <2>1, CallKeeps, ReaderKeeps, ProcessKeeps DEF C!Next, XInv
  <2>4. QED BY <2>2, <2>3 DEF XInv
<1>4. XInv => C!AnswersDelivered
  <2>1. SUFFICES ASSUME XInv PROVE C!AnswersDelivered
    OBVIOUS
  <2>2. C!TypeOK
    <3>1. {m.kind : m \in {toExt[i] : i \in DOMAIN toExt}} \subseteq {"call", "reply"}
      <4>1. \A i \in DOMAIN toExt : toExt[i] \in Sent
        BY <2>1 DEF XInv, PipeType
      <4>2. \A m \in Sent : m.kind \in {"call", "reply"}
        BY DEF Sent
      <4>3. QED BY <4>1, <4>2
    <3>2. {m.kind : m \in {fromExt[i] : i \in DOMAIN fromExt}} \subseteq {"answer", "request"}
      <4>1. \A i \in DOMAIN fromExt : fromExt[i] \in Received
        BY <2>1 DEF XInv, PipeType
      <4>2. \A m \in Received : m.kind \in {"answer", "request"}
        BY DEF Received, Answers
      <4>3. QED BY <4>1, <4>2
    <3>3. QED
      BY <2>1, <3>1, <3>2 DEF XInv, PipeType, CallType, ReaderType, LockInv, C!TypeOK
  <2>3. C!ReaderNeverStuck /\ C!PendingAccounted
    BY <2>1 DEF XInv, ReaderType, TableInv, Delivers, C!ReaderNeverStuck
  <2>4. QED BY <2>2, <2>3 DEF C!AnswersDelivered
<1>5. QED BY <1>2, <1>3, <1>4, PTL DEF C!Spec, AnswersDelivered

-----------------------------------------------------------------------------
(* The models that extensions bring (ModelChoice): for any extensions,     *)
(* files, providers, settings and numbers of changes.                      *)

ChoiceStages == {"idle", "reread", "set", "append"}
ListStages == {"rebuild", "assign", "build"}

ChoiceTypes ==
  /\ pc \in [H!Threads -> ChoiceStages \cup ListStages] /\ DOMAIN tmp = H!Threads
  /\ pc["ui"] \in ChoiceStages

\* A thread that took its list after the last change of the providers.
UpToDate(e) == pc[e] = "assign" /\ e \notin outdated

\* The list is the effective one, or a thread is about to make it so.
ListInv ==
  /\ \A e \in Exts : UpToDate(e) => tmp[e] \in H!EffectiveModels
  /\ drift = {} => \/ known \in H!EffectiveModels
                   \/ \E e \in Exts : pc[e] = "rebuild" \/ UpToDate(e)

\* The thread that set the list last makes the registry from that list.
RegistryInv ==
  /\ \A e \in Exts : pc[e] = "build" /\ lastList = e => known = tmp[e]
  /\ ~unbuilt => H!Names(known) \subseteq registry \/ \E e \in Exts : pc[e] = "build"

\* Alone, a thread records the model that it has set.
RecordInv ==
  ~mingled =>
    /\ \A t \in H!Threads : pc[t] = "append" => tmp[t] = model
    /\ record # "" => \/ record = model.name
                      \/ \E t \in H!Threads : pc[t] \in {"reread", "set", "append"}

ChoiceInv == ChoiceTypes /\ ListInv /\ RegistryInv /\ RecordInv

\* The steps by which a thread chooses, and those that do not matter for the lists.
ChoiceStep ==
  \/ H!EditFile \/ H!CycleModel \/ H!CycleReads \/ H!CycleModelBackward \/ H!SelectModel
  \/ H!NewSession \/ H!CycleThinkingLevel \/ H!SetThinkingLevel
  \/ \E t \in H!Threads : \/ \E name : H!SetModelByName(t, name)
                           \/ H!SetModel(t) \/ H!AppendModelChange(t)

LEMMA EffectiveKept ==
  UNCHANGED <<snapshot, brought>> => H!EffectiveModels' = H!EffectiveModels
BY DEF H!EffectiveModels

LEMMA ChoiceAlone ==
  ASSUME ChoiceTypes, ChoiceStep
  PROVE  /\ UNCHANGED <<snapshot, known, registry, brought, drift, outdated, lastList, unbuilt>>
         /\ \/ UNCHANGED <<pc, tmp>>
            \/ \E t \in H!Threads, l \in ChoiceStages :
                 /\ pc[t] \in ChoiceStages /\ pc' = [pc EXCEPT ![t] = l]
                 /\ tmp' = tmp \/ \E x : tmp' = [tmp EXCEPT ![t] = x]
<1> USE DEF H!fixed, H!listVars, H!Goto, H!Chooses
<1>1. "ui" \in H!Threads
  BY DEF H!Threads
<1>2. CASE H!EditFile \/ H!NewSession \/ H!CycleThinkingLevel \/ H!SetThinkingLevel
  BY <1>2 DEF H!EditFile, H!NewSession, H!CycleThinkingLevel, H!SetThinkingLevel
<1>3. CASE H!CycleModel \/ H!CycleReads
  BY <1>1, <1>3 DEF H!CycleModel, H!CycleReads, ChoiceStages
<1>4. CASE H!CycleModelBackward
  <2>1. /\ pc["ui"] = "idle" /\ pc' = [pc EXCEPT !["ui"] = "set"]
        /\ \E x : tmp' = [tmp EXCEPT !["ui"] = x]
        /\ UNCHANGED <<snapshot, known, registry, brought, drift, outdated, lastList, unbuilt>>
    BY <1>4 DEF H!CycleModelBackward
  <2>2. QED BY <1>1, <2>1 DEF ChoiceStages
<1>5. CASE H!SelectModel
  <2>1. /\ pc["ui"] = "idle" /\ pc' = [pc EXCEPT !["ui"] = "set"]
        /\ \E x : tmp' = [tmp EXCEPT !["ui"] = x]
        /\ UNCHANGED <<snapshot, known, registry, brought, drift, outdated, lastList, unbuilt>>
    BY <1>5 DEF H!SelectModel
  <2>2. QED BY <1>1, <2>1 DEF ChoiceStages
<1>6. ASSUME NEW t \in H!Threads, NEW name, H!SetModelByName(t, name)
      PROVE  /\ pc[t] = "idle" /\ pc' = [pc EXCEPT ![t] = "set"]
             /\ \E x : tmp' = [tmp EXCEPT ![t] = x]
             /\ UNCHANGED <<snapshot, known, registry, brought, drift, outdated, lastList, unbuilt>>
  BY <1>6 DEF H!SetModelByName
<1>7. ASSUME NEW t \in H!Threads, H!SetModel(t)
      PROVE  /\ pc[t] = "set" /\ pc' = [pc EXCEPT ![t] = "append"] /\ tmp' = tmp
             /\ UNCHANGED <<snapshot, known, registry, brought, drift, outdated, lastList, unbuilt>>
  BY <1>7 DEF H!SetModel
<1>8. ASSUME NEW t \in H!Threads, H!AppendModelChange(t)
      PROVE  /\ pc[t] = "append" /\ pc' = [pc EXCEPT ![t] = "idle"]
             /\ tmp' = [tmp EXCEPT ![t] = <<>>]
             /\ UNCHANGED <<snapshot, known, registry, brought, drift, outdated, lastList, unbuilt>>
  BY <1>8 DEF H!AppendModelChange
<1>9. CASE \E t \in H!Threads : \E name : H!SetModelByName(t, name)
  <2>1. PICK t \in H!Threads : \E name : H!SetModelByName(t, name)
    BY <1>9
  <2>2. QED BY <1>6, <2>1 DEF ChoiceStages
<1>10. CASE \E t \in H!Threads : H!SetModel(t) \/ H!AppendModelChange(t)
  <2>1. PICK t \in H!Threads : H!SetModel(t) \/ H!AppendModelChange(t)
    BY <1>10
  <2>2. QED BY <1>7, <1>8, <2>1 DEF ChoiceStages
<1>11. QED BY <1>2, <1>3, <1>4, <1>5, <1>9, <1>10 DEF ChoiceStep

LEMMA ListsLeft ==
  ASSUME ChoiceTypes, ListInv, RegistryInv, ChoiceStep
  PROVE  ChoiceTypes' /\ ListInv' /\ RegistryInv'
<1>1. /\ UNCHANGED <<known, registry, drift, outdated, lastList, unbuilt>>
      /\ H!EffectiveModels' = H!EffectiveModels
  BY ChoiceAlone, EffectiveKept
<1>2. /\ \A e \in Exts : (pc'[e] \in ListStages \/ pc[e] \in ListStages) =>
                           pc'[e] = pc[e] /\ tmp'[e] = tmp[e]
      /\ ChoiceTypes'
  <2>1. CASE UNCHANGED <<pc, tmp>>
    BY <2>1 DEF ChoiceTypes
  <2>2. ASSUME NEW t \in H!Threads, NEW l \in ChoiceStages, pc[t] \in ChoiceStages,
               pc' = [pc EXCEPT ![t] = l], tmp' = tmp \/ \E x : tmp' = [tmp EXCEPT ![t] = x]
        PROVE  /\ \A e \in Exts : (pc'[e] \in ListStages \/ pc[e] \in ListStages) =>
                                    pc'[e] = pc[e] /\ tmp'[e] = tmp[e]
               /\ ChoiceTypes'
    <3>1. ChoiceTypes'
      BY <2>2 DEF ChoiceTypes
    <3>2. \A e \in Exts : e # t => pc'[e] = pc[e] /\ tmp'[e] = tmp[e]
      BY <2>2 DEF ChoiceTypes, H!Threads
    <3>3. pc'[t] \notin ListStages /\ pc[t] \notin ListStages
      BY <2>2 DEF ChoiceTypes, ChoiceStages, ListStages
    <3>4. QED BY <3>1, <3>2, <3>3
  <2>3. QED BY ChoiceAlone, <2>1, <2>2
<1>3. ListInv'
  BY <1>1, <1>2 DEF ListInv, UpToDate, ListStages
<1>4. RegistryInv'
  BY <1>1, <1>2 DEF RegistryInv, ListStages, H!Names
<1>5. QED BY <1>2, <1>3, <1>4

LEMMA RecordKept ==
  ASSUME ChoiceTypes, RecordInv, ChoiceStep
  PROVE  RecordInv'
<1> USE DEF H!Goto, H!Chooses, H!Choosing, H!modelVars
<1>1. "ui" \in H!Threads /\ DOMAIN pc = H!Threads /\ DOMAIN tmp = H!Threads
  BY DEF H!Threads, ChoiceTypes
<1>2. CASE H!EditFile \/ H!CycleThinkingLevel \/ H!SetThinkingLevel
  BY <1>2 DEF H!EditFile, H!CycleThinkingLevel, H!SetThinkingLevel, RecordInv
<1>3. CASE H!CycleModel
  <2>1. /\ pc' = [pc EXCEPT !["ui"] = "reread"] /\ tmp' = tmp
        /\ ~mingled' => ~mingled /\ \A u \in H!Threads \ {"ui"} :
                                      pc[u] \notin {"reread", "set", "append"}
    BY <1>3 DEF H!CycleModel
  <2>2. QED BY <1>1, <2>1 DEF RecordInv
<1>4. CASE H!CycleReads
  <2>1. /\ pc' = [pc EXCEPT !["ui"] = "set"] /\ tmp' = [tmp EXCEPT !["ui"] = model]
        /\ UNCHANGED <<model, record, mingled>>
    BY <1>4 DEF H!CycleReads
  <2>2. QED BY <1>1, <2>1 DEF RecordInv
<1>5. ASSUME NEW t \in H!Threads, pc' = [pc EXCEPT ![t] = "set"],
             NEW x, tmp' = [tmp EXCEPT ![t] = x],
             UNCHANGED <<model, record, mingled>>
      PROVE  RecordInv'
  BY <1>1, <1>5 DEF RecordInv
<1>6. CASE H!CycleModelBackward \/ H!SelectModel
  <2>1. /\ pc' = [pc EXCEPT !["ui"] = "set"] /\ \E x : tmp' = [tmp EXCEPT !["ui"] = x]
        /\ UNCHANGED <<model, record, mingled>>
    <3>1. CASE H!CycleModelBackward
      BY <3>1 DEF H!CycleModelBackward
    <3>2. CASE H!SelectModel
      BY <3>2 DEF H!SelectModel
    <3>3. QED BY <1>6, <3>1, <3>2
  <2>2. QED BY <1>1, <1>5, <2>1
<1>7. CASE H!NewSession
  <2>1. /\ pc["ui"] = "idle" /\ record' = "" /\ UNCHANGED <<pc, tmp, model>>
        /\ ~mingled' => \A u \in H!Threads \ {"ui"} : pc[u] \notin {"reread", "set", "append"}
    BY <1>7 DEF H!NewSession
  <2>2. QED BY <1>1, <2>1 DEF RecordInv
<1>8. ASSUME NEW t \in H!Threads, NEW name, H!SetModelByName(t, name)
      PROVE  RecordInv'
  <2>1. /\ pc' = [pc EXCEPT ![t] = "set"] /\ \E x : tmp' = [tmp EXCEPT ![t] = x]
        /\ UNCHANGED <<model, record, mingled>>
    BY <1>8 DEF H!SetModelByName
  <2>2. QED BY <1>5, <2>1
<1>9. ASSUME NEW t \in H!Threads, H!SetModel(t)
      PROVE  RecordInv'
  <2>1. /\ pc' = [pc EXCEPT ![t] = "append"] /\ model' = tmp[t] /\ UNCHANGED <<tmp, record>>
        /\ ~mingled' => ~mingled /\ \A u \in H!Threads \ {t} :
                                      pc[u] \notin {"reread", "set", "append"}
    BY <1>9 DEF H!SetModel
  <2>2. QED BY <1>1, <2>1 DEF RecordInv
<1>10. ASSUME NEW t \in H!Threads, H!AppendModelChange(t)
       PROVE  RecordInv'
  <2>1. /\ pc[t] = "append" /\ pc' = [pc EXCEPT ![t] = "idle"] /\ record' = tmp[t].name
        /\ tmp' = [tmp EXCEPT ![t] = <<>>] /\ UNCHANGED <<model, mingled>>
    BY <1>10 DEF H!AppendModelChange
  <2>2. QED BY <1>1, <2>1 DEF RecordInv
<1>11. QED BY <1>2, <1>3, <1>4, <1>6, <1>7, <1>8, <1>9, <1>10 DEF ChoiceStep

\* The steps of an extension that registers, withdraws and is stopped, and the overlay.
LEMMA ExtensionMoves ==
  ASSUME ChoiceTypes, "ui" \notin Exts, NEW e \in Exts, NEW l \in ListStages \cup {"idle"},
         pc' = [pc EXCEPT ![e] = l], tmp' = tmp \/ \E x : tmp' = [tmp EXCEPT ![e] = x]
  PROVE  /\ ChoiceTypes' /\ pc'[e] = l
         /\ \A f \in H!Threads : f # e => pc'[f] = pc[f] /\ tmp'[f] = tmp[f]
<1>1. e \in H!Threads /\ "ui" \in H!Threads /\ e # "ui"
  BY DEF H!Threads
<1>2. QED BY <1>1 DEF ChoiceTypes, ListStages, ChoiceStages

LEMMA RecordLeft ==
  ASSUME ChoiceTypes, RecordInv, "ui" \notin Exts, NEW e \in Exts,
         NEW l \in ListStages \cup {"idle"}, pc[e] \in ListStages \cup {"idle"},
         pc' = [pc EXCEPT ![e] = l], tmp' = tmp \/ \E x : tmp' = [tmp EXCEPT ![e] = x],
         UNCHANGED <<model, record, mingled>>
  PROVE  RecordInv'
<1>1. /\ pc'[e] = l /\ e \in H!Threads
      /\ \A f \in H!Threads : f # e => pc'[f] = pc[f] /\ tmp'[f] = tmp[f]
  BY ExtensionMoves DEF H!Threads
<1>2. l \notin {"append", "reread", "set"} /\ pc[e] \notin {"append", "reread", "set"}
  BY DEF ListStages
<1>3. QED BY <1>1, <1>2 DEF RecordInv

LEMMA ExtensionKeeps ==
  ASSUME ChoiceInv, "ui" \notin Exts, "" \notin Exts, NEW e \in Exts,
         \/ \E p \in DOMAIN Offers[e] : H!RegisterProvider(e, p)
         \/ \E p \in DOMAIN brought : H!UnregisterProvider(e, p)
         \/ H!TakeEffective(e) \/ H!AssignModels(e) \/ H!BuildRegistry(e)
  PROVE  ChoiceInv'
<1> USE DEF H!Goto, H!fixed, H!modelVars
<1>1. /\ ChoiceTypes /\ ListInv /\ RegistryInv /\ RecordInv
      /\ e \in H!Threads /\ DOMAIN tmp = H!Threads
  BY DEF ChoiceInv, H!Threads, ChoiceTypes
<1>2. CASE \/ \E p \in DOMAIN Offers[e] : H!RegisterProvider(e, p)
           \/ \E p \in DOMAIN brought : H!UnregisterProvider(e, p)
  <2>1. /\ pc[e] = "idle" /\ pc' = [pc EXCEPT ![e] = "rebuild"]
        /\ outdated' = outdated \cup {t \in H!Threads : pc[t] = "assign"}
        /\ UNCHANGED <<known, registry, model, record, mingled, drift, lastList, unbuilt, tmp>>
    BY <1>2 DEF H!RegisterProvider, H!UnregisterProvider, H!Changes
  <2>2. /\ ChoiceTypes' /\ pc'[e] = "rebuild"
        /\ \A f \in H!Threads : f # e => pc'[f] = pc[f] /\ tmp'[f] = tmp[f]
    BY <1>1, <2>1, ExtensionMoves DEF ListStages
  <2>3. RecordInv'
    BY <1>1, <2>1, RecordLeft DEF ListStages
  <2>4. ListInv'
    <3>1. \A f \in Exts : ~UpToDate(f)'
      BY <2>1, <2>2 DEF UpToDate, H!Threads
    <3>2. QED BY <2>2, <3>1 DEF ListInv
  <2>5. RegistryInv'
    <3>1. \A f \in Exts : pc'[f] = "build" <=> pc[f] = "build"
      BY <2>1, <2>2 DEF H!Threads
    <3>2. QED BY <1>1, <2>1, <3>1 DEF RegistryInv, H!Names
  <2>6. QED BY <2>2, <2>3, <2>4, <2>5 DEF ChoiceInv
<1>3. CASE H!TakeEffective(e)
  <2>1. /\ pc[e] = "rebuild" /\ pc' = [pc EXCEPT ![e] = "assign"] /\ outdated' = outdated \ {e}
        /\ \E list \in H!EffectiveModels : tmp' = [tmp EXCEPT ![e] = list]
        /\ UNCHANGED <<snapshot, brought, known, registry, model, record, mingled, drift, lastList,
                       unbuilt>>
    BY <1>3 DEF H!TakeEffective
  <2>2. /\ ChoiceTypes' /\ pc'[e] = "assign"
        /\ \A f \in H!Threads : f # e => pc'[f] = pc[f] /\ tmp'[f] = tmp[f]
    BY <1>1, <2>1, ExtensionMoves DEF ListStages
  <2>3. RecordInv'
    BY <1>1, <2>1, RecordLeft DEF ListStages
  <2>4. H!EffectiveModels' = H!EffectiveModels /\ tmp'[e] \in H!EffectiveModels
    BY <1>1, <2>1, EffectiveKept
  <2>5. ListInv'
    <3>1. \A f \in Exts : UpToDate(f)' <=> UpToDate(f) \/ f = e
      BY <2>1, <2>2 DEF UpToDate, H!Threads
    <3>2. \A f \in Exts : f # e => tmp'[f] = tmp[f] /\ pc'[f] = pc[f]
      BY <2>2 DEF H!Threads
    <3>3. QED BY <1>1, <2>1, <2>4, <3>1, <3>2 DEF ListInv
  <2>6. RegistryInv'
    <3>1. \A f \in Exts : pc'[f] = "build" => pc[f] = "build" /\ tmp'[f] = tmp[f]
      BY <2>1, <2>2 DEF H!Threads
    <3>2. \A f \in Exts : pc[f] = "build" => pc'[f] = "build"
      BY <2>1, <2>2 DEF H!Threads
    <3>3. QED BY <1>1, <2>1, <3>1, <3>2 DEF RegistryInv, H!Names
  <2>7. QED BY <2>2, <2>3, <2>5, <2>6 DEF ChoiceInv
<1>4. CASE H!AssignModels(e)
  <2>1. /\ pc[e] = "assign" /\ pc' = [pc EXCEPT ![e] = "build"] /\ known' = tmp[e]
        /\ drift' = (IF e \in outdated THEN {"raced"} ELSE {}) /\ lastList' = e
        /\ UNCHANGED <<snapshot, brought, registry, model, record, mingled, outdated, unbuilt, tmp>>
    BY <1>4 DEF H!AssignModels
  <2>2. /\ ChoiceTypes' /\ pc'[e] = "build"
        /\ \A f \in H!Threads : f # e => pc'[f] = pc[f] /\ tmp'[f] = tmp[f]
    BY <1>1, <2>1, ExtensionMoves DEF ListStages
  <2>3. RecordInv'
    BY <1>1, <2>1, RecordLeft DEF ListStages
  <2>4. H!EffectiveModels' = H!EffectiveModels
    BY <2>1, EffectiveKept
  <2>5. ListInv'
    <3>1. \A f \in Exts : UpToDate(f)' => UpToDate(f)
      BY <2>1, <2>2 DEF UpToDate, H!Threads
    <3>2. drift' = {} => known' \in H!EffectiveModels
      BY <1>1, <2>1 DEF ListInv, UpToDate
    <3>3. QED BY <1>1, <2>1, <2>4, <3>1, <3>2 DEF ListInv
  <2>6. RegistryInv'
    BY <2>1, <2>2 DEF RegistryInv
  <2>7. QED BY <2>2, <2>3, <2>5, <2>6 DEF ChoiceInv
<1>5. CASE H!BuildRegistry(e)
  <2>1. /\ pc[e] = "build" /\ pc' = [pc EXCEPT ![e] = "idle"] /\ tmp' = [tmp EXCEPT ![e] = <<>>]
        /\ \/ registry' = H!Names(tmp[e]) /\ unbuilt' = (lastList # e)
           \/ unbuilt' = TRUE
        /\ UNCHANGED <<snapshot, brought, known, model, record, mingled, outdated, drift, lastList>>
    BY <1>5 DEF H!BuildRegistry
  <2>2. /\ ChoiceTypes' /\ pc'[e] = "idle"
        /\ \A f \in H!Threads : f # e => pc'[f] = pc[f] /\ tmp'[f] = tmp[f]
    BY <1>1, <2>1, ExtensionMoves DEF ListStages
  <2>3. RecordInv'
    BY <1>1, <2>1, RecordLeft DEF ListStages
  <2>4. H!EffectiveModels' = H!EffectiveModels
    BY <2>1, EffectiveKept
  <2>5. \A f \in Exts : f # e => pc'[f] = pc[f] /\ tmp'[f] = tmp[f]
    BY <2>2 DEF H!Threads
  <2>6. ListInv'
    <3>1. ~UpToDate(e) /\ ~UpToDate(e)' /\ pc[e] # "rebuild" /\ pc'[e] # "rebuild"
      BY <2>1, <2>2 DEF UpToDate
    <3>2. \A f \in Exts : (UpToDate(f)' <=> UpToDate(f))
      BY <2>1, <2>5, <3>1 DEF UpToDate
    <3>3. \A f \in Exts : UpToDate(f)' => tmp'[f] \in H!EffectiveModels
      BY <1>1, <2>5, <3>1, <3>2 DEF ListInv
    <3>4. drift' = {} => \/ known' \in H!EffectiveModels
                        \/ \E f \in Exts : pc'[f] = "rebuild" \/ UpToDate(f)'
      BY <1>1, <2>1, <2>5, <3>1, <3>2 DEF ListInv
    <3>5. QED BY <2>4, <3>3, <3>4 DEF ListInv
  <2>7. RegistryInv'
    <3>1. ~unbuilt' => H!Names(known) \subseteq registry'
      BY <1>1, <2>1 DEF RegistryInv
    <3>2. \A f \in Exts : pc'[f] = "build" => f # e
      BY <2>2
    <3>3. QED BY <1>1, <2>1, <2>5, <3>1, <3>2 DEF RegistryInv, H!Names
  <2>8. QED BY <2>2, <2>3, <2>6, <2>7 DEF ChoiceInv
<1>6. QED BY <1>2, <1>3, <1>4, <1>5

LEMMA ListDrifts ==
  ASSUME ChoiceInv, "ui" \notin Exts, H!OpenModelOverlay \/ \E e \in Exts : H!StopExtension(e)
  PROVE  ChoiceInv'
<1>1. CASE H!OpenModelOverlay
  <2>1. /\ drift' # {} /\ lastList' = "ui" /\ unbuilt'
        /\ UNCHANGED <<snapshot, brought, pc, tmp, outdated, model, record, mingled>>
    BY <1>1 DEF H!OpenModelOverlay, H!fixed, H!modelVars
  <2>2. H!EffectiveModels' = H!EffectiveModels
    BY <2>1, EffectiveKept
  <2>3. QED
    BY <2>1, <2>2
       DEF ChoiceInv, ChoiceTypes, ListInv, UpToDate, RegistryInv, RecordInv
<1>2. CASE \E e \in Exts : H!StopExtension(e)
  <2>1. /\ drift' # {} /\ outdated' = outdated \cup {t \in H!Threads : pc[t] = "assign"}
        /\ UNCHANGED <<known, registry, lastList, unbuilt, pc, tmp, model, record, mingled>>
    BY <1>2 DEF H!StopExtension, H!Changes, H!fixed, H!modelVars
  <2>2. \A e \in Exts : ~UpToDate(e)'
    BY <2>1 DEF UpToDate, H!Threads
  <2>3. ListInv'
    BY <2>1, <2>2 DEF ListInv
  <2>4. ChoiceTypes' /\ RecordInv'
    BY <2>1 DEF ChoiceInv, ChoiceTypes, RecordInv
  <2>5. RegistryInv'
    BY <2>1 DEF ChoiceInv, RegistryInv, H!Names
  <2>6. QED BY <2>3, <2>4, <2>5 DEF ChoiceInv
<1>3. QED BY <1>1, <1>2

\* Without a provider of an extension the list is that of the file.
LEMMA FileIsEffective ==
  ASSUME H!ModelChoiceAssumption, snapshot \in ModelFiles, brought = <<>>
  PROVE  snapshot \in H!EffectiveModels
<1>1. snapshot \in Seq(H!ToSet(snapshot))
  BY DEF H!ModelChoiceAssumption
<1>2. DOMAIN brought = {}
  OBVIOUS
<1>3. <<>> \in H!SetToSeqs(DOMAIN brought)
  <2>1. H!Cardinality({}) = Cardinality({})
    BY DEF H!Cardinality, Cardinality
  <2>2. H!Cardinality({}) = 0 /\ 1..0 = {} /\ <<>> \in [1..0 -> {}]
    BY <2>1, FS_EmptySet
  <2>3. QED BY <1>2, <2>2 DEF H!SetToSeqs
<1> DEFINE kept == [i \in DOMAIN snapshot |->
                      IF snapshot[i].provider \in DOMAIN brought
                      THEN [snapshot[i] EXCEPT !.base = brought[snapshot[i].provider].owner]
                      ELSE snapshot[i]]
           added(order) == [i \in DOMAIN order |-> brought[order[i]].models]
<1>4. kept = snapshot
  <2>1. kept = [i \in DOMAIN snapshot |-> snapshot[i]]
    BY <1>2
  <2>2. QED BY <1>1, <2>1
<1>5. H!FlattenSeq(added(<<>>)) = <<>>
  <2>1. added(<<>>) = <<>>
    OBVIOUS
  <2>2. QED BY <2>1 DEF H!FlattenSeq
<1>6. snapshot \o <<>> = snapshot
  BY <1>1
<1>7. H!EffectiveModels =
        {kept \o H!FlattenSeq(added(order)) : order \in H!SetToSeqs(DOMAIN brought)}
  BY DEF H!EffectiveModels
<1> HIDE DEF kept, added
<1>8. QED BY <1>3, <1>4, <1>5, <1>6, <1>7

LEMMA ChoiceStarts == ASSUME H!ModelChoiceAssumption, H!Init PROVE ChoiceInv
<1>1. /\ snapshot \in ModelFiles /\ known = snapshot /\ registry = H!Names(snapshot)
      /\ brought = <<>> /\ record = "" /\ lastList = "" /\ unbuilt = FALSE
      /\ pc = [t \in H!Threads |-> "idle"] /\ tmp = [t \in H!Threads |-> <<>>]
  BY DEF H!Init
<1>2. ChoiceTypes
  BY <1>1 DEF ChoiceTypes, ChoiceStages, H!Threads
<1>3. ListInv
  <2>1. known \in H!EffectiveModels
    BY <1>1, FileIsEffective
  <2>2. \A e \in Exts : pc[e] = "idle"
    BY <1>1 DEF H!Threads
  <2>3. QED BY <2>1, <2>2 DEF ListInv, UpToDate
<1>4. RegistryInv
  BY <1>1 DEF RegistryInv, H!Threads
<1>5. RecordInv
  BY <1>1 DEF RecordInv
<1>6. QED BY <1>2, <1>3, <1>4, <1>5 DEF ChoiceInv

LEMMA ChoiceKept ==
  ASSUME "ui" \notin Exts, "" \notin Exts, ChoiceInv, [H!Next]_(H!vars)
  PROVE  ChoiceInv'
<1>1. CASE ChoiceStep
  BY <1>1, ListsLeft, RecordKept DEF ChoiceInv
<1>2. CASE \E e \in Exts :
             \/ \E p \in DOMAIN Offers[e] : H!RegisterProvider(e, p)
             \/ \E p \in DOMAIN brought : H!UnregisterProvider(e, p)
             \/ H!TakeEffective(e) \/ H!AssignModels(e) \/ H!BuildRegistry(e)
  BY <1>2, ExtensionKeeps
<1>3. CASE H!OpenModelOverlay \/ \E e \in Exts : H!StopExtension(e)
  BY <1>3, ListDrifts
<1>4. CASE UNCHANGED H!vars
  <2>1. /\ UNCHANGED <<snapshot, brought, known, registry, model, record, mingled, pc, tmp, drift,
                       outdated, lastList, unbuilt>>
        /\ H!EffectiveModels' = H!EffectiveModels
    BY <1>4, EffectiveKept DEF H!vars
  <2>2. QED
    BY <2>1
       DEF ChoiceInv, ChoiceTypes, ListInv, UpToDate, RegistryInv, RecordInv, H!Names
<1>5. QED BY <1>1, <1>2, <1>3, <1>4 DEF H!Next, ChoiceStep

\* Whichever extensions register, withdraw and lose providers and whoever chooses a model
\* meanwhile (provider_overrides.go, service_provider.go, service.go): the list of models is
\* the effective one, what it lists is registered, and the session names the model in use, each
\* but for the races that `drift`, `unbuilt` and `mixed` name.
THEOREM ListsAgreeThroughout == H!Spec => []ListsAgree
<1>1. H!ModelChoiceAssumption
  BY PartsAssumption
<1>2. "ui" \notin Exts /\ "" \notin Exts
  BY <1>1 DEF H!ModelChoiceAssumption
<1>3. H!Init => ChoiceInv
  BY <1>1, ChoiceStarts
<1>4. ChoiceInv /\ [H!Next]_(H!vars) => ChoiceInv'
  BY <1>2, ChoiceKept
<1>5. ChoiceInv => H!ListsAgree
  <2>1. SUFFICES ASSUME ChoiceInv PROVE H!ListsAgree
    OBVIOUS
  <2>2. H!ListIsEffective
    BY <2>1 DEF ChoiceInv, ListInv, UpToDate, H!ListIsEffective, H!Rebuilding
  <2>3. H!ListedAreRegistered
    BY <2>1 DEF ChoiceInv, RegistryInv, H!ListedAreRegistered, H!Rebuilding
  <2>4. H!RecordIsModel
    BY <2>1 DEF ChoiceInv, RecordInv, H!RecordIsModel
  <2>5. QED BY <2>2, <2>3, <2>4 DEF H!ListsAgree
<1>6. QED BY <1>3, <1>4, <1>5, PTL DEF H!Spec, ListsAgree

-----------------------------------------------------------------------------
(* Numbers, repeated steps and lists, for the cycling of ModelChoice.      *)

\* Every set of numbers has a smallest one.
LEMMA SmallestExists ==
  ASSUME NEW X, X \subseteq Nat, X # {}
  PROVE  \E x \in X : \A y \in X : x <= y
<1> DEFINE less == OpToRel(<, Nat)
<1>1. less = {ss \in Nat \X Nat : ss[1] < ss[2]}
  BY Zenon DEF OpToRel
<1>2. IsWellFoundedOn(less, Nat)
  BY NatLessThanWellFounded
<1> HIDE DEF less
<1>3. PICK x \in X : \A y \in X : ~(<<y, x>> \in less)
  BY <1>2, WFMin
<1>4. x \in Nat /\ \A y \in X : y \in Nat
  OBVIOUS
<1>5. ASSUME NEW y \in X PROVE x <= y
  <2>1. y < x => <<y, x>> \in less
    BY <1>1, <1>4
  <2>2. QED BY <1>3, <1>4, <2>1
<1>6. QED BY <1>5

\* What follows from step to step from a first value.
Follows(f, D, g, a, n) ==
  /\ \A k \in 0..n : f[k] \in D
  /\ f[0] = a /\ \A k \in 1..n : f[k] = g[<<k, f[k - 1]>>]

LEMMA Iterates ==
  ASSUME NEW D, NEW g, g \in [Nat \X D -> D], NEW a \in D, NEW n \in Nat
  PROVE  \E f : Follows(f, D, g, a, n)
<1> DEFINE P(m) == \E f \in [0..m -> D] : f[0] = a /\ \A k \in 1..m : f[k] = g[<<k, f[k - 1]>>]
           Bad == {m \in Nat : ~P(m)}
<1>1. P(0)
  <2> DEFINE f == [k \in 0..0 |-> a]
  <2>1. f \in [0..0 -> D] /\ f[0] = a /\ 1..0 = {}
    OBVIOUS
  <2> HIDE DEF f
  <2>2. QED BY <2>1
<1>2. ASSUME NEW m \in Nat, P(m) PROVE P(m + 1)
  <2>1. PICK f \in [0..m -> D] : f[0] = a /\ \A k \in 1..m : f[k] = g[<<k, f[k - 1]>>]
    BY <1>2
  <2> DEFINE h == [k \in 0..(m + 1) |-> IF k = m + 1 THEN g[<<k, f[m]>>] ELSE f[k]]
  <2>2. f[m] \in D /\ g[<<m + 1, f[m]>>] \in D
    OBVIOUS
  <2>3. h \in [0..(m + 1) -> D]
    BY <2>2
  <2>4. h[0] = a
    BY <2>1
  <2>5. ASSUME NEW k \in 1..(m + 1) PROVE h[k] = g[<<k, h[k - 1]>>]
    <3>1. CASE k = m + 1
      <4>1. k - 1 = m /\ m \in 0..(m + 1) /\ m # m + 1
        BY <3>1
      <4>2. QED BY <3>1, <4>1
    <3>2. CASE k # m + 1
      <4>1. k \in 1..m /\ k - 1 \in 0..(m + 1) /\ k - 1 # m + 1
        BY <3>2
      <4>2. QED BY <2>1, <3>2, <4>1
    <3>3. QED BY <3>1, <3>2
  <2> HIDE DEF h
  <2>6. QED BY <2>3, <2>4, <2>5
<1> HIDE DEF P
<1>3. Bad = {}
  <2>1. SUFFICES ASSUME Bad # {} PROVE FALSE
    OBVIOUS
  <2>2. PICK m \in Bad : \A y \in Bad : m <= y
    BY <2>1, SmallestExists
  <2>3. m \in Nat /\ ~P(m) /\ m # 0
    BY <1>1
  <2>4. m - 1 \in Nat /\ m - 1 \notin Bad
    BY <2>2, <2>3
  <2>5. P((m - 1) + 1)
    BY <1>2, <2>4
  <2>6. (m - 1) + 1 = m
    BY <2>3
  <2>7. QED BY <2>3, <2>5, <2>6
<1>4. PICK f \in [0..n -> D] : f[0] = a /\ \A k \in 1..n : f[k] = g[<<k, f[k - 1]>>]
  BY <1>3 DEF P
<1>5. \A k \in 0..n : f[k] \in D
  OBVIOUS
<1>6. QED BY <1>4, <1>5 DEF Follows

\* Who goes from each of n different things to the one behind it, from the last one to the
\* first, and to the first from anywhere else, has come to all of them after n steps.
Different(name, n) == \A i, j \in 1..n : name[i] = name[j] => i = j

GoesRound(f, name, n) ==
  \A k \in 1..n :
    \/ \E i \in 1..n : f[k - 1] = name[i] /\ f[k] = name[IF i = n THEN 1 ELSE i + 1]
    \/ (\A i \in 1..n : f[k - 1] # name[i]) /\ f[k] = name[1]

ComesToAll(f, name, n) == \A i \in 1..n : \E k \in 0..n : f[k] = name[i]

LEMMA RoundTrip ==
  ASSUME NEW n \in Nat, NEW name, NEW f, Different(name, n), GoesRound(f, name, n)
  PROVE  ComesToAll(f, name, n)
<1> USE DEF Different, GoesRound, ComesToAll
<1>1. SUFFICES ASSUME n # 0 PROVE ComesToAll(f, name, n)
  OBVIOUS
<1>2. PICK s \in 1..n : f[1] = name[s]
  <2>1. 1 \in 1..n
    BY <1>1
  <2>2. \A i \in 1..n : i # n => i + 1 \in 1..n
    OBVIOUS
  <2>3. QED BY <2>1, <2>2
<1>3. ASSUME NEW k \in 1..n, NEW i \in 1..n, f[k - 1] = name[i]
      PROVE  f[k] = name[IF i = n THEN 1 ELSE i + 1]
  BY <1>3
<1>4. \A j \in s..n : f[1 + (j - s)] = name[j]
  <2> DEFINE Bad == {j \in s..n : f[1 + (j - s)] # name[j]}
  <2>1. SUFFICES ASSUME Bad # {} PROVE FALSE
    OBVIOUS
  <2>2. Bad \subseteq Nat
    OBVIOUS
  <2>3. PICK j \in Bad : \A y \in Bad : j <= y
    BY <2>1, <2>2, SmallestExists
  <2>4. j \in s..n /\ f[1 + (j - s)] # name[j] /\ j # s
    BY <1>2
  <2>5. j - 1 \in s..n /\ j - 1 \notin Bad
    BY <2>3, <2>4
  <2>6. f[1 + ((j - 1) - s)] = name[j - 1]
    BY <2>5
  <2>7. 1 + (j - s) \in 1..n /\ (1 + (j - s)) - 1 = 1 + ((j - 1) - s) /\ j - 1 # n
        /\ j - 1 \in 1..n /\ (j - 1) + 1 = j
    BY <2>4, <2>5
  <2>8. f[1 + (j - s)] = name[j]
    BY <1>3, <2>6, <2>7
  <2>9. QED BY <2>4, <2>8
<1>5. \A j \in 1..(s - 1) : f[1 + (n - s) + j] = name[j]
  <2> DEFINE Bad == {j \in 1..(s - 1) : f[1 + (n - s) + j] # name[j]}
  <2>1. SUFFICES ASSUME Bad # {} PROVE FALSE
    OBVIOUS
  <2>2. Bad \subseteq Nat
    OBVIOUS
  <2>3. PICK j \in Bad : \A y \in Bad : j <= y
    BY <2>1, <2>2, SmallestExists
  <2>4. j \in 1..(s - 1) /\ f[1 + (n - s) + j] # name[j]
    OBVIOUS
  <2>5. 1 + (n - s) + j \in 1..n /\ n \in s..n /\ 1 \in 1..n
    BY <2>4
  <2>6. CASE j = 1
    <3>1. (1 + (n - s) + j) - 1 = 1 + (n - s)
      BY <2>6
    <3>2. f[1 + (n - s)] = name[n]
      BY <1>4, <2>5
    <3>3. f[1 + (n - s) + j] = name[1]
      BY <1>3, <2>5, <3>1, <3>2, n \in 1..n
    <3>4. QED BY <2>4, <2>6, <3>3
  <2>7. CASE j # 1
    <3>1. j - 1 \in 1..(s - 1) /\ j - 1 \notin Bad /\ j - 1 \in 1..n /\ j - 1 # n
          /\ (j - 1) + 1 = j
      BY <2>3, <2>4, <2>7
    <3>2. f[1 + (n - s) + (j - 1)] = name[j - 1]
      BY <3>1
    <3>3. (1 + (n - s) + j) - 1 = 1 + (n - s) + (j - 1)
      BY <2>4
    <3>4. f[1 + (n - s) + j] = name[j]
      BY <1>3, <2>5, <3>1, <3>2, <3>3
    <3>5. QED BY <2>4, <3>4
  <2>8. QED BY <2>6, <2>7
<1>6. ASSUME NEW i \in 1..n PROVE \E k \in 0..n : f[k] = name[i]
  <2>1. CASE i \in s..n
    <3>1. 1 + (i - s) \in 0..n
      BY <2>1
    <3>2. QED BY <1>4, <2>1, <3>1
  <2>2. CASE i \in 1..(s - 1)
    <3>1. 1 + (n - s) + i \in 0..n
      BY <2>2
    <3>2. QED BY <1>5, <2>2, <3>1
  <2>3. QED BY <2>1, <2>2
<1>7. QED BY <1>6

\* The ranks of places are the numbers from 1 on.
LEMMA Ranks ==
  ASSUME NEW n \in Nat, NEW P, P \subseteq 1..n
  PROVE  /\ Cardinality(P) \in Nat
         /\ \A i \in P : Rank(P, i) \in 1..Cardinality(P)
         /\ \A i, j \in P : Rank(P, i) = Rank(P, j) => i = j
         /\ \A m \in 1..Cardinality(P) : \E i \in P : Rank(P, i) = m
<1> DEFINE Below(i) == {j \in P : j <= i}
           N == Cardinality(P)
           f == [i \in P |-> Rank(P, i)]
<1>1. P \subseteq Nat
  OBVIOUS
<1>2. IsFiniteSet(P) /\ N \in Nat
  <2>1. IsFiniteSet(1..n)
    BY FS_Interval
  <2>2. QED BY <2>1, FS_Subset, FS_CardinalityType
<1>3. \A i \in P : IsFiniteSet(Below(i)) /\ Cardinality(Below(i)) \in Nat
                   /\ Cardinality(Below(i)) <= N
  <2>1. \A i \in P : Below(i) \subseteq P
    OBVIOUS
  <2>2. QED BY <1>2, <2>1, FS_Subset, FS_CardinalityType
<1>4. \A i \in P : Rank(P, i) \in 1..N
  <2>1. TAKE i \in P
  <2>2. i \in Below(i)
    BY <1>1
  <2>3. Cardinality(Below(i)) # 0
    BY <1>3, <2>2, FS_EmptySet
  <2>4. Rank(P, i) = Cardinality(Below(i))
    BY DEF Rank
  <2> HIDE DEF Below, N
  <2>5. QED BY <1>2, <1>3, <2>3, <2>4
<1>5. ASSUME NEW i \in P, NEW j \in P, i < j PROVE Rank(P, i) # Rank(P, j)
  <2>1. Below(i) \subseteq Below(j)
    <3>1. \A k \in P : k <= i => k <= j
      BY <1>1, <1>5
    <3>2. QED BY <3>1
  <2>2. j \in Below(j) /\ j \notin Below(i)
    BY <1>1, <1>5
  <2>3. Below(i) # Below(j)
    BY <2>2
  <2>4. Cardinality(Below(i)) # Cardinality(Below(j))
    <3> HIDE DEF Below
    <3>1. QED BY <1>3, <2>1, <2>3, FS_Subset
  <2>5. Rank(P, i) = Cardinality(Below(i)) /\ Rank(P, j) = Cardinality(Below(j))
    BY DEF Rank
  <2>6. QED BY <2>4, <2>5
<1>6. \A i, j \in P : Rank(P, i) = Rank(P, j) => i = j
  BY <1>1, <1>5
<1>7. f \in Injection(P, 1..N)
  BY <1>4, <1>6 DEF Injection, IsInjective
<1>8. f \in Surjection(P, 1..N)
  <2>1. IsFiniteSet(1..N) /\ Cardinality(1..N) = N
    BY <1>2, FS_Interval
  <2> HIDE DEF f
  <2>2. QED BY <1>7, <2>1, FS_Injection
<1>9. \A m \in 1..N : \E i \in P : Rank(P, i) = m
  BY <1>8 DEF Surjection
<1>10. QED BY <1>2, <1>4, <1>6, <1>9

LEMMA SameAmong == \A s, S : H!Among(s, S) = Among(s, S)
BY DEF H!Among, H!AtPlaces, H!Rank, H!Cardinality, Among, AtPlaces, Rank, Cardinality

\* What Among finds in a sequence of different things are different things, and all of them.
Once(s) == \A i, j \in DOMAIN s : s[i] = s[j] => i = j

Finds(found, s, D, S) ==
  /\ found \in Seq(D \cap S) /\ Once(found)
  /\ \A i \in DOMAIN s : s[i] \in S => found # <<>>

LEMMA FoundOnce ==
  ASSUME NEW D, NEW s \in Seq(D), NEW S, Once(s)
  PROVE  Finds(Among(s, S), s, D, S)
<1> USE DEF Once, Finds
<1> DEFINE P == {i \in DOMAIN s : s[i] \in S}
           at(m) == CHOOSE i \in P : Rank(P, i) = m
           N == Cardinality(P)
<1>1. Len(s) \in Nat /\ DOMAIN s = 1..Len(s) /\ P \subseteq 1..Len(s)
      /\ \A i \in P : s[i] \in D \cap S
  OBVIOUS
<1>2. N \in Nat /\ \A m \in 1..N : at(m) \in P /\ Rank(P, at(m)) = m
  <2>1. N \in Nat /\ \A m \in 1..N : \E i \in P : Rank(P, i) = m
    <3> HIDE DEF P
    <3>1. QED BY <1>1, Ranks
  <2> HIDE DEF P
  <2>2. QED BY <2>1
<1>3. Among(s, S) = [m \in 1..N |-> s[at(m)]]
  BY DEF Among, AtPlaces
<1>4. \A i \in P : Rank(P, i) \in 1..N
  <2> HIDE DEF P
  <2>1. QED BY <1>1, Ranks
<1>5. \A m \in 1..N : at(m) \in DOMAIN s /\ s[at(m)] \in D \cap S
  <2>1. \A i \in P : i \in DOMAIN s
    OBVIOUS
  <2> HIDE DEF P, at, N
  <2>2. QED BY <1>1, <1>2, <2>1
<1>6. \A i, j \in 1..N : at(i) = at(j) => i = j
  <2> HIDE DEF P, at, N
  <2>1. QED BY <1>2
<1>7. ASSUME NEW i \in DOMAIN s, s[i] \in S PROVE Among(s, S) # <<>>
  <2>1. i \in P
    BY <1>7
  <2> HIDE DEF P, at, N
  <2>2. N # 0
    BY <1>2, <1>4, <2>1
  <2>3. QED BY <1>2, <1>3, <2>2
<1> HIDE DEF P, at, N
<1>8. Among(s, S) \in Seq(D \cap S)
  BY <1>2, <1>3, <1>5
<1>9. \A i, j \in DOMAIN Among(s, S) : Among(s, S)[i] = Among(s, S)[j] => i = j
  BY <1>3, <1>5, <1>6
<1>10. QED BY <1>7, <1>8, <1>9

\* A sequence of lists becomes one list.
LEMMA Flattened ==
  ASSUME NEW D, NEW seqs \in Seq(Seq(D))
  PROVE  H!FlattenSeq(seqs) \in Seq(D)
<1>1. CASE Len(seqs) = 0
  BY <1>1 DEF H!FlattenSeq
<1>2. CASE Len(seqs) # 0
  <2> DEFINE n == Len(seqs)
             g == [x \in Nat \X Seq(D) |->
                     IF x[1] \in 1..n THEN IF x[1] = 1 THEN seqs[1] ELSE x[2] \o seqs[x[1]]
                                      ELSE <<>>]
             flatten[i \in 1..n] == IF i = 1 THEN seqs[i] ELSE flatten[i - 1] \o seqs[i]
  <2>1. n \in Nat /\ n # 0 /\ \A i \in 1..n : seqs[i] \in Seq(D)
    BY <1>2
  <2>2. g \in [Nat \X Seq(D) -> Seq(D)]
    <3> SUFFICES ASSUME NEW x \in Nat \X Seq(D)
                 PROVE  (IF x[1] \in 1..n THEN IF x[1] = 1 THEN seqs[1] ELSE x[2] \o seqs[x[1]]
                                           ELSE <<>>) \in Seq(D)
      OBVIOUS
    <3> HIDE DEF n
    <3>1. x[2] \in Seq(D) /\ <<>> \in Seq(D)
      OBVIOUS
    <3>2. QED BY <2>1, <3>1
  <2>3. PICK f : /\ \A k \in 0..n : f[k] \in Seq(D)
                 /\ \A k \in 1..n : f[k] = g[<<k, f[k - 1]>>]
    <3> HIDE DEF g, n
    <3>1. <<>> \in Seq(D) /\ n \in Nat
      BY <2>1
    <3>2. \E f : Follows(f, Seq(D), g, <<>>, n)
      BY <2>2, <3>1, Iterates
    <3>3. QED BY <3>2 DEF Follows
  <2>4. \A k \in 1..n : f[k] = IF k = 1 THEN seqs[k] ELSE f[k - 1] \o seqs[k]
    <3> HIDE DEF n
    <3> TAKE k \in 1..n
    <3>1. k - 1 \in 0..n /\ k \in Nat
      BY <2>1
    <3>2. ASSUME NEW s \in Seq(D)
          PROVE  g[<<k, s>>] = IF k = 1 THEN seqs[k] ELSE s \o seqs[k]
      <4>1. <<k, s>> \in Nat \X Seq(D) /\ <<k, s>>[1] = k /\ <<k, s>>[2] = s
        BY <3>1
      <4>2. QED BY <4>1
    <3>3. QED BY <2>3, <3>1, <3>2
  <2> HIDE DEF g
  <2>5. \E h : h = [i \in 1..n |-> IF i = 1 THEN seqs[i] ELSE h[i - 1] \o seqs[i]]
    <3> DEFINE h == [i \in 1..n |-> f[i]]
    <3>1. ASSUME NEW i \in 1..n
          PROVE  h[i] = IF i = 1 THEN seqs[i] ELSE h[i - 1] \o seqs[i]
      <4>1. i # 1 => i - 1 \in 1..n
        BY <2>1
      <4>2. QED BY <2>4, <4>1
    <3>2. h = [i \in 1..n |-> h[i]]
      OBVIOUS
    <3> HIDE DEF h
    <3>3. h = [i \in 1..n |-> IF i = 1 THEN seqs[i] ELSE h[i - 1] \o seqs[i]]
      BY <3>1, <3>2
    <3>4. QED BY <3>3
  <2>6. flatten = [i \in 1..n |-> IF i = 1 THEN seqs[i] ELSE flatten[i - 1] \o seqs[i]]
    <3> HIDE DEF n
    <3>1. QED BY <2>5
  <2>7. H!FlattenSeq(seqs) = flatten[n]
    BY <1>2 DEF H!FlattenSeq
  <2> HIDE DEF flatten
  <2>8. \A k \in 1..n : flatten[k] \in Seq(D)
    <3> DEFINE Bad == {k \in 1..n : flatten[k] \notin Seq(D)}
    <3>1. SUFFICES ASSUME Bad # {} PROVE FALSE
      OBVIOUS
    <3>2. Bad \subseteq Nat
      OBVIOUS
    <3>3. PICK k \in Bad : \A y \in Bad : k <= y
      BY <3>1, <3>2, SmallestExists
    <3> HIDE DEF n
    <3>4. k \in 1..n /\ flatten[k] \notin Seq(D) /\ k # 1
      BY <2>1, <2>6
    <3>5. k - 1 \in 1..n /\ k - 1 \notin Bad
      BY <2>1, <3>3, <3>4
    <3>6. flatten[k - 1] \in Seq(D) /\ seqs[k] \in Seq(D)
      BY <2>1, <3>4, <3>5
    <3>7. flatten[k] = flatten[k - 1] \o seqs[k]
      BY <2>6, <3>4
    <3>8. QED BY <3>4, <3>6, <3>7
  <2>9. QED BY <2>1, <2>7, <2>8
<1>3. QED BY <1>1, <1>2

-----------------------------------------------------------------------------
(* Cycling.                                                                *)

IsList(s) == Len(s) \in Nat /\ DOMAIN s = 1..Len(s)

\* What comes after places of a list is in it: behind the only one, or the first element.
LEMMA ComesAfter ==
  ASSUME NEW s, IsList(s), Len(s) # 0, NEW hits, hits \subseteq 1..Len(s)
  PROVE  /\ \E i \in DOMAIN s : H!After(s, hits) = s[i]
         /\ hits = {} => H!After(s, hits) = s[1]
         /\ \A i : hits = {i} => H!After(s, hits) = s[IF i = Len(s) THEN 1 ELSE i + 1]
<1> DEFINE n == Len(s)
<1>1. n \in Nat /\ n # 0 /\ DOMAIN s = 1..n /\ hits \subseteq 1..n /\ 1 \in 1..n
  BY DEF IsList
<1>2. hits = {} => H!After(s, hits) = s[1]
  BY DEF H!After
<1>3. CASE hits = {}
  <2> HIDE DEF n
  <2>1. QED BY <1>1, <1>2, <1>3
<1>4. CASE hits # {}
  <2> DEFINE m == H!Min(hits)
  <2>1. m \in hits /\ \A y \in hits : m <= y
    <3>1. hits \subseteq Nat
      OBVIOUS
    <3>2. \E x \in hits : \A y \in hits : x <= y
      BY <1>4, <3>1, SmallestExists
    <3>3. QED BY <3>2 DEF H!Min
  <2>2. H!After(s, hits) = s[(m % n) + 1]
    BY <1>4 DEF H!After
  <2> HIDE DEF n, m
  <2>3. m \in 1..n
    BY <1>1, <2>1
  <2>4. (m % n) + 1 = IF m = n THEN 1 ELSE m + 1
    <3>1. CASE m = n
      <4>1. n % n = 0
        BY <1>1
      <4>2. QED BY <3>1, <4>1
    <3>2. CASE m # n
      <4>1. m % n = m
        BY <1>1, <2>3, <3>2
      <4>2. QED BY <3>2, <4>1
    <3>3. QED BY <3>1, <3>2
  <2>5. (m % n) + 1 \in 1..n
    BY <1>1, <2>3, <2>4
  <2>6. ASSUME NEW i, hits = {i} PROVE m = i
    BY <2>1, <2>6
  <2>7. QED BY <1>1, <1>4, <2>2, <2>4, <2>5, <2>6 DEF n
<1>5. QED BY <1>3, <1>4

\* CycleModel comes to all models, if no two have one name.
LEMMA ModelsComeRound == ASSUME IsList(known) PROVE H!CyclingReachesAll
<1> DEFINE n == Len(known)
           all == H!Names(known)
           visited[k \in 0..n] ==
             IF k = 0 THEN model.name ELSE H!Following(known, visited[k - 1]).name
<1>1. n \in Nat /\ DOMAIN known = 1..n
  BY DEF IsList
<1>2. all = {known[i].name : i \in 1..n}
  BY <1>1 DEF H!Names
<1>3. SUFFICES ASSUME Cardinality(all) = n, n # 0
               PROVE  all \subseteq {visited[k] : k \in 0..n}
  <2>1. n = 0 => all = {}
    <3> HIDE DEF n
    <3>1. QED BY <1>1, <1>2
  <2>2. H!Cardinality(all) = Cardinality(all)
    BY DEF H!Cardinality, Cardinality
  <2>3. H!CyclingReachesAll <=>
          (H!Cardinality(all) = n => all \subseteq {visited[k] : k \in 0..n})
    BY DEF H!CyclingReachesAll
  <2> HIDE DEF visited, n, all
  <2>4. QED BY <2>1, <2>2, <2>3
<1> DEFINE name == [i \in 1..n |-> known[i].name]
           D == {model.name} \cup all
           g == [x \in Nat \X D |-> H!Following(known, x[2]).name]
<1> HIDE DEF n
<1>4. Different(name, n)
  <2>1. IsFiniteSet(1..n) /\ Cardinality(1..n) = n
    BY <1>1, FS_Interval
  <2>2. name \in Surjection(1..n, all)
    BY <1>2 DEF Surjection
  <2>3. name \in Injection(1..n, all)
    <3> HIDE DEF name, all
    <3>1. QED BY <1>3, <2>1, <2>2, FS_SurjSameCardinalityImpliesInj
  <2> HIDE DEF name, all
  <2>4. QED BY <2>3 DEF Injection, IsInjective, Different
<1>5. ASSUME NEW x
      PROVE  /\ H!Following(known, x).name \in all
             /\ (\A i \in 1..n : x # name[i]) => H!Following(known, x).name = name[1]
             /\ \A i \in 1..n :
                  x = name[i] => H!Following(known, x).name = name[IF i = n THEN 1 ELSE i + 1]
  <2> DEFINE hits == {i \in DOMAIN known : known[i].name = x}
  <2>1. hits \subseteq 1..n /\ H!Following(known, x) = H!After(known, hits)
    BY <1>1 DEF H!Following
  <2>2. /\ \E i \in 1..n : H!After(known, hits) = known[i]
        /\ hits = {} => H!After(known, hits) = known[1]
        /\ \A i : hits = {i} => H!After(known, hits) = known[IF i = n THEN 1 ELSE i + 1]
    <3> HIDE DEF hits
    <3>1. QED BY <1>1, <1>3, <2>1, ComesAfter DEF n
  <2>3. (\A i \in 1..n : x # name[i]) => hits = {}
    BY <1>1
  <2>4. \A i \in 1..n : x = name[i] => hits = {i}
    BY <1>1, <1>4 DEF Different
  <2> HIDE DEF hits
  <2>5. 1 \in 1..n /\ \A i \in 1..n : i # n => i + 1 \in 1..n
    BY <1>1, <1>3
  <2>6. \A i \in 1..n : known[i].name = name[i] /\ name[i] \in all
    BY <1>2
  <2> HIDE DEF name, all
  <2>7. H!Following(known, x).name \in all
    BY <2>1, <2>2, <2>6
  <2>8. (\A i \in 1..n : x # name[i]) => H!Following(known, x).name = name[1]
    BY <2>1, <2>2, <2>3, <2>5, <2>6
  <2>9. ASSUME NEW i \in 1..n, x = name[i]
        PROVE  H!Following(known, x).name = name[IF i = n THEN 1 ELSE i + 1]
    <3>1. (IF i = n THEN 1 ELSE i + 1) \in 1..n
      BY <2>5
    <3>2. H!Following(known, x) = known[IF i = n THEN 1 ELSE i + 1]
      BY <2>1, <2>2, <2>4, <2>9
    <3>3. QED BY <2>6, <3>1, <3>2
  <2>10. QED BY <2>7, <2>8, <2>9
<1>6. PICK f : Follows(f, D, g, model.name, n)
  <2>1. g \in [Nat \X D -> D] /\ model.name \in D
    <3> HIDE DEF all
    <3>1. QED BY <1>5
  <2> HIDE DEF g, D
  <2>2. QED BY <1>1, <2>1, Iterates
<1>7. /\ f[0] = model.name
      /\ \A k \in 1..n : f[k] = H!Following(known, f[k - 1]).name
  <2>1. \A k \in 1..n : f[k - 1] \in D /\ f[k] = g[<<k, f[k - 1]>>]
    <3>1. \A k \in 1..n : k - 1 \in 0..n
      BY <1>1
    <3> HIDE DEF D, g
    <3>2. QED BY <1>6, <3>1 DEF Follows
  <2>2. ASSUME NEW k \in 1..n PROVE f[k] = H!Following(known, f[k - 1]).name
    <3>1. <<k, f[k - 1]>> \in Nat \X D /\ <<k, f[k - 1]>>[2] = f[k - 1]
      <4>1. k \in Nat
        BY <1>1
      <4>2. f[k - 1] \in D
        BY <2>1
      <4> HIDE DEF D
      <4>3. QED BY <4>1, <4>2
    <3> HIDE DEF D
    <3>2. QED BY <2>1, <3>1
  <2>3. QED BY <1>6, <2>2 DEF Follows
<1>8. \E h : h = [k \in 0..n |-> IF k = 0 THEN model.name ELSE H!Following(known, h[k - 1]).name]
  <2> DEFINE h == [k \in 0..n |-> f[k]]
  <2>1. ASSUME NEW k \in 0..n
        PROVE  h[k] = IF k = 0 THEN model.name ELSE H!Following(known, h[k - 1]).name
    <3>1. k # 0 => k \in 1..n /\ k - 1 \in 0..n
      BY <1>1
    <3>2. QED BY <1>7, <3>1
  <2>2. h = [k \in 0..n |-> h[k]]
    OBVIOUS
  <2> HIDE DEF h
  <2>3. h = [k \in 0..n |-> IF k = 0 THEN model.name ELSE H!Following(known, h[k - 1]).name]
    BY <2>1, <2>2
  <2>4. QED BY <2>3
<1>9. visited = [k \in 0..n |-> IF k = 0 THEN model.name
                               ELSE H!Following(known, visited[k - 1]).name]
  BY <1>8
<1> HIDE DEF visited
<1>10. GoesRound(visited, name, n)
  <2>1. \A k \in 1..n : visited[k] = H!Following(known, visited[k - 1]).name
    BY <1>1, <1>9
  <2> HIDE DEF name
  <2>2. QED BY <1>5, <2>1 DEF GoesRound
<1>11. ComesToAll(visited, name, n)
  <2> HIDE DEF name
  <2>1. QED BY <1>1, <1>4, <1>10, RoundTrip
<1>12. \A x \in all : \E i \in 1..n : x = name[i]
  BY <1>2
<1> HIDE DEF name, all
<1>13. QED BY <1>11, <1>12 DEF ComesToAll

\* The levels of a model are different ones, some of them, and ones that the model has, if it
\* has any.
AreLevels(order, m) ==
  /\ IsList(order) /\ Len(order) # 0 /\ Different(order, Len(order))
  /\ (\E l \in H!ToSet(H!AllLevels) : H!MapThinkingLevel(m, l) # "nil") =>
       \A i \in DOMAIN order : H!MapThinkingLevel(m, order[i]) # "nil"

LEMMA LevelsOfModel == \A m : AreLevels(H!SupportedThinkingLevels(m), m)
<1> SUFFICES ASSUME NEW m PROVE AreLevels(H!SupportedThinkingLevels(m), m)
  OBVIOUS
<1> DEFINE all == H!ToSet(H!AllLevels)
           S == {l \in all : H!MapThinkingLevel(m, l) # "nil"}
           has == H!Among(H!AllLevels, S)
           D == {"off", "minimal", "low", "medium", "high", "xhigh", "max"}
<1>1. H!AllLevels \in Seq(D) /\ Once(H!AllLevels)
  <2>1. H!AllLevels \in Seq(D) /\ Len(H!AllLevels) = 7
    BY DEF H!AllLevels
  <2>2. DOMAIN H!AllLevels = {1, 2, 3, 4, 5, 6, 7}
    BY <2>1
  <2>3. /\ H!AllLevels[1] = "off" /\ H!AllLevels[2] = "minimal" /\ H!AllLevels[3] = "low"
        /\ H!AllLevels[4] = "medium" /\ H!AllLevels[5] = "high" /\ H!AllLevels[6] = "xhigh"
        /\ H!AllLevels[7] = "max"
    BY DEF H!AllLevels
  <2>4. QED BY <2>1, <2>2, <2>3 DEF Once
<1>2. has \in Seq(S) /\ Once(has) /\ (has = <<>> => S = {})
  <2>1. \A x \in S : \E i \in DOMAIN H!AllLevels : H!AllLevels[i] = x
    BY DEF H!ToSet
  <2>2. has = Among(H!AllLevels, S)
    BY SameAmong
  <2> HIDE DEF all, S, D, has
  <2>3. Finds(Among(H!AllLevels, S), H!AllLevels, D, S)
    BY <1>1, FoundOnce
  <2>4. /\ has \in Seq(D \cap S) /\ Once(has)
        /\ \A i \in DOMAIN H!AllLevels : H!AllLevels[i] \in S => has # <<>>
    BY <2>2, <2>3 DEF Finds
  <2>5. has \in Seq(S)
    BY <2>4
  <2>6. QED BY <2>1, <2>4, <2>5
<1>3. IsList(H!UsualLevels) /\ Len(H!UsualLevels) # 0 /\ Different(H!UsualLevels, Len(H!UsualLevels))
      /\ \A i \in DOMAIN H!UsualLevels : H!UsualLevels[i] # "nil"
  <2>1. H!UsualLevels \in Seq(D) /\ Len(H!UsualLevels) = 4
    BY DEF H!UsualLevels
  <2>2. DOMAIN H!UsualLevels = {1, 2, 3, 4} /\ DOMAIN H!UsualLevels = 1..4
    BY <2>1
  <2>3. /\ H!UsualLevels[1] = "off" /\ H!UsualLevels[2] = "low"
        /\ H!UsualLevels[3] = "medium" /\ H!UsualLevels[4] = "high"
    BY DEF H!UsualLevels
  <2>4. QED BY <2>1, <2>2, <2>3 DEF IsList, Different
<1>4. H!SupportedThinkingLevels(m) = IF H!LevelMap(m) = <<>> \/ has = <<>> THEN H!UsualLevels ELSE has
  BY DEF H!SupportedThinkingLevels
<1>5. H!LevelMap(m) = <<>> => \A l : H!MapThinkingLevel(m, l) = l
  BY DEF H!MapThinkingLevel
<1>6. \A l \in S : H!MapThinkingLevel(m, l) # "nil"
  OBVIOUS
<1>7. (\E l \in all : H!MapThinkingLevel(m, l) # "nil") => S # {}
  OBVIOUS
<1> HIDE DEF S, has
<1>8. CASE H!LevelMap(m) = <<>>
  BY <1>3, <1>4, <1>5, <1>8 DEF AreLevels
<1>9. CASE has = <<>>
  BY <1>2, <1>3, <1>4, <1>7, <1>9 DEF AreLevels
<1>10. CASE H!LevelMap(m) # <<>> /\ has # <<>>
  <2>1. IsList(has) /\ Len(has) # 0 /\ \A i \in DOMAIN has : has[i] \in S
    BY <1>2, <1>10 DEF IsList
  <2>2. Different(has, Len(has))
    BY <1>2, <2>1 DEF IsList, Different, Once
  <2>3. H!SupportedThinkingLevels(m) = has
    BY <1>4, <1>10
  <2>4. QED BY <1>6, <2>1, <2>2, <2>3 DEF AreLevels
<1>11. QED BY <1>8, <1>9, <1>10

\* CycleThinkingLevel comes to all levels of the model.
LEMMA LevelsComeRound == H!LevelsReachAll
<1> DEFINE order == H!SupportedThinkingLevels(model)
           n == Len(order)
           reached[k \in 0..n] == IF k = 0 THEN level ELSE H!NextLevel(order, reached[k - 1])
           D == {level} \cup H!ToSet(order)
           g == [x \in Nat \X D |-> H!NextLevel(order, x[2])]
<1>1. H!LevelsReachAll <=> H!ToSet(order) \subseteq {reached[k] : k \in 0..n}
  BY DEF H!LevelsReachAll
<1>2. IsList(order) /\ n # 0 /\ Different(order, n)
  BY LevelsOfModel DEF AreLevels
<1> HIDE DEF order
<1>3. n \in Nat /\ DOMAIN order = 1..n /\ H!ToSet(order) = {order[i] : i \in 1..n}
  BY <1>2 DEF IsList, H!ToSet
<1> HIDE DEF n
<1>4. ASSUME NEW x
      PROVE  /\ H!NextLevel(order, x) \in H!ToSet(order)
             /\ (\A i \in 1..n : x # order[i]) => H!NextLevel(order, x) = order[1]
             /\ \A i \in 1..n :
                  x = order[i] => H!NextLevel(order, x) = order[IF i = n THEN 1 ELSE i + 1]
  <2> DEFINE hits == {i \in DOMAIN order : order[i] = x}
  <2>1. hits \subseteq 1..n /\ H!NextLevel(order, x) = H!After(order, hits)
    BY <1>3 DEF H!NextLevel
  <2>2. /\ \E i \in 1..n : H!After(order, hits) = order[i]
        /\ hits = {} => H!After(order, hits) = order[1]
        /\ \A i : hits = {i} => H!After(order, hits) = order[IF i = n THEN 1 ELSE i + 1]
    <3> HIDE DEF hits
    <3>1. QED BY <1>2, <1>3, <2>1, ComesAfter DEF n
  <2>3. (\A i \in 1..n : x # order[i]) => hits = {}
    BY <1>3
  <2>4. \A i \in 1..n : x = order[i] => hits = {i}
    BY <1>2, <1>3 DEF Different
  <2> HIDE DEF hits
  <2>5. QED BY <1>3, <2>1, <2>2, <2>3, <2>4
<1>5. PICK f : Follows(f, D, g, level, n)
  <2>1. g \in [Nat \X D -> D] /\ level \in D
    BY <1>4
  <2> HIDE DEF g, D
  <2>2. QED BY <1>3, <2>1, Iterates
<1>6. /\ f[0] = level
      /\ \A k \in 1..n : f[k] = H!NextLevel(order, f[k - 1])
  <2>1. \A k \in 1..n : f[k - 1] \in D /\ f[k] = g[<<k, f[k - 1]>>]
    <3>1. \A k \in 1..n : k - 1 \in 0..n
      BY <1>3
    <3> HIDE DEF D, g
    <3>2. QED BY <1>5, <3>1 DEF Follows
  <2>2. ASSUME NEW k \in 1..n PROVE f[k] = H!NextLevel(order, f[k - 1])
    <3>1. <<k, f[k - 1]>> \in Nat \X D /\ <<k, f[k - 1]>>[2] = f[k - 1]
      <4>1. k \in Nat
        BY <1>3
      <4>2. f[k - 1] \in D
        BY <2>1
      <4> HIDE DEF D
      <4>3. QED BY <4>1, <4>2
    <3> HIDE DEF D
    <3>2. QED BY <2>1, <3>1
  <2>3. QED BY <1>5, <2>2 DEF Follows
<1>7. \E h : h = [k \in 0..n |-> IF k = 0 THEN level ELSE H!NextLevel(order, h[k - 1])]
  <2> DEFINE h == [k \in 0..n |-> f[k]]
  <2>1. ASSUME NEW k \in 0..n
        PROVE  h[k] = IF k = 0 THEN level ELSE H!NextLevel(order, h[k - 1])
    <3>1. k # 0 => k \in 1..n /\ k - 1 \in 0..n
      BY <1>3
    <3>2. QED BY <1>6, <3>1
  <2>2. h = [k \in 0..n |-> h[k]]
    OBVIOUS
  <2> HIDE DEF h
  <2>3. h = [k \in 0..n |-> IF k = 0 THEN level ELSE H!NextLevel(order, h[k - 1])]
    BY <2>1, <2>2
  <2>4. QED BY <2>3
<1>8. reached = [k \in 0..n |-> IF k = 0 THEN level ELSE H!NextLevel(order, reached[k - 1])]
  BY <1>7
<1> HIDE DEF reached
<1>9. GoesRound(reached, order, n)
  <2>1. \A k \in 1..n : reached[k] = H!NextLevel(order, reached[k - 1])
    BY <1>3, <1>8
  <2>2. QED BY <1>4, <2>1 DEF GoesRound
<1>10. ComesToAll(reached, order, n)
  BY <1>2, <1>3, <1>9, RoundTrip
<1>11. QED BY <1>1, <1>3, <1>10 DEF ComesToAll

\* The models that extensions offer.
Offered == UNION {UNION {H!ToSet(Offers[e][p]) : p \in DOMAIN Offers[e]} : e \in Exts}

\* What is, or becomes, the list of models is a list, and cycling leaves a level of the model.
CycleInv ==
  /\ file \in ModelFiles /\ snapshot \in ModelFiles
  /\ IsFiniteSet(DOMAIN brought) /\ \A p \in DOMAIN brought : brought[p].models \in Seq(Offered)
  /\ IsList(known) /\ \A e \in Exts : pc[e] = "assign" => IsList(tmp[e])
  /\ cycled => level \in H!ToSet(H!SupportedThinkingLevels(model))

LEMMA FilesAreLists == ASSUME H!ModelChoiceAssumption, NEW s \in ModelFiles PROVE IsList(s)
<1>1. s \in Seq(H!ToSet(s))
  BY DEF H!ModelChoiceAssumption
<1>2. QED BY <1>1 DEF IsList

LEMMA EffectiveAreLists ==
  ASSUME H!ModelChoiceAssumption, snapshot \in ModelFiles, IsFiniteSet(DOMAIN brought),
         \A p \in DOMAIN brought : brought[p].models \in Seq(Offered),
         NEW list \in H!EffectiveModels
  PROVE  IsList(list)
<1> DEFINE kept == [i \in DOMAIN snapshot |->
                      IF snapshot[i].provider \in DOMAIN brought
                      THEN [snapshot[i] EXCEPT !.base = brought[snapshot[i].provider].owner]
                      ELSE snapshot[i]]
           added(order) == [i \in DOMAIN order |-> brought[order[i]].models]
           K == {kept[i] : i \in DOMAIN snapshot} \cup Offered
<1>1. kept \in Seq(K)
  <2>1. Len(snapshot) \in Nat /\ DOMAIN snapshot = 1..Len(snapshot)
    BY FilesAreLists DEF IsList
  <2>2. QED BY <2>1
<1>2. PICK order \in H!SetToSeqs(DOMAIN brought) : list = kept \o H!FlattenSeq(added(order))
  <2>1. H!EffectiveModels =
          {kept \o H!FlattenSeq(added(order)) : order \in H!SetToSeqs(DOMAIN brought)}
    BY DEF H!EffectiveModels
  <2> HIDE DEF kept, added
  <2>2. QED BY <2>1
<1>3. added(order) \in Seq(Seq(K))
  <2>1. order \in [1..Cardinality(DOMAIN brought) -> DOMAIN brought]
    <3>1. H!Cardinality(DOMAIN brought) = Cardinality(DOMAIN brought)
      BY DEF H!Cardinality, Cardinality
    <3>2. QED BY <1>2, <3>1 DEF H!SetToSeqs
  <2>2. Cardinality(DOMAIN brought) \in Nat
    BY FS_CardinalityType
  <2>3. \A i \in DOMAIN order : brought[order[i]].models \in Seq(K)
    <3>1. \A s \in Seq(Offered) : s \in Seq(K)
      <4> HIDE DEF kept
      <4>1. QED OBVIOUS
    <3>2. QED BY <2>1, <3>1
  <2> HIDE DEF K
  <2>4. QED BY <2>1, <2>2, <2>3
<1> HIDE DEF kept, added, K
<1>4. H!FlattenSeq(added(order)) \in Seq(K)
  BY <1>3, Flattened
<1>5. QED BY <1>1, <1>2, <1>4 DEF IsList

LEMMA CycleStarts ==
  ASSUME H!ModelChoiceAssumption, H!Init
  PROVE  CycleInv
<1>1. /\ file \in ModelFiles /\ snapshot \in ModelFiles /\ known = snapshot /\ brought = <<>>
      /\ pc = [t \in H!Threads |-> "idle"] /\ ~cycled
  BY DEF H!Init
<1>2. IsList(snapshot)
  BY <1>1, FilesAreLists
<1>3. DOMAIN brought = {} /\ IsFiniteSet({})
  BY <1>1, FS_EmptySet
<1>4. QED BY <1>1, <1>2, <1>3 DEF CycleInv, H!Threads

\* A level that cycling gives is one of the model.
LEMMA CycleGives ==
  ASSUME H!CycleThinkingLevel
  PROVE  (level \in H!ToSet(H!SupportedThinkingLevels(model)))'
<1> DEFINE order == H!SupportedThinkingLevels(model)
           now == IF level = "" THEN "off" ELSE level
           hits == {i \in DOMAIN order : order[i] = now}
<1>1. level' = H!NextLevel(order, now) /\ model' = model
  BY DEF H!CycleThinkingLevel
<1>2. IsList(order) /\ Len(order) # 0
  BY LevelsOfModel DEF AreLevels
<1>3. H!NextLevel(order, now) = H!After(order, hits)
  BY DEF H!NextLevel
<1>4. order' = order
  BY <1>1 DEF H!SupportedThinkingLevels, H!MapThinkingLevel, H!LevelMap
<1> HIDE DEF order, now
<1>5. hits \subseteq 1..Len(order)
  BY <1>2 DEF IsList
<1> HIDE DEF hits
<1>6. \E i \in DOMAIN order : H!After(order, hits) = order[i]
  BY <1>2, <1>5, ComesAfter
<1>7. level' \in H!ToSet(order)
  BY <1>1, <1>3, <1>6 DEF H!ToSet
<1>8. QED BY <1>4, <1>7 DEF order

LEMMA ProvidersKeepLists ==
  ASSUME H!ModelChoiceAssumption, ChoiceTypes, "ui" \notin Exts, CycleInv, NEW e \in Exts,
         \/ \E p \in DOMAIN Offers[e] : H!RegisterProvider(e, p)
         \/ \E p \in DOMAIN brought : H!UnregisterProvider(e, p)
         \/ H!TakeEffective(e) \/ H!AssignModels(e) \/ H!BuildRegistry(e) \/ H!StopExtension(e)
  PROVE  CycleInv'
<1> USE DEF H!Goto, H!fixed, H!modelVars, H!listVars, H!Changes
<1>1. e \in H!Threads /\ DOMAIN pc = H!Threads /\ DOMAIN tmp = H!Threads /\ Exts \subseteq H!Threads
  BY DEF H!Threads, ChoiceTypes
<1>2. /\ UNCHANGED <<file, snapshot, model, cycled, level>>
      /\ H!SupportedThinkingLevels(model)' = H!SupportedThinkingLevels(model)
  <2>1. UNCHANGED <<file, snapshot, model, cycled, level>>
    BY DEF H!RegisterProvider, H!UnregisterProvider, H!TakeEffective, H!AssignModels,
           H!BuildRegistry, H!StopExtension
  <2>2. QED BY <2>1 DEF H!SupportedThinkingLevels, H!MapThinkingLevel, H!LevelMap
<1>3. ASSUME IsFiniteSet(DOMAIN brought'),
             \A p \in DOMAIN brought' : brought'[p].models \in Seq(Offered), IsList(known'),
             \A f \in Exts : pc'[f] = "assign" => IsList(tmp'[f])
      PROVE  CycleInv'
  <2>1. CycleInv' <=>
          /\ file' \in ModelFiles /\ snapshot' \in ModelFiles
          /\ IsFiniteSet(DOMAIN brought')
          /\ \A p \in DOMAIN brought' : brought'[p].models \in Seq(Offered)
          /\ IsList(known') /\ \A f \in Exts : pc'[f] = "assign" => IsList(tmp'[f])
          /\ cycled' => level' \in H!ToSet(H!SupportedThinkingLevels(model)')
    BY DEF CycleInv, IsList, H!ToSet
  <2>2. QED BY <1>2, <1>3, <2>1 DEF CycleInv
<1>4. CASE \E p \in DOMAIN Offers[e] : H!RegisterProvider(e, p)
  <2>1. PICK p \in DOMAIN Offers[e] : H!RegisterProvider(e, p)
    BY <1>4
  <2>2. /\ brought' = [q \in {p} \cup DOMAIN brought |->
                         IF q = p THEN [owner |-> e, models |-> Offers[e][p]] ELSE brought[q]]
        /\ pc' = [pc EXCEPT ![e] = "rebuild"] /\ UNCHANGED <<known, tmp>>
    BY <2>1 DEF H!RegisterProvider
  <2>3. IsFiniteSet({p} \cup DOMAIN brought)
    BY FS_Singleton, FS_Union DEF CycleInv
  <2>4. Offers[e][p] \in Seq(Offered)
    <3>1. Offers[e][p] \in Seq(H!ToSet(Offers[e][p]))
      BY DEF H!ModelChoiceAssumption
    <3>2. H!ToSet(Offers[e][p]) \subseteq Offered
      BY <2>1 DEF Offered
    <3>3. QED BY <3>1, <3>2
  <2>5. \A q \in DOMAIN brought' : brought'[q].models \in Seq(Offered)
    BY <2>2, <2>4 DEF CycleInv
  <2>6. IsList(known') /\ \A f \in Exts : pc'[f] = "assign" => IsList(tmp'[f])
    BY <1>1, <2>2 DEF CycleInv
  <2>7. QED BY <1>3, <2>2, <2>3, <2>5, <2>6
<1>5. ASSUME NEW Q, Q \subseteq DOMAIN brought, brought' = [q \in Q |-> brought[q]],
             pc' = pc \/ pc' = [pc EXCEPT ![e] = "rebuild"], UNCHANGED <<known, tmp>>
      PROVE  CycleInv'
  <2>1. IsFiniteSet(Q)
    BY <1>5, FS_Subset DEF CycleInv
  <2>2. \A q \in DOMAIN brought' : brought'[q].models \in Seq(Offered)
    BY <1>5 DEF CycleInv
  <2>3. IsList(known') /\ \A f \in Exts : pc'[f] = "assign" => IsList(tmp'[f])
    BY <1>1, <1>5 DEF CycleInv
  <2>4. QED BY <1>3, <1>5, <2>1, <2>2, <2>3
<1>6. CASE \E p \in DOMAIN brought : H!UnregisterProvider(e, p)
  <2>1. PICK p \in DOMAIN brought : H!UnregisterProvider(e, p)
    BY <1>6
  <2>2. /\ brought' = [q \in DOMAIN brought \ {p} |-> brought[q]]
        /\ pc' = [pc EXCEPT ![e] = "rebuild"] /\ UNCHANGED <<known, tmp>>
    BY <2>1 DEF H!UnregisterProvider
  <2>3. QED BY <1>5, <2>2
<1>7. CASE H!StopExtension(e)
  <2> DEFINE Q == {q \in DOMAIN brought : brought[q].owner # e}
  <2>1. brought' = [p \in Q |-> brought[p]] /\ UNCHANGED <<pc, known, tmp>>
    BY <1>7 DEF H!StopExtension
  <2>2. Q \subseteq DOMAIN brought
    OBVIOUS
  <2> HIDE DEF Q
  <2>3. QED BY <1>5, <2>1, <2>2
<1>8. CASE H!TakeEffective(e)
  <2>1. PICK list \in H!EffectiveModels : tmp' = [tmp EXCEPT ![e] = list]
    BY <1>8 DEF H!TakeEffective
  <2>2. pc' = [pc EXCEPT ![e] = "assign"] /\ UNCHANGED <<known, brought>>
    BY <1>8 DEF H!TakeEffective
  <2>3. IsList(list)
    BY EffectiveAreLists DEF CycleInv
  <2>4. IsList(known') /\ \A f \in Exts : pc'[f] = "assign" => IsList(tmp'[f])
    BY <1>1, <2>1, <2>2, <2>3 DEF CycleInv
  <2>5. QED BY <1>3, <2>2, <2>4 DEF CycleInv
<1>9. CASE H!AssignModels(e)
  <2>1. /\ pc[e] = "assign" /\ pc' = [pc EXCEPT ![e] = "build"]
        /\ known' = tmp[e] /\ UNCHANGED <<tmp, brought>>
    BY <1>9 DEF H!AssignModels
  <2>2. IsList(known') /\ \A f \in Exts : pc'[f] = "assign" => IsList(tmp'[f])
    BY <1>1, <2>1 DEF CycleInv
  <2>3. QED BY <1>3, <2>1, <2>2 DEF CycleInv
<1>10. CASE H!BuildRegistry(e)
  <2>1. /\ pc' = [pc EXCEPT ![e] = "idle"] /\ tmp' = [tmp EXCEPT ![e] = <<>>]
        /\ UNCHANGED <<known, brought>>
    BY <1>10 DEF H!BuildRegistry
  <2>2. IsList(known') /\ \A f \in Exts : pc'[f] = "assign" => IsList(tmp'[f])
    BY <1>1, <2>1 DEF CycleInv
  <2>3. QED BY <1>3, <2>1, <2>2 DEF CycleInv
<1>11. QED BY <1>4, <1>6, <1>7, <1>8, <1>9, <1>10

LEMMA ChoicesKeepLists ==
  ASSUME H!ModelChoiceAssumption, ChoiceTypes, "ui" \notin Exts, CycleInv,
         ChoiceStep \/ H!OpenModelOverlay \/ UNCHANGED H!vars
  PROVE  CycleInv'
<1> USE DEF H!fixed, H!modelVars, H!listVars
<1>1. /\ UNCHANGED <<snapshot, brought>> /\ file' \in ModelFiles /\ IsList(known')
      /\ \A e \in Exts : pc'[e] = "assign" => pc[e] = "assign" /\ tmp'[e] = tmp[e]
  <2>1. CASE ChoiceStep
    <3>1. /\ UNCHANGED <<snapshot, brought, known>>
          /\ \/ UNCHANGED <<pc, tmp>>
             \/ \E t \in H!Threads, l \in ChoiceStages :
                  /\ pc[t] \in ChoiceStages /\ pc' = [pc EXCEPT ![t] = l]
                  /\ tmp' = tmp \/ \E x : tmp' = [tmp EXCEPT ![t] = x]
      BY <2>1, ChoiceAlone
    <3>2. \A e \in Exts : pc'[e] = "assign" => pc[e] = "assign" /\ tmp'[e] = tmp[e]
      <4>1. ASSUME NEW t \in H!Threads, NEW l \in ChoiceStages, pc' = [pc EXCEPT ![t] = l],
                   tmp' = tmp \/ \E x : tmp' = [tmp EXCEPT ![t] = x], NEW e \in Exts,
                   pc'[e] = "assign"
            PROVE  pc[e] = "assign" /\ tmp'[e] = tmp[e]
        BY <4>1 DEF ChoiceTypes, ChoiceStages, H!Threads
      <4>2. QED BY <3>1, <4>1
    <3>3. file' \in ModelFiles
      <4>1. CASE H!EditFile
        BY <4>1 DEF H!EditFile
      <4>2. CASE ~H!EditFile
        BY <2>1, <4>2 DEF ChoiceStep, H!CycleModel, H!CycleReads, H!CycleModelBackward,
             H!SelectModel, H!NewSession, H!CycleThinkingLevel, H!SetThinkingLevel,
             H!SetModelByName, H!SetModel, H!AppendModelChange, CycleInv
      <4>3. QED BY <4>1, <4>2
    <3>4. QED BY <3>1, <3>2, <3>3 DEF CycleInv
  <2>2. CASE H!OpenModelOverlay
    <3>1. IsList(file)
      BY FilesAreLists DEF CycleInv
    <3>2. QED BY <2>2, <3>1 DEF H!OpenModelOverlay, CycleInv
  <2>3. CASE UNCHANGED H!vars
    BY <2>3 DEF H!vars, CycleInv
  <2>4. QED BY <2>1, <2>2, <2>3
<1>2. (cycled => level \in H!ToSet(H!SupportedThinkingLevels(model)))'
  <2>1. CASE H!CycleThinkingLevel
    BY <2>1, CycleGives
  <2>2. CASE ~cycled'
    BY <2>2
  <2>3. CASE UNCHANGED <<model, level, cycled>>
    <3>1. H!SupportedThinkingLevels(model)' = H!SupportedThinkingLevels(model)
      BY <2>3 DEF H!SupportedThinkingLevels, H!MapThinkingLevel, H!LevelMap
    <3>2. QED BY <2>3, <3>1 DEF CycleInv, H!ToSet
  <2>4. \/ H!CycleThinkingLevel \/ ~cycled' \/ UNCHANGED <<model, level, cycled>>
    <3>1. CASE H!CycleModel \/ H!SetThinkingLevel \/ \E t \in H!Threads : H!SetModel(t)
      BY <3>1 DEF H!CycleModel, H!SetThinkingLevel, H!SetModel
    <3>2. CASE H!EditFile \/ H!CycleReads \/ H!CycleModelBackward \/ H!SelectModel \/ H!NewSession
      BY <3>2 DEF H!EditFile, H!CycleReads, H!CycleModelBackward, H!SelectModel, H!NewSession
    <3>3. CASE \E t \in H!Threads : (\E name : H!SetModelByName(t, name)) \/ H!AppendModelChange(t)
      BY <3>3 DEF H!SetModelByName, H!AppendModelChange
    <3>4. CASE H!OpenModelOverlay \/ UNCHANGED H!vars
      BY <3>4 DEF H!OpenModelOverlay, H!vars
    <3>5. QED BY <3>1, <3>2, <3>3, <3>4 DEF ChoiceStep
  <2>5. QED BY <2>1, <2>2, <2>3, <2>4
<1>3. QED BY <1>1, <1>2 DEF CycleInv

\* Whoever changes the list of models and whichever model and level are in use (service.go,
\* thinkinglevels.go): cycling comes to every model of the list and to every level of the model,
\* and a level that cycling gave is sent with the requests under the model's name for it.
THEOREM CyclingComesToAll == H!Spec => []CyclingComesRound
<1>1. H!ModelChoiceAssumption /\ "ui" \notin Exts /\ "" \notin Exts
  BY PartsAssumption DEF H!ModelChoiceAssumption
<1>2. H!Init => ChoiceInv /\ CycleInv
  BY <1>1, ChoiceStarts, CycleStarts
<1>3. ChoiceInv /\ CycleInv /\ [H!Next]_(H!vars) => ChoiceInv' /\ CycleInv'
  <2>1. SUFFICES ASSUME ChoiceInv, CycleInv, [H!Next]_(H!vars) PROVE CycleInv'
    BY <1>1, ChoiceKept
  <2>2. ChoiceTypes
    BY <2>1 DEF ChoiceInv
  <2>3. CASE ChoiceStep \/ H!OpenModelOverlay \/ UNCHANGED H!vars
    BY <1>1, <2>1, <2>2, <2>3, ChoicesKeepLists
  <2>4. CASE \E e \in Exts :
               \/ \E p \in DOMAIN Offers[e] : H!RegisterProvider(e, p)
               \/ \E p \in DOMAIN brought : H!UnregisterProvider(e, p)
               \/ H!TakeEffective(e) \/ H!AssignModels(e) \/ H!BuildRegistry(e)
               \/ H!StopExtension(e)
    BY <1>1, <2>1, <2>2, <2>4, ProvidersKeepLists
  <2>5. QED BY <2>1, <2>3, <2>4 DEF H!Next, ChoiceStep
<1>4. CycleInv => H!CyclingComesRound
  <2>1. SUFFICES ASSUME CycleInv PROVE H!CyclingComesRound
    OBVIOUS
  <2>2. H!CyclingReachesAll /\ H!LevelsReachAll
    BY <2>1, ModelsComeRound, LevelsComeRound DEF CycleInv
  <2>3. H!CycledLevelIsSent
    <3>1. SUFFICES ASSUME cycled, \E l \in H!ToSet(H!AllLevels) : H!MapThinkingLevel(model, l) # "nil"
                   PROVE  H!LevelSent = H!MapThinkingLevel(model, level)
      BY DEF H!CycledLevelIsSent
    <3>2. PICK i \in DOMAIN H!SupportedThinkingLevels(model) :
                 level = H!SupportedThinkingLevels(model)[i]
      BY <2>1, <3>1 DEF CycleInv, H!ToSet
    <3>3. H!MapThinkingLevel(model, level) # "nil"
      BY <3>1, <3>2, LevelsOfModel DEF AreLevels
    <3>4. QED BY <3>3 DEF H!LevelSent
  <2>4. QED BY <2>2, <2>3 DEF H!CyclingComesRound
<1>5. QED BY <1>2, <1>3, <1>4, PTL DEF H!Spec, CyclingComesRound

-----------------------------------------------------------------------------
(* The other program around the agent: RpcServer, for any number of        *)
(* commands, runs, tokens and retries and any capacity of a channel.       *)

\* The stages of a run in which it holds the slot, and all of them.
Holding == {"turn", "open", "token", "message", "asks", "ending"}
ServedRuns == [at : Holding \cup {"none", "released", "over"}, cancelled : BOOLEAN, count : Nat]

Relays == [at : {"none", "spawned", "events", "settled"}, active : BOOLEAN, text : BOOLEAN,
           tokens : Nat, deltas : Nat]
Events == {"update_start", "update_delta", "token", "message", "done"}

ServerTypes ==
  /\ run \in [R!Runs -> ServedRuns] /\ relay \in [R!Runs -> Relays]
  /\ chan \in [R!Runs -> Seq(Events)] /\ \A r \in R!Runs : Len(chan[r]) <= Cap
  /\ closed \subseteq R!Runs

\* The slot is with the run that is in a turn or ending; the channel of a run that is over, or
\* of a queued prompt, which has no run, is closed.
HolderInv ==
  /\ streaming \in 0..MaxRuns
  /\ \A r \in R!Runs :
       /\ streaming = r <=> run[r].at \in Holding
       /\ r \in closed => run[r].at \in {"none", "over"}
       /\ relay[r] = R!NoRelay =>
            run[r] = R!NoRun /\ chan[r] = <<>> /\ r \notin closed
       /\ relay[r].at = "settled" => r \in closed /\ chan[r] = <<>>

\* What a run may emit at a stage, what may follow an event, and what the mapper may meet.
Can(at) ==
  CASE at \in {"turn", "asks"} -> {"update_start", "done"}
    [] at = "open" -> {"token"}
    [] at = "token" -> {"update_delta"}
    [] at = "message" -> {"token", "message"}
    [] OTHER -> {}
After(event) ==
  CASE event = "update_start" -> {"token"}
    [] event = "token" -> {"update_delta"}
    [] event = "update_delta" -> {"token", "message"}
    [] OTHER -> {"update_start", "done"}
Meets(m) ==
  IF m.tokens # m.deltas THEN {"update_delta"}
  ELSE {"update_start", "done"} \cup (IF m.active THEN {"token", "message"} ELSE {})

\* The events in a channel lead from where the mapper is to where the run is: only there a token
\* is still without its update.
Fed(c, m, at) ==
  /\ m.tokens = m.deltas \/ m.tokens = m.deltas + 1
  /\ \A i, j \in DOMAIN c : j = i + 1 => c[j] \in After(c[i])
  /\ c = <<>> => Can(at) \subseteq Meets(m) /\ (m.tokens # m.deltas <=> at = "token")
  /\ c # <<>> => /\ c[1] \in Meets(m) /\ Can(at) \subseteq After(c[Len(c)])
                 /\ c[Len(c)] = "token" <=> at = "token"
StreamInv == \A r \in R!Runs : Fed(chan[r], relay[r], run[r].at)

\* The images that wait are those of a prompt that was refused.
CommandInv ==
  /\ loop \in {"read", "run", "hook", "hookAsks", "grant", "bash", "exited"}
  /\ commands \in 0..MaxCommands /\ images \in 0..commands /\ refused \subseteq 1..commands
  /\ images # 0 => images \in refused
  /\ R!ImagesWithOwnPrompt

SlotInv == ServerTypes /\ HolderInv /\ StreamInv

ServerInv == SlotInv /\ CommandInv

\* A channel stays fed when the run emits what it may, and when the mapper takes the first event.
LEMMA Emitted ==
  ASSUME NEW c \in Seq(Events), NEW m, NEW at, NEW to, NEW e \in Events, Fed(c, m, at),
         e \in Can(at), Can(to) \subseteq After(e), e = "token" <=> to = "token"
  PROVE  Append(c, e) \in Seq(Events) /\ Fed(Append(c, e), m, to)
<1> DEFINE d == Append(c, e)
<1>1. /\ d \in Seq(Events) /\ Len(c) \in Nat /\ Len(d) = Len(c) + 1 /\ d # <<>>
      /\ DOMAIN c = 1..Len(c) /\ DOMAIN d = 1..(Len(c) + 1)
      /\ d[Len(c) + 1] = e /\ \A i \in 1..Len(c) : d[i] = c[i]
  OBVIOUS
<1>2. c = <<>> \/ Len(c) >= 1
  BY <1>1
<1>3. \A i, j \in DOMAIN d : j = i + 1 => d[j] \in After(d[i])
  <2> SUFFICES ASSUME NEW i \in DOMAIN d, NEW j \in DOMAIN d, j = i + 1 PROVE d[j] \in After(d[i])
    OBVIOUS
  <2>1. CASE j \in 1..Len(c)
    <3>1. i \in 1..Len(c) /\ d[i] = c[i] /\ d[j] = c[j]
      BY <1>1, <2>1
    <3>2. QED BY <1>1, <2>1, <3>1 DEF Fed
  <2>2. CASE j = Len(c) + 1
    <3>1. i = Len(c) /\ i \in 1..Len(c) /\ c # <<>> /\ d[i] = c[i] /\ d[j] = e
      BY <1>1, <2>2
    <3>2. QED BY <3>1 DEF Fed
  <2>3. QED BY <1>1, <2>1, <2>2
<1>4. d[1] \in Meets(m)
  <2>1. CASE c = <<>>
    <3>1. d[1] = e
      BY <1>1, <2>1
    <3>2. QED BY <2>1, <3>1 DEF Fed
  <2>2. CASE c # <<>>
    <3>1. d[1] = c[1]
      BY <1>1, <1>2, <2>2
    <3>2. QED BY <2>2, <3>1 DEF Fed
  <2>3. QED BY <2>1, <2>2
<1>5. QED BY <1>1, <1>3, <1>4 DEF Fed

LEMMA Mapped ==
  ASSUME NEW m \in Relays, NEW e \in Meets(m), m.tokens = m.deltas \/ m.tokens = m.deltas + 1
  PROVE  /\ e \in Events /\ R!Map(m, e) \in Relays /\ R!Map(m, e).at = m.at
         /\ After(e) \subseteq Meets(R!Map(m, e))
         /\ R!Map(m, e).tokens # R!Map(m, e).deltas <=> e = "token"
         /\ \/ R!Map(m, e).tokens = R!Map(m, e).deltas
            \/ R!Map(m, e).tokens = R!Map(m, e).deltas + 1
<1>1. e \in Events
  BY DEF Meets, Events
<1>2. CASE e = "update_start"
  <2>1. m.tokens = m.deltas /\ R!Map(m, e) = [m EXCEPT !.active = TRUE]
    BY <1>2 DEF Meets, R!Map, R!MapUpdate, Relays
  <2>2. QED BY <1>1, <1>2, <2>1 DEF Relays, After, Meets
<1>3. CASE e = "update_delta"
  <2>1. /\ m.tokens = m.deltas + 1
        /\ R!Map(m, e) = [m EXCEPT !.active = TRUE, !.deltas = m.deltas + 1]
    BY <1>3 DEF Meets, R!Map, R!MapUpdate, Relays
  <2>2. QED BY <1>1, <1>3, <2>1 DEF Relays, After, Meets
<1>4. CASE e = "token"
  <2>1. /\ m.tokens = m.deltas /\ m.active
        /\ R!Map(m, e) = [m EXCEPT !.tokens = m.tokens + 1]
    BY <1>4 DEF Meets, R!Map, R!MapToken, Relays
  <2>2. QED BY <1>1, <1>4, <2>1 DEF Relays, After, Meets
<1>5. CASE e = "message"
  <2>1. m.tokens = m.deltas /\ R!Map(m, e) = [m EXCEPT !.text = FALSE]
    BY <1>5 DEF Meets, R!Map, R!MapMessage, Relays
  <2>2. QED BY <1>1, <1>5, <2>1 DEF Relays, After, Meets
<1>6. CASE e = "done"
  <2>1. m.tokens = m.deltas /\ R!Map(m, e) = [m EXCEPT !.active = FALSE, !.text = FALSE]
    BY <1>6 DEF Meets, R!Map, R!MapDone, Relays
  <2>2. QED BY <1>1, <1>6, <2>1 DEF Relays, After, Meets
<1>7. QED BY <1>1, <1>2, <1>3, <1>4, <1>5, <1>6 DEF Events

LEMMA Taken ==
  ASSUME NEW c \in Seq(Events), c # <<>>, NEW m \in Relays, NEW at, Fed(c, m, at)
  PROVE  /\ Tail(c) \in Seq(Events) /\ Len(Tail(c)) <= Len(c) /\ Head(c) \in Meets(m)
         /\ Fed(Tail(c), R!Map(m, Head(c)), at)
<1> DEFINE d == Tail(c)
           n == R!Map(m, Head(c))
<1>1. /\ d \in Seq(Events) /\ Len(c) \in Nat /\ Len(c) >= 1 /\ Len(d) = Len(c) - 1
      /\ DOMAIN c = 1..Len(c) /\ DOMAIN d = 1..(Len(c) - 1) /\ Head(c) = c[1]
      /\ \A i \in 1..(Len(c) - 1) : d[i] = c[i + 1]
  OBVIOUS
<1>2. c[1] \in Meets(m)
  BY DEF Fed
<1>3. /\ After(c[1]) \subseteq Meets(n) /\ (n.tokens # n.deltas <=> c[1] = "token")
      /\ n.tokens = n.deltas \/ n.tokens = n.deltas + 1
  BY <1>1, <1>2, Mapped DEF Fed
<1> HIDE DEF d, n
<1>4. \A i, j \in DOMAIN d : j = i + 1 => d[j] \in After(d[i])
  <2> SUFFICES ASSUME NEW i \in DOMAIN d, NEW j \in DOMAIN d, j = i + 1 PROVE d[j] \in After(d[i])
    OBVIOUS
  <2>1. /\ d[i] = c[i + 1] /\ d[j] = c[j + 1] /\ {i + 1, j + 1} \subseteq DOMAIN c
        /\ j + 1 = (i + 1) + 1
    BY <1>1
  <2>2. QED BY <2>1 DEF Fed
<1>5. CASE d = <<>>
  <2>1. Len(d) = 0
    BY <1>5
  <2>2. Len(c) = 1
    BY <1>1, <2>1
  <2>3. Can(at) \subseteq After(c[1]) /\ (c[1] = "token" <=> at = "token")
    BY <2>2 DEF Fed
  <2>4. Fed(d, n, at)
    BY <1>3, <1>4, <1>5, <2>3 DEF Fed
  <2>5. QED BY <1>1, <1>2, <2>4 DEF d, n
<1>6. CASE d # <<>>
  <2>1. d[Len(d)] = c[Len(c)] /\ d[1] = c[2] /\ 1 \in DOMAIN c /\ 2 \in DOMAIN c /\ 2 = 1 + 1
    BY <1>1, <1>6
  <2>2. d[1] \in Meets(n)
    <3>1. c[2] \in After(c[1])
      BY <2>1 DEF Fed
    <3>2. QED BY <1>3, <2>1, <3>1
  <2>3. Fed(d, n, at)
    BY <1>3, <1>4, <1>6, <2>1, <2>2 DEF Fed
  <2>4. QED BY <1>1, <1>2, <2>3 DEF d, n
<1>7. QED BY <1>5, <1>6

\* A run that keeps the slot moves on, and emits or not.
LEMMA HolderKeeps ==
  ASSUME SlotInv, NEW r \in R!Runs, run[r].at \in Holding,
         NEW next \in ServedRuns, next.at \in Holding, run' = [run EXCEPT ![r] = next],
         NEW c \in Seq(Events), Len(c) <= Cap, chan' = [chan EXCEPT ![r] = c],
         Fed(c, relay[r], next.at), UNCHANGED <<streaming, closed, relay>>
  PROVE  SlotInv'
<1>1. /\ relay[r] # R!NoRelay /\ relay[r].at # "settled"
  BY DEF SlotInv, HolderInv, R!NoRun, Holding
<1>2. /\ \A q \in R!Runs : run'[q] = IF q = r THEN next ELSE run[q]
      /\ \A q \in R!Runs : chan'[q] = IF q = r THEN c ELSE chan[q]
  BY DEF SlotInv, ServerTypes
<1>3. ServerTypes'
  BY <1>2 DEF SlotInv, ServerTypes
<1>4. HolderInv'
  BY <1>1, <1>2 DEF SlotInv, HolderInv, Holding
<1>5. StreamInv'
  BY <1>2 DEF SlotInv, StreamInv
<1>6. QED BY <1>3, <1>4, <1>5 DEF SlotInv

LEMMA HolderMoves ==
  ASSUME SlotInv, NEW r \in R!Runs, run[r].at \in Holding,
         NEW next \in ServedRuns, next.at \in Holding, run' = [run EXCEPT ![r] = next],
         Can(next.at) \subseteq Can(run[r].at), next.at = "token" <=> run[r].at = "token",
         UNCHANGED <<streaming, closed, relay, chan>>
  PROVE  SlotInv'
<1>1. /\ chan[r] \in Seq(Events) /\ Len(chan[r]) <= Cap
      /\ chan' = [chan EXCEPT ![r] = chan[r]]
  BY DEF SlotInv, ServerTypes
<1>2. Fed(chan[r], relay[r], run[r].at)
  BY DEF SlotInv, StreamInv
<1>3. Fed(chan[r], relay[r], next.at)
  BY <1>2 DEF Fed
<1>4. QED BY <1>1, <1>3, HolderKeeps

LEMMA HolderEmits ==
  ASSUME R!RpcAssumption, SlotInv, NEW r \in R!Runs, run[r].at \in Holding,
         NEW next \in ServedRuns, next.at \in Holding, run' = [run EXCEPT ![r] = next],
         NEW e \in Events, R!Emit(r, e), e \in Can(run[r].at), Can(next.at) \subseteq After(e),
         e = "token" <=> next.at = "token", UNCHANGED <<streaming, closed, relay>>
  PROVE  SlotInv'
<1>1. /\ chan[r] \in Seq(Events) /\ Len(chan[r]) < Cap /\ Cap \in Nat
      /\ chan' = [chan EXCEPT ![r] = Append(chan[r], e)]
  BY DEF SlotInv, ServerTypes, R!Emit, R!RpcAssumption
<1>2. Fed(chan[r], relay[r], run[r].at)
  BY DEF SlotInv, StreamInv
<1>3. Append(chan[r], e) \in Seq(Events) /\ Fed(Append(chan[r], e), relay[r], next.at)
  BY <1>1, <1>2, Emitted
<1>4. Len(Append(chan[r], e)) <= Cap
  BY <1>1
<1>5. QED BY <1>1, <1>3, <1>4, HolderKeeps

LEMMA HolderLeaves ==
  ASSUME R!RpcAssumption, SlotInv, NEW r \in R!Runs, run[r].at = "ending", streaming' = 0,
         run' = [run EXCEPT ![r].at = "released"], UNCHANGED <<closed, relay, chan>>
  PROVE  SlotInv'
<1>1. /\ run'[r] \in ServedRuns /\ run'[r].at = "released"
      /\ run' \in [R!Runs -> ServedRuns]
      /\ \A q \in R!Runs : q # r => run'[q] = run[q]
  BY DEF SlotInv, ServerTypes, ServedRuns
<1>2. relay[r] # R!NoRelay /\ relay[r].at # "settled" /\ streaming = r /\ r \notin closed
  BY DEF SlotInv, HolderInv, R!NoRun, Holding
<1>3. ServerTypes'
  BY <1>1 DEF SlotInv, ServerTypes
<1>4. HolderInv'
  <2>1. 0 \in 0..MaxRuns /\ \A q \in R!Runs : q # 0
    BY DEF R!RpcAssumption, R!Runs
  <2>2. \A q \in R!Runs : run'[q].at \notin Holding
    BY <1>1, <1>2 DEF SlotInv, HolderInv, Holding
  <2>3. QED BY <1>1, <1>2, <2>1, <2>2 DEF SlotInv, HolderInv
<1>5. Fed(chan[r], relay[r], "released")
  <2>1. Fed(chan[r], relay[r], "ending")
    BY DEF SlotInv, StreamInv
  <2>2. Can("released") = {} /\ Can("ending") = {}
    BY DEF Can
  <2>3. QED BY <2>1, <2>2 DEF Fed
<1>6. StreamInv'
  BY <1>1, <1>5 DEF SlotInv, StreamInv
<1>7. QED BY <1>3, <1>4, <1>6 DEF SlotInv

LEMMA ReleasedCloses ==
  ASSUME SlotInv, NEW r \in R!Runs, run[r].at = "released",
         run' = [run EXCEPT ![r].at = "over"], closed' = closed \cup {r},
         UNCHANGED <<streaming, relay, chan>>
  PROVE  SlotInv'
<1>1. /\ run'[r] \in ServedRuns /\ run'[r].at = "over" /\ run' \in [R!Runs -> ServedRuns]
      /\ \A q \in R!Runs : q # r => run'[q] = run[q]
  BY DEF SlotInv, ServerTypes, ServedRuns
<1>2. relay[r] # R!NoRelay /\ relay[r].at # "settled" /\ streaming # r
  BY DEF SlotInv, HolderInv, R!NoRun, Holding
<1>3. ServerTypes'
  BY <1>1 DEF SlotInv, ServerTypes
<1>4. HolderInv'
  BY <1>1, <1>2 DEF SlotInv, HolderInv, Holding
<1>5. Fed(chan[r], relay[r], "over")
  <2>1. Fed(chan[r], relay[r], "released")
    BY DEF SlotInv, StreamInv
  <2>2. Can("released") = {} /\ Can("over") = {}
    BY DEF Can
  <2>3. QED BY <2>1, <2>2 DEF Fed
<1>6. StreamInv'
  BY <1>1, <1>5 DEF SlotInv, StreamInv
<1>7. QED BY <1>3, <1>4, <1>6 DEF SlotInv

LEMMA RunsKeep ==
  ASSUME R!RpcAssumption, SlotInv, NEW r \in R!Runs, R!RunStep(r) \/ R!ToolAsks(r)
  PROVE  SlotInv'
<1>1. run[r] \in ServedRuns /\ run \in [R!Runs -> ServedRuns]
  BY DEF SlotInv, ServerTypes
<1>2. CASE R!MessageStarts(r)
  <2> DEFINE next == [run[r] EXCEPT !.at = "open"]
  <2>1. /\ run[r].at \in {"turn"} /\ run' = [run EXCEPT ![r] = next]
        /\ R!Emit(r, "update_start") /\ UNCHANGED <<streaming, closed, relay>>
    BY <1>1, <1>2 DEF R!MessageStarts, R!Step, R!Frame
  <2>2. next \in ServedRuns /\ next.at = "open"
    BY <1>1, <2>1 DEF ServedRuns, Holding
  <2>3. "update_start" \in Can(run[r].at) /\ Can(next.at) \subseteq After("update_start")
    BY <2>1, <2>2 DEF Can, After
  <2>4. QED BY <2>1, <2>2, <2>3, HolderEmits DEF Holding, Events
<1>3. CASE R!Token(r)
  <2> DEFINE next == [run[r] EXCEPT !.at = "token", !.count = run[r].count + 1]
  <2>1. /\ run[r].at \in {"open", "message"} /\ run' = [run EXCEPT ![r] = next]
        /\ R!Emit(r, "token") /\ UNCHANGED <<streaming, closed, relay>>
    BY <1>1, <1>3 DEF R!Token, R!Step, R!Frame
  <2>2. next \in ServedRuns /\ next.at = "token"
    <3>1. run[r].count + 1 \in Nat
      BY <1>1 DEF ServedRuns
    <3>2. QED BY <1>1, <2>1, <3>1 DEF ServedRuns, Holding
  <2>3. "token" \in Can(run[r].at) /\ Can(next.at) \subseteq After("token")
    BY <2>1, <2>2 DEF Can, After
  <2>4. QED BY <2>1, <2>2, <2>3, HolderEmits DEF Holding, Events
<1>4. CASE R!MessageUpdate(r)
  <2> DEFINE next == [run[r] EXCEPT !.at = "message"]
  <2>1. /\ run[r].at \in {"token"} /\ run' = [run EXCEPT ![r] = next]
        /\ R!Emit(r, "update_delta") /\ UNCHANGED <<streaming, closed, relay>>
    BY <1>1, <1>4 DEF R!MessageUpdate, R!Step, R!Frame
  <2>2. next \in ServedRuns /\ next.at = "message"
    BY <1>1, <2>1 DEF ServedRuns, Holding
  <2>3. "update_delta" \in Can(run[r].at) /\ Can(next.at) \subseteq After("update_delta")
    BY <2>1, <2>2 DEF Can, After
  <2>4. QED BY <2>1, <2>2, <2>3, HolderEmits DEF Holding, Events
<1>5. CASE R!MessageEnds(r)
  <2> DEFINE next == [run[r] EXCEPT !.at = "turn"]
  <2>1. /\ run[r].at \in {"message"} /\ run' = [run EXCEPT ![r] = next]
        /\ R!Emit(r, "message") /\ UNCHANGED <<streaming, closed, relay>>
    BY <1>1, <1>5 DEF R!MessageEnds, R!Step, R!Frame
  <2>2. next \in ServedRuns /\ next.at = "turn"
    BY <1>1, <2>1 DEF ServedRuns, Holding
  <2>3. "message" \in Can(run[r].at) /\ Can(next.at) \subseteq After("message")
    BY <2>1, <2>2 DEF Can, After
  <2>4. QED BY <2>1, <2>2, <2>3, HolderEmits DEF Holding, Events
<1>6. CASE R!TurnRetried(r)
  <2> DEFINE next == [run[r] EXCEPT !.count = run[r].count + 1]
  <2>1. /\ run[r].at \in {"turn"} /\ run' = [run EXCEPT ![r] = next]
        /\ R!Emit(r, "done") /\ UNCHANGED <<streaming, closed, relay>>
    BY <1>1, <1>6 DEF R!TurnRetried, R!Step, R!Frame
  <2>2. next \in ServedRuns /\ next.at = "turn"
    BY <1>1, <2>1 DEF ServedRuns, Holding
  <2>3. "done" \in Can(run[r].at) /\ Can(next.at) \subseteq After("done")
    BY <2>1, <2>2 DEF Can, After
  <2>4. QED BY <2>1, <2>2, <2>3, HolderEmits DEF Holding, Events
<1>7. CASE R!Done(r)
  <2> DEFINE next == [run[r] EXCEPT !.at = "ending"]
  <2>1. /\ run[r].at \in {"turn"} /\ run' = [run EXCEPT ![r] = next]
        /\ R!Emit(r, "done") /\ UNCHANGED <<streaming, closed, relay>>
    BY <1>1, <1>7 DEF R!Done, R!Step, R!Frame
  <2>2. next \in ServedRuns /\ next.at = "ending"
    BY <1>1, <2>1 DEF ServedRuns, Holding
  <2>3. "done" \in Can(run[r].at) /\ Can(next.at) \subseteq After("done")
    BY <2>1, <2>2 DEF Can, After
  <2>4. QED BY <2>1, <2>2, <2>3, HolderEmits DEF Holding, Events
<1>8. CASE R!ToolAsks(r)
  <2> DEFINE next == [run[r] EXCEPT !.at = "asks"]
  <2>1. /\ run[r].at = "turn" /\ run' = [run EXCEPT ![r] = next]
        /\ UNCHANGED <<streaming, closed, relay, chan>>
    BY <1>1, <1>8 DEF R!ToolAsks, R!Step, R!Frame
  <2>2. next \in ServedRuns /\ next.at = "asks"
    BY <1>1, <2>1 DEF ServedRuns, Holding
  <2>3. Can(next.at) \subseteq Can(run[r].at)
    BY <2>1, <2>2 DEF Can
  <2>4. QED BY <2>1, <2>2, <2>3, HolderMoves DEF Holding
<1>9. CASE R!ToolCancelled(r)
  <2> DEFINE next == [run[r] EXCEPT !.at = "turn"]
  <2>1. /\ run[r].at = "asks" /\ run' = [run EXCEPT ![r] = next]
        /\ UNCHANGED <<streaming, closed, relay, chan>>
    BY <1>1, <1>9 DEF R!ToolCancelled, R!Step, R!Frame
  <2>2. next \in ServedRuns /\ next.at = "turn"
    BY <1>1, <2>1 DEF ServedRuns, Holding
  <2>3. Can(next.at) \subseteq Can(run[r].at)
    BY <2>1, <2>2 DEF Can
  <2>4. QED BY <2>1, <2>2, <2>3, HolderMoves DEF Holding
<1>10. CASE R!NoTurn(r)
  <2> DEFINE next == [run[r] EXCEPT !.at = "ending"]
  <2>1. /\ run[r].at = "turn" /\ run' = [run EXCEPT ![r] = next]
        /\ UNCHANGED <<streaming, closed, relay, chan>>
    BY <1>1, <1>10 DEF R!NoTurn, R!Step, R!Frame
  <2>2. next \in ServedRuns /\ next.at = "ending"
    BY <1>1, <2>1 DEF ServedRuns, Holding
  <2>3. Can(next.at) \subseteq Can(run[r].at)
    BY <2>1, <2>2 DEF Can
  <2>4. QED BY <2>1, <2>2, <2>3, HolderMoves DEF Holding
<1>11. CASE R!Release(r)
  <2>1. /\ run[r].at = "ending" /\ run' = [run EXCEPT ![r].at = "released"] /\ streaming' = 0
        /\ UNCHANGED <<closed, relay, chan>>
    BY <1>11 DEF R!Release, R!Step, R!Frame
  <2>2. QED BY <1>1, <2>1, HolderLeaves
<1>12. CASE R!CloseEvents(r)
  <2>1. /\ run[r].at = "released" /\ run' = [run EXCEPT ![r].at = "over"]
        /\ closed' = closed \cup {r} /\ UNCHANGED <<streaming, relay, chan>>
    BY <1>12 DEF R!CloseEvents, R!Step, R!Frame
  <2>2. QED BY <1>1, <2>1, ReleasedCloses
<1>13. QED
  BY <1>2, <1>3, <1>4, <1>5, <1>6, <1>7, <1>8, <1>9, <1>10, <1>11, <1>12 DEF R!RunStep

LEMMA RelayKeeps ==
  ASSUME R!RpcAssumption, SlotInv, NEW r \in R!Runs, R!Relay(r)
  PROVE  SlotInv'
<1>1. /\ relay[r] \in Relays /\ relay \in [R!Runs -> Relays] /\ chan[r] \in Seq(Events)
      /\ Fed(chan[r], relay[r], run[r].at) /\ Len(chan[r]) <= Cap
      /\ chan \in [R!Runs -> Seq(Events)]
  BY DEF SlotInv, ServerTypes, StreamInv
<1>2. UNCHANGED <<streaming, run, closed>>
  BY DEF R!Relay, R!Begins, R!Relays, R!Settles, R!agent
<1>3. ASSUME NEW m \in Relays, m.at # "none", NEW c \in Seq(Events), Len(c) <= Cap,
             Fed(c, m, run[r].at), m.at = "settled" => r \in closed /\ c = <<>>,
             relay' = [relay EXCEPT ![r] = m], chan' = [chan EXCEPT ![r] = c]
      PROVE  SlotInv'
  <2>1. /\ \A q \in R!Runs : relay'[q] = IF q = r THEN m ELSE relay[q]
        /\ \A q \in R!Runs : chan'[q] = IF q = r THEN c ELSE chan[q]
    BY <1>1, <1>3
  <2>2. ServerTypes'
    BY <1>2, <1>3, <2>1 DEF SlotInv, ServerTypes
  <2>3. m # R!NoRelay
    BY <1>3 DEF R!NoRelay
  <2>4. HolderInv'
    BY <1>2, <1>3, <2>1, <2>3 DEF SlotInv, HolderInv
  <2>5. StreamInv'
    BY <1>2, <1>3, <2>1 DEF SlotInv, StreamInv
  <2>6. QED BY <2>2, <2>4, <2>5 DEF SlotInv
<1>4. CASE R!Relays(r)
  <2> DEFINE m == R!Map(relay[r], Head(chan[r]))
             c == Tail(chan[r])
  <2>1. /\ relay[r].at = "events" /\ chan[r] # <<>> /\ relay' = [relay EXCEPT ![r] = m]
        /\ chan' = [chan EXCEPT ![r] = c]
    BY <1>4 DEF R!Relays
  <2>2. /\ c \in Seq(Events) /\ Len(c) <= Len(chan[r]) /\ Head(chan[r]) \in Meets(relay[r])
        /\ Fed(c, m, run[r].at)
    BY <1>1, <2>1, Taken
  <2>3. m \in Relays /\ m.at = "events"
    <3>1. relay[r].tokens = relay[r].deltas \/ relay[r].tokens = relay[r].deltas + 1
      BY <1>1 DEF Fed
    <3>2. QED BY <1>1, <2>1, <2>2, <3>1, Mapped
  <2>4. Len(c) <= Cap
    <3>1. Len(c) \in Nat /\ Len(chan[r]) \in Nat
      BY <1>1, <2>2
    <3>2. QED BY <1>1, <2>2, <3>1 DEF R!RpcAssumption
  <2>5. QED BY <1>3, <2>1, <2>2, <2>3, <2>4
<1>5. CASE R!Begins(r) \/ R!Settles(r)
  <2>1. PICK at \in {"events", "settled"} :
          /\ relay' = [relay EXCEPT ![r].at = at]
          /\ at = "settled" => chan[r] = <<>> /\ r \in closed
    BY <1>5 DEF R!Begins, R!Settles
  <2> DEFINE m == [relay[r] EXCEPT !.at = at]
  <2>2. /\ m \in Relays /\ m.at = at /\ m.active = relay[r].active /\ m.tokens = relay[r].tokens
        /\ m.deltas = relay[r].deltas
    BY <1>1 DEF Relays
  <2>3. chan' = [chan EXCEPT ![r] = chan[r]]
    BY <1>1, <1>5 DEF R!Begins, R!Settles, R!agent
  <2>4. Fed(chan[r], m, run[r].at)
    BY <1>1, <2>2 DEF Fed, Meets
  <2>5. QED BY <1>1, <1>3, <2>1, <2>2, <2>3, <2>4
<1>6. QED BY <1>4, <1>5 DEF R!Relay

\* A prompt takes a channel that nobody has, and with it the slot or none.
LEMMA SpawnKeeps ==
  ASSUME SlotInv, NEW r \in R!Runs, R!Spawn(r), UNCHANGED chan,
         \/ /\ closed' = closed \cup {r} /\ UNCHANGED <<streaming, run>>
         \/ /\ streaming = 0 /\ streaming' = r /\ run' = [run EXCEPT ![r].at = "turn"]
            /\ UNCHANGED closed
  PROVE  SlotInv'
<1> DEFINE m == [R!NoRelay EXCEPT !.at = "spawned"]
<1>1. /\ relay[r] = R!NoRelay /\ run[r] = R!NoRun /\ chan[r] = <<>> /\ r \notin closed
      /\ relay' = [relay EXCEPT ![r].at = "spawned"]
  BY DEF SlotInv, HolderInv, R!Spawn
<1>2. /\ m \in Relays /\ m # R!NoRelay /\ relay' \in [R!Runs -> Relays]
      /\ \A q \in R!Runs : relay'[q] = IF q = r THEN m ELSE relay[q]
  <2>1. m \in Relays
    BY DEF Relays, R!NoRelay
  <2>2. m.at = "spawned" /\ R!NoRelay.at = "none"
    BY DEF R!NoRelay
  <2>3. relay \in [R!Runs -> Relays] /\ relay' = [relay EXCEPT ![r] = m]
    BY <1>1 DEF SlotInv, ServerTypes
  <2>4. m # R!NoRelay
    BY <2>2
  <2>5. QED BY <2>1, <2>3, <2>4
<1>3. CASE closed' = closed \cup {r} /\ UNCHANGED <<streaming, run>>
  <2>1. ServerTypes'
    BY <1>2, <1>3 DEF SlotInv, ServerTypes
  <2>2. HolderInv'
    BY <1>1, <1>2, <1>3 DEF SlotInv, HolderInv, R!NoRun
  <2>3. Fed(<<>>, m, "none")
    BY DEF Fed, Can, R!NoRelay
  <2>4. StreamInv'
    BY <1>1, <1>2, <1>3, <2>3 DEF SlotInv, StreamInv, R!NoRun
  <2>5. QED BY <2>1, <2>2, <2>4 DEF SlotInv
<1>4. CASE /\ streaming = 0 /\ streaming' = r /\ run' = [run EXCEPT ![r].at = "turn"]
           /\ UNCHANGED closed
  <2>1. /\ run' \in [R!Runs -> ServedRuns] /\ run'[r].at = "turn"
        /\ \A q \in R!Runs : q # r => run'[q] = run[q]
    BY <1>4 DEF SlotInv, ServerTypes, ServedRuns, Holding
  <2>2. ServerTypes'
    BY <1>2, <1>4, <2>1 DEF SlotInv, ServerTypes
  <2>3. HolderInv'
    <3>1. r \in 0..MaxRuns /\ \A q \in R!Runs : q # 0
      BY DEF R!Runs
    <3>2. QED BY <1>1, <1>2, <1>4, <2>1, <3>1 DEF SlotInv, HolderInv, Holding
  <2>4. Fed(<<>>, m, "turn")
    BY DEF Fed, Can, Meets, R!NoRelay
  <2>5. StreamInv'
    BY <1>1, <1>2, <1>4, <2>1, <2>4 DEF SlotInv, StreamInv
  <2>6. QED BY <2>2, <2>3, <2>5 DEF SlotInv
<1>5. QED BY <1>3, <1>4

LEMMA CancelKeeps ==
  ASSUME SlotInv, R!CancelRun, UNCHANGED <<streaming, chan, closed, relay>>
  PROVE  SlotInv'
<1>1. CASE streaming = 0
  BY <1>1 DEF R!CancelRun, SlotInv, ServerTypes, HolderInv, StreamInv
<1>2. CASE streaming # 0
  <2> DEFINE next == [run[streaming] EXCEPT !.cancelled = TRUE]
  <2>1. streaming \in R!Runs /\ run[streaming].at \in Holding
    BY <1>2 DEF SlotInv, HolderInv, R!Runs
  <2>2. /\ next \in ServedRuns /\ next.at = run[streaming].at
        /\ run' = [run EXCEPT ![streaming] = next]
    BY <1>2, <2>1 DEF R!CancelRun, SlotInv, ServerTypes, ServedRuns
  <2>3. QED BY <2>1, <2>2, HolderMoves
<1>3. QED BY <1>1, <1>2

LEMMA AnswerKeeps ==
  ASSUME SlotInv, R!Answer
  PROVE  SlotInv'
<1>1. PICK r \in R!Runs : run[r].at = "asks" /\ run' = [run EXCEPT ![r].at = "turn"]
  BY DEF R!Answer
<1> DEFINE next == [run[r] EXCEPT !.at = "turn"]
<1>2. next \in ServedRuns /\ next.at = "turn" /\ run' = [run EXCEPT ![r] = next]
  BY <1>1 DEF SlotInv, ServerTypes, ServedRuns, Holding
<1>3. UNCHANGED <<streaming, chan, closed, relay>>
  BY DEF R!Answer
<1>4. Can("turn") \subseteq Can("asks")
  BY DEF Can
<1>5. QED BY <1>1, <1>2, <1>3, <1>4, HolderMoves DEF Holding

LEMMA CommandKeeps ==
  ASSUME SlotInv,
         \/ R!Command \/ R!Progress \/ R!HookAsks \/ R!BashEnds \/ R!CloseInput
         \/ R!ServeReturns \/ UNCHANGED R!vars
  PROVE  SlotInv'
<1>1. CASE UNCHANGED <<streaming, run, chan, closed, relay>>
  BY <1>1 DEF SlotInv, ServerTypes, HolderInv, StreamInv
<1>2. (R!CanSpawn => R!Fresh \in R!Runs)
  BY DEF R!CanSpawn, R!Fresh
<1>3. CASE \E brings \in BOOLEAN : R!PromptQueued(brings)
  <2>1. /\ R!CanSpawn /\ R!Spawn(R!Fresh) /\ closed' = closed \cup {R!Fresh}
        /\ UNCHANGED <<streaming, run, chan>>
    BY <1>3 DEF R!PromptQueued
  <2>2. QED BY <1>2, <2>1, SpawnKeeps
<1>4. CASE R!Claim
  <2>1. /\ R!CanSpawn /\ R!Spawn(R!Fresh) /\ streaming = 0 /\ streaming' = R!Fresh
        /\ run' = [run EXCEPT ![R!Fresh].at = "turn"] /\ UNCHANGED <<closed, chan>>
    BY <1>4 DEF R!Claim
  <2>2. QED BY <1>2, <2>1, SpawnKeeps
<1>5. CASE R!Abort \/ R!AbortAndWait
  BY <1>5, CancelKeeps DEF R!Abort, R!AbortAndWait
<1>6. CASE R!Answer
  BY <1>6, AnswerKeeps
<1>7. CASE \E brings \in BOOLEAN : R!PromptRefused(brings) \/ R!Steer(brings)
  BY <1>1, <1>7 DEF R!PromptRefused, R!Steer, R!agent
<1>8. CASE \/ R!ContinueRefused \/ R!WithHook \/ R!Bash \/ R!ReloadExtensions \/ R!Progress
           \/ R!HookAsks \/ R!BashEnds \/ R!CloseInput \/ R!ServeReturns
  BY <1>1, <1>8
     DEF R!ContinueRefused, R!WithHook, R!Bash, R!ReloadExtensions, R!Progress, R!RunIsOver,
         R!HookReturns, R!GrantTimeout, R!Returned, R!HookAsks, R!BashEnds, R!CloseInput,
         R!ServeReturns, R!agent
<1>9. CASE UNCHANGED R!vars
  BY <1>1, <1>9 DEF R!vars
<1>10. QED
  BY <1>3, <1>4, <1>5, <1>6, <1>7, <1>8, <1>9 DEF R!Command, R!PromptStarts, R!ContinueRun

\* Images and what the reading goroutine waits for.
LEMMA CommandsCounted ==
  ASSUME R!RpcAssumption, CommandInv, [R!Next]_(R!vars)
  PROVE  CommandInv'
<1> USE DEF R!Handle, R!pending
<1>1. /\ commands \in Nat /\ MaxCommands \in Nat
  BY DEF CommandInv, R!RpcAssumption
<1>2. ASSUME loop' \in {"read", "run", "hook", "hookAsks", "grant", "bash", "exited"},
             commands' = commands \/ (commands' = commands + 1 /\ commands < MaxCommands),
             UNCHANGED <<images, taken, refused>>
      PROVE  CommandInv'
  BY <1>1, <1>2 DEF CommandInv, R!ImagesWithOwnPrompt
<1>3. ASSUME NEW brings \in BOOLEAN, R!PromptRefused(brings)
      PROVE  CommandInv'
  <2>1. /\ loop' = "read" /\ commands' = commands + 1 /\ commands < MaxCommands
        /\ images' = (IF brings THEN commands + 1 ELSE images) /\ taken' = taken
        /\ refused' = (IF brings THEN refused \cup {commands + 1} ELSE refused)
    BY <1>3 DEF R!PromptRefused, R!Waiting
  <2>2. QED BY <1>1, <2>1 DEF CommandInv, R!ImagesWithOwnPrompt
<1>4. ASSUME NEW brings \in BOOLEAN,
             \/ R!PromptQueued(brings) \/ R!PromptStarts(brings) \/ R!Steer(brings)
      PROVE  CommandInv'
  <2> DEFINE w == IF brings THEN commands + 1 ELSE images
  <2>1. /\ loop' = "read" /\ commands' = commands + 1 /\ commands < MaxCommands
        /\ images' \in {images, 0} /\ refused' = refused
        /\ taken' = IF w = 0 THEN taken ELSE taken \cup {[by |-> commands + 1, from |-> w]}
    BY <1>4 DEF R!PromptQueued, R!PromptStarts, R!Steer, R!Take, R!Waiting
  <2>2. w # 0 => w = commands + 1 \/ w \in refused
    BY DEF CommandInv
  <2>3. R!ImagesWithOwnPrompt'
    BY <2>1, <2>2 DEF CommandInv, R!ImagesWithOwnPrompt
  <2>4. QED BY <1>1, <2>1, <2>3 DEF CommandInv
<1>5. CASE \/ R!ContinueRun \/ R!ContinueRefused \/ R!Abort \/ R!AbortAndWait \/ R!WithHook
           \/ R!Bash \/ R!ReloadExtensions \/ R!Answer
  BY <1>2, <1>5
     DEF R!ContinueRun, R!ContinueRefused, R!Abort, R!AbortAndWait, R!WithHook, R!Bash,
         R!ReloadExtensions, R!Answer
<1>6. CASE R!Progress \/ R!HookAsks \/ R!BashEnds \/ R!CloseInput \/ R!ServeReturns
  <2>1. loop \in {"read", "run", "hook", "hookAsks", "grant", "bash", "exited"}
    BY DEF CommandInv
  <2>2. QED
    BY <1>2, <1>6, <2>1
       DEF R!Progress, R!RunIsOver, R!HookReturns, R!GrantTimeout, R!Returned, R!HookAsks,
           R!BashEnds, R!CloseInput, R!ServeReturns
<1>7. CASE \/ \E r \in R!Runs : R!RunStep(r) \/ R!ToolAsks(r) \/ R!Relay(r)
           \/ UNCHANGED R!vars
  <2>1. UNCHANGED <<loop, commands, images, taken, refused>>
    BY <1>7
       DEF R!RunStep, R!ToolAsks, R!Relay, R!MessageStarts, R!Token, R!MessageUpdate,
           R!MessageEnds, R!ToolCancelled, R!TurnRetried, R!Done, R!NoTurn, R!Release,
           R!CloseEvents, R!Begins, R!Relays, R!Settles, R!Frame, R!vars
  <2>2. QED BY <1>2, <2>1 DEF CommandInv
<1>8. QED BY <1>3, <1>4, <1>5, <1>6, <1>7 DEF R!Next, R!Command

\* Whatever the agent emits and whenever the server reads it (server.go: streamEvents;
\* events.go: Map): a run that the client knows to be settled has left its slot, every
\* token of it was written once, whether it came as a Token or as an update, and images go
\* with the prompt that brought them or were left behind by one that was refused.
THEOREM ClientsAreServed == R!Spec => []ClientServed
<1>1. R!RpcAssumption
  BY PartsAssumption
<1>2. R!Init => ServerInv
  <2>1. SUFFICES ASSUME R!Init PROVE ServerInv
    OBVIOUS
  <2>2. /\ loop = "read" /\ commands = 0 /\ streaming = 0 /\ closed = {} /\ images = 0
        /\ run = [r \in R!Runs |-> R!NoRun] /\ chan = [r \in R!Runs |-> <<>>]
        /\ relay = [r \in R!Runs |-> R!NoRelay] /\ taken = {} /\ refused = {}
    BY <2>1 DEF R!Init
  <2>3. /\ MaxRuns \in Nat /\ MaxCommands \in Nat /\ Cap \in Nat
    BY <1>1 DEF R!RpcAssumption
  <2>4. /\ R!NoRun \in ServedRuns /\ R!NoRun.at = "none"
        /\ R!NoRelay \in Relays /\ R!NoRelay.at = "none"
    BY DEF R!NoRun, R!NoRelay, ServedRuns, Relays
  <2>5. ServerTypes
    BY <2>2, <2>3, <2>4 DEF ServerTypes
  <2>6. HolderInv
    <3>1. 0 \in 0..MaxRuns /\ \A r \in R!Runs : r # 0
      BY <2>3 DEF R!Runs
    <3>2. QED BY <2>2, <2>4, <3>1 DEF HolderInv, Holding
  <2>7. StreamInv
    <3>1. Fed(<<>>, R!NoRelay, "none")
      BY DEF Fed, Can, R!NoRelay
    <3>2. QED BY <2>2, <2>4, <3>1 DEF StreamInv
  <2>8. CommandInv
    BY <2>2, <2>3 DEF CommandInv, R!ImagesWithOwnPrompt
  <2>9. QED BY <2>5, <2>6, <2>7, <2>8 DEF ServerInv, SlotInv
<1>3. ServerInv /\ [R!Next]_(R!vars) => ServerInv'
  BY <1>1, RunsKeep, RelayKeeps, CommandKeeps, CommandsCounted DEF R!Next, ServerInv
<1>4. ServerInv => R!ClientServed
  <2>1. SUFFICES ASSUME ServerInv PROVE R!ClientServed
    OBVIOUS
  <2>2. \A r \in R!Runs : Fed(chan[r], relay[r], run[r].at)
    BY <2>1 DEF ServerInv, SlotInv, StreamInv
  <2>3. R!TypeOK
    <3>1. streaming # 0 => streaming \in R!Runs /\ run[streaming].at \in Holding
      BY <2>1 DEF ServerInv, SlotInv, HolderInv, R!Runs
    <3>2. streaming # 0 => run[streaming].at \notin {"none", "released", "over"}
      BY <3>1 DEF Holding
    <3>3. \A r \in R!Runs : relay[r].deltas <= relay[r].tokens
      <4> SUFFICES ASSUME NEW r \in R!Runs PROVE relay[r].deltas <= relay[r].tokens
        OBVIOUS
      <4>1. relay[r].deltas \in Nat
        BY <2>1 DEF ServerInv, SlotInv, ServerTypes, Relays
      <4>2. relay[r].tokens = relay[r].deltas \/ relay[r].tokens = relay[r].deltas + 1
        BY <2>2 DEF Fed
      <4>3. QED BY <4>1, <4>2
    <3>4. QED
      BY <2>1, <3>2, <3>3 DEF ServerInv, SlotInv, ServerTypes, HolderInv, CommandInv, R!TypeOK
  <2>4. R!IdleWhenSettled
    BY <2>1 DEF ServerInv, SlotInv, HolderInv, Holding, R!IdleWhenSettled
  <2>5. R!TokensOnce
    <3>1. \A r \in R!Runs : relay[r].at = "settled" =>
                               chan[r] = <<>> /\ run[r].at # "token"
      BY <2>1 DEF ServerInv, SlotInv, HolderInv
    <3>2. QED BY <2>2, <3>1 DEF Fed, R!TokensOnce
  <2>6. QED BY <2>1, <2>3, <2>4, <2>5 DEF ServerInv, CommandInv, R!ClientServed
<1>5. QED BY <1>2, <1>3, <1>4, PTL DEF R!Spec, ClientServed
=============================================================================
