---------------------------- MODULE SessionBinding ----------------------------
(***************************************************************************)
(* The session bound to agent.Service (src/internal/agent: session_ops.go, *)
(* service_extra.go, branch_summary.go, bash.go, compact.go) while the     *)
(* agent runs: a client opens, clones, forks or deletes sessions, and the  *)
(* agent of each turn takes Sessions and SessPath from the service, one    *)
(* after the other and without its lock.                                   *)
(*                                                                         *)
(* A session is a number; the file with its number is its own.  External:  *)
(* session.Manager, of which the model keeps the file last saved and       *)
(* whether the leaf is where the run left it.                              *)
(***************************************************************************)
EXTENDS Naturals, FiniteSets

CONSTANTS MaxSessions, \* bound on the sessions
          MaxRuns,     \* bound on the runs of the agent
          MaxOps       \* bound on the operations of the client

BoundsAssumption == MaxSessions \in Nat \ {0} /\ {MaxRuns, MaxOps} \subseteq Nat

VARIABLES
  Sessions,  \* Service.Sessions
  SessPath,  \* Service.SessPath
  made,      \* sessions created so far: 1..made
  file,      \* the session that each file holds, 0 for no file
  moved,     \* sessions whose leaf is not where the last message of the run is
  run,       \* stage of the run and what the agent of the turn has read
  op,        \* the client's operation: kind, stage and target
  runs, ops, \* runs and operations so far
  strayed,   \* history: a message of a run was appended elsewhere than behind its last one
  deleted,   \* history: sessions whose file was deleted
  overlapped \* history: a run and an operation that had passed its check went on together

vars == <<Sessions, SessPath, made, file, moved, run, op, runs, ops, strayed, deleted, overlapped>>
binding == <<Sessions, SessPath, made>>
bounds == <<runs, ops>>
history == <<strayed, deleted, overlapped>>

Ids == 1..MaxSessions
streaming == run.pc # "idle"

NoRun == [pc |-> "idle", mgr |-> 0, path |-> 0, cancelled |-> FALSE]
NoOp == [kind |-> "none", at |-> "idle", target |-> 0]

Init ==
  /\ Sessions = 1 /\ SessPath = 1 /\ made = 1
  /\ file = [p \in Ids |-> 0]
  /\ moved = {}
  /\ run = NoRun /\ op = NoOp
  /\ runs = 0 /\ ops = 0
  /\ strayed = FALSE /\ deleted = {} /\ overlapped = FALSE

Saved(p, s) == file' = [file EXCEPT ![p] = s]

-----------------------------------------------------------------------------
(* The run.                                                                *)

\* What comes before the next look at the run does no harm.
Rechecked == op.at \in {"idle", "wait"} \/ (op.at = "replace" /\ op.kind = "switch")

RunBegins ==
  /\ run.pc = "idle" /\ runs < MaxRuns
  /\ run' = [NoRun EXCEPT !.pc = "start"]
  /\ runs' = runs + 1
  /\ overlapped' = (overlapped \/ ~Rechecked)
  /\ moved' = {}
  /\ UNCHANGED <<binding, file, op, ops, strayed, deleted>>

\* The Agent of a turn, and of its retry, is built from the fields of the service.
ReadSessions ==
  /\ run.pc = "start"
  /\ run' = [run EXCEPT !.pc = "path", !.mgr = Sessions]
  /\ UNCHANGED <<binding, file, moved, op, bounds, history>>

ReadSessPath ==
  /\ run.pc = "path"
  /\ run' = [run EXCEPT !.pc = "turn", !.path = SessPath]
  /\ UNCHANGED <<binding, file, moved, op, bounds, history>>

\* Messages of the turn are appended at the leaf of the agent's session.
AppendMessage ==
  /\ run.pc = "turn"
  /\ strayed' = (strayed \/ run.mgr \in moved)
  /\ moved' = moved \ {run.mgr}
  /\ UNCHANGED <<binding, file, run, op, bounds, deleted, overlapped>>

SaveSession ==
  /\ run.pc = "turn"
  /\ Saved(run.path, run.mgr)
  /\ UNCHANGED <<binding, moved, run, op, bounds, history>>

\* A failed turn is repeated by a new Agent, unless the run was cancelled.
RetryTurn ==
  /\ run.pc = "turn" /\ ~run.cancelled
  /\ run' = [run EXCEPT !.pc = "start"]
  /\ UNCHANGED <<binding, file, moved, op, bounds, history>>

RunEnds ==
  /\ run.pc = "turn"
  /\ run' = NoRun
  /\ UNCHANGED <<binding, file, moved, op, bounds, history>>

-----------------------------------------------------------------------------
(* The client's operations.                                                *)

Begin(kind, at, target) ==
  /\ op.at = "idle" /\ ops < MaxOps
  /\ op' = [kind |-> kind, at |-> at, target |-> target]
  /\ ops' = ops + 1

\* Refused while a run is in progress; what follows the look at it is a step of its own.
Guarded == {"open", "clone", "fork", "switchToEntry", "compact"}

\* IsStreaming, with ErrStreaming for an answer.
Check ==
  /\ ~streaming
  /\ \/ \E k \in Guarded \ {"open"} : Begin(k, "checked", 0)
     \/ \E t \in 1..made : file[t] # 0 /\ Begin("open", "checked", t)
  /\ UNCHANGED <<binding, file, moved, run, runs, history>>

Done == op' = NoOp

\* A hook of an extension, a summary or the file may fail the operation.
Fails ==
  /\ op.at = "checked"
  /\ Done
  /\ UNCHANGED <<binding, file, moved, run, bounds, history>>

\* Mutant: the path stays the one of the session before.
BindForgetsPath(s) == Sessions' = s /\ UNCHANGED SessPath

\* Sessions and SessPath change together, under the lock of the service.
Bind(s) == Sessions' = s /\ SessPath' = s

OpenSession ==
  /\ op.at = "checked" /\ op.kind = "open"
  /\ Bind(op.target) /\ Done
  /\ UNCHANGED <<made, file, moved, run, bounds, history>>

\* The clone is saved to its own file before it is bound.
CloneSession ==
  /\ op.at = "checked" /\ op.kind = "clone" /\ made < MaxSessions
  /\ made' = made + 1
  /\ Saved(made + 1, made + 1)
  /\ op' = [op EXCEPT !.at = "bind", !.target = made + 1]
  /\ UNCHANGED <<Sessions, SessPath, moved, run, bounds, history>>

BindClone ==
  /\ op.at = "bind"
  /\ Bind(op.target) /\ Done
  /\ UNCHANGED <<made, file, moved, run, bounds, history>>

\* ForkAt, SwitchToEntry and CompactLinear move the leaf of the bound session, maybe
\* behind a summary of the branch, which takes a request to the model ...
MoveLeaf ==
  /\ op.at = "checked" /\ op.kind \in {"fork", "switchToEntry", "compact"}
  /\ moved' = moved \cup {Sessions}
  /\ op' = [op EXCEPT !.at = "save"]
  /\ UNCHANGED <<binding, file, run, bounds, history>>

\* ... and save it.
SaveMoved ==
  /\ op.at = "save"
  /\ Saved(SessPath, Sessions) /\ Done
  /\ UNCHANGED <<binding, moved, run, bounds, history>>

\* GetForkMessages, and get_entries with a leaf: the leaf is put elsewhere for the time
\* of reading, whether or not the agent runs.
BorrowLeaf ==
  /\ Begin("borrow", "borrowed", Sessions)
  /\ moved' = moved \cup {Sessions}
  /\ overlapped' = (overlapped \/ streaming)
  /\ UNCHANGED <<binding, file, run, runs, strayed, deleted>>

ReturnLeaf ==
  /\ op.at = "borrowed"
  /\ moved' = moved \ {op.target} /\ Done
  /\ UNCHANGED <<binding, file, run, bounds, history>>

\* SwitchSession and NewSession abort the run first ...
AbortRun ==
  /\ \/ \E t \in 1..made : file[t] # 0 /\ Begin("switch", "wait", t)
     \/ Begin("new", "wait", 0)
  /\ run' = [run EXCEPT !.cancelled = streaming]
  /\ UNCHANGED <<binding, file, moved, runs, history>>

\* ... and wait for its end.  The hook session_before_switch may cancel the rest.
RunIsOver ==
  /\ op.at = "wait" /\ ~streaming
  /\ \/ op' = [op EXCEPT !.at = "replace"]
     \/ Done
  /\ UNCHANGED <<binding, file, moved, run, bounds, history>>

\* OpenSession looks once more whether the agent runs.
SwitchSession ==
  /\ op.at = "replace" /\ op.kind = "switch" /\ ~streaming
  /\ op' = [op EXCEPT !.at = "checked", !.kind = "open"]
  /\ UNCHANGED <<binding, file, moved, run, bounds, history>>

SwitchRefused ==
  /\ op.at = "replace" /\ op.kind = "switch" /\ streaming
  /\ Done
  /\ UNCHANGED <<binding, file, moved, run, bounds, history>>

\* NewSession does not.
NewSession ==
  /\ op.at = "replace" /\ op.kind = "new" /\ made < MaxSessions
  /\ made' = made + 1
  /\ Bind(made + 1) /\ Done
  /\ UNCHANGED <<file, moved, run, bounds, history>>

\* Refused for the file of the session that runs.
CheckDelete ==
  /\ \E t \in 1..made :
       /\ file[t] # 0 /\ ~(streaming /\ SessPath = t)
       /\ Begin("delete", "remove", t)
  /\ UNCHANGED <<binding, file, moved, run, runs, history>>

RemoveFile ==
  /\ op.at = "remove"
  /\ Saved(op.target, 0)
  /\ op' = [op EXCEPT !.at = "removed"]
  /\ deleted' = deleted \cup {op.target}
  /\ UNCHANGED <<binding, moved, run, bounds, strayed, overlapped>>

\* A new session takes the place of the one deleted.
DeleteSession ==
  /\ op.at = "removed"
  /\ IF SessPath = op.target
     THEN made < MaxSessions /\ made' = made + 1 /\ Bind(made + 1)
     ELSE UNCHANGED binding
  /\ Done
  /\ UNCHANGED <<file, moved, run, bounds, history>>

\* Entries, labels, a model or the entry of a user's command are appended and saved
\* between the messages of a run, the leaf moving with them.
AppendEntry ==
  /\ op.at = "idle" /\ ops < MaxOps /\ ops' = ops + 1
  /\ Saved(SessPath, Sessions)
  /\ UNCHANGED <<binding, moved, run, op, runs, history>>

Run ==
  \/ RunBegins \/ ReadSessions \/ ReadSessPath \/ AppendMessage \/ SaveSession
  \/ RetryTurn \/ RunEnds

Client ==
  \/ Check \/ Fails \/ OpenSession \/ CloneSession \/ BindClone \/ MoveLeaf \/ SaveMoved
  \/ BorrowLeaf \/ ReturnLeaf \/ AbortRun \/ RunIsOver \/ SwitchSession \/ SwitchRefused
  \/ NewSession \/ CheckDelete \/ RemoveFile \/ DeleteSession \/ AppendEntry

Next == Run \/ Client

Spec == Init /\ [][Next]_vars

-----------------------------------------------------------------------------
(* Properties.  A run that begins after an operation looked at IsStreaming *)
(* and before the operation is through is the hazard itself (`overlapped`, *)
(* see the README); the properties say that nothing else does harm.        *)

TypeOK ==
  /\ made \in Ids /\ {Sessions, SessPath} \subseteq 1..made
  /\ file \in [Ids -> 0..made]
  /\ moved \in SUBSET (1..made) /\ deleted \in SUBSET (1..made)
  /\ run.pc \in {"idle", "start", "path", "turn"} /\ run.cancelled \in BOOLEAN
  /\ run.pc = "turn" => {run.mgr, run.path} \subseteq 1..made
  /\ op.kind \in Guarded \cup {"none", "borrow", "switch", "new", "delete"}
  /\ op.at \in {"idle", "checked", "bind", "save", "borrowed", "wait", "replace", "remove", "removed"}
  /\ op.target \in 0..made
  /\ runs \in 0..MaxRuns /\ ops \in 0..MaxOps
  /\ {strayed, overlapped} \subseteq BOOLEAN

\* Although Sessions and SessPath are read one after the other, no file is overwritten
\* with another session.
OwnFiles == ~overlapped => \A p \in Ids : file[p] \in {0, p}


\* The messages of a run stand one behind the other on one branch.
OneBranch == strayed => overlapped

\* No save brings the file of a deleted session back.
DeletedStaysDeleted == ~overlapped => \A t \in deleted : file[t] = 0

\* A turn and its retries, each with an Agent of its own, work on one session.
RunKeepsSession ==
  [][run.mgr # 0 /\ run'.mgr # 0 /\ ~overlapped' => run'.mgr = run.mgr]_vars

\* What a run writes goes to its own session, and to no deleted one.
SessionsKept == [](TypeOK /\ OwnFiles /\ OneBranch /\ DeletedStaysDeleted) /\ RunKeepsSession
=============================================================================
