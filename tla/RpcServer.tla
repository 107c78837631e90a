------------------------------- MODULE RpcServer -------------------------------
(***************************************************************************)
(* The JSONL server (src/internal/rpc: server.go, session_handlers.go,     *)
(* extended_handlers.go, events.go): one goroutine reads the commands and  *)
(* handles them, each run has one that writes its events, and both write   *)
(* whole lines under one lock.                                             *)
(*                                                                         *)
(* Of the agent the model keeps the slot of a run, the images waiting for  *)
(* a prompt, and the events of a response: per token a Token and the       *)
(* MessageUpdate that says the same, after one MessageUpdate that opens    *)
(* the message; a Done for each turn, several when a turn is retried.      *)
(***************************************************************************)
EXTENDS Naturals, Sequences

CONSTANTS MaxCommands, \* bound on the commands of the client
          MaxRuns,     \* bound on those that write events
          Cap,         \* capacity of a channel of events
          MaxTokens    \* bound on the tokens and retries of a run

RpcAssumption == Cap \in Nat \ {0} /\ {MaxCommands, MaxRuns, MaxTokens} \subseteq Nat

VARIABLES
  loop,      \* the reading goroutine: what the command in progress waits for
  commands,  \* commands read so far
  input,     \* the client's end of the input is "open" or "closed"
  streaming, \* Service.streaming: the run that holds the slot, 0 for none
  run,       \* where the run behind each channel stands
  chan,      \* events of each run that nobody has read
  closed,    \* channels that are closed
  relay,     \* streamEvents of each channel, with its EventMapper
  images,    \* Service.pendingImages: the command that brought them, 0 for none
  taken,     \* history: who took whose images
  refused    \* history: commands refused with their images

vars == <<loop, commands, input, streaming, run, chan, closed, relay, images, taken, refused>>
pending == <<images, taken, refused>>
agent == <<streaming, run, chan, closed>>

Runs == 1..MaxRuns
NoRun == [at |-> "none", cancelled |-> FALSE, count |-> 0]
NoRelay == [at |-> "none", active |-> FALSE, text |-> FALSE, tokens |-> 0, deltas |-> 0]

Init ==
  /\ loop = "read" /\ commands = 0 /\ input = "open"
  /\ streaming = 0
  /\ run = [r \in Runs |-> NoRun] /\ chan = [r \in Runs |-> <<>>] /\ closed = {}
  /\ relay = [r \in Runs |-> NoRelay]
  /\ images = 0 /\ taken = {} /\ refused = {}

-----------------------------------------------------------------------------
(* Commands: Serve reads a line, handles it and writes the response before *)
(* it reads the next one.                                                  *)

\* A command that waits for `what` before it answers; "read" for one that does not wait.
Handle(what) ==
  /\ loop = "read" /\ input = "open" /\ commands < MaxCommands
  /\ commands' = commands + 1
  /\ loop' = what
  /\ UNCHANGED input

\* The goroutine that will write the events of the r-th prompt.
Spawn(r) == relay[r] = NoRelay /\ relay' = [relay EXCEPT ![r].at = "spawned"]
Fresh == CHOOSE r \in Runs : relay[r] = NoRelay
CanSpawn == \E r \in Runs : relay[r] = NoRelay

\* The images of the command, or else those left behind, go to whoever takes them now.
Waiting(brings) == IF brings THEN commands + 1 ELSE images
Take(brings) ==
  /\ taken' = IF Waiting(brings) = 0 THEN taken
              ELSE taken \cup {[by |-> commands + 1, from |-> Waiting(brings)]}
  /\ images' = 0
  /\ UNCHANGED refused

PromptRefused(brings) ==
  /\ Handle("read") /\ streaming # 0
  /\ images' = Waiting(brings)
  /\ refused' = IF brings THEN refused \cup {commands + 1} ELSE refused
  /\ UNCHANGED <<taken, agent, relay>>

\* streamingBehavior steer or followUp: the service closes the channel at once, and the
\* client is told of a run that starts and settles.
PromptQueued(brings) ==
  /\ Handle("read") /\ streaming # 0 /\ CanSpawn
  /\ Spawn(Fresh)
  /\ closed' = closed \cup {Fresh}
  /\ Take(brings)
  /\ UNCHANGED <<streaming, run, chan>>

Claim ==
  /\ streaming = 0 /\ CanSpawn
  /\ Spawn(Fresh)
  /\ streaming' = Fresh
  /\ run' = [run EXCEPT ![Fresh].at = "turn"]
  /\ UNCHANGED <<chan, closed>>

PromptStarts(brings) == Handle("read") /\ Claim /\ Take(brings)

ContinueRun == Handle("read") /\ Claim /\ UNCHANGED pending

ContinueRefused == Handle("read") /\ streaming # 0 /\ UNCHANGED <<agent, relay, pending>>

\* steer and follow_up: images of their own, or those left behind.
Steer(brings) ==
  /\ Handle("read") /\ streaming # 0
  /\ taken' = IF Waiting(brings) = 0 THEN taken
              ELSE taken \cup {[by |-> commands + 1, from |-> Waiting(brings)]}
  /\ images' = IF brings THEN images ELSE 0
  /\ UNCHANGED <<refused, agent, relay>>

CancelRun == run' = IF streaming = 0 THEN run ELSE [run EXCEPT ![streaming].cancelled = TRUE]

Abort == Handle("read") /\ CancelRun /\ UNCHANGED <<streaming, chan, closed, relay, pending>>

\* new_session and switch_session abort the run and wait for it.
AbortAndWait == Handle("run") /\ CancelRun /\ UNCHANGED <<streaming, chan, closed, relay, pending>>

RunIsOver ==
  /\ loop = "run" /\ streaming = 0 /\ loop' = "hook"
  /\ UNCHANGED <<commands, input, agent, relay, pending>>

\* fork, switch_to_entry, get_tree and compact call the hooks of extensions, as the end
\* of new_session does.
WithHook == Handle("hook") /\ UNCHANGED <<agent, relay, pending>>

Bash == Handle("bash") /\ UNCHANGED <<agent, relay, pending>>

\* reload starts extensions, which may need a grant.
ReloadExtensions == Handle("grant") /\ UNCHANGED <<agent, relay, pending>>

Returned(from) == loop = from /\ loop' = "read" /\ UNCHANGED <<commands, input, agent, relay, pending>>

HookReturns == Returned("hook")

\* The extension asks the user before it answers the hook; the answer is a command, which
\* nobody reads.
HookAsks ==
  /\ loop = "hook" /\ loop' = "hookAsks"
  /\ UNCHANGED <<commands, input, agent, relay, pending>>

BashEnds == Returned("bash")

\* Nothing needed a grant, or GrantTimeout: no answer to a request can be read here.
GrantTimeout == Returned("grant")

\* A run whose tool asked the user goes on with the answer.
Answer ==
  /\ Handle("read")
  /\ \E r \in Runs : run[r].at = "asks" /\ run' = [run EXCEPT ![r].at = "turn"]
  /\ UNCHANGED <<streaming, chan, closed, relay, pending>>

CloseInput ==
  /\ input = "open" /\ input' = "closed"
  /\ UNCHANGED <<loop, commands, agent, relay, pending>>

\* At the end of its input Serve returns, and the program ends with what still runs.
ServeReturns ==
  /\ loop = "read" /\ input = "closed" /\ loop' = "exited"
  /\ UNCHANGED <<commands, input, agent, relay, pending>>

-----------------------------------------------------------------------------
(* The agent: events and the end of a run.                                 *)

Up == loop # "exited"
Emit(r, event) == Len(chan[r]) < Cap /\ chan' = [chan EXCEPT ![r] = Append(@, event)]
Step(r, from, to) == run[r].at = from /\ run' = [run EXCEPT ![r].at = to]
Frame == UNCHANGED <<loop, commands, input, relay, pending>>

\* The first MessageUpdate of a message opens it.
MessageStarts(r) ==
  /\ Up /\ run[r].count < MaxTokens
  /\ Step(r, "turn", "open") /\ Emit(r, "update_start")
  /\ UNCHANGED <<streaming, closed>> /\ Frame

Token(r) ==
  /\ Up /\ run[r].at \in {"open", "message"} /\ run[r].count < MaxTokens
  /\ run' = [run EXCEPT ![r].at = "token", ![r].count = @ + 1]
  /\ Emit(r, "token")
  /\ UNCHANGED <<streaming, closed>> /\ Frame

MessageUpdate(r) ==
  Up /\ Step(r, "token", "message") /\ Emit(r, "update_delta") /\ UNCHANGED <<streaming, closed>> /\ Frame

MessageEnds(r) ==
  Up /\ Step(r, "message", "turn") /\ Emit(r, "message") /\ UNCHANGED <<streaming, closed>> /\ Frame

\* A tool of an extension asks the user; the context of the run frees it.
ToolAsks(r) ==
  Up /\ ~run[r].cancelled /\ Step(r, "turn", "asks") /\ UNCHANGED <<streaming, chan, closed>> /\ Frame

ToolCancelled(r) ==
  Up /\ run[r].cancelled /\ Step(r, "asks", "turn") /\ UNCHANGED <<streaming, chan, closed>> /\ Frame

\* willRetry: another turn follows, unless the run was cancelled.
TurnRetried(r) ==
  /\ Up /\ ~run[r].cancelled /\ run[r].at = "turn" /\ run[r].count < MaxTokens
  /\ run' = [run EXCEPT ![r].count = @ + 1]
  /\ Emit(r, "done")
  /\ UNCHANGED <<streaming, closed>> /\ Frame

Done(r) ==
  Up /\ Step(r, "turn", "ending") /\ Emit(r, "done") /\ UNCHANGED <<streaming, closed>> /\ Frame

\* A prompt without a text ends without a turn.
NoTurn(r) ==
  Up /\ Step(r, "turn", "ending") /\ run[r].count = 0 /\ UNCHANGED <<streaming, chan, closed>> /\ Frame

\* Mutant: the channel first, then the slot.
ReleaseLate(r) ==
  Up /\ Step(r, "ending", "released") /\ closed' = closed \cup {r} /\ UNCHANGED <<streaming, chan>> /\ Frame

\* The slot first, then the channel.
Release(r) ==
  Up /\ Step(r, "ending", "released") /\ streaming' = 0 /\ UNCHANGED <<chan, closed>> /\ Frame

CloseEvents(r) ==
  Up /\ Step(r, "released", "over") /\ closed' = closed \cup {r} /\ UNCHANGED <<streaming, chan>> /\ Frame

-----------------------------------------------------------------------------
(* streamEvents and EventMapper.                                           *)

Begins(r) ==
  /\ Up /\ relay[r].at = "spawned"
  /\ relay' = [relay EXCEPT ![r].at = "events"]
  /\ UNCHANGED <<loop, commands, input, agent, pending>>

\* A MessageUpdate passes as it is, and silences the tokens that repeat it.
MapUpdate(m, event) == [m EXCEPT !.active = TRUE, !.deltas = IF event = "update_delta" THEN @ + 1 ELSE @]

\* Tokens without updates open a text of their own (thinking and tool calls likewise).
MapToken(m) ==
  IF m.active THEN [m EXCEPT !.tokens = @ + 1]
  ELSE [m EXCEPT !.tokens = @ + 1, !.text = TRUE, !.deltas = @ + 1]

MapMessage(m) == [m EXCEPT !.text = FALSE]

\* agent_end and turn_end: the next turn begins anew.
MapDone(m) == [m EXCEPT !.active = FALSE, !.text = FALSE]

Map(m, event) ==
  CASE event \in {"update_start", "update_delta"} -> MapUpdate(m, event)
    [] event = "token" -> MapToken(m)
    [] event = "message" -> MapMessage(m)
    [] event = "done" -> MapDone(m)

\* Mutant: a command in progress keeps the lock of the writers.
RelaysLocked(r) ==
  /\ Up /\ relay[r].at = "events" /\ chan[r] # <<>> /\ loop = "read"
  /\ relay' = [relay EXCEPT ![r] = Map(@, Head(chan[r]))]
  /\ chan' = [chan EXCEPT ![r] = Tail(@)]
  /\ UNCHANGED <<loop, commands, input, streaming, run, closed, pending>>

Relays(r) ==
  /\ Up /\ relay[r].at = "events" /\ chan[r] # <<>>
  /\ relay' = [relay EXCEPT ![r] = Map(@, Head(chan[r]))]
  /\ chan' = [chan EXCEPT ![r] = Tail(@)]
  /\ UNCHANGED <<loop, commands, input, streaming, run, closed, pending>>

\* agent_settled.
Settles(r) ==
  /\ Up /\ relay[r].at = "events" /\ chan[r] = <<>> /\ r \in closed
  /\ relay' = [relay EXCEPT ![r].at = "settled"]
  /\ UNCHANGED <<loop, commands, input, agent, pending>>

-----------------------------------------------------------------------------
Command ==
  \/ \E brings \in BOOLEAN :
       PromptRefused(brings) \/ PromptQueued(brings) \/ PromptStarts(brings) \/ Steer(brings)
  \/ ContinueRun \/ ContinueRefused \/ Abort \/ AbortAndWait \/ WithHook \/ Bash
  \/ ReloadExtensions \/ Answer

Progress == RunIsOver \/ HookReturns \/ GrantTimeout

RunStep(r) ==
  \/ MessageStarts(r) \/ Token(r) \/ MessageUpdate(r) \/ MessageEnds(r) \/ ToolCancelled(r)
  \/ TurnRetried(r) \/ Done(r) \/ NoTurn(r) \/ Release(r) \/ CloseEvents(r)

\* What brings a run nearer to its end.
RunGoesOn(r) ==
  \/ Token(r) \/ MessageUpdate(r) \/ MessageEnds(r) \/ ToolCancelled(r)
  \/ Done(r) \/ Release(r) \/ CloseEvents(r)

Relay(r) == Begins(r) \/ Relays(r) \/ Settles(r)

Next ==
  \/ Command \/ Progress \/ HookAsks \/ BashEnds \/ CloseInput \/ ServeReturns
  \/ \E r \in Runs : RunStep(r) \/ ToolAsks(r) \/ Relay(r)

Spec == Init /\ [][Next]_vars

\* The goroutines run, GrantTimeout passes, and a turn ends.  Nothing is assumed of
\* extensions and of the user's commands.
Fairness ==
  /\ WF_vars(RunIsOver \/ GrantTimeout)
  /\ \A r \in Runs : WF_vars(RunGoesOn(r)) /\ WF_vars(Relay(r))

FairSpec == Spec /\ Fairness

-----------------------------------------------------------------------------
(* Properties.                                                             *)

TypeOK ==
  /\ loop \in {"read", "run", "hook", "hookAsks", "grant", "bash", "exited"}
  /\ commands \in 0..MaxCommands
  /\ streaming \in 0..MaxRuns /\ closed \subseteq Runs
  /\ streaming # 0 => run[streaming].at \notin {"none", "released", "over"}
  /\ \A r \in Runs : Len(chan[r]) <= Cap /\ relay[r].deltas <= relay[r].tokens
  /\ images \in 0..commands /\ refused \subseteq 1..commands

\* Once the client reads agent_settled of a run, its next prompt is not refused for it.
IdleWhenSettled == \A r \in Runs : relay[r].at = "settled" => streaming # r

\* Every token of the agent is written once, whether it comes as a Token, as an update or
\* as both, in each turn of a run.
TokensOnce == \A r \in Runs : relay[r].at = "settled" => relay[r].deltas = relay[r].tokens

\* Images go with the prompt that brought them; those of a refused prompt stay, and go
\* with the next message.
ImagesWithOwnPrompt == \A t \in taken : t.from = t.by \/ t.from \in refused

\* A command that waits for a run or for a grant is answered, although what the client
\* sends meanwhile is not read.  For an extension and for a shell command there is no such
\* promise: the answer to the one and the abort of the other are behind it in the input.
WaitsEnd == loop \in {"run", "grant"} ~> loop \notin {"run", "grant"}

\* A run leaves its slot, however far its events have been written, unless it waits for
\* an answer of the user or the input of the server has ended.
RunsLeave == \A r \in Runs : streaming = r ~> streaming # r \/ run[r].at = "asks" \/ ~Up

\* Runs and the commands that wait for them come to an end.
ServerGoesOn == WaitsEnd /\ RunsLeave

\* What the client is told of a run is so, and said once; what it sent goes where it belongs.
ClientServed == TypeOK /\ IdleWhenSettled /\ TokensOnce /\ ImagesWithOwnPrompt
=============================================================================
