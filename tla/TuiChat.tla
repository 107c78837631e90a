------------------------------- MODULE TuiChat -------------------------------
(***************************************************************************)
(* The cards of the terminal UI (src/internal/tui: applyEvent and its      *)
(* helpers in tui.go, shell.go, hydrate.go): what the events of a run, the *)
(* output of the user's commands and a change of the session make of       *)
(* Model.lines.                                                            *)
(*                                                                         *)
(* A card says for whom it was made (`of`) and whose text it shows (`by`): *)
(* a response, a call of a tool or a command.  Events and messages are     *)
(* applied when they are sent; the channels they pass are in TuiRun.       *)
(***************************************************************************)
EXTENDS Integers, SequencesExt, Lists

CONSTANTS MaxAnswers, MaxCalls, MaxCommands,  \* bounds on responses, calls, commands of the user
          MaxPrompts, MaxInfos,               \* bounds on prompts, cards that other keys add
          BashCap                             \* capacity of a command's channel of messages

ChatAssumption == {MaxAnswers, MaxCalls, MaxCommands, MaxPrompts, MaxInfos, BashCap} \subseteq Nat

Commands == 1..MaxCommands

VARIABLES
  lines,     \* Model.lines
  streaming, \* Model.streaming
  buf,       \* the response whose text streamBuf holds, 0 for an empty one
  thinkIdx,  \* Model.thinkStreamIdx
  turn,      \* the run: "idle", "request", "stream", "tools"
  answer,    \* the response being streamed, or the last one
  calls,     \* its calls without a result
  made,      \* calls made so far
  text,      \* the response has text
  told,      \* responses with text whose end was announced
  replaced,  \* responses whose card another response took over, or that another session hides
  prompts, infos,
  bashIdx,   \* Model.bashStreamIdx
  bashCh,    \* the command whose channel is Model.bashCh, 0 for nil
  bashPc,    \* of each command: "none", "run", "done"
  inbox,     \* the messages in its channel
  waiters,   \* goroutines of waitBash on it
  upset      \* commands that ran while the lines were replaced or another command began

chat == <<lines, streaming, buf, thinkIdx>>
runs == <<turn, answer, calls, made, text, told, replaced>>
count == <<prompts, infos>>
bash == <<bashIdx, bashCh, bashPc, inbox, waiters, upset>>
vars == <<chat, runs, count, bash>>

Card(kind, of, status) == [kind |-> kind, of |-> of, by |-> of, status |-> status]
Info == Card("info", 0, "done")

Init ==
  /\ lines = <<>> /\ streaming = FALSE /\ buf = 0 /\ thinkIdx = 0
  /\ turn = "idle" /\ answer = 0 /\ calls = {} /\ made = 0 /\ text = FALSE
  /\ told = {} /\ replaced = {} /\ prompts = 0 /\ infos = 0
  /\ bashIdx = 0 /\ bashCh = 0
  /\ bashPc = [c \in Commands |-> "none"] /\ inbox = [c \in Commands |-> <<>>]
  /\ waiters = [c \in Commands |-> 0] /\ upset = {}

\* The card at a remembered index, if there still is one of that kind.
Holds(i, kind) == i \in DOMAIN lines /\ lines[i].kind = kind

-----------------------------------------------------------------------------
(* Events of a run.                                                        *)

\* The prompt is announced: a card of the user.
RunBegins ==
  /\ turn = "idle" /\ turn' = "request"
  /\ prompts < MaxPrompts /\ prompts' = prompts + 1
  /\ lines' = Append(lines, Card("user", 0, "done"))
  /\ UNCHANGED <<streaming, buf, thinkIdx, answer, calls, made, text, told, replaced, infos, bash>>

\* updateStreamingCard: while streaming a card of an answer in the last place is taken over.
Streamed(of) ==
  IF lines # <<>> /\ Last(lines).kind = "answer"
  THEN [lines EXCEPT ![Len(lines)].by = of, ![Len(lines)].status = "pending"]
  ELSE Append(lines, Card("answer", of, "pending"))

\* EventMessageStart.
MessageStart ==
  /\ turn = "request" /\ answer < MaxAnswers
  /\ turn' = "stream" /\ answer' = answer + 1 /\ text' = FALSE
  /\ streaming' = TRUE /\ buf' = 0
  /\ lines' = Streamed(answer + 1)
  /\ replaced' = IF Last(lines).kind = "answer" THEN replaced \cup {Last(lines).by} ELSE replaced
  /\ UNCHANGED <<thinkIdx, calls, made, told, count, bash>>

\* EventToken: a card in between makes the text begin anew in a card of its own.
Token ==
  /\ turn = "stream"
  /\ streaming' = TRUE /\ buf' = answer /\ text' = TRUE
  /\ lines' = Streamed(answer)
  /\ UNCHANGED <<thinkIdx, turn, answer, calls, made, told, replaced, count, bash>>

\* EventThinkingToken.
ThinkingToken ==
  /\ turn = "stream"
  /\ streaming' = TRUE
  /\ IF Holds(thinkIdx, "thinking")
     THEN lines' = [lines EXCEPT ![thinkIdx].by = answer] /\ UNCHANGED thinkIdx
     ELSE lines' = Append(lines, Card("thinking", answer, "done")) /\ thinkIdx' = Len(lines) + 1
  /\ UNCHANGED <<buf, runs, count, bash>>

\* EventToolCall flushes the text and the reasoning, and adds a card.
ToolCall ==
  /\ turn = "stream" /\ made < MaxCalls
  /\ made' = made + 1 /\ calls' = calls \cup {made + 1}
  /\ streaming' = FALSE /\ buf' = 0 /\ thinkIdx' = 0
  /\ lines' = Append(lines, Card("tool", made + 1, "pending"))
  /\ UNCHANGED <<turn, answer, text, told, replaced, count, bash>>

\* finalizeStreaming: the whole text replaces the streamed one, or gets a card of its own
\* when the stream was flushed or another card came last.
Finalized(of) ==
  CASE ~text -> lines
    [] text /\ streaming /\ Last(lines).kind = "answer" ->
         [lines EXCEPT ![Len(lines)].by = of, ![Len(lines)].status = "done"]
    [] OTHER -> Append(lines, Card("answer", of, "done"))

\* EventMessage of the assistant.
Message ==
  /\ turn = "stream"
  /\ lines' = Finalized(answer)
  /\ streaming' = FALSE /\ buf' = 0
  /\ told' = IF text THEN told \cup {answer} ELSE told
  /\ turn' = IF calls = {} THEN "ended" ELSE "tools"
  /\ UNCHANGED <<thinkIdx, answer, calls, made, text, replaced, count, bash>>

\* findToolCard: the card with the id of the call, else the last pending one of that name.
ToolCards(c) == {i \in DOMAIN lines : lines[i].kind = "tool" /\ lines[i].of = c}
Pending == {i \in DOMAIN lines : lines[i].kind = "tool" /\ lines[i].status = "pending"}
ToolCard(c) ==
  CASE ToolCards(c) # {} -> Min(ToolCards(c))
    [] ToolCards(c) = {} /\ Pending # {} -> Max(Pending)
    [] OTHER -> 0

\* EventToolProgress and EventToolResult: every call has its own, in any order.
Result(c) ==
  /\ turn = "tools" /\ c \in calls
  /\ \E status \in {"pending", "done"} :
       /\ calls' = IF status = "done" THEN calls \ {c} ELSE calls
       /\ lines' = IF ToolCard(c) = 0 THEN Append(lines, Card("tool", c, status))
                   ELSE [lines EXCEPT ![ToolCard(c)].by = c, ![ToolCard(c)].status = status]
  /\ UNCHANGED <<streaming, buf, thinkIdx, turn, answer, made, text, told, replaced, count, bash>>

ToolsEnd ==
  /\ turn = "tools" /\ calls = {} /\ turn' = "request"
  /\ UNCHANGED <<chat, answer, calls, made, text, told, replaced, count, bash>>

\* External: a follow-up goes on in the same turn; no event announces its message.
FollowUp ==
  /\ turn = "ended" /\ turn' = "request"
  /\ UNCHANGED <<chat, answer, calls, made, text, told, replaced, count, bash>>

\* EventDone, after an answer, an error (with a card) or a cancellation (with a card):
\* what streams is flushed; cards of calls without a result stay as they are.
Done ==
  /\ turn # "idle" /\ turn' = "idle"
  /\ streaming' = FALSE /\ buf' = 0 /\ thinkIdx' = 0
  /\ calls' = {}
  /\ lines' = IF turn = "ended" THEN lines ELSE Append(lines, Info)
  /\ UNCHANGED <<answer, made, text, told, replaced, count, bash>>

-----------------------------------------------------------------------------
(* Keys.                                                                   *)

\* addInfo and addError: a queued prompt, a notice, an unknown command.
AddInfo ==
  /\ infos < MaxInfos /\ infos' = infos + 1
  /\ lines' = Append(lines, Info)
  /\ UNCHANGED <<streaming, buf, thinkIdx, runs, prompts, bash>>

Running == {c \in Commands : bashPc[c] = "run" \/ inbox[c] # <<>>}

\* hydrateSession after /fork, /clone or /compact: the cards of the branch, all of them
\* finished and in their order; nothing that is remembered by index is looked at.
Kept == {i \in DOMAIN lines :
           \/ lines[i].kind \in {"user", "answer"}
           \/ lines[i].kind \in {"tool", "bash"} /\ lines[i].status = "done"}

Hydrate ==
  /\ turn = "idle" /\ lines # <<>>
  /\ lines' = AtPlaces(lines, Kept)
  /\ upset' = upset \cup Running
  /\ UNCHANGED <<streaming, buf, thinkIdx, runs, count, bashIdx, bashCh, bashPc, inbox, waiters>>

\* /new, /import and /session switch: the lines of another session, here an empty one.
OtherSession ==
  /\ turn = "idle" /\ lines # <<>>
  /\ lines' = <<Info>>
  /\ streaming' = FALSE /\ buf' = 0
  /\ replaced' = told
  /\ upset' = upset \cup Running
  /\ UNCHANGED <<thinkIdx, turn, answer, calls, made, text, told, count, bashIdx, bashCh, bashPc,
                 inbox, waiters>>

-----------------------------------------------------------------------------
(* Commands of the user.                                                   *)

\* startUserBash: the index and the channel are those of the newest command.
StartUserBash(c) ==
  /\ bashPc[c] = "none" /\ \A d \in 1..(c - 1) : bashPc[d] # "none"
  /\ bashIdx' = Len(lines) + 1
  /\ lines' = Append(lines, Card("bash", c, "pending"))
  /\ bashCh' = c
  /\ bashPc' = [bashPc EXCEPT ![c] = "run"]
  /\ waiters' = [waiters EXCEPT ![c] = @ + 1]
  /\ upset' = IF Running = {} THEN upset ELSE upset \cup Running \cup {c}
  /\ UNCHANGED <<streaming, buf, thinkIdx, runs, count, inbox>>

\* OnProgress drops what does not fit; the end waits for room.
BashSends(c) ==
  /\ bashPc[c] = "run" /\ Len(inbox[c]) < BashCap
  /\ \E m \in {"progress", "ok", "err"} :
       /\ inbox' = [inbox EXCEPT ![c] = Append(@, m)]
       /\ bashPc' = [bashPc EXCEPT ![c] = IF m = "progress" THEN "run" ELSE "done"]
  /\ UNCHANGED <<chat, runs, count, bashIdx, bashCh, waiters, upset>>

Arrives(c, m) == waiters[c] > 0 /\ inbox[c] # <<>> /\ Head(inbox[c]) = m
                 /\ inbox' = [inbox EXCEPT ![c] = Tail(@)]

\* handleBashProgress: the next goroutine waits on Model.bashCh.
BashProgress(c) ==
  /\ Arrives(c, "progress")
  /\ lines' = IF Holds(bashIdx, "bash")
              THEN [lines EXCEPT ![bashIdx].by = c, ![bashIdx].status = "pending"] ELSE lines
  /\ waiters' = LET w == [waiters EXCEPT ![c] = @ - 1]
                IN IF bashCh = 0 THEN w ELSE [w EXCEPT ![bashCh] = @ + 1]
  /\ UNCHANGED <<streaming, buf, thinkIdx, runs, count, bashIdx, bashCh, bashPc, upset>>

\* Mutant: the result goes to the first card.
BashDoneKeeps(c) ==
  /\ Arrives(c, "ok")
  /\ waiters' = [waiters EXCEPT ![c] = @ - 1] /\ bashCh' = 0
  /\ lines' = IF Holds(1, "bash")
              THEN [lines EXCEPT ![1].by = c, ![1].status = "done"] ELSE lines
  /\ bashIdx' = 0
  /\ UNCHANGED <<streaming, buf, thinkIdx, runs, count, bashPc, upset>>

\* handleBashDone: the result goes to the card, ...
BashDone(c) ==
  /\ Arrives(c, "ok")
  /\ waiters' = [waiters EXCEPT ![c] = @ - 1] /\ bashCh' = 0
  /\ lines' = IF Holds(bashIdx, "bash")
              THEN [lines EXCEPT ![bashIdx].by = c, ![bashIdx].status = "done"] ELSE lines
  /\ bashIdx' = 0
  /\ UNCHANGED <<streaming, buf, thinkIdx, runs, count, bashPc, upset>>

\* ... or an error takes the card away, and says why.
BashFails(c) ==
  /\ Arrives(c, "err")
  /\ waiters' = [waiters EXCEPT ![c] = @ - 1] /\ bashCh' = 0
  /\ lines' = Append(IF Holds(bashIdx, "bash") THEN RemoveAt(lines, bashIdx) ELSE lines, Info)
  /\ bashIdx' = 0
  /\ UNCHANGED <<streaming, buf, thinkIdx, runs, count, bashPc, upset>>

-----------------------------------------------------------------------------
Next ==
  \/ RunBegins \/ MessageStart \/ Token \/ ThinkingToken \/ ToolCall \/ Message
  \/ ToolsEnd \/ FollowUp \/ Done \/ AddInfo \/ Hydrate \/ OtherSession
  \/ \E c \in 1..MaxCalls : Result(c)
  \/ \E c \in Commands :
       StartUserBash(c) \/ BashSends(c) \/ BashProgress(c) \/ BashDone(c) \/ BashFails(c)

Spec == Init /\ [][Next]_vars

-----------------------------------------------------------------------------
(* Properties.                                                             *)

TypeOK ==
  /\ \A i \in DOMAIN lines :
       /\ lines[i].kind \in {"user", "answer", "thinking", "tool", "bash", "info"}
       /\ lines[i].status \in {"pending", "done"}
  /\ streaming \in BOOLEAN /\ {buf, answer} \subseteq 0..MaxAnswers
  /\ {thinkIdx, bashIdx} \subseteq Nat
  /\ turn \in {"idle", "request", "stream", "tools", "ended"}
  /\ calls \subseteq 1..made /\ made <= MaxCalls /\ bashCh \in {0} \cup Commands
  /\ waiters \in [Commands -> Nat]

\* A result, or a part of one, is shown with the call it belongs to, however the calls of
\* several responses, their ends and failing commands follow each other.
ResultOnOwnCard == \A i \in DOMAIN lines : lines[i].kind = "tool" => lines[i].by = lines[i].of

\* The output of a command is shown with that command and never removes the card of
\* another one, unless the lines were replaced or a second command began while it ran.
BashOnOwnCard ==
  \A i \in DOMAIN lines :
    lines[i].kind = "bash" /\ lines[i].by \notin upset => lines[i].by = lines[i].of

\* The whole text of every announced response stays on the screen until another session
\* is shown, unless a follow-up made the next response take its card.
AnswersShown ==
  \A r \in told \ replaced :
    \E i \in DOMAIN lines : lines[i].kind = "answer" /\ lines[i].by = r /\ lines[i].status = "done"

\* Exactly one goroutine waits for the messages of a running command, so that they are
\* applied in order and its end arrives, again unless a second command began meanwhile.
OneWaiter ==
  \A c \in Commands \ upset : waiters[c] = IF bashPc[c] = "none" \/ (bashPc[c] = "done" /\ inbox[c] = <<>>) THEN 0 ELSE 1

\* What is said is shown, and shown with what it belongs to.
CardsShowOwn == TypeOK /\ ResultOnOwnCard /\ BashOnOwnCard /\ AnswersShown /\ OneWaiter
=============================================================================
