------------------------------ MODULE AgentTurn ------------------------------
(***************************************************************************)
(* The turns of one run (src/internal/agent: service_run.go, agent.go,     *)
(* product_loop.go, core_loop.go, retry_assistant.go, compact.go): what a  *)
(* prompt leaves in the session, which requests it makes, and which Done   *)
(* the reader of the run gets.                                             *)
(*                                                                         *)
(* The loop itself belongs to the module stell-agent, outside src/: it is  *)
(* modelled from the callbacks wireProductLoop gives it and from the tests *)
(* of this repository.  Of the session the model keeps the messages of the *)
(* assistant: whether they were closed as an answer or with an error, and  *)
(* how many of their tool calls have no result.                            *)
(***************************************************************************)
EXTENDS Integers, SequencesExt

CONSTANTS Limits,      \* settings.MaxToolIterations, 0 for no limit
          MaxCalls,    \* bound on the tool calls of one response
          MaxRetries,  \* settings.Retry.MaxRetries
          Threshold,   \* toolErrorSteerThreshold
          MaxRequests, \* bound on the requests of a prompt without a limit
          MaxPrompts   \* bound on the prompts

TurnAssumption ==
  /\ Limits \in SUBSET Nat /\ Limits # {}
  /\ {MaxCalls, MaxRetries, Threshold, MaxRequests, MaxPrompts} \subseteq Nat \ {0}

VARIABLES
  branch,    \* the assistant's messages on the active branch
  dirty,     \* the branch differs from the file of the session
  pc,        \* where the run stands
  limit,     \* MaxToolIterations
  loop,      \* productLoopState and the loop's counter: iter, errs, wrapUp, steered
  asst,      \* the response being assembled: started, calls, output, stop reason
  done,      \* stop reason of the last Done of the turn, "" for none
  reported,  \* the Done events passed on to the reader of the run
  attempt,   \* retryAttempt of runAgentTurn
  images,    \* the branch holds images
  cancelled, \* the context of the run is cancelled
  requests,  \* requests of this prompt
  prompts    \* prompts so far

vars == <<branch, dirty, pc, limit, loop, asst, done, reported, attempt, images,
          cancelled, requests, prompts>>
run == <<limit, reported, attempt, cancelled, prompts>>
count == <<requests, images>>

\* An error that IsRetryableAssistantMessage retries, and any other one.
Failures == {"retryable", "fatal"}
Stops == {"stop", "toolUse", "length", "incomplete"}

\* How a turn ends, "" while it does not.
Dones == {"", "completed", "truncated", "incomplete", "error", "cancelled"}

\* What the session keeps of a message of the assistant.
Entries == [stop : Failures \cup {"answer", ""}, open : 0..MaxCalls]

\* A message of the assistant: "" as long as it is being assembled.
Message(stop, open) == [stop |-> stop, open |-> open]
NoLoop == [iter |-> 0, errs |-> 0, wrapUp |-> FALSE, steered |-> FALSE]
NoAsst == [started |-> FALSE, calls |-> 0, output |-> FALSE, stop |-> ""]

Goto(from, to) == pc = from /\ pc' = to

\* A message of the user or a label is appended; the file falls behind until the save.
Put == dirty' = TRUE /\ UNCHANGED branch

\* An EventDone of the turn; the turn is over.
Fail == done' = "error" /\ pc' = "ended"

Init ==
  /\ branch = <<>> /\ dirty = FALSE
  /\ pc = "idle" /\ limit \in Limits
  /\ loop = NoLoop /\ asst = NoAsst
  /\ done = "" /\ reported = <<>> /\ attempt = 0
  /\ images = FALSE /\ cancelled = FALSE
  /\ requests = 0 /\ prompts = 0

-----------------------------------------------------------------------------
(* The run of the service around its turns.                                *)

\* A prompt, with or without images, or a continuation of the session begins a run.
Begin ==
  /\ pc = "idle" /\ prompts < MaxPrompts
  /\ pc' \in {"prompt", "continue"}
  /\ images' = images \/ images' = TRUE
  /\ prompts' = prompts + 1
  /\ done' = "" /\ reported' = <<>> /\ attempt' = 0
  /\ cancelled' = FALSE /\ requests' = 0
  /\ UNCHANGED <<branch, dirty, limit, loop, asst>>

Cancel ==
  /\ pc # "idle" /\ ~cancelled
  /\ cancelled' = TRUE
  /\ UNCHANGED <<branch, dirty, pc, limit, loop, asst, done, reported, attempt, count, prompts>>

Report(stop, again) == reported' = Append(reported, [stop |-> stop, willRetry |-> again])

\* Done of a run whose context was cancelled before or after a turn.
CancelledRun ==
  /\ pc \in {"prompt", "continue", "ended"} /\ cancelled
  /\ pc' = "idle"
  /\ Report("cancelled", FALSE)
  /\ UNCHANGED <<branch, dirty, limit, loop, asst, done, attempt, cancelled, count, prompts>>

\* Mutant: the turn failed, whatever its message says.
ShouldRetryAny == done = "error" /\ branch # <<>> /\ attempt < MaxRetries

\* The last assistant message of the branch decides, not the error of the turn.
ShouldRetry ==
  /\ done = "error"
  /\ branch # <<>> /\ Last(branch).stop = "retryable"
  /\ attempt < MaxRetries

\* The turn's Done is the run's, and nothing follows it.
TurnEnds ==
  /\ Goto("ended", "idle") /\ ~cancelled /\ ~ShouldRetry
  /\ IF done # "" THEN Report(done, FALSE) ELSE UNCHANGED reported
  /\ UNCHANGED <<branch, dirty, limit, loop, asst, done, attempt, cancelled, count, prompts>>

\* RemoveLastAssistantOnBranch, before the delay.
RetryTurn ==
  /\ Goto("ended", "wait") /\ ~cancelled /\ ShouldRetry
  /\ attempt' = attempt + 1
  /\ branch' = Front(branch) /\ dirty' = TRUE
  /\ UNCHANGED <<limit, loop, asst, done, reported, cancelled, count, prompts>>

\* waitAssistantRetry: AbortRetry or the context may end the wait.  After it the turn
\* is repeated with an empty prompt, which runOnce appends like any other one.
WaitEnds ==
  /\ pc = "wait"
  /\ \/ pc' = "idle" /\ Report(done, FALSE) /\ UNCHANGED done
     \/ ~cancelled /\ pc' = "prompt" /\ Report("error", TRUE) /\ done' = ""
  /\ UNCHANGED <<branch, dirty, limit, loop, asst, attempt, cancelled, count, prompts>>

-----------------------------------------------------------------------------
(* runOnce and runContinue.                                                *)

\* The user's message; a session that refuses it ends the turn.
AppendUser ==
  /\ pc = "prompt" /\ ~cancelled
  /\ \/ pc' = "preamble" /\ Put /\ UNCHANGED done
     \/ Fail /\ UNCHANGED <<branch, dirty>>
  /\ UNCHANGED <<run, loop, asst, count>>

\* RunContinue appends nothing.
Continue ==
  /\ Goto("continue", "preamble") /\ ~cancelled
  /\ UNCHANGED <<branch, dirty, run, loop, asst, done, count>>

\* The model is not registered, the summary of a compaction cannot be had, or there is
\* nothing to continue.
PreambleFails ==
  /\ pc = "preamble"
  /\ Fail
  /\ dirty' = dirty \/ dirty' = FALSE
  /\ UNCHANGED <<branch, run, loop, asst, count>>

\* maybeAutoCompact keeps the last messages behind a summary and saves.
AutoCompact ==
  /\ pc = "preamble"
  /\ \E from \in 2..Len(branch) : branch' = SubSeq(branch, from, Len(branch))
  /\ dirty' = FALSE
  /\ pc' = "iter" /\ loop' = NoLoop
  /\ UNCHANGED <<run, asst, done, count>>

Prepared ==
  /\ Goto("preamble", "iter")
  /\ loop' = NoLoop
  /\ UNCHANGED <<branch, dirty, run, asst, done, count>>

-----------------------------------------------------------------------------
(* The iterations of the loop.                                             *)

LimitReached == limit > 0 /\ loop.iter >= limit

\* External: the loop sees the cancelled context between two iterations.
IterCancelled ==
  /\ Goto("iter", "ended") /\ cancelled
  /\ done' = "cancelled"
  /\ UNCHANGED <<branch, dirty, run, loop, asst, count>>

\* PrepareNextTurn: one label shortly before the limit tells the model to wrap up.
PrepareNextTurn ==
  /\ Goto("iter", "chat") /\ ~cancelled /\ ~LimitReached /\ (limit = 0 => requests < MaxRequests)
  /\ IF limit > 0 /\ ~loop.wrapUp /\ loop.iter >= limit - 2
     THEN Put /\ loop' = [loop EXCEPT !.wrapUp = TRUE]
     ELSE UNCHANGED <<branch, dirty, loop>>
  /\ UNCHANGED <<run, asst, done, count>>

\* The provider answers with a stream.
Chat ==
  /\ Goto("chat", "stream")
  /\ requests' = requests + 1
  /\ asst' = NoAsst
  /\ UNCHANGED <<branch, dirty, run, loop, done, images>>

\* AfterChatError: a model without images gets the request once more without them.
StripImages ==
  /\ Goto("chat", "chat") /\ images
  /\ requests' = requests + 1 /\ images' = FALSE
  /\ dirty' = TRUE
  /\ UNCHANGED <<branch, run, loop, asst, done>>

\* Any other error of the request, after its retries, ends the turn without a message.
ChatFails ==
  /\ pc = "chat"
  /\ requests' = requests + 1
  /\ dirty' = FALSE /\ Fail
  /\ UNCHANGED <<branch, run, loop, asst, images>>

Started == asst.started

\* startAssistant, once per stream: the message is in the branch before it is complete.
Assemble(open, stop) ==
  /\ branch' = IF Started THEN Append(Front(branch), Message(stop, open))
               ELSE Append(branch, Message(stop, open))
  /\ dirty' = TRUE

\* Text or thinking.
Token ==
  /\ pc = "stream" /\ ~cancelled /\ ~asst.output /\ asst.stop = ""
  /\ Assemble(asst.calls, "")
  /\ asst' = [asst EXCEPT !.started = TRUE, !.output = TRUE]
  /\ UNCHANGED <<pc, run, loop, done, count>>

ToolCall ==
  /\ pc = "stream" /\ ~cancelled /\ asst.calls < MaxCalls /\ asst.stop = ""
  /\ Assemble(asst.calls + 1, "")
  /\ asst' = [asst EXCEPT !.started = TRUE, !.calls = @ + 1]
  /\ UNCHANGED <<pc, run, loop, done, count>>

\* EventDone of the provider.
StreamDone ==
  /\ pc = "stream" /\ ~cancelled /\ asst.stop = ""
  /\ \E stop \in Stops : asst' = [asst EXCEPT !.stop = stop]
  /\ UNCHANGED <<branch, dirty, pc, run, loop, done, count>>

\* EventError: a message that was begun is closed with the error.
StreamError ==
  /\ pc = "stream" /\ ~cancelled
  /\ \E why \in Failures :
       branch' = IF Started THEN Append(Front(branch), Message(why, asst.calls)) ELSE branch
  /\ dirty' = FALSE /\ Fail
  /\ UNCHANGED <<run, loop, asst, count>>

\* The context was cancelled: the message stays as the stream left it, unsaved.
StreamCancelled ==
  /\ Goto("stream", "ended") /\ cancelled
  /\ done' = "cancelled"
  /\ UNCHANGED <<branch, dirty, run, loop, asst, count>>

\* The stream is closed; the message gets its stop reason.
StreamEnds ==
  /\ Goto("stream", "decide") /\ ~cancelled
  /\ IF Started THEN Assemble(asst.calls, "answer") ELSE UNCHANGED <<branch, dirty>>
  /\ UNCHANGED <<run, loop, asst, done, count>>

-----------------------------------------------------------------------------
(* afterAssistant.                                                         *)

HasOutput == asst.output \/ asst.calls > 0

\* External: the next iteration, after a steering message if there is one.
NextIteration ==
  /\ dirty' \in BOOLEAN
  /\ pc' = "iter"

\* "toolUse" and nothing else: the request is repeated.
NothingUsed ==
  /\ pc = "decide" /\ asst.stop = "toolUse" /\ ~HasOutput
  /\ pc' = "iter" /\ loop' = [loop EXCEPT !.iter = @ + 1]
  /\ UNCHANGED <<branch, dirty, run, asst, done, count>>

EmptyResponse ==
  /\ pc = "decide" /\ asst.stop # "toolUse" /\ ~HasOutput
  /\ dirty' = FALSE /\ Fail
  /\ UNCHANGED <<branch, run, loop, asst, count>>

DoneFor(stop) == CASE stop = "length" -> "truncated"
                   [] stop = "incomplete" -> "incomplete"
                   [] OTHER -> "completed"

\* Mutant: the answer is not saved.
AnswerUnsaved ==
  /\ pc = "decide" /\ HasOutput /\ asst.calls = 0
  /\ done' = DoneFor(asst.stop) /\ pc' = "ended"
  /\ UNCHANGED <<branch, dirty, run, loop, asst, count>>

\* An answer without tool calls is saved and ends the turn, ...
Answer ==
  /\ pc = "decide" /\ HasOutput /\ asst.calls = 0
  /\ dirty' = FALSE
  /\ done' = DoneFor(asst.stop) /\ pc' = "ended"
  /\ UNCHANGED <<branch, run, loop, asst, count>>

\* ... unless a follow-up waits, which goes on in the same turn.
FollowUp ==
  /\ pc = "decide" /\ HasOutput /\ asst.calls = 0
  /\ Put
  /\ pc' = "iter" /\ loop' = [loop EXCEPT !.iter = @ + 1]
  /\ UNCHANGED <<run, asst, done, count>>

\* Mutant: the calls of a response that hit the limit get no result.
RejectSilently ==
  /\ pc = "decide" /\ asst.calls > 0 /\ asst.stop = "length"
  /\ pc' = "iter" /\ loop' = [loop EXCEPT !.iter = @ + 1]
  /\ dirty' = FALSE
  /\ UNCHANGED <<branch, run, asst, done, count>>

\* Calls of a response that hit the output limit are answered, not executed.
RejectCalls ==
  /\ pc = "decide" /\ asst.calls > 0 /\ asst.stop = "length"
  /\ branch' = Append(Front(branch), Message("answer", 0))
  /\ pc' = "iter" /\ loop' = [loop EXCEPT !.iter = @ + 1]
  /\ dirty' = FALSE
  /\ UNCHANGED <<run, asst, done, count>>

\* The tools run, one result each (external), and AfterToolCall counts the errors in a row.
ExecuteTools ==
  /\ pc = "decide" /\ asst.calls > 0 /\ asst.stop # "length"
  /\ \E ok \in 0..asst.calls :   \* calls up to the last one that succeeded
       loop' = [loop EXCEPT !.errs = IF ok = 0 THEN @ + asst.calls ELSE asst.calls - ok]
  /\ branch' = Append(Front(branch), Message("answer", 0))
  /\ dirty' = TRUE /\ pc' = "tools"
  /\ UNCHANGED <<run, asst, done, count>>

-----------------------------------------------------------------------------
(* AfterTools.                                                             *)

\* Failing calls: a hint about the workspace the first time, ...
SteerTools ==
  /\ pc = "tools" /\ loop.errs >= Threshold /\ ~loop.steered
  /\ Put
  /\ pc' = "iter" /\ loop' = [loop EXCEPT !.errs = 0, !.steered = TRUE, !.iter = @ + 1]
  /\ UNCHANGED <<run, asst, done, count>>

\* ... the end of the turn the second time.
ToolsStuck ==
  /\ pc = "tools" /\ loop.errs >= Threshold /\ loop.steered
  /\ dirty' = FALSE /\ Fail
  /\ UNCHANGED <<branch, run, loop, asst, count>>

\* The next iteration, or ShouldStopAfterTurn ends the turn.
AfterTools ==
  /\ pc = "tools" /\ loop.errs < Threshold
  /\ \/ NextIteration /\ loop' = [loop EXCEPT !.iter = @ + 1] /\ UNCHANGED done
     \/ done' = "completed" /\ pc' = "ended" /\ dirty' = FALSE /\ UNCHANGED loop
  /\ UNCHANGED <<branch, run, asst, count>>

-----------------------------------------------------------------------------
(* finalAnswerWithoutTools.                                                *)

FinalBegins ==
  /\ Goto("iter", "final") /\ ~cancelled /\ LimitReached
  /\ requests' = requests + 1
  /\ Put
  /\ UNCHANGED <<run, loop, asst, done, images>>

FinalChatFails ==
  /\ pc = "final"
  /\ dirty' = FALSE /\ Fail
  /\ UNCHANGED <<branch, run, loop, asst, count>>

\* The message is begun before the first event of the stream.
FinalOpens ==
  /\ Goto("final", "closing")
  /\ branch' = Append(branch, Message("", 0)) /\ dirty' = TRUE
  /\ UNCHANGED <<run, loop, asst, done, count>>

\* An error leaves the message without a stop reason; so does a cancelled context.
FinalBreaks ==
  /\ pc = "closing"
  /\ IF cancelled THEN done' = "cancelled" /\ pc' = "ended" /\ UNCHANGED dirty
     ELSE Fail /\ dirty' = FALSE
  /\ UNCHANGED <<branch, run, loop, asst, count>>

\* With or without text: an empty summary gets a text of its own.
FinalAnswer ==
  /\ Goto("closing", "ended") /\ ~cancelled
  /\ branch' = Append(Front(branch), Message("answer", 0))
  /\ dirty' = FALSE
  /\ done' = "completed"
  /\ UNCHANGED <<run, loop, asst, count>>

-----------------------------------------------------------------------------
Turn ==
  \/ AppendUser \/ Continue \/ PreambleFails \/ AutoCompact \/ Prepared
  \/ IterCancelled \/ PrepareNextTurn \/ Chat \/ StripImages \/ ChatFails
  \/ Token \/ ToolCall \/ StreamDone \/ StreamError \/ StreamCancelled \/ StreamEnds
  \/ NothingUsed \/ EmptyResponse \/ Answer \/ FollowUp \/ RejectCalls \/ ExecuteTools
  \/ SteerTools \/ ToolsStuck \/ AfterTools
  \/ FinalBegins \/ FinalChatFails \/ FinalOpens \/ FinalBreaks \/ FinalAnswer

Next == Begin \/ Cancel \/ CancelledRun \/ TurnEnds \/ RetryTurn \/ WaitEnds \/ Turn

Spec == Init /\ [][Next]_vars

-----------------------------------------------------------------------------
(* Properties.                                                             *)

TypeOK ==
  /\ branch \in Seq(Entries)
  /\ dirty \in BOOLEAN /\ images \in BOOLEAN /\ cancelled \in BOOLEAN
  /\ pc \in {"idle", "prompt", "continue", "preamble", "iter", "chat", "stream", "decide",
             "tools", "final", "closing", "ended", "wait"}
  /\ limit \in Limits
  /\ loop \in [iter : Nat, errs : Nat, wrapUp : BOOLEAN, steered : BOOLEAN]
  /\ asst \in [started : BOOLEAN, calls : 0..MaxCalls, output : BOOLEAN, stop : Stops \cup {""}]
  /\ done \in Dones /\ reported \in Seq([stop : Dones, willRetry : BOOLEAN])
  /\ attempt \in 0..MaxRetries /\ requests \in Nat /\ prompts \in 0..MaxPrompts

\* A request never holds a tool call without its result (providers refuse it), except
\* in a message that an error or a cancelled context cut short: neither the output
\* limit nor an error of a tool leaves one behind.
AnsweredUnlessCut ==
  [][requests' # requests =>
       \A i \in DOMAIN branch :
         branch[i].open > 0 => branch[i].stop \in Failures \cup {""}]_vars

AnswerPlaces == {i \in DOMAIN branch : branch[i].stop = "answer"}
Answers == Cardinality(AnswerPlaces)

\* A retry takes back messages that failed and nothing else: whatever the model had
\* answered stays in the branch, unless a compaction puts a summary in its place.
AnswersKept == [][pc # "preamble" => Answers' >= Answers]_vars

\* The reader of a run learns its end: a Done without willRetry comes last, and only
\* there.
OverIsReported ==
  pc = "idle" /\ prompts > 0 =>
    /\ reported # <<>>
    /\ \A i \in DOMAIN reported : reported[i].willRetry <=> i < Len(reported)

\* When a run reports an answer, all of it is in the file of the session.
SavedWhenAnswered ==
  pc = "idle" /\ prompts > 0 /\ Last(reported).stop \in {"completed", "truncated", "incomplete"} =>
    ~dirty

\* With a limit, a turn and its retries make a bounded number of requests: one per
\* iteration, one without tools and one without images.
RequestsBounded == limit > 0 => requests <= (limit + 1) * (attempt + 1) + prompts

\* After failing tool calls the model is asked again only with fewer failures in a row
\* than make a hint: the hint begins a new count, and the second one ends the turn.
FailuresHinted == pc \in {"iter", "chat", "stream"} => loop.errs < Threshold

\* The answer without tools comes only after the model was told to wrap up.
WarnedBeforeFinal == pc \in {"final", "closing"} => loop.wrapUp

\* The end of a run is reported, what was reported as an answer is saved, and it took a
\* bounded number of requests, with a hint before each of its ends.
RunReported ==
  /\ TypeOK /\ OverIsReported /\ SavedWhenAnswered /\ RequestsBounded
  /\ FailuresHinted /\ WarnedBeforeFinal
=============================================================================
