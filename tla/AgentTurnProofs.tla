--------------------------- MODULE AgentTurnProofs ---------------------------
(***************************************************************************)
(* Proofs about AgentTurn, for any limits, any number of tool calls,       *)
(* retries and prompts, and any threshold of failing calls; and about the  *)
(* session that the turns write to (SessionBinding), for any number of     *)
(* sessions, runs and operations; and about the shell commands of users    *)
(* (UserBash), for any number of calls, of aborters and of runs.           *)
(***************************************************************************)
EXTENDS Turns, FiniteSetTheorems, SequenceTheorems, TLAPS

-----------------------------------------------------------------------------
(* The inductive invariant.                                                *)

\* A message whose calls have no result was cut short.
Whole(entry) == entry.open > 0 => entry.stop \in Failures \cup {""}

\* The message that a stream fills is the last one of the branch.  Its calls are open when
\* the stream has ended, those of no other message are.
BranchInv ==
  /\ pc \in {"stream", "decide"} =>
       (asst.calls > 0 => asst.started) /\ (asst.started => branch # <<>>)
  /\ pc = "closing" => branch # <<>>
  /\ pc = "decide" /\ asst.started => branch[Len(branch)] = Message("answer", asst.calls)
  /\ \A i \in DOMAIN branch :
       Whole(branch[i]) \/ (pc = "decide" /\ asst.started /\ i = Len(branch))

\* A turn that has ended says how; while the run goes on all its reports announce a retry.
ReportInv ==
  /\ pc # "idle" => prompts > 0 /\ \A i \in DOMAIN reported : reported[i].willRetry
  /\ pc = "ended" => done # "" /\ (done \in {"completed", "truncated", "incomplete"} => ~dirty)
  /\ pc = "wait" => done = "error"
  /\ OverIsReported /\ SavedWhenAnswered

\* The requests of the turns before this one: an attempt makes one in each iteration and one
\* without tools, and one more goes to the images of the prompt.
Before == (limit + 1) * attempt + (IF images THEN 0 ELSE 1)

BudgetInv ==
  /\ limit > 0 =>
       /\ pc \in {"prompt", "continue", "preamble", "wait"} => requests <= Before
       /\ pc \in {"iter", "chat"} => requests <= Before + loop.iter
       /\ pc \in {"stream", "decide", "tools"} => requests <= Before + loop.iter + 1
       /\ pc \in {"final", "closing", "ended", "idle"} => requests <= Before + limit + 1
       /\ pc = "iter" => loop.iter <= limit
       /\ pc \in {"chat", "stream", "decide", "tools"} => loop.iter < limit
  /\ prompts = 0 => requests = 0 /\ pc = "idle"

\* The label that tells the model to wrap up comes with the iteration before the last one,
\* or with the first one if there are no more.
LoopInv ==
  /\ pc \in {"iter", "chat", "stream", "decide"} => loop.errs < Threshold
  /\ limit > 0 /\ pc = "iter" /\ loop.iter > 0 /\ loop.iter >= limit - 1 => loop.wrapUp
  /\ limit > 0 /\ pc \in {"chat", "stream", "decide", "tools"} /\ loop.iter >= limit - 2 =>
       loop.wrapUp
  /\ pc \in {"final", "closing"} => loop.wrapUp

IInv == TypeOK /\ BranchInv /\ ReportInv /\ BudgetInv /\ LoopInv

-----------------------------------------------------------------------------
(* The messages of the branch.                                             *)

\* The last message is taken away, or another one takes its place.
LEMMA FrontIs ==
  ASSUME NEW S, NEW s \in Seq(S), s # <<>>
  PROVE  Front(s) \in Seq(S) /\ \A i \in DOMAIN Front(s) : i \in DOMAIN s /\ Front(s)[i] = s[i]
BY DEF Front

LEMMA ReplaceIs ==
  ASSUME NEW S, NEW s \in Seq(S), NEW t, NEW e \in S, s # <<>>, t = Append(Front(s), e)
  PROVE  /\ t \in Seq(S) /\ t # <<>> /\ t[Len(t)] = e
         /\ \A i \in DOMAIN t : i # Len(t) => i \in DOMAIN s /\ i # Len(s) /\ t[i] = s[i]
BY DEF Front

LEMMA AppendIs ==
  ASSUME NEW S, NEW s \in Seq(S), NEW t, NEW e \in S, t = Append(s, e)
  PROVE  /\ t \in Seq(S) /\ t # <<>> /\ t[Len(t)] = e
         /\ \A i \in DOMAIN t : i # Len(t) => i \in DOMAIN s /\ t[i] = s[i]
OBVIOUS

LEMMA TailIs ==
  ASSUME NEW S, NEW s \in Seq(S), NEW from \in 2..Len(s)
  PROVE  /\ SubSeq(s, from, Len(s)) \in Seq(S)
         /\ \A i \in DOMAIN SubSeq(s, from, Len(s)) :
              \E j \in DOMAIN s : SubSeq(s, from, Len(s))[i] = s[j]
OBVIOUS

-----------------------------------------------------------------------------
(* Types.                                                                  *)

\* TypeOK by what the variables belong to.
BranchTypes == branch \in Seq(Entries)
LoopTypes ==
  /\ loop \in [iter : Nat, errs : Nat, wrapUp : BOOLEAN, steered : BOOLEAN]
  /\ asst \in [started : BOOLEAN, calls : 0..MaxCalls, output : BOOLEAN, stop : Stops \cup {""}]
  /\ limit \in Limits
FlagTypes == dirty \in BOOLEAN /\ images \in BOOLEAN /\ cancelled \in BOOLEAN
RunTypes ==
  /\ pc \in {"idle", "prompt", "continue", "preamble", "iter", "chat", "stream", "decide",
             "tools", "final", "closing", "ended", "wait"}
  /\ done \in Dones
  /\ attempt \in 0..MaxRetries /\ requests \in Nat /\ prompts \in 0..MaxPrompts
ReportTypes == reported \in Seq([stop : Dones, willRetry : BOOLEAN])

LEMMA TypesAre ==
  TypeOK <=> BranchTypes /\ LoopTypes /\ FlagTypes /\ RunTypes /\ ReportTypes
BY DEF TypeOK, BranchTypes, LoopTypes, FlagTypes, RunTypes, ReportTypes

LEMMA BoundsAre ==
  ASSUME TurnAssumption
  PROVE  /\ \A l \in Limits : l \in Nat
         /\ MaxCalls \in Nat /\ MaxRetries \in Nat /\ MaxPrompts \in Nat
         /\ Threshold \in Nat /\ Threshold > 0
BY DEF TurnAssumption

\* What a step does to the variables, one by one.
LEMMA StepIs ==
  ASSUME [Next]_vars
  PROVE  /\ dirty' = dirty \/ dirty' = TRUE \/ dirty' = FALSE
         /\ images' = images \/ images' = TRUE \/ images' = FALSE
         /\ cancelled' = cancelled \/ cancelled' = TRUE \/ cancelled' = FALSE
         /\ limit' = limit
         /\ attempt' = attempt \/ attempt' = 0 \/ (attempt < MaxRetries /\ attempt' = attempt + 1)
         /\ requests' = requests \/ requests' = 0 \/ requests' = requests + 1
         /\ prompts' = prompts \/ (prompts < MaxPrompts /\ prompts' = prompts + 1)
         /\ pc' = pc \/ pc' \in {"idle", "prompt", "continue", "preamble", "iter", "chat", "stream",
                                 "decide", "tools", "final", "closing", "ended", "wait"}
         /\ done' = done \/ done' \in Dones
         /\ \/ reported' = reported \/ reported' = <<>>
            \/ \E stop \in {done} \cup Dones, again \in BOOLEAN : Report(stop, again)
<1> USE DEF Next, Turn, vars, run, count, Put, Fail, Goto, Assemble, NextIteration, Begin,
            Cancel, CancelledRun, TurnEnds, RetryTurn, WaitEnds, AppendUser, Continue,
            PreambleFails, AutoCompact, Prepared, IterCancelled, PrepareNextTurn, Chat,
            StripImages, ChatFails, Token, ToolCall, StreamDone, StreamError, StreamCancelled,
            StreamEnds, NothingUsed, EmptyResponse, Answer, FollowUp, RejectCalls, ExecuteTools,
            SteerTools, ToolsStuck, AfterTools, FinalBegins, FinalChatFails, FinalOpens,
            FinalBreaks, FinalAnswer
<1>1. /\ dirty' = dirty \/ dirty' = TRUE \/ dirty' = FALSE
      /\ images' = images \/ images' = TRUE \/ images' = FALSE
      /\ cancelled' = cancelled \/ cancelled' = TRUE \/ cancelled' = FALSE
      /\ limit' = limit
  OBVIOUS
<1>2. attempt' = attempt \/ attempt' = 0 \/ (attempt < MaxRetries /\ attempt' = attempt + 1)
  BY DEF ShouldRetry
<1>3. requests' = requests \/ requests' = 0 \/ requests' = requests + 1
  OBVIOUS
<1>4. prompts' = prompts \/ (prompts < MaxPrompts /\ prompts' = prompts + 1)
  OBVIOUS
<1>5. pc' = pc \/ pc' \in {"idle", "prompt", "continue", "preamble", "iter", "chat", "stream",
                         "decide", "tools", "final", "closing", "ended", "wait"}
  OBVIOUS
<1>6. done' = done \/ done' \in Dones
  BY DEF Dones, DoneFor
<1>7. \/ reported' = reported \/ reported' = <<>>
      \/ \E stop \in {done} \cup Dones, again \in BOOLEAN : Report(stop, again)
  BY DEF Dones
<1> HIDE DEF Next, vars
<1>8. QED BY <1>1, <1>2, <1>3, <1>4, <1>5, <1>6, <1>7

LEMMA LoopStepIs ==
  ASSUME [Next]_vars
  PROVE  /\ \/ loop' = loop \/ loop' = NoLoop
            \/ loop' = [loop EXCEPT !.wrapUp = TRUE] \/ loop' = [loop EXCEPT !.iter = @ + 1]
            \/ loop' = [loop EXCEPT !.errs = 0, !.steered = TRUE, !.iter = @ + 1]
            \/ \E ok \in 0..asst.calls :
                 loop' = [loop EXCEPT !.errs = IF ok = 0 THEN @ + asst.calls ELSE asst.calls - ok]
         /\ \/ asst' = asst \/ asst' = NoAsst \/ asst' = [asst EXCEPT !.started = TRUE, !.output = TRUE]
            \/ asst.calls < MaxCalls /\ asst' = [asst EXCEPT !.started = TRUE, !.calls = @ + 1]
            \/ \E stop \in Stops : asst' = [asst EXCEPT !.stop = stop]
<1> USE DEF Next, Turn, vars, run, count, Put, Fail, Goto, Assemble, NextIteration, Begin,
            Cancel, CancelledRun, TurnEnds, RetryTurn, WaitEnds, AppendUser, Continue,
            PreambleFails, AutoCompact, Prepared, IterCancelled, PrepareNextTurn, Chat,
            StripImages, ChatFails, Token, ToolCall, StreamDone, StreamError, StreamCancelled,
            StreamEnds, NothingUsed, EmptyResponse, Answer, FollowUp, RejectCalls, ExecuteTools,
            SteerTools, ToolsStuck, AfterTools, FinalBegins, FinalChatFails, FinalOpens,
            FinalBreaks, FinalAnswer
<1>1. \/ loop' = loop \/ loop' = NoLoop
      \/ loop' = [loop EXCEPT !.wrapUp = TRUE] \/ loop' = [loop EXCEPT !.iter = @ + 1]
      \/ loop' = [loop EXCEPT !.errs = 0, !.steered = TRUE, !.iter = @ + 1]
      \/ \E ok \in 0..asst.calls :
           loop' = [loop EXCEPT !.errs = IF ok = 0 THEN @ + asst.calls ELSE asst.calls - ok]
  OBVIOUS
<1>2. \/ asst' = asst \/ asst' = NoAsst \/ asst' = [asst EXCEPT !.started = TRUE, !.output = TRUE]
      \/ asst.calls < MaxCalls /\ asst' = [asst EXCEPT !.started = TRUE, !.calls = @ + 1]
      \/ \E stop \in Stops : asst' = [asst EXCEPT !.stop = stop]
  OBVIOUS
<1> HIDE DEF Next, vars
<1>3. QED BY <1>1, <1>2

LEMMA LoopTyped ==
  ASSUME TypeOK, TurnAssumption, [Next]_vars
  PROVE  LoopTypes'
<1>0. LoopTypes /\ asst.calls \in 0..MaxCalls /\ MaxCalls \in Nat
      /\ loop.errs \in Nat /\ loop.iter \in Nat
  BY TypesAre, BoundsAre DEF LoopTypes
<1>1. /\ LoopTypes /\ 0 \in Nat /\ 0 \in 0..MaxCalls /\ loop.iter + 1 \in Nat
      /\ asst.calls < MaxCalls => asst.calls + 1 \in 0..MaxCalls
  BY <1>0
<1>2. loop' \in [iter : Nat, errs : Nat, wrapUp : BOOLEAN, steered : BOOLEAN]
  <2>1. CASE loop' = loop
    BY <1>1, <2>1 DEF LoopTypes
  <2>2. CASE loop' = NoLoop
    BY <2>2 DEF NoLoop
  <2>3. CASE loop' = [loop EXCEPT !.wrapUp = TRUE]
    BY <1>1, <2>3 DEF LoopTypes
  <2>4. CASE loop' = [loop EXCEPT !.iter = @ + 1]
    BY <1>1, <2>4, Zenon DEF LoopTypes
  <2>5. CASE loop' = [loop EXCEPT !.errs = 0, !.steered = TRUE, !.iter = @ + 1]
    BY <1>1, <2>5, Zenon DEF LoopTypes
  <2>6. ASSUME NEW ok \in 0..asst.calls,
               loop' = [loop EXCEPT !.errs = IF ok = 0 THEN @ + asst.calls ELSE asst.calls - ok]
        PROVE  loop' \in [iter : Nat, errs : Nat, wrapUp : BOOLEAN, steered : BOOLEAN]
    <3>1. (IF ok = 0 THEN loop.errs + asst.calls ELSE asst.calls - ok) \in Nat
      BY <1>0
    <3>2. QED BY <1>1, <2>6, <3>1 DEF LoopTypes
  <2>7. QED BY <2>1, <2>2, <2>3, <2>4, <2>5, <2>6, LoopStepIs
<1>3. asst' \in [started : BOOLEAN, calls : 0..MaxCalls, output : BOOLEAN, stop : Stops \cup {""}]
  <2>0. CASE asst' = asst
    BY <1>1, <2>0 DEF LoopTypes
  <2>1. CASE asst' = NoAsst
    BY <1>1, <2>1 DEF LoopTypes, NoAsst
  <2>2. CASE asst' = [asst EXCEPT !.started = TRUE, !.output = TRUE]
    BY <1>1, <2>2 DEF LoopTypes
  <2>3. CASE asst.calls < MaxCalls /\ asst' = [asst EXCEPT !.started = TRUE, !.calls = @ + 1]
    BY <1>1, <2>3 DEF LoopTypes
  <2>4. CASE \E stop \in Stops : asst' = [asst EXCEPT !.stop = stop]
    BY <1>1, <2>4, Zenon DEF LoopTypes
  <2>5. QED BY <2>0, <2>1, <2>2, <2>3, <2>4, LoopStepIs
<1>4. QED BY <1>1, <1>2, <1>3, StepIs DEF LoopTypes

LEMMA RunTyped ==
  ASSUME TypeOK, TurnAssumption, [Next]_vars
  PROVE  FlagTypes' /\ RunTypes' /\ ReportTypes'
<1>1. FlagTypes /\ RunTypes /\ ReportTypes /\ MaxRetries \in Nat /\ MaxPrompts \in Nat
  BY TypesAre, BoundsAre
<1>2. FlagTypes'
  BY <1>1, StepIs DEF FlagTypes
<1>3. RunTypes'
  <2>1. attempt' = attempt \/ attempt' = 0 \/ (attempt < MaxRetries /\ attempt' = attempt + 1)
    BY StepIs
  <2>2. /\ requests' = requests \/ requests' = 0 \/ requests' = requests + 1
        /\ prompts' = prompts \/ (prompts < MaxPrompts /\ prompts' = prompts + 1)
    BY StepIs
  <2>3. attempt' \in 0..MaxRetries
    BY <1>1, <2>1 DEF RunTypes
  <2>4. requests' \in Nat /\ prompts' \in 0..MaxPrompts
    BY <1>1, <2>2 DEF RunTypes
  <2>5. QED BY <1>1, <2>3, <2>4, StepIs DEF RunTypes
<1>4. ReportTypes'
  <2>1. ASSUME NEW stop \in Dones, NEW again \in BOOLEAN, Report(stop, again) PROVE ReportTypes'
    BY <1>1, <2>1 DEF Report, ReportTypes
  <2>2. CASE reported' = reported
    BY <1>1, <2>2 DEF ReportTypes
  <2>3. CASE reported' = <<>>
    BY <2>3 DEF ReportTypes
  <2>4. done \in Dones
    BY <1>1 DEF RunTypes
  <2>5. QED BY <2>1, <2>2, <2>3, <2>4, StepIs
<1>5. QED BY <1>2, <1>3, <1>4

-----------------------------------------------------------------------------
(* The messages of the branch stay answered.                               *)

AllWhole == \A i \in DOMAIN branch : Whole(branch[i])

LEMMA BranchIs ==
  ASSUME TypeOK, TurnAssumption
  PROVE  branch \in Seq(Entries) /\ asst.calls \in 0..MaxCalls /\ MaxCalls \in Nat
<1>1. branch \in Seq(Entries)
  BY TypesAre DEF BranchTypes
<1>2. asst.calls \in 0..MaxCalls
  BY TypesAre DEF LoopTypes
<1>3. QED BY <1>1, <1>2, BoundsAre

\* Where nothing is left to execute, all calls have their results.
LEMMA WholeUnlessOpen ==
  ASSUME BranchInv, pc # "decide" \/ asst.calls = 0
  PROVE  AllWhole
<1>1. ASSUME asst.calls = 0, pc = "decide", asst.started PROVE Whole(branch[Len(branch)])
  <2>1. branch[Len(branch)] = Message("answer", 0)
    BY <1>1 DEF BranchInv
  <2>2. branch[Len(branch)].open = 0
    BY <2>1 DEF Message
  <2>3. ~(0 > 0)
    OBVIOUS
  <2>4. QED BY <2>2, <2>3 DEF Whole
<1>2. QED BY <1>1 DEF BranchInv, AllWhole

\* A step that leaves the branch as it is, outside of the stream.
LEMMA QuietBranch ==
  ASSUME TypeOK, AllWhole, UNCHANGED branch, pc' \notin {"stream", "decide", "closing"}
  PROVE  BranchTypes' /\ BranchInv'
<1>1. BranchTypes
  BY TypesAre
<1>2. BranchTypes'
  BY <1>1 DEF BranchTypes
<1>3. BranchInv'
  BY DEF BranchInv, AllWhole, Whole
<1>4. QED BY <1>2, <1>3

\* The last message is begun or written again.
LEMMA LastIs ==
  ASSUME TypeOK, TurnAssumption, BranchInv, NEW entry \in Entries,
         \/ AllWhole /\ branch' = Append(branch, entry)
         \/ branch # <<>> /\ branch' = Append(Front(branch), entry)
  PROVE  /\ BranchTypes' /\ branch' # <<>> /\ branch'[Len(branch')] = entry
         /\ \A i \in DOMAIN branch' : i # Len(branch') => Whole(branch'[i])
<1>1. branch \in Seq(Entries)
  BY BranchIs
<1>2. \A i \in DOMAIN branch : i # Len(branch) => Whole(branch[i])
  BY DEF BranchInv
<1>3. CASE AllWhole /\ branch' = Append(branch, entry)
  <2>1. /\ branch' \in Seq(Entries) /\ branch' # <<>> /\ branch'[Len(branch')] = entry
        /\ \A i \in DOMAIN branch' :
             i # Len(branch') => i \in DOMAIN branch /\ branch'[i] = branch[i]
    BY <1>1, <1>3, AppendIs
  <2>2. QED BY <1>3, <2>1 DEF BranchTypes, AllWhole
<1>4. CASE branch # <<>> /\ branch' = Append(Front(branch), entry)
  <2>1. /\ branch' \in Seq(Entries) /\ branch' # <<>> /\ branch'[Len(branch')] = entry
        /\ \A i \in DOMAIN branch' :
             i # Len(branch') => i \in DOMAIN branch /\ i # Len(branch) /\ branch'[i] = branch[i]
    BY <1>1, <1>4, ReplaceIs, SMTT(20) DEF Front
  <2>2. QED BY <1>2, <2>1 DEF BranchTypes
<1>5. QED BY <1>3, <1>4

\* Some of the messages, as a compaction and a retry leave them.
LEMMA FewerKept ==
  ASSUME TypeOK, TurnAssumption, AllWhole, pc' \notin {"stream", "decide", "closing"},
         \/ \E from \in 2..Len(branch) : branch' = SubSeq(branch, from, Len(branch))
         \/ branch # <<>> /\ branch' = Front(branch)
  PROVE  BranchTypes' /\ BranchInv'
<1>1. branch \in Seq(Entries)
  BY BranchIs
<1>2. /\ branch' \in Seq(Entries)
      /\ \A i \in DOMAIN branch' : \E j \in DOMAIN branch : branch'[i] = branch[j]
  <2>1. ASSUME NEW from \in 2..Len(branch), branch' = SubSeq(branch, from, Len(branch))
        PROVE  /\ branch' \in Seq(Entries)
               /\ \A i \in DOMAIN branch' : \E j \in DOMAIN branch : branch'[i] = branch[j]
    BY <1>1, <2>1, TailIs, Zenon
  <2>2. CASE branch # <<>> /\ branch' = Front(branch)
    BY <1>1, <2>2, FrontIs, Zenon
  <2>3. QED BY <2>1, <2>2
<1>3. \A i \in DOMAIN branch' : Whole(branch'[i])
  BY <1>2 DEF AllWhole
<1>4. QED BY <1>2, <1>3 DEF BranchTypes, BranchInv, Whole

\* The steps that fill a message.
LEMMA StreamKeeps ==
  ASSUME TypeOK, TurnAssumption, BranchInv,
         Token \/ ToolCall \/ StreamError \/ StreamEnds
  PROVE  BranchTypes' /\ BranchInv'
<1>1. pc = "stream" /\ AllWhole /\ (Started => branch # <<>>)
  BY WholeUnlessOpen DEF BranchInv, Started, Token, ToolCall, StreamError, StreamEnds, Goto
<1>2. /\ asst.calls \in 0..MaxCalls /\ MaxCalls \in Nat
      /\ asst.calls < MaxCalls => asst.calls + 1 \in 0..MaxCalls
      /\ asst.calls > 0 => asst.started
  BY <1>1, BranchIs DEF BranchInv
<1>3. \A open \in 0..MaxCalls, stop \in Failures \cup {"answer", ""} : Message(stop, open) \in Entries
  BY DEF Message, Entries
<1>4. CASE Token \/ ToolCall
  <2>1. PICK calls \in 0..MaxCalls :
          /\ Assemble(calls, "") /\ asst'.started /\ pc' = "stream"
    <3>1. CASE Token
      <4>1. asst'.started
        BY <3>1 DEF Token, TypeOK
      <4>2. QED BY <1>1, <1>2, <3>1, <4>1 DEF Token
    <3>2. CASE ToolCall
      <4>1. asst'.started
        BY <3>2 DEF ToolCall, TypeOK
      <4>2. asst.calls + 1 \in 0..MaxCalls
        BY <1>2, <3>2 DEF ToolCall
      <4>3. QED BY <1>1, <3>2, <4>1, <4>2 DEF ToolCall
    <3>3. QED BY <1>4, <3>1, <3>2
  <2>2. Message("", calls) \in Entries
    BY <1>3
  <2>3. /\ BranchTypes' /\ branch' # <<>> /\ branch'[Len(branch')] = Message("", calls)
        /\ \A i \in DOMAIN branch' : i # Len(branch') => Whole(branch'[i])
    BY <1>1, <2>1, <2>2, LastIs DEF Assemble
  <2>4. Whole(Message("", calls))
    BY DEF Whole, Message
  <2>5. \A i \in DOMAIN branch' : Whole(branch'[i])
    BY <2>3, <2>4
  <2>6. QED BY <2>1, <2>3, <2>5 DEF BranchInv, Whole
<1>5. CASE StreamError
  <2>1. PICK why \in Failures :
          branch' = IF Started THEN Append(Front(branch), Message(why, asst.calls)) ELSE branch
    BY <1>5 DEF StreamError
  <2>2. pc' = "ended"
    BY <1>5 DEF StreamError, Fail
  <2>3. CASE ~Started
    BY <1>1, <2>1, <2>2, <2>3, QuietBranch
  <2>4. CASE Started
    <3>1. Message(why, asst.calls) \in Entries /\ Whole(Message(why, asst.calls))
      BY <1>2, <1>3 DEF Whole, Message
    <3>2. /\ BranchTypes' /\ branch'[Len(branch')] = Message(why, asst.calls)
          /\ \A i \in DOMAIN branch' : i # Len(branch') => Whole(branch'[i])
      BY <1>1, <2>1, <2>4, <3>1, LastIs
    <3>3. \A i \in DOMAIN branch' : Whole(branch'[i])
      BY <3>1, <3>2
    <3>4. QED BY <2>2, <3>2, <3>3 DEF BranchInv, Whole
  <2>5. QED BY <2>3, <2>4
<1>6. CASE StreamEnds
  <2>1. pc' = "decide" /\ asst' = asst
    BY <1>6 DEF StreamEnds, Goto
  <2>2. CASE Started
    <3>1. Assemble(asst.calls, "answer") /\ Message("answer", asst.calls) \in Entries
      BY <1>2, <1>3, <1>6, <2>2 DEF StreamEnds
    <3>2. /\ BranchTypes' /\ branch' # <<>> /\ branch'[Len(branch')] = Message("answer", asst.calls)
          /\ \A i \in DOMAIN branch' : i # Len(branch') => Whole(branch'[i])
      BY <1>1, <2>2, <3>1, LastIs DEF Assemble
    <3>3. QED BY <1>2, <2>1, <2>2, <3>2 DEF BranchInv, Whole, Message, Started
  <2>3. CASE ~Started
    <3>1. branch' = branch
      BY <1>6, <2>3 DEF StreamEnds
    <3>2. BranchTypes'
      BY <3>1 DEF TypeOK, BranchTypes
    <3>3. QED BY <1>1, <1>2, <2>1, <2>3, <3>1, <3>2 DEF BranchInv, AllWhole, Whole, Started
  <2>4. QED BY <2>2, <2>3
<1>7. QED BY <1>4, <1>5, <1>6

\* The steps after which the last message is an answer without open calls, or a new one.
LEMMA AnswerKeeps ==
  ASSUME TypeOK, TurnAssumption, BranchInv,
         RejectCalls \/ ExecuteTools \/ FinalAnswer \/ FinalOpens
  PROVE  BranchTypes' /\ BranchInv'
<1>0. 0 \in 0..MaxCalls /\ ~(0 > 0)
  BY BranchIs
<1>1. PICK stop \in {"answer", ""} :
        \/ AllWhole /\ branch' = Append(branch, Message(stop, 0))
        \/ branch # <<>> /\ branch' = Append(Front(branch), Message(stop, 0))
  <2>1. CASE FinalOpens
    BY <2>1, WholeUnlessOpen DEF FinalOpens, Goto
  <2>2. CASE RejectCalls \/ ExecuteTools \/ FinalAnswer
    BY <2>2 DEF RejectCalls, ExecuteTools, FinalAnswer, BranchInv, Goto
  <2>3. QED BY <2>1, <2>2
<1>2. Message(stop, 0) \in Entries /\ Whole(Message(stop, 0))
  BY <1>0, Zenon DEF Entries, Message, Whole
<1>3. /\ BranchTypes' /\ branch' # <<>> /\ branch'[Len(branch')] = Message(stop, 0)
      /\ \A i \in DOMAIN branch' : i # Len(branch') => Whole(branch'[i])
  BY <1>1, <1>2, LastIs
<1>4. \A i \in DOMAIN branch' : Whole(branch'[i])
  BY <1>2, <1>3
<1>5. pc' \notin {"stream", "decide"}
  BY DEF RejectCalls, ExecuteTools, FinalAnswer, FinalOpens, Goto
<1>6. QED BY <1>3, <1>4, <1>5 DEF BranchInv, Whole

LEMMA BranchKeeps ==
  ASSUME TypeOK, TurnAssumption, BranchInv, [Next]_vars
  PROVE  BranchTypes' /\ BranchInv'
<1>1. CASE Token \/ ToolCall \/ StreamError \/ StreamEnds
  BY <1>1, StreamKeeps
<1>2. CASE RejectCalls \/ ExecuteTools \/ FinalAnswer \/ FinalOpens
  BY <1>2, AnswerKeeps
<1>3. CASE AutoCompact \/ RetryTurn
  BY <1>3, WholeUnlessOpen, FewerKept DEF AutoCompact, RetryTurn, ShouldRetry, Goto
<1>4. CASE Chat
  <2>1. AllWhole /\ branch' = branch /\ pc' = "stream" /\ asst' = NoAsst
    BY <1>4, WholeUnlessOpen DEF Chat, Goto
  <2>2. BranchTypes'
    BY <2>1 DEF TypeOK, BranchTypes
  <2>3. asst'.calls = 0 /\ ~asst'.started
    BY <2>1, Zenon DEF NoAsst
  <2>4. ~(asst'.calls > 0)
    BY <2>3
  <2>5. QED BY <2>1, <2>2, <2>3, <2>4 DEF BranchInv, AllWhole, Whole
<1>5. CASE UNCHANGED vars \/ Cancel \/ StreamDone
  <2>1. branch' = branch /\ pc' = pc /\ asst'.calls = asst.calls /\ asst'.started = asst.started
    BY <1>5 DEF vars, Cancel, StreamDone, TypeOK
  <2>2. BranchTypes'
    BY <2>1 DEF TypeOK, BranchTypes
  <2>3. QED BY <2>1, <2>2 DEF BranchInv, Whole
<1>6. CASE \/ Begin \/ CancelledRun \/ TurnEnds \/ WaitEnds \/ AppendUser \/ Continue
           \/ PreambleFails \/ Prepared \/ IterCancelled \/ PrepareNextTurn \/ StripImages
           \/ ChatFails \/ StreamCancelled \/ SteerTools \/ ToolsStuck \/ AfterTools
           \/ FinalBegins \/ FinalChatFails \/ FinalBreaks
  <2>1. branch' = branch /\ pc' \notin {"stream", "decide", "closing"} /\ pc # "decide"
    BY <1>6
       DEF Put, Fail, Goto, NextIteration, Begin, CancelledRun, TurnEnds, WaitEnds, AppendUser,
           Continue, PreambleFails, Prepared, IterCancelled, PrepareNextTurn, StripImages,
           ChatFails, StreamCancelled, SteerTools, ToolsStuck, AfterTools, FinalBegins,
           FinalChatFails, FinalBreaks
  <2>2. QED BY <2>1, WholeUnlessOpen, QuietBranch
<1>7. CASE NothingUsed \/ EmptyResponse \/ Answer \/ FollowUp
  <2>1. branch' = branch /\ pc' \notin {"stream", "decide", "closing"}
    BY <1>7 DEF Put, Fail, NothingUsed, EmptyResponse, Answer, FollowUp
  <2>2. asst.calls = 0 \/ ~(asst.calls > 0)
    BY <1>7 DEF HasOutput, NothingUsed, EmptyResponse, Answer, FollowUp
  <2>3. asst.calls = 0
    BY <2>2, BranchIs
  <2>4. QED BY <2>1, <2>3, WholeUnlessOpen, QuietBranch
<1>8. QED BY <1>1, <1>2, <1>3, <1>4, <1>5, <1>6, <1>7 DEF Next, Turn

-----------------------------------------------------------------------------
(* The end of a run is reported.                                           *)

LEMMA IndexIs ==
  ASSUME NEW S, NEW s \in Seq(S)
  PROVE  \A i \in DOMAIN s : i < Len(s) <=> i # Len(s)
OBVIOUS

\* A report goes behind the others.
LEMMA ReportIs ==
  ASSUME TypeOK, NEW stop \in Dones, NEW again \in BOOLEAN, Report(stop, again)
  PROVE  /\ reported' # <<>> /\ Last(reported') = [stop |-> stop, willRetry |-> again]
         /\ reported'[Len(reported')] = Last(reported')
         /\ \A i \in DOMAIN reported' : i < Len(reported') <=> i # Len(reported')
         /\ \A i \in DOMAIN reported' :
              i # Len(reported') => i \in DOMAIN reported /\ reported'[i] = reported[i]
<1> DEFINE S == [stop : Dones, willRetry : BOOLEAN]
           r == [stop |-> stop, willRetry |-> again]
<1>1. reported \in Seq(S)
  BY TypesAre DEF ReportTypes
<1>2. r \in S
  OBVIOUS
<1>3. reported' = Append(reported, r)
  BY DEF Report
<1> HIDE DEF S, r
<1>4. /\ reported' \in Seq(S) /\ reported' # <<>> /\ reported'[Len(reported')] = r
      /\ \A i \in DOMAIN reported' :
           i # Len(reported') => i \in DOMAIN reported /\ reported'[i] = reported[i]
  BY <1>1, <1>2, <1>3, AppendIs
<1>5. \A i \in DOMAIN reported' : i < Len(reported') <=> i # Len(reported')
  BY <1>4, IndexIs
<1>6. Last(reported') = reported'[Len(reported')]
  BY DEF Last
<1>7. QED BY <1>4, <1>5, <1>6 DEF r

Answered == {"completed", "truncated", "incomplete"}

\* The last report of a run.
LEMMA LastReport ==
  ASSUME TypeOK, ReportInv, NEW stop \in Dones, Report(stop, FALSE), pc # "idle", pc' = "idle",
         prompts' = prompts, dirty' = dirty, stop \in Answered => ~dirty
  PROVE  ReportInv'
<1>1. /\ reported' # <<>> /\ Last(reported') = [stop |-> stop, willRetry |-> FALSE]
      /\ reported'[Len(reported')] = Last(reported')
      /\ \A i \in DOMAIN reported' : i < Len(reported') <=> i # Len(reported')
      /\ \A i \in DOMAIN reported' :
           i # Len(reported') => i \in DOMAIN reported /\ reported'[i] = reported[i]
  BY ReportIs
<1>2. \A i \in DOMAIN reported : reported[i].willRetry
  BY DEF ReportInv
<1>3. Last(reported').stop = stop /\ ~Last(reported').willRetry
  <2>1. Last(reported') = [stop |-> stop, willRetry |-> FALSE]
    BY <1>1
  <2>2. QED BY <2>1
<1>4. OverIsReported'
  BY <1>1, <1>2, <1>3, Zenon DEF OverIsReported
<1>5. SavedWhenAnswered'
  BY <1>3 DEF SavedWhenAnswered, Answered
<1>6. QED BY <1>4, <1>5 DEF ReportInv

\* A step of a run that reports nothing.
LEMMA Unreported ==
  ASSUME ReportInv, reported' = reported, prompts' = prompts, pc # "idle", pc' # "idle",
         pc' = "ended" => done' # "" /\ (done' \in Answered => ~dirty'),
         pc' = "wait" => done' = "error"
  PROVE  ReportInv'
BY DEF ReportInv, OverIsReported, SavedWhenAnswered, Answered

LEMMA ReportKeeps ==
  ASSUME TypeOK, TurnAssumption, ReportInv, [Next]_vars
  PROVE  ReportInv'
<1>1. done \in Dones /\ prompts \in Nat /\ "cancelled" \in Dones /\ "error" \in Dones
  <2>1. done \in Dones /\ prompts \in 0..MaxPrompts /\ MaxPrompts \in Nat
    BY TypesAre, BoundsAre DEF RunTypes
  <2>2. "cancelled" \in Dones /\ "error" \in Dones
    BY DEF Dones
  <2>3. QED BY <2>1, <2>2
<1>2. CASE UNCHANGED vars
  BY <1>2 DEF vars, ReportInv, OverIsReported, SavedWhenAnswered
<1>3. CASE Begin
  <2>1. /\ reported' = <<>> /\ pc' \in {"prompt", "continue"} /\ prompts' = prompts + 1
    BY <1>3 DEF Begin
  <2>2. prompts' > 0 /\ DOMAIN reported' = {}
    BY <1>1, <2>1
  <2>3. QED BY <2>1, <2>2 DEF ReportInv, OverIsReported, SavedWhenAnswered
<1>4. CASE CancelledRun
  BY <1>1, <1>4, LastReport DEF CancelledRun, Answered
<1>5. CASE TurnEnds
  <2>1. pc = "ended" /\ done # "" /\ (done \in Answered => ~dirty)
    BY <1>5 DEF TurnEnds, Goto, ReportInv, Answered
  <2>2. Report(done, FALSE) /\ pc' = "idle" /\ prompts' = prompts /\ dirty' = dirty
    BY <1>5, <2>1 DEF TurnEnds, Goto
  <2>3. QED BY <1>1, <2>1, <2>2, LastReport
<1>6. CASE WaitEnds
  <2>1. pc = "wait" /\ done = "error" /\ prompts' = prompts /\ dirty' = dirty
    BY <1>6 DEF WaitEnds, ReportInv
  <2>2. CASE pc' = "idle" /\ Report(done, FALSE)
    BY <1>1, <2>1, <2>2, LastReport DEF Answered
  <2>3. CASE pc' = "prompt" /\ Report("error", TRUE)
    <3>1. /\ reported'[Len(reported')] = [stop |-> "error", willRetry |-> TRUE]
          /\ \A i \in DOMAIN reported' :
               i # Len(reported') => i \in DOMAIN reported /\ reported'[i] = reported[i]
      BY <1>1, <2>3, ReportIs
    <3>2. prompts > 0 /\ \A i \in DOMAIN reported : reported[i].willRetry
      BY <2>1 DEF ReportInv
    <3>3. [stop |-> "error", willRetry |-> TRUE].willRetry
      OBVIOUS
    <3>4. \A i \in DOMAIN reported' : reported'[i].willRetry
      BY <3>1, <3>2, <3>3, Zenon
    <3>5. QED BY <2>1, <2>3, <3>2, <3>4 DEF ReportInv, OverIsReported, SavedWhenAnswered
  <2>4. QED BY <1>6, <2>2, <2>3 DEF WaitEnds
<1>7. CASE Cancel \/ RetryTurn
  <2>1. CASE Cancel
    BY <2>1, Unreported DEF Cancel, ReportInv, Answered
  <2>2. CASE RetryTurn
    BY <2>2, Unreported DEF RetryTurn, ShouldRetry, Goto
  <2>3. QED BY <1>7, <2>1, <2>2
<1>8. CASE Turn
  <2>1. reported' = reported /\ prompts' = prompts /\ pc # "idle" /\ pc' \notin {"idle", "wait"}
    BY <1>8
       DEF Turn, run, Put, Fail, Goto, Assemble, NextIteration, AppendUser, Continue,
           PreambleFails, AutoCompact, Prepared, IterCancelled, PrepareNextTurn, Chat,
           StripImages, ChatFails, Token, ToolCall, StreamDone, StreamError, StreamCancelled,
           StreamEnds, NothingUsed, EmptyResponse, Answer, FollowUp, RejectCalls, ExecuteTools,
           SteerTools, ToolsStuck, AfterTools, FinalBegins, FinalChatFails, FinalOpens,
           FinalBreaks, FinalAnswer
  <2>2. pc' = "ended" => done' # "" /\ (done' \in Answered => ~dirty')
    BY <1>8
       DEF Turn, run, Put, Fail, Goto, Assemble, NextIteration, DoneFor, Answered, AppendUser,
           Continue, PreambleFails, AutoCompact, Prepared, IterCancelled, PrepareNextTurn, Chat,
           StripImages, ChatFails, Token, ToolCall, StreamDone, StreamError, StreamCancelled,
           StreamEnds, NothingUsed, EmptyResponse, Answer, FollowUp, RejectCalls, ExecuteTools,
           SteerTools, ToolsStuck, AfterTools, FinalBegins, FinalChatFails, FinalOpens,
           FinalBreaks, FinalAnswer
  <2>3. QED BY <2>1, <2>2, Unreported
<1>9. QED BY <1>2, <1>3, <1>4, <1>5, <1>6, <1>7, <1>8 DEF Next

-----------------------------------------------------------------------------
(* The requests of a prompt are bounded.                                   *)

LEMMA ProductIs ==
  ASSUME NEW m \in Nat, NEW n \in Nat
  PROVE  m * n \in Nat /\ m * (n + 1) = m * n + m /\ m * 0 = 0
OBVIOUS

LEMMA NumbersAre ==
  ASSUME TypeOK, TurnAssumption
  PROVE  /\ limit \in Nat /\ attempt \in Nat /\ requests \in Nat /\ prompts \in Nat
         /\ loop.iter \in Nat /\ loop.errs \in Nat /\ Before \in Nat
         /\ (limit + 1) * attempt \in Nat
<1>1. /\ limit \in Limits /\ attempt \in 0..MaxRetries /\ requests \in Nat /\ prompts \in 0..MaxPrompts
  BY TypesAre DEF LoopTypes, RunTypes
<1>2. loop.iter \in Nat /\ loop.errs \in Nat
  BY TypesAre DEF LoopTypes
<1>3. limit \in Nat /\ attempt \in Nat /\ prompts \in Nat
  BY <1>1, BoundsAre
<1>4. (limit + 1) * attempt \in Nat
  <2>1. limit + 1 \in Nat
    BY <1>3
  <2>2. QED BY <1>3, <2>1, ProductIs
<1>5. Before \in Nat
  <2> DEFINE product == (limit + 1) * attempt
  <2>1. product \in Nat /\ Before = product + (IF images THEN 0 ELSE 1)
    BY <1>4 DEF Before
  <2> HIDE DEF product
  <2>2. product + 0 \in Nat /\ product + 1 \in Nat
    BY <2>1
  <2>3. CASE images
    BY <2>1, <2>2, <2>3
  <2>4. CASE ~images
    BY <2>1, <2>2, <2>4
  <2>5. QED BY <2>3, <2>4
<1>6. QED BY <1>1, <1>2, <1>3, <1>4, <1>5

\* A step to another place of the turn, without a request.
LEMMA PlaceMoves ==
  ASSUME TypeOK, TurnAssumption, BudgetInv, requests' = requests, Before' = Before,
         limit' = limit, prompts' = prompts, loop'.iter = loop.iter,
         \/ pc' = pc
         \/ pc # "idle" /\ pc' \in {"ended", "idle"}
         \/ pc \in {"prompt", "continue", "wait"} /\ pc' \in {"prompt", "preamble"}
         \/ pc = "iter" /\ pc' = "chat" /\ (limit > 0 => loop.iter < limit)
         \/ pc \in {"stream", "decide"} /\ pc' \in {"decide", "tools"}
         \/ pc = "final" /\ pc' = "closing"
  PROVE  BudgetInv'
<1>1. /\ limit \in Nat /\ requests \in Nat /\ prompts \in Nat /\ loop.iter \in Nat /\ Before \in Nat
  BY NumbersAre
<1>2. CASE pc' = pc
  BY <1>1, <1>2 DEF BudgetInv
<1>3. CASE pc # "idle" /\ pc' \in {"ended", "idle"}
  <2>1. pc \in {"prompt", "continue", "preamble", "iter", "chat", "stream", "decide", "tools",
               "final", "closing", "ended", "wait"}
    BY <1>3, TypesAre DEF RunTypes
  <2>2. limit > 0 => requests <= Before + limit + 1
    BY <1>1, <2>1 DEF BudgetInv
  <2>3. prompts # 0
    BY <1>3 DEF BudgetInv
  <2>4. QED BY <1>3, <2>2, <2>3 DEF BudgetInv
<1>4. CASE pc \in {"prompt", "continue", "wait"} /\ pc' \in {"prompt", "preamble"}
  BY <1>1, <1>4 DEF BudgetInv
<1>5. CASE pc = "iter" /\ pc' = "chat" /\ (limit > 0 => loop.iter < limit)
  BY <1>1, <1>5 DEF BudgetInv
<1>6. CASE pc \in {"stream", "decide"} /\ pc' \in {"decide", "tools"}
  BY <1>1, <1>6 DEF BudgetInv
<1>7. CASE pc = "final" /\ pc' = "closing"
  BY <1>1, <1>7 DEF BudgetInv
<1>8. QED BY <1>2, <1>3, <1>4, <1>5, <1>6, <1>7

\* A step to the next iteration, or the first one.
LEMMA IterationBegins ==
  ASSUME TypeOK, TurnAssumption, BudgetInv, requests' = requests, Before' = Before,
         limit' = limit, prompts' = prompts, pc' = "iter",
         \/ pc = "preamble" /\ loop'.iter = 0
         \/ pc \in {"decide", "tools"} /\ loop'.iter = loop.iter + 1
  PROVE  BudgetInv'
<1>1. /\ limit \in Nat /\ requests \in Nat /\ prompts \in Nat /\ loop.iter \in Nat /\ Before \in Nat
  BY NumbersAre
<1>2. QED BY <1>1 DEF BudgetInv

\* A request that has room for it.
LEMMA RequestCounts ==
  ASSUME TypeOK, TurnAssumption, BudgetInv, requests' = requests + 1, limit' = limit,
         prompts' = prompts, loop'.iter = loop.iter,
         \/ Before' = Before /\ pc = "chat" /\ pc' \in {"stream", "ended"}
         \/ Before' = Before + 1 /\ pc = "chat" /\ pc' = "chat"
         \/ Before' = Before /\ pc = "iter" /\ pc' = "final"
  PROVE  BudgetInv'
<1>1. /\ limit \in Nat /\ requests \in Nat /\ prompts \in Nat /\ loop.iter \in Nat /\ Before \in Nat
  BY NumbersAre
<1>2. QED BY <1>1 DEF BudgetInv

LEMMA BudgetKeeps ==
  ASSUME TypeOK, TurnAssumption, BudgetInv, [Next]_vars
  PROVE  BudgetInv'
<1>1. limit' = limit
  BY StepIs
<1>2. ASSUME UNCHANGED <<attempt, images>> PROVE Before' = Before
  BY <1>1, <1>2 DEF Before
<1>3. CASE \/ UNCHANGED vars \/ Cancel \/ CancelledRun \/ TurnEnds \/ WaitEnds \/ AppendUser
           \/ Continue \/ PreambleFails \/ IterCancelled \/ Token \/ ToolCall \/ StreamDone
           \/ StreamError \/ StreamCancelled \/ StreamEnds \/ EmptyResponse \/ Answer
           \/ ToolsStuck \/ FinalChatFails \/ FinalOpens \/ FinalBreaks \/ FinalAnswer
  <2>1. UNCHANGED <<requests, attempt, images, prompts, loop>>
    BY <1>3
       DEF vars, run, count, Cancel, CancelledRun, TurnEnds, WaitEnds, AppendUser, Continue,
           PreambleFails, IterCancelled, Token, ToolCall, StreamDone, StreamError,
           StreamCancelled, StreamEnds, EmptyResponse, Answer, ToolsStuck, FinalChatFails,
           FinalOpens, FinalBreaks, FinalAnswer
  <2>2. \/ pc' = pc
        \/ pc # "idle" /\ pc' \in {"ended", "idle"}
        \/ pc \in {"prompt", "continue", "wait"} /\ pc' \in {"prompt", "preamble"}
        \/ pc \in {"stream", "decide"} /\ pc' \in {"decide", "tools"}
        \/ pc = "final" /\ pc' = "closing"
    BY <1>3
       DEF vars, Fail, Goto, Put, Cancel, CancelledRun, TurnEnds, WaitEnds, AppendUser, Continue,
           PreambleFails, IterCancelled, Token, ToolCall, StreamDone, StreamError,
           StreamCancelled, StreamEnds, EmptyResponse, Answer, ToolsStuck, FinalChatFails,
           FinalOpens, FinalBreaks, FinalAnswer
  <2>3. QED BY <1>1, <1>2, <2>1, <2>2, PlaceMoves
<1>4. CASE PrepareNextTurn \/ ExecuteTools
  <2>1. /\ UNCHANGED <<requests, attempt, images, prompts>>
        /\ \/ pc = "iter" /\ pc' = "chat" /\ (limit > 0 => ~(loop.iter >= limit))
           \/ pc = "decide" /\ pc' = "tools"
    BY <1>4 DEF PrepareNextTurn, ExecuteTools, LimitReached, run, count, Goto, Put
  <2>2. loop'.iter = loop.iter
    BY <1>4 DEF PrepareNextTurn, ExecuteTools, TypeOK
  <2>3. limit > 0 /\ ~(loop.iter >= limit) => loop.iter < limit
    BY NumbersAre
  <2>4. QED BY <1>1, <1>2, <2>1, <2>2, <2>3, PlaceMoves
<1>5. CASE \/ AutoCompact \/ Prepared \/ NothingUsed \/ FollowUp \/ RejectCalls \/ SteerTools
           \/ AfterTools
  <2>1. UNCHANGED <<requests, attempt, images, prompts>>
    BY <1>5
       DEF run, count, AutoCompact, Prepared, NothingUsed, FollowUp, RejectCalls, SteerTools,
           AfterTools
  <2>2. \/ pc' = "iter" /\ pc = "preamble" /\ loop' = NoLoop
        \/ pc' = "iter" /\ pc \in {"decide", "tools"} /\ loop' = [loop EXCEPT !.iter = @ + 1]
        \/ /\ pc' = "iter" /\ pc = "tools"
           /\ loop' = [loop EXCEPT !.errs = 0, !.steered = TRUE, !.iter = @ + 1]
        \/ pc' = "ended" /\ pc = "tools" /\ loop' = loop
    BY <1>5
       DEF Goto, NextIteration, AutoCompact, Prepared, NothingUsed, FollowUp, RejectCalls,
           SteerTools, AfterTools
  <2>3. CASE pc' = "iter" /\ pc = "preamble" /\ loop' = NoLoop
    BY <1>1, <1>2, <2>1, <2>3, IterationBegins DEF NoLoop
  <2>4. CASE \/ loop' = [loop EXCEPT !.iter = @ + 1]
             \/ loop' = [loop EXCEPT !.errs = 0, !.steered = TRUE, !.iter = @ + 1]
    <3>1. loop'.iter = loop.iter + 1
      BY <2>4 DEF TypeOK
    <3>2. CASE pc' = "iter" /\ pc \in {"decide", "tools"}
      BY <1>1, <1>2, <2>1, <3>1, <3>2, IterationBegins
    <3>3. CASE pc' = "ended" /\ loop' = loop
      BY <3>1, <3>3, NumbersAre
    <3>4. CASE pc' = "iter" /\ pc = "preamble" /\ loop' = NoLoop
      BY <2>3, <3>4
    <3>5. QED BY <2>2, <3>2, <3>3, <3>4
  <2>5. CASE pc' = "ended" /\ pc = "tools" /\ loop' = loop
    BY <1>1, <1>2, <2>1, <2>5, PlaceMoves
  <2>6. QED BY <2>2, <2>3, <2>4, <2>5
<1>6. CASE Chat \/ ChatFails \/ FinalBegins
  <2>1. /\ UNCHANGED <<attempt, images, prompts, loop>> /\ requests' = requests + 1
        /\ \/ pc = "chat" /\ pc' \in {"stream", "ended"}
           \/ pc = "iter" /\ pc' = "final"
    BY <1>6 DEF run, Goto, Put, Fail, Chat, ChatFails, FinalBegins
  <2>2. QED BY <1>1, <1>2, <2>1, RequestCounts
<1>7. CASE StripImages
  <2>1. /\ UNCHANGED <<attempt, prompts, loop>> /\ requests' = requests + 1
        /\ images /\ ~images' /\ pc = "chat" /\ pc' = "chat"
    BY <1>7 DEF run, Goto, StripImages
  <2>2. Before = (limit + 1) * attempt + 0 /\ Before' = (limit + 1) * attempt + 1
    BY <1>1, <2>1 DEF Before
  <2>3. Before' = Before + 1
    <3> DEFINE product == (limit + 1) * attempt
    <3>1. product \in Nat /\ Before = product + 0 /\ Before' = product + 1
      BY <2>2, NumbersAre
    <3> HIDE DEF product
    <3>2. QED BY <3>1
  <2>4. QED BY <1>1, <2>1, <2>3, RequestCounts
<1>8. CASE RetryTurn
  <2>1. /\ UNCHANGED <<requests, images, prompts, loop>> /\ attempt' = attempt + 1
        /\ pc = "ended" /\ pc' = "wait"
    BY <1>8 DEF RetryTurn, count, Goto
  <2>2. limit + 1 \in Nat /\ attempt \in Nat /\ limit \in Nat /\ requests \in Nat
        /\ Before \in Nat /\ prompts \in Nat
    BY NumbersAre
  <2>3. (limit + 1) * (attempt + 1) = (limit + 1) * attempt + (limit + 1)
    BY <2>2, ProductIs
  <2>4. Before' = Before + limit + 1
    <3> DEFINE product == (limit + 1) * attempt
               image == IF images THEN 0 ELSE 1
    <3>1. product \in Nat /\ Before = product + image
      BY NumbersAre DEF Before
    <3>2. Before' = (product + (limit + 1)) + image
      BY <1>1, <2>1, <2>3 DEF Before
    <3>3. image \in Nat
      OBVIOUS
    <3> HIDE DEF product, image
    <3>4. QED BY <2>2, <3>1, <3>2, <3>3
  <2>5. QED BY <1>1, <2>1, <2>2, <2>4 DEF BudgetInv
<1>9. CASE Begin
  <2>1. requests' = 0 /\ prompts' = prompts + 1 /\ pc' \in {"prompt", "continue"}
    BY <1>9 DEF Begin
  <2>2. Before' \in Nat /\ prompts \in Nat
    <3>1. attempt' = 0 /\ limit \in Nat /\ prompts \in Nat
      BY <1>9, NumbersAre DEF Begin
    <3>2. limit + 1 \in Nat
      BY <3>1
    <3>3. (limit + 1) * 0 = 0
      BY <3>2, ProductIs
    <3>4. Before' = 0 + (IF images' THEN 0 ELSE 1)
      BY <1>1, <3>1, <3>3 DEF Before
    <3>5. QED BY <3>1, <3>4
  <2>3. QED BY <2>1, <2>2 DEF BudgetInv
<1>10. QED BY <1>3, <1>4, <1>5, <1>6, <1>7, <1>8, <1>9 DEF Next, Turn

-----------------------------------------------------------------------------
(* Failing calls are hinted at, and the last answer is announced.          *)

\* A step that leaves the state of the loop as it is.
LEMMA LoopMoves ==
  ASSUME LoopInv, loop' = loop, limit' = limit,
         \/ pc' = pc
         \/ pc' \in {"idle", "prompt", "continue", "preamble", "ended", "wait"}
         \/ pc = "chat" /\ pc' = "stream"
         \/ pc = "stream" /\ pc' = "decide"
         \/ pc = "final" /\ pc' = "closing"
  PROVE  LoopInv'
BY DEF LoopInv

\* A step to the next iteration.
LEMMA LoopGoesOn ==
  ASSUME TypeOK, TurnAssumption, LoopInv, limit' = limit, pc \in {"decide", "tools"}, pc' = "iter",
         loop'.iter = loop.iter + 1, loop'.wrapUp = loop.wrapUp, loop'.errs < Threshold
  PROVE  LoopInv'
<1>1. limit \in Nat /\ loop.iter \in Nat
  BY NumbersAre
<1>2. loop'.iter >= limit - 1 => loop.iter >= limit - 2
  BY <1>1
<1>3. limit > 0 /\ loop.iter >= limit - 2 => loop.wrapUp
  BY DEF LoopInv
<1>4. limit > 0 /\ loop'.iter >= limit - 1 => loop'.wrapUp
  BY <1>2, <1>3
<1>5. QED BY <1>4 DEF LoopInv

LEMMA LoopKeeps ==
  ASSUME TypeOK, TurnAssumption, LoopInv, [Next]_vars
  PROVE  LoopInv'
<1>1. limit' = limit /\ limit \in Nat /\ loop.iter \in Nat /\ loop.errs \in Nat
      /\ Threshold \in Nat /\ 0 < Threshold
  BY StepIs, NumbersAre, BoundsAre
<1>2. CASE \/ UNCHANGED vars \/ Begin \/ Cancel \/ CancelledRun \/ TurnEnds \/ RetryTurn
           \/ WaitEnds \/ AppendUser \/ Continue \/ PreambleFails \/ IterCancelled \/ Chat
           \/ StripImages \/ ChatFails \/ Token \/ ToolCall \/ StreamDone \/ StreamError
           \/ StreamCancelled \/ StreamEnds \/ EmptyResponse \/ Answer \/ ToolsStuck
           \/ FinalChatFails \/ FinalOpens \/ FinalBreaks \/ FinalAnswer
  <2>1. loop' = loop
    BY <1>2
       DEF vars, Begin, Cancel, CancelledRun, TurnEnds, RetryTurn, WaitEnds, AppendUser, Continue,
           PreambleFails, IterCancelled, Chat, StripImages, ChatFails, Token, ToolCall,
           StreamDone, StreamError, StreamCancelled, StreamEnds, EmptyResponse, Answer,
           ToolsStuck, FinalChatFails, FinalOpens, FinalBreaks, FinalAnswer
  <2>2. \/ pc' = pc
        \/ pc' \in {"idle", "prompt", "continue", "preamble", "ended", "wait"}
        \/ pc = "chat" /\ pc' = "stream"
        \/ pc = "stream" /\ pc' = "decide"
        \/ pc = "final" /\ pc' = "closing"
    BY <1>2
       DEF vars, Fail, Goto, Put, Begin, Cancel, CancelledRun, TurnEnds, RetryTurn, WaitEnds,
           AppendUser, Continue, PreambleFails, IterCancelled, Chat, StripImages, ChatFails,
           Token, ToolCall, StreamDone, StreamError, StreamCancelled, StreamEnds, EmptyResponse,
           Answer, ToolsStuck, FinalChatFails, FinalOpens, FinalBreaks, FinalAnswer
  <2>3. QED BY <1>1, <2>1, <2>2, LoopMoves
<1>3. CASE AutoCompact \/ Prepared
  <2>1. pc' = "iter" /\ loop'.iter = 0 /\ loop'.errs = 0
    BY <1>3 DEF AutoCompact, Prepared, Goto, NoLoop
  <2>2. ~(loop'.iter > 0) /\ loop'.errs < Threshold
    BY <1>1, <2>1
  <2>3. QED BY <2>1, <2>2 DEF LoopInv
<1>4. CASE PrepareNextTurn
  <2>1. /\ pc = "iter" /\ pc' = "chat"
        /\ \/ loop' = [loop EXCEPT !.wrapUp = TRUE]
           \/ loop' = loop /\ ~(limit > 0 /\ ~loop.wrapUp /\ loop.iter >= limit - 2)
    BY <1>4 DEF PrepareNextTurn, Goto
  <2>2. loop'.errs = loop.errs /\ loop'.iter = loop.iter
    BY <2>1 DEF TypeOK
  <2>3. loop'.wrapUp \/ ~(limit > 0 /\ loop.iter >= limit - 2)
    <3>1. CASE loop' = [loop EXCEPT !.wrapUp = TRUE]
      BY <3>1, Zenon DEF TypeOK
    <3>2. CASE loop' = loop /\ ~(limit > 0 /\ ~loop.wrapUp /\ loop.iter >= limit - 2)
      BY <3>2
    <3>3. QED BY <2>1, <3>1, <3>2
  <2>4. loop.errs < Threshold
    BY <2>1 DEF LoopInv
  <2>5. QED BY <1>1, <2>1, <2>2, <2>3, <2>4 DEF LoopInv
<1>5. CASE NothingUsed \/ FollowUp \/ RejectCalls
  <2>1. pc = "decide" /\ pc' = "iter" /\ loop' = [loop EXCEPT !.iter = @ + 1]
    BY <1>5 DEF NothingUsed, FollowUp, RejectCalls
  <2>2. loop'.iter = loop.iter + 1 /\ loop'.wrapUp = loop.wrapUp /\ loop'.errs = loop.errs
    BY <2>1, Zenon DEF TypeOK
  <2>3. loop'.errs < Threshold
    BY <2>1, <2>2 DEF LoopInv
  <2>4. QED BY <1>1, <2>1, <2>2, <2>3, LoopGoesOn
<1>6. CASE ExecuteTools
  <2>1. pc = "decide" /\ pc' = "tools"
    BY <1>6 DEF ExecuteTools
  <2>2. loop'.iter = loop.iter /\ loop'.wrapUp = loop.wrapUp
    <3>1. PICK ok \in 0..asst.calls :
            loop' = [loop EXCEPT !.errs = IF ok = 0 THEN @ + asst.calls ELSE asst.calls - ok]
      BY <1>6 DEF ExecuteTools
    <3>2. QED BY <3>1, Zenon DEF TypeOK
  <2>3. QED BY <1>1, <2>1, <2>2 DEF LoopInv
<1>7. CASE SteerTools
  <2>1. /\ pc = "tools" /\ pc' = "iter"
        /\ loop' = [loop EXCEPT !.errs = 0, !.steered = TRUE, !.iter = @ + 1]
    BY <1>7 DEF SteerTools
  <2>2. loop'.iter = loop.iter + 1 /\ loop'.wrapUp = loop.wrapUp /\ loop'.errs = 0
    BY <2>1, Zenon DEF TypeOK
  <2>3. QED BY <1>1, <2>1, <2>2, LoopGoesOn
<1>8. CASE AfterTools
  <2>1. CASE pc = "tools" /\ pc' = "iter" /\ loop' = [loop EXCEPT !.iter = @ + 1]
    <3>1. loop'.iter = loop.iter + 1 /\ loop'.wrapUp = loop.wrapUp /\ loop'.errs = loop.errs
      BY <2>1, Zenon DEF TypeOK
    <3>2. loop.errs < Threshold
      BY <1>8 DEF AfterTools
    <3>3. QED BY <1>1, <2>1, <3>1, <3>2, LoopGoesOn
  <2>2. CASE pc' = "ended" /\ loop' = loop
    BY <1>1, <2>2, LoopMoves
  <2>3. QED BY <1>8, <2>1, <2>2 DEF AfterTools, NextIteration
<1>9. CASE FinalBegins
  <2>1. pc = "iter" /\ pc' = "final" /\ limit > 0 /\ loop.iter >= limit /\ loop' = loop
    BY <1>9 DEF FinalBegins, Goto, LimitReached
  <2>2. loop.iter > 0 /\ loop.iter >= limit - 1
    BY <1>1, <2>1
  <2>3. loop.wrapUp
    BY <2>1, <2>2 DEF LoopInv
  <2>4. QED BY <2>1, <2>3 DEF LoopInv
<1>10. QED BY <1>2, <1>3, <1>4, <1>5, <1>6, <1>7, <1>8, <1>9 DEF Next, Turn

-----------------------------------------------------------------------------
(* The theorems.                                                           *)

LEMMA EmptyIs ==
  ASSUME NEW S
  PROVE  <<>> \in Seq(S)
OBVIOUS

LEMMA InitIsIInv ==
  ASSUME TurnAssumption, Init
  PROVE  IInv
<1>1. /\ limit \in Limits /\ limit \in Nat /\ MaxCalls \in Nat /\ MaxRetries \in Nat
      /\ MaxPrompts \in Nat /\ 0 < Threshold
  BY BoundsAre DEF Init
<1>2. /\ branch = <<>> /\ reported = <<>> /\ pc = "idle" /\ dirty = FALSE /\ images = FALSE
      /\ cancelled = FALSE /\ prompts = 0
  BY DEF Init
<1>3. TypeOK
  <2>1. BranchTypes /\ ReportTypes /\ FlagTypes
    <3>1. BranchTypes /\ ReportTypes
      BY <1>2, EmptyIs DEF BranchTypes, ReportTypes
    <3>2. FlagTypes
      BY <1>2 DEF FlagTypes
    <3>3. QED BY <3>1, <3>2
  <2>2. 0 \in 0..MaxCalls /\ 0 \in 0..MaxRetries /\ 0 \in 0..MaxPrompts /\ 0 \in Nat
    BY <1>1
  <2>3. LoopTypes
    BY <2>2, Zenon DEF Init, LoopTypes, NoLoop, NoAsst
  <2>4. RunTypes
    BY <2>2 DEF Init, RunTypes, Dones
  <2>5. QED BY <2>1, <2>3, <2>4, TypesAre
<1>4. BranchInv
  BY <1>2 DEF BranchInv
<1>5. ReportInv
  BY <1>2 DEF ReportInv, OverIsReported, SavedWhenAnswered
<1>6. BudgetInv
  <2>1. limit + 1 \in Nat
    BY <1>1
  <2>2. (limit + 1) * 0 = 0
    BY <2>1, ProductIs
  <2>3. Before = 0 + 1
    BY <2>2 DEF Init, Before
  <2>4. requests = 0
    BY DEF Init
  <2>5. QED BY <1>1, <1>2, <2>3, <2>4 DEF BudgetInv
<1>7. LoopInv
  BY DEF Init, LoopInv
<1>8. QED BY <1>3, <1>4, <1>5, <1>6, <1>7 DEF IInv

LEMMA IInvKeeps ==
  ASSUME TurnAssumption, IInv, [Next]_vars
  PROVE  IInv'
<1>1. TypeOK /\ BranchInv /\ ReportInv /\ BudgetInv /\ LoopInv
  BY DEF IInv
<1>2. BranchTypes' /\ BranchInv'
  BY <1>1, BranchKeeps
<1>3. LoopTypes' /\ FlagTypes' /\ RunTypes' /\ ReportTypes'
  BY <1>1, LoopTyped, RunTyped
<1>4. TypeOK'
  BY <1>2, <1>3 DEF TypeOK, BranchTypes, LoopTypes, FlagTypes, RunTypes, ReportTypes
<1>5. ReportInv' /\ BudgetInv' /\ LoopInv'
  BY <1>1, ReportKeeps, BudgetKeeps, LoopKeeps
<1>6. QED BY <1>2, <1>4, <1>5 DEF IInv

LEMMA IInvReports ==
  ASSUME TurnAssumption, IInv
  PROVE  RunReported
<1>1. TypeOK /\ ReportInv /\ BudgetInv /\ LoopInv
  BY DEF IInv
<1>2. /\ limit \in Nat /\ attempt \in Nat /\ requests \in Nat /\ prompts \in Nat
      /\ loop.iter \in Nat /\ Before \in Nat /\ (limit + 1) * attempt \in Nat
  BY <1>1, NumbersAre
<1>3. RequestsBounded
  <2>1. SUFFICES ASSUME limit > 0
                 PROVE  requests <= (limit + 1) * (attempt + 1) + prompts
    BY DEF RequestsBounded
  <2>2. pc \in {"idle", "prompt", "continue", "preamble", "iter", "chat", "stream", "decide",
              "tools", "final", "closing", "ended", "wait"}
    BY <1>1, TypesAre DEF RunTypes
  <2>3. requests <= Before + limit + 1
    BY <1>1, <1>2, <2>1, <2>2 DEF BudgetInv
  <2>4. prompts = 0 => requests = 0
    BY <1>1 DEF BudgetInv
  <2> DEFINE product == (limit + 1) * attempt
             image == IF images THEN 0 ELSE 1
  <2>5. (limit + 1) * (attempt + 1) = product + (limit + 1)
    <3>1. limit + 1 \in Nat
      BY <1>2
    <3>2. QED BY <1>2, <3>1, ProductIs
  <2>6. product \in Nat /\ Before = product + image /\ image \in {0, 1}
    BY <1>2 DEF Before
  <2> HIDE DEF product, image
  <2>7. QED BY <1>2, <2>3, <2>4, <2>5, <2>6
<1>4. FailuresHinted /\ WarnedBeforeFinal
  BY <1>1 DEF LoopInv, FailuresHinted, WarnedBeforeFinal
<1>5. QED BY <1>1, <1>3, <1>4 DEF ReportInv, RunReported

\* The reader of a run learns its end, once and last; what is reported as an answer is in the
\* file; the requests of a prompt are bounded by the limit and the retries; failing calls and
\* the answer without tools are announced to the model.
THEOREM RunsAreReported == TurnAssumption => (Spec => []RunReported)
<1>1. SUFFICES ASSUME TurnAssumption PROVE Spec => []RunReported
  OBVIOUS
<1>2. Init => IInv
  BY <1>1, InitIsIInv
<1>3. IInv /\ [Next]_vars => IInv'
  BY <1>1, IInvKeeps
<1>4. IInv => RunReported
  BY <1>1, IInvReports
<1>5. QED BY <1>2, <1>3, <1>4, PTL DEF Spec

\* When a request is made, every message of the branch has the results of its calls, unless an
\* error or a cancelled context cut it short.
THEOREM CallsAreAnswered == TurnAssumption => (Spec => AnsweredUnlessCut)
<1>1. SUFFICES ASSUME TurnAssumption PROVE Spec => AnsweredUnlessCut
  OBVIOUS
<1>2. Init => IInv
  BY <1>1, InitIsIInv
<1>3. IInv /\ [Next]_vars => IInv'
  BY <1>1, IInvKeeps
<1>4. IInv /\ [Next]_vars =>
        [requests' # requests =>
           \A i \in DOMAIN branch : branch[i].open > 0 => branch[i].stop \in Failures \cup {""}]_vars
  <2>1. SUFFICES ASSUME IInv, [Next]_vars, requests' # requests
                 PROVE  \A i \in DOMAIN branch :
                          branch[i].open > 0 => branch[i].stop \in Failures \cup {""}
    OBVIOUS
  <2>2. pc # "decide"
    <3>1. Begin \/ Chat \/ StripImages \/ ChatFails \/ FinalBegins
      BY <2>1
         DEF Next, Turn, vars, count, Cancel, CancelledRun, TurnEnds, RetryTurn, WaitEnds,
             AppendUser, Continue, PreambleFails, AutoCompact, Prepared, IterCancelled,
             PrepareNextTurn, Token, ToolCall, StreamDone, StreamError, StreamCancelled,
             StreamEnds, NothingUsed, EmptyResponse, Answer, FollowUp, RejectCalls, ExecuteTools,
             SteerTools, ToolsStuck, AfterTools, FinalChatFails, FinalOpens, FinalBreaks,
             FinalAnswer
    <3>2. QED BY <3>1 DEF Begin, Chat, StripImages, ChatFails, FinalBegins, Goto
  <2>3. AllWhole
    BY <2>1, <2>2, WholeUnlessOpen DEF IInv
  <2>4. QED BY <2>3 DEF AllWhole, Whole
<1>5. QED BY <1>2, <1>3, <1>4, PTL DEF Spec, AnsweredUnlessCut

-----------------------------------------------------------------------------
(* Answers stay.                                                           *)

\* A stream writes its own message only: the one that it replaces is no answer.
AssemblyInv == pc = "stream" /\ asst.started => Len(branch) \notin AnswerPlaces

AInv == IInv /\ AssemblyInv

LEMMA AssemblyKeeps ==
  ASSUME TurnAssumption, IInv, AssemblyInv, [Next]_vars
  PROVE  AssemblyInv'
<1>0. TypeOK /\ BranchInv /\ branch \in Seq(Entries)
  BY BranchIs DEF IInv
<1>1. CASE Token \/ ToolCall
  <2>1. PICK calls \in 0..MaxCalls : Assemble(calls, "") /\ pc = "stream"
    <3>1. /\ asst.calls \in 0..MaxCalls /\ MaxCalls \in Nat
          /\ asst.calls < MaxCalls => asst.calls + 1 \in 0..MaxCalls
      BY <1>0, BranchIs
    <3>2. QED BY <1>1, <3>1 DEF Token, ToolCall
  <2>2. Message("", calls) \in Entries /\ Message("", calls).stop = ""
    BY DEF Message, Entries
  <2>3. AllWhole /\ (Started => branch # <<>>)
    BY <1>0, <2>1, WholeUnlessOpen DEF BranchInv, Started
  <2>4. branch'[Len(branch')] = Message("", calls)
    BY <1>0, <2>1, <2>2, <2>3, LastIs DEF Assemble
  <2>5. QED BY <2>2, <2>4 DEF AssemblyInv, AnswerPlaces
<1>2. CASE Chat
  <2>1. ~asst'.started
    BY <1>2, Zenon DEF Chat, NoAsst
  <2>2. QED BY <2>1 DEF AssemblyInv
<1>3. CASE UNCHANGED vars \/ Cancel \/ StreamDone
  <2>1. branch' = branch /\ pc' = pc /\ asst'.started = asst.started
    BY <1>0, <1>3 DEF vars, Cancel, StreamDone, TypeOK
  <2>2. QED BY <2>1 DEF AssemblyInv, AnswerPlaces
<1>4. CASE ~(Token \/ ToolCall \/ Chat \/ UNCHANGED vars \/ Cancel \/ StreamDone)
  <2>1. pc' # "stream"
    BY <1>4
       DEF Next, Turn, Put, Fail, Goto, NextIteration, Begin, CancelledRun, TurnEnds, RetryTurn,
           WaitEnds, AppendUser, Continue, PreambleFails, AutoCompact, Prepared, IterCancelled,
           PrepareNextTurn, StripImages, ChatFails, StreamError, StreamCancelled, StreamEnds,
           NothingUsed, EmptyResponse, Answer, FollowUp, RejectCalls, ExecuteTools, SteerTools,
           ToolsStuck, AfterTools, FinalBegins, FinalChatFails, FinalOpens, FinalBreaks,
           FinalAnswer
  <2>2. QED BY <2>1 DEF AssemblyInv
<1>5. QED BY <1>1, <1>2, <1>3, <1>4

\* What a step does to the branch: nothing, it appends a message, writes the last one again or
\* takes it away; an answer is written again as an answer.
LEMMA BranchStepIs ==
  ASSUME IInv, AssemblyInv, TurnAssumption, [Next]_vars, pc # "preamble"
  PROVE  \/ branch' = branch
         \/ \E e \in Entries : branch' = Append(branch, e)
         \/ /\ branch # <<>>
            /\ \E e \in Entries :
                 /\ branch' = Append(Front(branch), e)
                 /\ Len(branch) \in AnswerPlaces => e.stop = "answer"
         \/ branch # <<>> /\ branch' = Front(branch) /\ Len(branch) \notin AnswerPlaces
<1>0. TypeOK /\ BranchInv /\ branch \in Seq(Entries)
  BY BranchIs DEF IInv
<1>1. \A open \in 0..MaxCalls, stop \in Failures \cup {"answer", ""} :
        Message(stop, open) \in Entries /\ Message(stop, open).stop = stop
  BY DEF Message, Entries
<1>2. /\ asst.calls \in 0..MaxCalls /\ 0 \in 0..MaxCalls
      /\ asst.calls < MaxCalls => asst.calls + 1 \in 0..MaxCalls
  BY <1>0, BranchIs
<1>3. CASE Token \/ ToolCall \/ StreamError \/ StreamEnds
  <2>1. pc = "stream" /\ (Started => branch # <<>> /\ Len(branch) \notin AnswerPlaces)
    BY <1>0, <1>3
       DEF BranchInv, AssemblyInv, Started, Token, ToolCall, StreamError, StreamEnds, Goto
  <2>2. \/ branch' = branch
        \/ \E open \in 0..MaxCalls, stop \in Failures \cup {"answer", ""} :
             branch' = IF Started THEN Append(Front(branch), Message(stop, open))
                       ELSE Append(branch, Message(stop, open))
    BY <1>2, <1>3 DEF Assemble, Token, ToolCall, StreamError, StreamEnds
  <2>3. QED BY <1>1, <2>1, <2>2
<1>4. CASE RejectCalls \/ ExecuteTools \/ FinalAnswer
  <2>1. branch # <<>> /\ branch' = Append(Front(branch), Message("answer", 0))
    BY <1>0, <1>4 DEF RejectCalls, ExecuteTools, FinalAnswer, BranchInv, Goto
  <2>2. QED BY <1>1, <1>2, <2>1
<1>5. CASE FinalOpens
  BY <1>1, <1>2, <1>5 DEF FinalOpens
<1>6. CASE RetryTurn
  <2>1. branch # <<>> /\ branch' = Front(branch) /\ branch[Len(branch)].stop = "retryable"
    BY <1>6 DEF RetryTurn, ShouldRetry, Last
  <2>2. QED BY <2>1 DEF AnswerPlaces
<1>7. CASE ~(\/ Token \/ ToolCall \/ StreamError \/ StreamEnds \/ RejectCalls \/ ExecuteTools
              \/ FinalAnswer \/ FinalOpens \/ RetryTurn)
  BY <1>7
     DEF Next, Turn, vars, Put, Begin, Cancel, CancelledRun, TurnEnds, WaitEnds, AppendUser,
         Continue, PreambleFails, AutoCompact, Prepared, IterCancelled, PrepareNextTurn, Chat,
         StripImages, ChatFails, StreamDone, StreamCancelled, NothingUsed, EmptyResponse, Answer,
         FollowUp, SteerTools, ToolsStuck, AfterTools, FinalBegins, FinalChatFails, FinalBreaks
<1>8. QED BY <1>3, <1>4, <1>5, <1>6, <1>7

\* An answer stays where it is.
LEMMA AnsweredStay ==
  ASSUME TurnAssumption, IInv, AssemblyInv, [Next]_vars, pc # "preamble"
  PROVE  AnswerPlaces \subseteq AnswerPlaces'
<1>0. branch \in Seq(Entries)
  BY BranchIs DEF IInv
<1>1. CASE branch' = branch
  BY <1>1 DEF AnswerPlaces
<1>2. ASSUME NEW e \in Entries, branch' = Append(branch, e)
      PROVE  AnswerPlaces \subseteq AnswerPlaces'
  BY <1>0, <1>2 DEF AnswerPlaces
<1>3. ASSUME branch # <<>>, NEW e \in Entries, branch' = Append(Front(branch), e),
             Len(branch) \in AnswerPlaces => e.stop = "answer"
      PROVE  AnswerPlaces \subseteq AnswerPlaces'
  <2>1. Len(branch) \in Nat \ {0} /\ Len(Front(branch)) = Len(branch) - 1
    <3>1. \A s \in Seq(Entries) : s # <<>> => Len(s) \in Nat /\ Len(s) # 0
      OBVIOUS
    <3>2. \A s \in Seq(Entries), m \in Nat : m <= Len(s) => Len(SubSeq(s, 1, m)) = m
      OBVIOUS
    <3>3. Len(branch) \in Nat \ {0} /\ Len(branch) - 1 \in Nat /\ Len(branch) - 1 <= Len(branch)
      BY <1>0, <1>3, <3>1
    <3>4. QED BY <1>0, <3>2, <3>3 DEF Front
  <2>2. DOMAIN branch' = DOMAIN branch /\ branch'[Len(branch)] = e
    <3>1. Front(branch) \in Seq(Entries)
      BY <1>0, <1>3, FrontIs
    <3> DEFINE front == Front(branch)
    <3>2. \A f \in Seq(Entries) : /\ DOMAIN Append(f, e) = 1..Len(f) + 1
                                  /\ Append(f, e)[Len(f) + 1] = e
      OBVIOUS
    <3>3. DOMAIN branch = 1..Len(branch)
      BY <1>0
    <3>4. DOMAIN branch' = 1..Len(front) + 1 /\ branch'[Len(front) + 1] = e
      BY <1>3, <3>1, <3>2
    <3> HIDE DEF front
    <3>5. Len(front) + 1 = Len(branch)
      BY <2>1 DEF front
    <3>6. QED BY <3>3, <3>4, <3>5
  <2>3. \A i \in DOMAIN branch : i # Len(branch) => branch'[i] = branch[i]
    BY <1>0, <1>3, <2>1 DEF Front
  <2>4. QED BY <1>3, <2>2, <2>3 DEF AnswerPlaces
<1>4. CASE branch # <<>> /\ branch' = Front(branch) /\ Len(branch) \notin AnswerPlaces
  <2>1. \A i \in DOMAIN branch : i # Len(branch) => i \in DOMAIN branch' /\ branch'[i] = branch[i]
    BY <1>0, <1>4 DEF Front
  <2>2. QED BY <1>4, <2>1 DEF AnswerPlaces
<1>5. QED BY <1>1, <1>2, <1>3, <1>4, BranchStepIs

\* A retry takes back the message that failed and nothing else: but for a compaction, the
\* branch never loses an answer.
THEOREM AnswersAreKept == TurnAssumption => (Spec => AnswersKept)
<1>1. SUFFICES ASSUME TurnAssumption PROVE Spec => AnswersKept
  OBVIOUS
<1>2. Init => AInv
  <2>1. Init => AssemblyInv
    BY DEF Init, AssemblyInv
  <2>2. QED BY <1>1, <2>1, InitIsIInv DEF AInv
<1>3. AInv /\ [Next]_vars => AInv'
  BY <1>1, IInvKeeps, AssemblyKeeps DEF AInv
<1>4. AInv /\ [Next]_vars => [pc # "preamble" => Answers' >= Answers]_vars
  <2>1. SUFFICES ASSUME AInv, [Next]_vars, pc # "preamble"
                 PROVE  Answers' >= Answers
    OBVIOUS
  <2>2. AnswerPlaces \subseteq AnswerPlaces'
    BY <1>1, <2>1, AnsweredStay DEF AInv
  <2>3. AInv'
    BY <1>3, <2>1
  <2>4. Len(branch') \in Nat /\ DOMAIN branch' = 1..Len(branch')
    <3>1. branch' \in Seq(Entries')
      BY <2>3 DEF AInv, IInv, TypeOK
    <3>2. QED BY <3>1
  <2>5. IsFiniteSet(AnswerPlaces') /\ AnswerPlaces' \subseteq 1..Len(branch')
    <3>1. IsFiniteSet(1..Len(branch'))
      BY <2>4, FS_Interval
    <3>2. AnswerPlaces' \subseteq 1..Len(branch')
      BY <2>4 DEF AnswerPlaces
    <3>3. QED BY <3>1, <3>2, FS_Subset
  <2>6. /\ Cardinality(AnswerPlaces) <= Cardinality(AnswerPlaces')
        /\ Cardinality(AnswerPlaces) \in Nat /\ Cardinality(AnswerPlaces') \in Nat
    BY <2>2, <2>5, FS_Subset, FS_CardinalityType
  <2>7. QED BY <2>6 DEF Answers
<1>5. QED BY <1>2, <1>3, <1>4, PTL DEF Spec, AnswersKept

-----------------------------------------------------------------------------
(* The session bound to the service (SessionBinding), of which a turn reads *)
(* the manager and the path one after the other.                           *)

\* Every operation and every agent has the session that its stage needs.
SessionTypes ==
  /\ made \in SB!Ids /\ Sessions \in 1..made /\ SessPath = Sessions
  /\ file \in [SB!Ids -> 0..made] /\ moved \in SUBSET (1..made) /\ deleted \in SUBSET (1..made)
RunType ==
  /\ sessionRun \in [pc : {"idle", "start", "path", "turn"}, mgr : 0..made, path : 0..made,
                     cancelled : BOOLEAN]
  /\ sessionRun.pc = "idle" => sessionRun.mgr = 0
  /\ sessionRun.pc \in {"path", "turn"} => sessionRun.mgr # 0
  /\ sessionRun.pc = "turn" => sessionRun.path # 0
OpType ==
  /\ op \in [kind : SB!Guarded \cup {"none", "borrow", "switch", "new", "delete"},
             at : {"idle", "checked", "bind", "save", "borrowed", "wait", "replace", "remove",
                   "removed"},
             target : 0..made]
  /\ op.at \in {"bind", "borrowed", "remove", "removed"} \/ op.kind \in {"open", "switch"} =>
       op.target # 0
  /\ op.at \in {"remove", "removed"} => op.kind = "delete"
CountTypes ==
  /\ runs \in 0..MaxRuns /\ ops \in 0..MaxOps
  /\ strayed \in BOOLEAN /\ overlapped \in BOOLEAN
SessionsTyped == SessionTypes /\ RunType /\ OpType /\ CountTypes

\* Beside a run an operation waits for its end, is refused, or deletes another session.
Beside ==
  \/ op.at \in {"idle", "wait"} \/ (op.at = "replace" /\ op.kind = "switch")
  \/ op.at \in {"remove", "removed"} /\ op.target # Sessions

\* The agent of a run has the session that is bound, whose leaf is where the run left it.
RunInv ==
  sessionRun.pc # "idle" =>
    /\ Beside /\ moved = {}
    /\ sessionRun.mgr \in {0, Sessions}
    /\ sessionRun.pc = "turn" => sessionRun.path = Sessions

\* Only a session that is being deleted is bound and deleted, and none is about to be bound.
DeletedInv ==
  /\ Sessions \in deleted => op.at = "removed" /\ op.target = Sessions
  /\ op.at = "bind" \/ op.kind \in {"open", "switch"} => op.target \notin deleted

BindingInv ==
  ~overlapped =>
    /\ ~strayed
    /\ \A p \in SB!Ids : file[p] \in {0, p}
    /\ \A t \in deleted : file[t] = 0
    /\ RunInv /\ DeletedInv

SInv == SessionsTyped /\ BindingInv

LEMMA SessionBounds ==
  ASSUME SB!BoundsAssumption
  PROVE  MaxSessions \in Nat /\ MaxRuns \in Nat /\ MaxOps \in Nat
BY DEF SB!BoundsAssumption

LEMMA RangeGrows ==
  ASSUME NEW m \in Nat, NEW n \in {m, m + 1}
  PROVE  0..m \subseteq 0..n /\ 1..m \subseteq 1..n
OBVIOUS

\* The steps of the run.
LEMMA RunStepTyped ==
  ASSUME SB!BoundsAssumption, SessionsTyped, SB!Run
  PROVE  SessionsTyped'
<1>1. UNCHANGED <<Sessions, SessPath, made, op, ops, deleted>>
  BY DEF SB!Run, SB!RunBegins, SB!ReadSessions, SB!ReadSessPath, SB!AppendMessage, SB!SaveSession,
         SB!RetryTurn, SB!RunEnds, SB!binding, SB!bounds, SB!history
<1>2. /\ made \in SB!Ids /\ Sessions \in 1..made /\ SessPath = Sessions /\ OpType
      /\ file \in [SB!Ids -> 0..made] /\ moved \in SUBSET (1..made) /\ deleted \in SUBSET (1..made)
      /\ MaxSessions \in Nat /\ MaxRuns \in Nat /\ runs \in 0..MaxRuns /\ RunType
  BY SessionBounds DEF SessionsTyped, SessionTypes, CountTypes
<1>3. made \in Nat /\ 0 \in 0..made /\ Sessions \in 0..made /\ Sessions # 0
  BY <1>2 DEF SB!Ids
<1>4. OpType'
  BY <1>1, <1>2 DEF OpType
<1>5. CountTypes'
  <2>1. runs' = runs \/ (runs < MaxRuns /\ runs' = runs + 1)
    BY DEF SB!Run, SB!RunBegins, SB!ReadSessions, SB!ReadSessPath, SB!AppendMessage, SB!SaveSession,
           SB!RetryTurn, SB!RunEnds, SB!bounds
  <2>2. runs' \in 0..MaxRuns
    BY <1>2, <2>1
  <2>3. /\ overlapped' \in {overlapped, TRUE, FALSE} /\ strayed' \in {strayed, TRUE, FALSE}
    BY DEF SB!Run, SB!RunBegins, SB!ReadSessions, SB!ReadSessPath, SB!AppendMessage, SB!SaveSession,
           SB!RetryTurn, SB!RunEnds, SB!history
  <2>4. QED BY <1>1, <2>2, <2>3 DEF SessionsTyped, CountTypes
<1>6. RunType'
  <2>1. CASE SB!RunBegins
    BY <1>1, <1>3, <2>1 DEF SB!RunBegins, SB!NoRun, RunType
  <2>2. CASE SB!ReadSessions
    BY <1>1, <1>2, <1>3, <2>2 DEF SB!ReadSessions, RunType
  <2>3. CASE SB!ReadSessPath
    BY <1>1, <1>2, <1>3, <2>3 DEF SB!ReadSessPath, RunType
  <2>4. CASE SB!AppendMessage \/ SB!SaveSession
    BY <1>1, <1>2, <2>4 DEF SB!AppendMessage, SB!SaveSession, RunType
  <2>5. CASE SB!RetryTurn
    BY <1>1, <1>2, <2>5 DEF SB!RetryTurn, RunType
  <2>6. CASE SB!RunEnds
    BY <1>1, <1>3, <2>6 DEF SB!RunEnds, SB!NoRun, RunType
  <2>7. QED BY <2>1, <2>2, <2>3, <2>4, <2>5, <2>6 DEF SB!Run
<1>7. SessionTypes'
  <2>1. file' \in [SB!Ids -> 0..made]
    <3>1. CASE SB!SaveSession
      <4>1. sessionRun.mgr \in 0..made
        BY <1>2 DEF RunType
      <4>2. file' = [file EXCEPT ![sessionRun.path] = sessionRun.mgr]
        BY <3>1 DEF SB!SaveSession, SB!Saved
      <4>3. QED BY <1>2, <4>1, <4>2
    <3>2. CASE ~SB!SaveSession
      BY <1>2, <3>2
         DEF SB!Run, SB!RunBegins, SB!ReadSessions, SB!ReadSessPath, SB!AppendMessage, SB!RetryTurn,
             SB!RunEnds
    <3>3. QED BY <3>1, <3>2
  <2>2. moved' \subseteq moved
    BY DEF SB!Run, SB!RunBegins, SB!ReadSessions, SB!ReadSessPath, SB!AppendMessage, SB!SaveSession,
           SB!RetryTurn, SB!RunEnds
  <2>3. QED BY <1>1, <1>2, <2>1, <2>2 DEF SessionTypes
<1>8. QED BY <1>4, <1>5, <1>6, <1>7 DEF SessionsTyped

\* The steps of the client.
LEMMA ClientStepTyped ==
  ASSUME SB!BoundsAssumption, SessionsTyped, SB!Client
  PROVE  SessionsTyped'
<1> USE DEF SB!Client, SB!Check, SB!Fails, SB!OpenSession, SB!CloneSession, SB!BindClone,
            SB!MoveLeaf,
            SB!SaveMoved, SB!BorrowLeaf, SB!ReturnLeaf, SB!AbortRun, SB!RunIsOver, SB!SwitchSession,
            SB!SwitchRefused, SB!NewSession, SB!CheckDelete, SB!RemoveFile, SB!DeleteSession,
            SB!AppendEntry, SB!binding, SB!bounds, SB!history, SB!Begin, SB!Bind, SB!Done, SB!Saved
<1>1. /\ made \in SB!Ids /\ Sessions \in 1..made /\ SessPath = Sessions /\ OpType
      /\ file \in [SB!Ids -> 0..made] /\ moved \in SUBSET (1..made) /\ deleted \in SUBSET (1..made)
      /\ MaxSessions \in Nat /\ MaxOps \in Nat /\ ops \in 0..MaxOps /\ RunType
  BY SessionBounds DEF SessionsTyped, SessionTypes, CountTypes
<1>2. made \in Nat /\ 0 \in 0..made /\ Sessions \in 0..made /\ Sessions # 0
  BY <1>1 DEF SB!Ids
<1>3. made' = made \/ (made' = made + 1 /\ made < MaxSessions)
  OBVIOUS
<1>4. 0..made \subseteq 0..made' /\ 1..made \subseteq 1..made' /\ made' \in SB!Ids
  BY <1>1, <1>2, <1>3, RangeGrows DEF SB!Ids
<1>5. op.at \in {"bind", "borrowed", "remove", "removed"} \/ op.kind \in {"open", "switch"} =>
        op.target \in 1..made
  <2>1. op.target \in 0..made
    BY <1>1 DEF OpType
  <2>2. QED BY <1>1, <1>2, <2>1 DEF OpType
<1>6. CountTypes'
  <2>1. ops' = ops \/ (ops < MaxOps /\ ops' = ops + 1)
    OBVIOUS
  <2>2. ops' \in 0..MaxOps /\ UNCHANGED <<runs, strayed>>
    BY <1>1, <2>1
  <2>3. overlapped' \in {overlapped, TRUE, FALSE}
    OBVIOUS
  <2>4. QED BY <2>2, <2>3 DEF SessionsTyped, CountTypes
<1>7. RunType'
  <2>1. CASE sessionRun' = sessionRun
    BY <1>1, <1>4, <2>1 DEF RunType
  <2>2. CASE sessionRun' = [sessionRun EXCEPT !.cancelled = SB!streaming]
    BY <1>1, <1>4, <2>2 DEF RunType, SB!streaming
  <2>3. QED BY <2>1, <2>2
<1>8. OpType'
  <2>1. CASE SB!Check \/ SB!AbortRun \/ SB!CheckDelete \/ SB!BorrowLeaf
    BY <1>1, <1>2, <1>4, <2>1 DEF OpType, SB!Guarded
  <2>2. CASE op' = SB!NoOp
    BY <1>2, <1>4, <2>2 DEF OpType, SB!NoOp
  <2>3. CASE SB!CloneSession
    <3>1. made' \in 0..made' /\ made' # 0 /\ op' = [op EXCEPT !.at = "bind", !.target = made']
      BY <1>2, <2>3
    <3>2. QED BY <1>1, <1>4, <3>1 DEF OpType
  <2>4. CASE SB!MoveLeaf
    BY <1>1, <1>4, <2>4 DEF OpType
  <2>5. CASE SB!RemoveFile
    BY <1>1, <1>4, <2>5 DEF OpType
  <2>6. CASE SB!RunIsOver \/ SB!SwitchSession \/ SB!AppendEntry
    BY <1>1, <1>4, <2>2, <2>6 DEF OpType, SB!Guarded
  <2>7. QED BY <2>1, <2>2, <2>3, <2>4, <2>5, <2>6
<1>9. SessionTypes'
  <2>1. /\ Sessions' \in 1..made' /\ SessPath' = Sessions'
    BY <1>1, <1>2, <1>4, <1>5
  <2>2. file' \in [SB!Ids -> 0..made']
    BY <1>1, <1>2, <1>4
  <2>3. moved' \in SUBSET (1..made')
    BY <1>1, <1>4
  <2>4. deleted' \in SUBSET (1..made')
    BY <1>1, <1>4, <1>5
  <2>5. QED BY <1>4, <2>1, <2>2, <2>3, <2>4 DEF SessionTypes
<1>10. QED BY <1>6, <1>7, <1>8, <1>9 DEF SessionsTyped

\* What is overlapped stays so.
LEMMA OverlapStays ==
  ASSUME SessionsTyped, SB!Run \/ SB!Client, ~overlapped'
  PROVE  ~overlapped
<1>1. overlapped' = overlapped \/ (\E b \in BOOLEAN : overlapped' = (overlapped \/ b))
  <2>1. overlapped \in BOOLEAN /\ SB!Rechecked \in BOOLEAN /\ SB!streaming \in BOOLEAN
    BY DEF SessionsTyped, CountTypes, SB!Rechecked, SB!streaming
  <2>2. \/ overlapped' = overlapped \/ overlapped' = (overlapped \/ ~SB!Rechecked)
        \/ overlapped' = (overlapped \/ SB!streaming)
    BY DEF SB!Run, SB!Client, SB!RunBegins, SB!ReadSessions, SB!ReadSessPath, SB!AppendMessage,
           SB!SaveSession, SB!RetryTurn, SB!RunEnds, SB!Check, SB!Fails, SB!OpenSession,
           SB!CloneSession, SB!BindClone, SB!MoveLeaf, SB!SaveMoved, SB!BorrowLeaf, SB!ReturnLeaf,
           SB!AbortRun, SB!RunIsOver, SB!SwitchSession, SB!SwitchRefused, SB!NewSession,
           SB!CheckDelete, SB!RemoveFile, SB!DeleteSession, SB!AppendEntry, SB!history
  <2>3. QED BY <2>1, <2>2
<1>2. QED BY <1>1

LEMMA RunBinds ==
  ASSUME SessionsTyped, BindingInv, SB!Run
  PROVE  BindingInv'
<1>1. SUFFICES ASSUME ~overlapped' PROVE BindingInv'
  BY DEF BindingInv
<1>2. /\ ~strayed /\ RunInv /\ DeletedInv
      /\ \A p \in SB!Ids : file[p] \in {0, p}
      /\ \A t \in deleted : file[t] = 0
  BY <1>1, OverlapStays DEF BindingInv
<1>3. UNCHANGED <<Sessions, SessPath, made, op, ops, deleted>>
  BY DEF SB!Run, SB!RunBegins, SB!ReadSessions, SB!ReadSessPath, SB!AppendMessage, SB!SaveSession,
         SB!RetryTurn, SB!RunEnds, SB!binding, SB!bounds, SB!history
<1>4. /\ made \in SB!Ids /\ Sessions \in 1..made /\ SessPath = Sessions /\ RunType
      /\ file \in [SB!Ids -> 0..made] /\ moved \in SUBSET (1..made) /\ deleted \in SUBSET (1..made)
  BY DEF SessionsTyped, SessionTypes
<1>5. DeletedInv'
  BY <1>2, <1>3 DEF DeletedInv
<1>6. RunInv'
  <2>1. CASE SB!RunBegins
    <3>1. SB!Rechecked
      BY <1>1, <2>1 DEF SB!RunBegins
    <3>2. QED BY <1>3, <2>1, <3>1 DEF SB!RunBegins, SB!NoRun, SB!Rechecked, RunInv, Beside
  <2>2. CASE SB!ReadSessions
    BY <1>2, <1>3, <1>4, <2>2 DEF SB!ReadSessions, RunType, RunInv, Beside
  <2>3. CASE SB!ReadSessPath
    BY <1>2, <1>3, <1>4, <2>3 DEF SB!ReadSessPath, RunType, RunInv, Beside
  <2>4. CASE SB!AppendMessage \/ SB!SaveSession
    BY <1>2, <1>3, <2>4 DEF SB!AppendMessage, SB!SaveSession, RunInv, Beside
  <2>5. CASE SB!RetryTurn
    BY <1>2, <1>3, <1>4, <2>5 DEF SB!RetryTurn, RunType, RunInv, Beside
  <2>6. CASE SB!RunEnds
    BY <2>6 DEF SB!RunEnds, SB!NoRun, RunInv
  <2>7. QED BY <2>1, <2>2, <2>3, <2>4, <2>5, <2>6 DEF SB!Run
<1>7. ~strayed' /\ (\A p \in SB!Ids : file'[p] \in {0, p}) /\ (\A t \in deleted' : file'[t] = 0)
  <2>1. CASE SB!AppendMessage
    <3>1. moved = {}
      BY <1>2, <2>1 DEF SB!AppendMessage, RunInv
    <3>2. QED BY <1>2, <1>3, <2>1, <3>1 DEF SB!AppendMessage
  <2>2. CASE SB!SaveSession
    <3>1. sessionRun.pc = "turn"
      BY <2>2 DEF SB!SaveSession
    <3>2. sessionRun.mgr = Sessions /\ sessionRun.path = Sessions
      BY <1>2, <1>4, <3>1 DEF RunType, RunInv
    <3>3. Sessions \notin deleted
      BY <1>2, <3>1 DEF RunInv, Beside, DeletedInv
    <3>4. file' = [file EXCEPT ![Sessions] = Sessions] /\ strayed' = strayed
      BY <2>2, <3>2 DEF SB!SaveSession, SB!Saved, SB!history
    <3>5. QED BY <1>2, <1>3, <1>4, <3>3, <3>4
  <2>3. CASE ~SB!AppendMessage /\ ~SB!SaveSession
    <3>1. file' = file /\ strayed' = strayed
      BY <2>3 DEF SB!Run, SB!RunBegins, SB!ReadSessions, SB!ReadSessPath, SB!RetryTurn, SB!RunEnds,
                  SB!history
    <3>2. QED BY <1>2, <1>3, <3>1
  <2>4. QED BY <2>1, <2>2, <2>3
<1>8. QED BY <1>5, <1>6, <1>7 DEF BindingInv

LEMMA ClientBinds ==
  ASSUME SB!BoundsAssumption, SessionsTyped, BindingInv, SB!Client
  PROVE  BindingInv'
<1> USE DEF SB!Begin, SB!Bind, SB!Done, SB!Saved, SB!NoOp, SB!binding, SB!bounds, SB!history
<1>1. SUFFICES ASSUME ~overlapped' PROVE BindingInv'
  BY DEF BindingInv
<1>2. /\ ~overlapped /\ ~strayed /\ RunInv /\ DeletedInv
      /\ \A p \in SB!Ids : file[p] \in {0, p}
      /\ \A t \in deleted : file[t] = 0
  BY <1>1, OverlapStays DEF BindingInv
<1>3. /\ made \in SB!Ids /\ Sessions \in 1..made /\ SessPath = Sessions /\ OpType /\ RunType
      /\ file \in [SB!Ids -> 0..made] /\ moved \in SUBSET (1..made) /\ deleted \in SUBSET (1..made)
      /\ op.target \in 0..made
  BY DEF SessionsTyped, SessionTypes, OpType
<1>4. made \in Nat /\ made + 1 \notin deleted /\ made + 1 # 0
  BY <1>3 DEF SB!Ids
<1>5. ~strayed'
  BY <1>2
     DEF SB!Client, SB!Check, SB!Fails, SB!OpenSession, SB!CloneSession, SB!BindClone, SB!MoveLeaf,
         SB!SaveMoved, SB!BorrowLeaf, SB!ReturnLeaf, SB!AbortRun, SB!RunIsOver, SB!SwitchSession,
         SB!SwitchRefused, SB!NewSession, SB!CheckDelete, SB!RemoveFile, SB!DeleteSession,
         SB!AppendEntry
\* The files.
<1>6. \A p \in SB!Ids : file'[p] \in {0, p}
  BY <1>2, <1>3, <1>4
     DEF SB!Client, SB!Check, SB!Fails, SB!OpenSession, SB!CloneSession, SB!BindClone, SB!MoveLeaf,
         SB!SaveMoved, SB!BorrowLeaf, SB!ReturnLeaf, SB!AbortRun, SB!RunIsOver, SB!SwitchSession,
         SB!SwitchRefused, SB!NewSession, SB!CheckDelete, SB!RemoveFile, SB!DeleteSession,
         SB!AppendEntry
<1>7. \A t \in deleted' : file'[t] = 0
  <2>1. CASE SB!SaveMoved \/ SB!AppendEntry
    <3>1. Sessions \notin deleted /\ file' = [file EXCEPT ![Sessions] = Sessions] /\ deleted' = deleted
      BY <1>2, <1>3, <2>1 DEF SB!SaveMoved, SB!AppendEntry, DeletedInv
    <3>2. QED BY <1>2, <1>3, <3>1
  <2>2. CASE SB!CloneSession
    BY <1>2, <1>3, <1>4, <2>2 DEF SB!CloneSession
  <2>3. CASE SB!RemoveFile
    <3>1. op.at = "remove" /\ file' = [file EXCEPT ![op.target] = 0] /\ deleted' = deleted \cup {op.target}
      BY <2>3 DEF SB!RemoveFile
    <3>2. op.target # 0
      BY <1>3, <3>1 DEF OpType
    <3>3. op.target \in SB!Ids
      BY <1>3, <1>4, <3>2, SessionBounds DEF SB!Ids
    <3>4. QED BY <1>2, <1>3, <3>1, <3>3
  <2>4. CASE ~(SB!SaveMoved \/ SB!AppendEntry \/ SB!CloneSession \/ SB!RemoveFile)
    <3>1. file' = file /\ deleted' = deleted
      BY <2>4
         DEF SB!Client, SB!Check, SB!Fails, SB!OpenSession, SB!BindClone, SB!MoveLeaf,
             SB!BorrowLeaf,
             SB!ReturnLeaf, SB!AbortRun, SB!RunIsOver, SB!SwitchSession, SB!SwitchRefused,
             SB!NewSession, SB!CheckDelete, SB!DeleteSession
    <3>2. QED BY <1>2, <3>1
  <2>5. QED BY <2>1, <2>2, <2>3, <2>4
\* The sessions that are deleted.
<1>8. DeletedInv'
  <2>1. CASE SB!Check \/ SB!AbortRun
    <3>1. PICK t \in 0..made :
            /\ op'.target = t /\ t \notin deleted /\ UNCHANGED <<Sessions, deleted>>
            /\ op.at = "idle" /\ op'.at # "bind"
      <4>1. 0 \in 0..made /\ 0 \notin deleted /\ \A t \in 1..made : file[t] # 0 => t \in 0..made /\ t \notin deleted
        BY <1>2, <1>3, <1>4
      <4>2. QED BY <2>1, <4>1 DEF SB!Check, SB!AbortRun
    <3>2. QED BY <1>2, <3>1 DEF DeletedInv
  <2>2. CASE SB!Fails \/ SB!SwitchRefused \/ SB!SaveMoved \/ SB!ReturnLeaf
    BY <1>2, <2>2 DEF SB!Fails, SB!SwitchRefused, SB!SaveMoved, SB!ReturnLeaf, DeletedInv
  <2>3. CASE SB!OpenSession \/ SB!BindClone
    BY <1>2, <2>3 DEF SB!OpenSession, SB!BindClone, DeletedInv
  <2>4. CASE SB!CloneSession
    <3>1. op'.at = "bind" /\ op'.target = made + 1 /\ op.at = "checked" /\ UNCHANGED <<Sessions, deleted>>
      BY <1>3, <2>4 DEF SB!CloneSession, OpType
    <3>2. QED BY <1>2, <1>4, <3>1 DEF DeletedInv
  <2>5. CASE SB!MoveLeaf
    <3>1. /\ op'.at = "save" /\ op'.kind = op.kind /\ op'.target = op.target /\ op.at = "checked"
          /\ UNCHANGED <<Sessions, deleted>>
      BY <1>3, <2>5 DEF SB!MoveLeaf, OpType
    <3>2. QED BY <1>2, <3>1 DEF DeletedInv
  <2>6. CASE SB!BorrowLeaf \/ SB!CheckDelete
    BY <1>2, <2>6 DEF SB!BorrowLeaf, SB!CheckDelete, DeletedInv
  <2>7. CASE SB!RunIsOver
    <3>1. /\ op.at = "wait" /\ UNCHANGED <<Sessions, deleted>>
          /\ \/ op'.at = "replace" /\ op'.kind = op.kind /\ op'.target = op.target
             \/ op'.at = "idle" /\ op'.kind = "none"
      BY <1>3, <2>7 DEF SB!RunIsOver, OpType
    <3>2. QED BY <1>2, <3>1 DEF DeletedInv
  <2>8. CASE SB!SwitchSession
    <3>1. /\ op.at = "replace" /\ op.kind = "switch" /\ UNCHANGED <<Sessions, deleted>>
          /\ op'.at = "checked" /\ op'.target = op.target
      BY <1>3, <2>8 DEF SB!SwitchSession, OpType
    <3>2. QED BY <1>2, <3>1 DEF DeletedInv
  <2>9. CASE SB!NewSession
    BY <1>2, <1>4, <2>9 DEF SB!NewSession, DeletedInv
  <2>10. CASE SB!RemoveFile
    <3>1. /\ op.at = "remove" /\ op'.at = "removed" /\ op'.target = op.target /\ op'.kind = op.kind
          /\ Sessions' = Sessions /\ deleted' = deleted \cup {op.target}
      BY <1>3, <2>10 DEF SB!RemoveFile, OpType
    <3>2. op.kind = "delete"
      BY <1>3, <3>1 DEF OpType
    <3>3. QED BY <1>2, <3>1, <3>2 DEF DeletedInv
  <2>11. CASE SB!DeleteSession
    BY <1>2, <1>3, <1>4, <2>11 DEF SB!DeleteSession, DeletedInv
  <2>12. CASE SB!AppendEntry
    BY <1>2, <2>12 DEF SB!AppendEntry, DeletedInv
  <2>13. QED
    BY <2>1, <2>2, <2>3, <2>4, <2>5, <2>6, <2>7, <2>8, <2>9, <2>10, <2>11, <2>12 DEF SB!Client
\* The run.
<1>9. RunInv'
  <2>1. SUFFICES ASSUME sessionRun'.pc # "idle" PROVE RunInv'
    BY DEF RunInv
  <2>2. /\ sessionRun'.pc = sessionRun.pc /\ sessionRun'.mgr = sessionRun.mgr
        /\ sessionRun'.path = sessionRun.path
    BY <1>3
       DEF RunType, SB!Client, SB!Check, SB!Fails, SB!OpenSession, SB!CloneSession, SB!BindClone,
           SB!MoveLeaf, SB!SaveMoved, SB!BorrowLeaf, SB!ReturnLeaf, SB!AbortRun, SB!RunIsOver,
           SB!SwitchSession, SB!SwitchRefused, SB!NewSession, SB!CheckDelete, SB!RemoveFile,
           SB!DeleteSession, SB!AppendEntry
  <2>3. /\ SB!streaming /\ Beside /\ moved = {} /\ sessionRun.mgr \in {0, Sessions}
        /\ sessionRun.pc = "turn" => sessionRun.path = Sessions
    BY <1>2, <2>1, <2>2 DEF RunInv, SB!streaming
  <2>4. ~SB!Check /\ ~SB!BorrowLeaf /\ ~SB!RunIsOver /\ ~SB!SwitchSession
    BY <1>1, <2>3 DEF SB!Check, SB!BorrowLeaf, SB!RunIsOver, SB!SwitchSession
  <2>5. ~(SB!Fails \/ SB!OpenSession \/ SB!CloneSession \/ SB!BindClone \/ SB!MoveLeaf
          \/ SB!SaveMoved \/ SB!ReturnLeaf \/ SB!NewSession)
    BY <2>3 DEF Beside, SB!Fails, SB!OpenSession, SB!CloneSession, SB!BindClone, SB!MoveLeaf,
                SB!SaveMoved, SB!ReturnLeaf, SB!NewSession
  <2>6. UNCHANGED <<Sessions, moved>> /\ Beside'
    <3>1. CASE SB!AbortRun \/ SB!CheckDelete
      BY <1>3, <2>3, <3>1 DEF SB!AbortRun, SB!CheckDelete, Beside
    <3>2. CASE SB!SwitchRefused
      BY <3>2 DEF SB!SwitchRefused, Beside
    <3>3. CASE SB!RemoveFile
      BY <1>3, <2>3, <3>3 DEF SB!RemoveFile, OpType, Beside
    <3>4. CASE SB!DeleteSession
      BY <1>3, <2>3, <3>4 DEF SB!DeleteSession, Beside
    <3>5. CASE SB!AppendEntry
      BY <2>3, <3>5 DEF SB!AppendEntry, Beside
    <3>6. QED BY <2>4, <2>5, <3>1, <3>2, <3>3, <3>4, <3>5 DEF SB!Client
  <2>7. QED BY <2>2, <2>3, <2>6 DEF RunInv
<1>10. QED BY <1>5, <1>6, <1>7, <1>8, <1>9 DEF BindingInv

LEMMA SInvHolds ==
  ASSUME SB!BoundsAssumption
  PROVE  SB!Spec => []SInv
<1>1. SB!Init => SInv
  <2>1. SUFFICES ASSUME SB!Init PROVE SInv
    OBVIOUS
  <2>2. 1 \in SB!Ids /\ 1 \in 1..1 /\ 0 \in 0..1 /\ 0 \in 0..MaxRuns /\ 0 \in 0..MaxOps
    BY DEF SB!BoundsAssumption, SB!Ids
  <2>3. /\ Sessions = 1 /\ SessPath = 1 /\ made = 1 /\ file = [p \in SB!Ids |-> 0]
        /\ moved = {} /\ deleted = {}
        /\ sessionRun = [pc |-> "idle", mgr |-> 0, path |-> 0, cancelled |-> FALSE]
        /\ op = [kind |-> "none", at |-> "idle", target |-> 0]
        /\ runs = 0 /\ ops = 0 /\ strayed = FALSE /\ overlapped = FALSE
    BY <2>1, Zenon DEF SB!Init, SB!NoRun, SB!NoOp
  <2>4. SessionTypes
    BY <2>2, <2>3 DEF SessionTypes
  <2>5. RunType
    BY <2>2, <2>3 DEF RunType
  <2>6. OpType
    BY <2>2, <2>3 DEF OpType
  <2>7. CountTypes
    BY <2>2, <2>3 DEF CountTypes
  <2>8. BindingInv
    BY <2>3 DEF BindingInv, RunInv, DeletedInv
  <2>9. QED BY <2>4, <2>5, <2>6, <2>7, <2>8 DEF SInv, SessionsTyped
<1>2. SInv /\ [SB!Next]_(SB!vars) => SInv'
  <2>1. CASE SB!Run
    BY <2>1, RunStepTyped, RunBinds DEF SInv
  <2>2. CASE SB!Client
    BY <2>2, ClientStepTyped, ClientBinds DEF SInv
  <2>3. CASE UNCHANGED SB!vars
    BY <2>3 DEF SB!vars, SInv, SessionsTyped, SessionTypes, RunType, OpType, CountTypes, BindingInv,
                RunInv, DeletedInv, Beside
  <2>4. QED BY <2>1, <2>2, <2>3 DEF SB!Next
<1>3. QED BY <1>1, <1>2, PTL DEF SB!Spec

\* Whatever a client opens, clones, forks, compacts or deletes beside the runs of the agent:
\* each file holds its own session or none, that of a deleted session does not come back, and
\* a run with all its retries writes to one session, one message behind the other, unless it
\* began while an operation that had looked for runs was under way.
THEOREM SessionsAreKept == SB!Spec => SessionsKept
<1>1. SB!BoundsAssumption
  BY PartsAssumption
<1>2. SInv => SB!TypeOK /\ SB!OwnFiles /\ SB!OneBranch /\ SB!DeletedStaysDeleted
  <2>1. SUFFICES ASSUME SInv
                 PROVE  SB!TypeOK /\ SB!OwnFiles /\ SB!OneBranch /\ SB!DeletedStaysDeleted
    OBVIOUS
  <2>2. SB!OwnFiles /\ SB!OneBranch /\ SB!DeletedStaysDeleted
    BY <2>1 DEF SInv, BindingInv, SB!OwnFiles, SB!OneBranch, SB!DeletedStaysDeleted
  <2>3. SB!TypeOK
    <3>1. /\ made \in SB!Ids /\ {Sessions, SessPath} \subseteq 1..made
          /\ file \in [SB!Ids -> 0..made] /\ moved \in SUBSET (1..made) /\ deleted \in SUBSET (1..made)
      BY <2>1 DEF SInv, SessionsTyped, SessionTypes
    <3>2. /\ sessionRun.pc \in {"idle", "start", "path", "turn"} /\ sessionRun.cancelled \in BOOLEAN
      BY <2>1 DEF SInv, SessionsTyped, RunType
    <3>3. sessionRun.pc = "turn" => {sessionRun.mgr, sessionRun.path} \subseteq 1..made
      <4>1. made \in Nat
        BY <3>1 DEF SB!Ids
      <4>2. /\ sessionRun.mgr \in 0..made /\ sessionRun.path \in 0..made
            /\ sessionRun.pc = "turn" => sessionRun.mgr # 0 /\ sessionRun.path # 0
        BY <2>1 DEF SInv, SessionsTyped, RunType
      <4>3. QED BY <4>1, <4>2
    <3>4. /\ op.kind \in SB!Guarded \cup {"none", "borrow", "switch", "new", "delete"}
          /\ op.at \in {"idle", "checked", "bind", "save", "borrowed", "wait", "replace", "remove",
                        "removed"}
          /\ op.target \in 0..made
      BY <2>1 DEF SInv, SessionsTyped, OpType
    <3>5. /\ runs \in 0..MaxRuns /\ ops \in 0..MaxOps /\ {strayed, overlapped} \subseteq BOOLEAN
      BY <2>1 DEF SInv, SessionsTyped, CountTypes
    <3>6. QED BY <3>1, <3>2, <3>3, <3>4, <3>5 DEF SB!TypeOK
  <2>4. QED BY <2>2, <2>3
<1>3. SInv /\ SInv' /\ [SB!Next]_(SB!vars) =>
        [sessionRun.mgr # 0 /\ sessionRun'.mgr # 0 /\ ~overlapped'
           => sessionRun'.mgr = sessionRun.mgr]_(SB!vars)
  <2>1. SUFFICES ASSUME SInv, SB!Next, sessionRun.mgr # 0, sessionRun'.mgr # 0, ~overlapped'
                 PROVE  sessionRun'.mgr = sessionRun.mgr
    OBVIOUS
  <2>2. RunType /\ RunInv
    BY <2>1, OverlapStays DEF SB!Next, SInv, SessionsTyped, BindingInv
  <2>3. sessionRun.pc # "idle" /\ sessionRun.mgr = Sessions
    BY <2>1, <2>2 DEF RunType, RunInv
  <2>4. \/ sessionRun'.mgr = sessionRun.mgr \/ sessionRun'.mgr = Sessions \/ sessionRun'.mgr = 0
    <3>1. CASE SB!Client
      BY <2>2, <3>1
         DEF RunType, SB!Client, SB!Check, SB!Fails, SB!OpenSession, SB!CloneSession, SB!BindClone,
             SB!MoveLeaf, SB!SaveMoved, SB!BorrowLeaf, SB!ReturnLeaf, SB!AbortRun, SB!RunIsOver,
             SB!SwitchSession, SB!SwitchRefused, SB!NewSession, SB!CheckDelete, SB!RemoveFile,
             SB!DeleteSession, SB!AppendEntry
    <3>2. CASE SB!RunBegins \/ SB!RunEnds
      <4>1. sessionRun' = SB!NoRun \/ sessionRun' = [SB!NoRun EXCEPT !.pc = "start"]
        BY <3>2 DEF SB!RunBegins, SB!RunEnds
      <4>2. QED BY <4>1 DEF SB!NoRun
    <3>3. CASE \/ SB!ReadSessions \/ SB!ReadSessPath \/ SB!AppendMessage \/ SB!SaveSession
               \/ SB!RetryTurn
      BY <2>2, <3>3
         DEF RunType, SB!ReadSessions, SB!ReadSessPath, SB!AppendMessage, SB!SaveSession, SB!RetryTurn
    <3>4. QED BY <2>1, <3>1, <3>2, <3>3 DEF SB!Next, SB!Run
  <2>5. QED BY <2>1, <2>3, <2>4
<1>4. QED BY <1>1, <1>2, <1>3, SInvHolds, PTL DEF SB!Spec, SessionsKept, SB!SessionsKept, SB!RunKeepsSession

-----------------------------------------------------------------------------
(* The shell commands of users: UserBash.  Sequences without repetitions.   *)

\* What a concatenation holds, and when nothing occurs twice in it.
LEMMA ConcatParts ==
  ASSUME NEW S, NEW s \in Seq(S), NEW t \in Seq(S)
  PROVE  /\ s \o t \in Seq(S)
         /\ B!Elems(s \o t) = B!Elems(s) \cup B!Elems(t)
         /\ B!NoRepeats(s \o t) <=>
              B!NoRepeats(s) /\ B!NoRepeats(t) /\ B!Elems(s) \cap B!Elems(t) = {}
<1> DEFINE u == s \o t
           m == Len(s)
           n == Len(t)
<1>1. /\ u \in Seq(S) /\ m \in Nat /\ n \in Nat
      /\ DOMAIN u = 1..(m + n) /\ DOMAIN s = 1..m /\ DOMAIN t = 1..n
      /\ \A i \in 1..m : u[i] = s[i]
      /\ \A i \in 1..n : u[m + i] = t[i]
  OBVIOUS
<1> HIDE DEF u, m, n
<1>2. \A i \in 1..(m + n) : i \in 1..m \/ (i - m \in 1..n /\ u[i] = t[i - m])
  BY <1>1
<1>3. B!Elems(u) = B!Elems(s) \cup B!Elems(t)
  <2>1. B!Elems(u) \subseteq B!Elems(s) \cup B!Elems(t)
    BY <1>1, <1>2 DEF B!Elems
  <2>2. B!Elems(s) \subseteq B!Elems(u)
    BY <1>1 DEF B!Elems
  <2>3. ASSUME NEW x \in B!Elems(t) PROVE x \in B!Elems(u)
    <3>1. PICK i \in 1..n : x = t[i]
      BY <1>1 DEF B!Elems
    <3>2. m + i \in DOMAIN u /\ u[m + i] = x
      BY <1>1, <3>1
    <3>3. QED BY <3>2 DEF B!Elems
  <2>4. QED BY <2>1, <2>2, <2>3
<1>4. ASSUME B!NoRepeats(u)
      PROVE  B!NoRepeats(s) /\ B!NoRepeats(t) /\ B!Elems(s) \cap B!Elems(t) = {}
  <2>1. B!NoRepeats(s)
    BY <1>1, <1>4 DEF B!NoRepeats
  <2>2. B!NoRepeats(t)
    <3> SUFFICES ASSUME NEW i \in 1..n, NEW j \in 1..n, t[i] = t[j]
                 PROVE  i = j
      BY <1>1 DEF B!NoRepeats
    <3>1. m + i \in DOMAIN u /\ m + j \in DOMAIN u /\ u[m + i] = u[m + j]
      BY <1>1
    <3>2. m + i = m + j
      BY <1>4, <3>1 DEF B!NoRepeats
    <3>3. QED BY <1>1, <3>2
  <2>3. ASSUME NEW i \in 1..m, NEW j \in 1..n PROVE s[i] # t[j]
    <3>1. /\ i \in DOMAIN u /\ m + j \in DOMAIN u /\ i # m + j
          /\ u[i] = s[i] /\ u[m + j] = t[j]
      BY <1>1
    <3>2. QED BY <1>4, <3>1 DEF B!NoRepeats
  <2>4. QED BY <1>1, <2>1, <2>2, <2>3 DEF B!Elems
<1>5. ASSUME B!NoRepeats(s), B!NoRepeats(t), B!Elems(s) \cap B!Elems(t) = {}
      PROVE  B!NoRepeats(u)
  <2> SUFFICES ASSUME NEW i \in 1..(m + n), NEW j \in 1..(m + n), u[i] = u[j]
               PROVE  i = j
    BY <1>1 DEF B!NoRepeats
  <2>1. \A k \in 1..m, l \in 1..n : s[k] # t[l]
    BY <1>1, <1>5 DEF B!Elems
  <2>2. CASE i \in 1..m /\ j \in 1..m
    BY <1>1, <1>5, <2>2 DEF B!NoRepeats
  <2>3. CASE i \in 1..m /\ j \notin 1..m
    BY <1>1, <1>2, <2>1, <2>3
  <2>4. CASE i \notin 1..m /\ j \in 1..m
    BY <1>1, <1>2, <2>1, <2>4
  <2>5. CASE i \notin 1..m /\ j \notin 1..m
    <3>1. i - m \in DOMAIN t /\ j - m \in DOMAIN t /\ t[i - m] = t[j - m]
      BY <1>1, <1>2, <2>5
    <3>2. i - m = j - m
      BY <1>5, <3>1 DEF B!NoRepeats
    <3>3. QED BY <1>1, <3>2
  <2>6. QED BY <2>2, <2>3, <2>4, <2>5
<1>6. QED BY <1>1, <1>3, <1>4, <1>5 DEF u

\* Appending adds one element.
LEMMA AppendParts ==
  ASSUME NEW S, NEW s \in Seq(S), NEW x \in S
  PROVE  /\ Append(s, x) \in Seq(S)
         /\ B!Elems(Append(s, x)) = B!Elems(s) \cup {x}
         /\ B!NoRepeats(s) /\ x \notin B!Elems(s) => B!NoRepeats(Append(s, x))
<1>1. <<x>> \in Seq(S) /\ Append(s, x) = s \o <<x>>
  OBVIOUS
<1>2. B!Elems(<<x>>) = {x} /\ B!NoRepeats(<<x>>)
  BY DEF B!Elems, B!NoRepeats
<1> DEFINE e == <<x>>
<1> HIDE DEF e
<1>3. e \in Seq(S) /\ Append(s, x) = s \o e /\ B!Elems(e) = {x} /\ B!NoRepeats(e)
  BY <1>1, <1>2 DEF e
<1>4. /\ s \o e \in Seq(S) /\ B!Elems(s \o e) = B!Elems(s) \cup B!Elems(e)
      /\ B!NoRepeats(s \o e) <=> B!NoRepeats(s) /\ B!NoRepeats(e) /\ B!Elems(s) \cap B!Elems(e) = {}
  BY <1>3, ConcatParts
<1>5. QED BY <1>3, <1>4

\* A sequence is its head and its tail.
LEMMA HeadParts ==
  ASSUME NEW S, NEW s \in Seq(S), s # <<>>
  PROVE  /\ Head(s) \in S /\ Tail(s) \in Seq(S)
         /\ B!Elems(s) = {Head(s)} \cup B!Elems(Tail(s))
         /\ B!NoRepeats(s) => B!NoRepeats(Tail(s)) /\ Head(s) \notin B!Elems(Tail(s))
<1> DEFINE h == Head(s)
           t == Tail(s)
           e == <<h>>
<1>1. h \in S /\ t \in Seq(S) /\ e \in Seq(S) /\ s = e \o t
  OBVIOUS
<1>2. B!Elems(e) = {h}
  BY DEF B!Elems
<1> HIDE DEF h, t, e
<1>3. /\ B!Elems(e \o t) = B!Elems(e) \cup B!Elems(t)
      /\ B!NoRepeats(e \o t) <=> B!NoRepeats(e) /\ B!NoRepeats(t) /\ B!Elems(e) \cap B!Elems(t) = {}
  BY <1>1, ConcatParts
<1>4. /\ h \in S /\ t \in Seq(S) /\ B!Elems(s) = {h} \cup B!Elems(t)
      /\ B!NoRepeats(s) => B!NoRepeats(t) /\ h \notin B!Elems(t)
  BY <1>1, <1>2, <1>3
<1>5. QED BY <1>4 DEF h, t

-----------------------------------------------------------------------------
(* Types.                                                                  *)

\* Every step of the program keeps the types of the variables.
LEMMA TypeKept == B!TypeOK /\ [B!Next]_(B!vars) => B!TypeOK'
<1> SUFFICES ASSUME B!TypeOK, [B!Next]_(B!vars) PROVE B!TypeOK'
  OBVIOUS
<1> USE PartsAssumption DEF B!BashAssumption, B!TypeOK, B!Goto, B!Stages, B!InCall, B!abort, B!agent
<1>1. ASSUME NEW c \in Calls, B!Check(c) PROVE B!TypeOK'
  BY <1>1 DEF B!Check
<1>2. ASSUME NEW c \in Calls, B!Hook(c) \/ B!SetCancel(c) \/ B!Finish(c) \/ B!ClearCancel(c)
      PROVE  B!TypeOK'
  BY <1>2 DEF B!Hook, B!SetCancel, B!Finish, B!ClearCancel
<1>3. ASSUME NEW c \in Calls, B!LookAtRun(c) PROVE B!TypeOK'
  BY <1>3 DEF B!LookAtRun
<1>4. ASSUME NEW c \in Calls, B!Defer(c) PROVE B!TypeOK'
  BY <1>4, AppendParts DEF B!Defer
<1>5. ASSUME NEW c \in Calls, B!Write(c) PROVE B!TypeOK'
  BY <1>5, AppendParts DEF B!Write
<1>6. ASSUME NEW a \in Aborters, B!AbortReads(a) \/ B!AbortCalls(a) PROVE B!TypeOK'
  BY <1>6 DEF B!AbortReads, B!AbortCalls
<1>7. ASSUME B!RunBegins \/ B!FlushTakes \/ B!FlushEnds \/ B!RunReleases PROVE B!TypeOK'
  <2>1. CASE B!RunBegins
    BY <2>1 DEF B!RunBegins
  <2>2. CASE B!FlushTakes
    BY <2>2 DEF B!FlushTakes
  <2>3. CASE B!FlushEnds \/ B!RunReleases
    BY <2>3 DEF B!FlushEnds, B!RunReleases
  <2>4. QED BY <1>7, <2>1, <2>2, <2>3
<1>8. ASSUME B!FlushWrites PROVE B!TypeOK'
  <2>1. Head(batch) \in Calls /\ Tail(batch) \in Seq(Calls)
    BY <1>8, HeadParts DEF B!FlushWrites
  <2>2. QED BY <1>8, <2>1, AppendParts DEF B!FlushWrites
<1>9. CASE UNCHANGED B!vars
  BY <1>9 DEF B!vars
<1>10. QED
  BY <1>1, <1>2, <1>3, <1>4, <1>5, <1>6, <1>7, <1>8, <1>9 DEF B!Next, B!RunBash, B!AgentStep

\* Every variable of UserBash keeps its type, and no more runs begin than the bound allows.
THEOREM BashTypeCorrect == B!Spec => []B!TypeOK
<1>1. B!Init => B!TypeOK
  BY PartsAssumption DEF B!BashAssumption, B!Init, B!TypeOK, B!Stages
<1>2. QED BY <1>1, TypeKept, PTL DEF B!Spec

-----------------------------------------------------------------------------
(* Each entry is in one place.                                             *)

\* The places where entries are: none holds one twice, no two hold the same one, and
\* RunBash is done with each.  A batch exists only while the flush writes it.
EntryInv ==
  /\ bashRun # "flush" => batch = <<>>
  /\ B!NoRepeats(entries) /\ B!NoRepeats(batch) /\ B!NoRepeats(pendingBash)
  /\ B!Elems(entries) \cap B!Elems(batch) = {}
  /\ B!Elems(entries) \cap B!Elems(pendingBash) = {}
  /\ B!Elems(batch) \cap B!Elems(pendingBash) = {}
  /\ \A c \in B!Elems(entries) \cup B!Elems(batch) \cup B!Elems(pendingBash) :
       bashPc[c] \in {"leaving", "over"}

\* EntryInv says of the three places what EntriesAccounted says of their concatenation.
LEMMA PlacesAccounted == B!TypeOK /\ EntryInv => B!EntriesAccounted
<1> SUFFICES ASSUME B!TypeOK, EntryInv PROVE B!EntriesAccounted
  OBVIOUS
<1> DEFINE some == entries \o batch
           all == some \o pendingBash
<1>1. /\ some \in Seq(Calls) /\ B!Elems(some) = B!Elems(entries) \cup B!Elems(batch)
      /\ B!NoRepeats(some)
  BY ConcatParts DEF B!TypeOK, EntryInv
<1>2. pendingBash \in Seq(Calls)
  BY DEF B!TypeOK
<1> HIDE DEF some
<1>3. /\ B!Elems(all) = B!Elems(some) \cup B!Elems(pendingBash)
      /\ B!NoRepeats(all) <=>
           B!NoRepeats(some) /\ B!NoRepeats(pendingBash)
           /\ B!Elems(some) \cap B!Elems(pendingBash) = {}
  BY <1>1, <1>2, ConcatParts
<1>4. B!NoRepeats(all) /\ \A c \in B!Elems(all) : bashPc[c] \in {"leaving", "over"}
  BY <1>1, <1>3 DEF EntryInv
<1>5. QED BY <1>4 DEF B!EntriesAccounted, some

\* A step that takes no call back behind "leaving" and moves no entry keeps EntryInv.
LEMMA EntriesStay ==
  ASSUME B!TypeOK, EntryInv, UNCHANGED <<entries, batch, pendingBash>>,
         bashRun' # "flush" => batch = <<>>,
         \A c \in Calls : bashPc[c] \in {"leaving", "over"} => bashPc'[c] \in {"leaving", "over"}
  PROVE  EntryInv'
<1>1. B!Elems(entries) \cup B!Elems(batch) \cup B!Elems(pendingBash) \subseteq Calls
  BY DEF B!TypeOK, B!Elems
<1>2. QED BY <1>1 DEF EntryInv

\* No step doubles an entry, loses track of where it is, or takes it from a call that
\* RunBash has not finished with.
LEMMA EntriesKeptByStep == B!TypeOK /\ EntryInv /\ [B!Next]_(B!vars) => EntryInv'
<1> SUFFICES ASSUME B!TypeOK, EntryInv, [B!Next]_(B!vars) PROVE EntryInv'
  OBVIOUS
<1>1. /\ entries \in Seq(Calls) /\ batch \in Seq(Calls) /\ pendingBash \in Seq(Calls)
      /\ B!Elems(entries) \cup B!Elems(batch) \cup B!Elems(pendingBash) \subseteq Calls
      /\ bashPc \in [Calls -> B!Stages]
  BY DEF B!TypeOK, B!Elems
<1>2. ASSUME NEW c \in Calls,
             \/ B!Check(c) \/ B!Hook(c) \/ B!SetCancel(c)
             \/ B!Finish(c) \/ B!LookAtRun(c) \/ B!ClearCancel(c)
      PROVE  EntryInv'
  <2>1. UNCHANGED <<entries, batch, pendingBash, bashRun>>
    BY <1>2 DEF B!Check, B!Hook, B!SetCancel, B!Finish, B!LookAtRun, B!ClearCancel, B!agent
  <2>2. \A d \in Calls : bashPc[d] \in {"leaving", "over"} => bashPc'[d] \in {"leaving", "over"}
    BY <1>1, <1>2 DEF B!Check, B!Hook, B!SetCancel, B!Finish, B!LookAtRun, B!ClearCancel, B!Goto
  <2>3. bashRun' # "flush" => batch = <<>>
    BY <2>1 DEF EntryInv
  <2>4. QED BY <2>1, <2>2, <2>3, EntriesStay
<1>3. ASSUME NEW c \in Calls, B!Defer(c) PROVE EntryInv'
  <2>1. c \notin B!Elems(entries) \cup B!Elems(batch) \cup B!Elems(pendingBash)
    BY <1>3 DEF B!Defer, B!Goto, EntryInv
  <2>2. B!Elems(pendingBash') = B!Elems(pendingBash) \cup {c} /\ B!NoRepeats(pendingBash')
    BY <1>1, <1>3, <2>1, AppendParts DEF B!Defer, EntryInv
  <2>3. bashPc'[c] = "leaving" /\ \A d \in Calls \ {c} : bashPc'[d] = bashPc[d]
    BY <1>1, <1>3 DEF B!Defer, B!Goto
  <2>4. UNCHANGED <<entries, batch, bashRun>>
    BY <1>3 DEF B!Defer, B!agent
  <2>5. QED BY <1>1, <2>1, <2>2, <2>3, <2>4 DEF EntryInv
<1>4. ASSUME NEW c \in Calls, B!Write(c) PROVE EntryInv'
  <2>1. c \notin B!Elems(entries) \cup B!Elems(batch) \cup B!Elems(pendingBash)
    BY <1>4 DEF B!Write, B!Goto, EntryInv
  <2>2. B!Elems(entries') = B!Elems(entries) \cup {c} /\ B!NoRepeats(entries')
    BY <1>1, <1>4, <2>1, AppendParts DEF B!Write, EntryInv
  <2>3. bashPc'[c] = "leaving" /\ \A d \in Calls \ {c} : bashPc'[d] = bashPc[d]
    BY <1>1, <1>4 DEF B!Write, B!Goto
  <2>4. UNCHANGED <<pendingBash, batch, bashRun>>
    BY <1>4 DEF B!Write, B!agent
  <2>5. QED BY <1>1, <2>1, <2>2, <2>3, <2>4 DEF EntryInv
<1>5. ASSUME NEW a \in Aborters, B!AbortReads(a) \/ B!AbortCalls(a) PROVE EntryInv'
  BY <1>5 DEF B!AbortReads, B!AbortCalls, B!agent, EntryInv
<1>6. ASSUME B!RunBegins \/ B!FlushEnds \/ B!RunReleases PROVE EntryInv'
  BY <1>6 DEF B!RunBegins, B!FlushEnds, B!RunReleases, EntryInv
<1>7. ASSUME B!FlushTakes PROVE EntryInv'
  <2>1. /\ bashRun' = "flush" /\ batch' = pendingBash /\ pendingBash' = <<>> /\ batch = <<>>
        /\ UNCHANGED <<entries, bashPc>>
    BY <1>7 DEF B!FlushTakes, EntryInv
  <2>2. B!Elems(<<>>) = {} /\ B!NoRepeats(<<>>)
    BY DEF B!Elems, B!NoRepeats
  <2>3. QED BY <2>1, <2>2 DEF EntryInv
<1>8. ASSUME B!FlushWrites PROVE EntryInv'
  <2>1. /\ entries' = Append(entries, Head(batch)) /\ batch' = Tail(batch) /\ batch # <<>>
        /\ bashRun' = "flush" /\ UNCHANGED <<pendingBash, bashPc>>
    BY <1>8 DEF B!FlushWrites
  <2>2. /\ Head(batch) \in Calls /\ B!Elems(batch) = {Head(batch)} \cup B!Elems(batch')
        /\ B!NoRepeats(batch') /\ Head(batch) \notin B!Elems(batch')
    BY <1>1, <2>1, HeadParts DEF EntryInv
  <2>3. B!Elems(entries') = B!Elems(entries) \cup {Head(batch)} /\ B!NoRepeats(entries')
    BY <1>1, <2>1, <2>2, AppendParts DEF EntryInv
  <2>4. QED BY <2>1, <2>2, <2>3 DEF EntryInv
<1>9. CASE UNCHANGED B!vars
  BY <1>9 DEF B!vars, EntryInv
<1>10. QED
  BY <1>2, <1>3, <1>4, <1>5, <1>6, <1>7, <1>8, <1>9 DEF B!Next, B!RunBash, B!AgentStep

\* What EntriesAccounted rests on holds in every state.
LEMMA EntriesInvariant == B!Spec => [](B!TypeOK /\ EntryInv)
<1>1. B!Init => B!TypeOK /\ EntryInv
  <2>1. ASSUME B!Init PROVE EntryInv
    BY <2>1 DEF B!Init, EntryInv, B!Elems, B!NoRepeats
  <2>2. QED BY <2>1, PartsAssumption DEF B!BashAssumption, B!Init, B!TypeOK, B!Stages
<1>2. B!TypeOK /\ EntryInv /\ [B!Next]_(B!vars) => (B!TypeOK /\ EntryInv)'
  BY TypeKept, EntriesKeptByStep
<1>3. QED BY <1>1, <1>2, PTL DEF B!Spec

\* The entry of a command is written to the session at most once, and waits in exactly
\* one place until then (recordBashEntry, pendingBash and FlushPendingBash of bash.go).
THEOREM EntriesOnce == B!Spec => []B!EntriesAccounted
BY EntriesInvariant, PlacesAccounted, PTL

-----------------------------------------------------------------------------
(* Deferred entries keep their order.                                      *)

\* Of the entries that wait, a step writes at most the first one.
LEMMA FirstIsWritten ==
  ASSUME B!TypeOK, EntryInv, [B!Next]_(B!vars),
         NEW j \in DOMAIN (batch \o pendingBash), j > 1
  PROVE  (batch \o pendingBash)[j] \notin B!Elems(entries')
<1> DEFINE before == batch \o pendingBash
<1>1. /\ before \in Seq(Calls) /\ B!Elems(before) = B!Elems(batch) \cup B!Elems(pendingBash)
      /\ B!NoRepeats(before)
  BY ConcatParts DEF B!TypeOK, EntryInv
<1>2. before[j] \in B!Elems(before)
  BY DEF B!Elems
<1>3. before[j] \notin B!Elems(entries)
  BY <1>1, <1>2 DEF EntryInv
<1>4. ASSUME NEW c \in Calls, B!Write(c) PROVE before[j] \notin B!Elems(entries')
  <2>1. c \notin B!Elems(before)
    BY <1>1, <1>4 DEF B!Write, B!Goto, EntryInv
  <2>2. B!Elems(entries') = B!Elems(entries) \cup {c}
    BY <1>4, AppendParts DEF B!Write, B!TypeOK
  <2>3. QED BY <1>2, <1>3, <2>1, <2>2
<1>5. ASSUME B!FlushWrites PROVE before[j] \notin B!Elems(entries')
  <2>1. batch \in Seq(Calls) /\ pendingBash \in Seq(Calls) /\ batch # <<>>
    BY <1>5 DEF B!FlushWrites, B!TypeOK
  <2>2. 1 \in DOMAIN before /\ before[1] = Head(batch) /\ Head(batch) \in Calls
    BY <2>1
  <2>3. before[j] # Head(batch)
    BY <1>1, <2>2 DEF B!NoRepeats
  <2>4. B!Elems(entries') = B!Elems(entries) \cup {Head(batch)}
    BY <1>5, <2>2, AppendParts DEF B!FlushWrites, B!TypeOK
  <2>5. QED BY <1>3, <2>3, <2>4
<1>6. ASSUME UNCHANGED entries PROVE before[j] \notin B!Elems(entries')
  BY <1>3, <1>6
<1>7. QED
  BY <1>4, <1>5, <1>6
  DEF B!Next, B!vars, B!RunBash, B!AgentStep, B!Check, B!Hook, B!SetCancel, B!Finish, B!LookAtRun,
      B!Defer, B!ClearCancel, B!AbortReads, B!AbortCalls, B!RunBegins, B!FlushTakes, B!FlushEnds,
      B!RunReleases

\* Deferred entries reach the session in the order in which the commands ended: in every
\* step, an entry that waits behind another one is not written (FlushPendingBash).
THEOREM DeferredWrittenInOrder == B!Spec => B!DeferredInOrder
<1> DEFINE before == batch \o pendingBash
           position(c) == CHOOSE i \in DOMAIN entries' : entries'[i] = c
           Kept == \A i, j \in DOMAIN before :
                     i < j /\ before[j] \in B!Elems(entries') =>
                       before[i] \in B!Elems(entries') /\ position(before[i]) < position(before[j])
<1>1. B!TypeOK /\ EntryInv /\ [B!Next]_(B!vars) => Kept
  <2> SUFFICES ASSUME B!TypeOK, EntryInv, [B!Next]_(B!vars),
                      NEW i \in DOMAIN before, NEW j \in DOMAIN before, i < j
               PROVE  before[j] \notin B!Elems(entries')
    OBVIOUS
  <2>1. before \in Seq(Calls)
    BY ConcatParts DEF B!TypeOK
  <2>2. j > 1
    BY <2>1
  <2>3. QED BY <2>2, FirstIsWritten
<1>2. B!TypeOK /\ EntryInv /\ [B!Next]_(B!vars) => [Kept]_(B!vars)
  BY <1>1
<1>3. [][B!TypeOK /\ EntryInv /\ [B!Next]_(B!vars)]_(B!vars) => B!DeferredInOrder
  BY <1>2, PTL DEF B!DeferredInOrder
<1>4. QED BY EntriesInvariant, <1>3, PTL DEF B!Spec

\* What a run of UserBash leaves in the session: each entry once, in its order.
THEOREM EntriesAreKept == B!Spec => EntriesKept
BY BashTypeCorrect, EntriesOnce, DeferredWrittenInOrder, PTL DEF EntriesKept, B!EntriesKept

-----------------------------------------------------------------------------
(* An abort reaches the command that runs.                                 *)

\* Two calls that are in progress together know of each other.
BesideCall ==
  \A c, d \in Calls :
    c # d /\ bashPc[c] \in B!InCall /\ bashPc[d] \in B!InCall => c \in beside /\ d \in beside

\* Only calls that passed the check together can take the cancel function from each
\* other; with one call at a time it is there from SetCancel to ClearCancel.
LEMMA AbortKept ==
  B!TypeOK /\ BesideCall /\ B!AbortReachesRunning /\ [B!Next]_(B!vars) =>
    (BesideCall /\ B!AbortReachesRunning)'
<1> SUFFICES ASSUME B!TypeOK, BesideCall, B!AbortReachesRunning, [B!Next]_(B!vars)
             PROVE  (BesideCall /\ B!AbortReachesRunning)'
  OBVIOUS
<1> USE DEF B!TypeOK, BesideCall, B!AbortReachesRunning
<1>1. ASSUME NEW c \in Calls, B!Check(c) PROVE (BesideCall /\ B!AbortReachesRunning)'
  BY <1>1 DEF B!Check, B!Goto, B!InCall
<1>2. ASSUME NEW c \in Calls, B!RunBash(c), UNCHANGED bashCancel, bashPc'[c] # "running"
      PROVE  (BesideCall /\ B!AbortReachesRunning)'
  BY <1>2 DEF B!RunBash, B!Hook, B!SetCancel, B!Finish, B!LookAtRun, B!Defer,
      B!Write, B!ClearCancel, B!Goto, B!InCall
<1>3. ASSUME NEW c \in Calls, B!SetCancel(c) \/ B!ClearCancel(c)
      PROVE  (BesideCall /\ B!AbortReachesRunning)'
  BY <1>3 DEF B!SetCancel, B!ClearCancel, B!Goto, B!InCall
<1>4. ASSUME UNCHANGED <<bashPc, bashCancel, beside>> PROVE (BesideCall /\ B!AbortReachesRunning)'
  BY <1>4
<1>5. QED
  BY <1>1, <1>2, <1>3, <1>4
  DEF B!Next, B!vars, B!RunBash, B!Hook, B!SetCancel, B!Finish, B!LookAtRun, B!Defer,
      B!Write, B!ClearCancel, B!Goto,
      B!AbortReads, B!AbortCalls, B!AgentStep, B!RunBegins, B!FlushTakes, B!FlushWrites, B!FlushEnds,
      B!RunReleases

\* While a command runs that began alone, the stored cancel function is its own, so
\* AbortBash stops that command and nothing else.
THEOREM AbortReaches == B!Spec => []AbortReachesRunning
<1>1. B!Init => BesideCall /\ B!AbortReachesRunning
  BY DEF B!Init, BesideCall, B!AbortReachesRunning, B!InCall
<1>2. QED BY <1>1, BashTypeCorrect, AbortKept, PTL DEF B!Spec, AbortReachesRunning
=============================================================================
