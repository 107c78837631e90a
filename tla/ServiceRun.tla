------------------------------ MODULE ServiceRun ------------------------------
(***************************************************************************)
(* agent.Service (src/internal/agent/service.go, service_run.go): the run  *)
(* slot, the goroutine of a run, the steering and follow-up queues, Abort  *)
(* and AbortAndWait.                                                       *)
(*                                                                         *)
(* A step is what happens under one critical section of Service.mu, or one *)
(* operation on a channel or on runWg; anything may interleave between two *)
(* steps.  A run is named by the events channel its caller passed, so      *)
(* "run r" is also "channel r".  The turn itself (coreagent.Loop) is not   *)
(* in this repository: it forwards events, polls the two queues through    *)
(* SteerFn/FollowUpFn and ends.                                            *)
(***************************************************************************)
EXTENDS Integers, Sequences, FiniteSets

CONSTANTS Runs,       \* runs, each with its events channel
          Msgs,       \* messages that callers try to queue
          Callers,    \* goroutines that call Abort or AbortAndWait
          NoRun,      \* nil cancel function, nil event sink
          Modes,      \* the queue modes the settings and the setters use
          Cap,        \* capacity of an events channel (64 in the callers)
          MaxRetries  \* Service.maxRetryAttempts()

ASSUME NoRunAssumption == NoRun \notin Runs
ASSUME ModesAssumption == Modes \subseteq {"one-at-a-time", "all"}
ASSUME CapAssumption == Cap \in Nat \ {0}
ASSUME MaxRetriesAssumption == MaxRetries \in Nat

VARIABLES
  streaming, cancel, eventSink,  \* Service fields, guarded by mu
  steerQueue, followUpQueue,     \* guarded by mu
  modes,                         \* steeringMode and followUpMode, guarded by mu
  stopAfterTurn,                 \* guarded by mu
  runWg,                         \* the runs counted by the wait group
  pc,                            \* where each run's goroutine stands
  attempt,                       \* retryAttempt of each run
  ctxDone,                       \* runs whose context is cancelled
  buf,                           \* events buffered in each channel
  closes,                        \* how often each channel was closed
  call,                          \* the Abort/AbortAndWait call of each caller
  fate                           \* history: what became of every message

slot  == <<streaming, cancel, eventSink>>
inbox == <<steerQueue, followUpQueue, fate>>
knobs == <<modes, stopAfterTurn>>
chans == <<buf, closes>>
users == <<inbox, knobs, ctxDone, call>>  \* what callers change, not runs
vars  == <<slot, users, runWg, pc, attempt, chans>>

-----------------------------------------------------------------------------
(* Stages of a run.                                                        *)

\* Between the claim of the slot (service.go:385, :421) and its release.
Holding == {"claimed", "ready", "readyContinue", "start", "startContinue", "loop",
            "turn", "afterOk", "afterError", "retry", "done", "end", "release"}

\* Between runWg.Add and the deferred runWg.Done.
Counting == {"start", "startContinue", "loop", "turn", "afterOk", "afterError",
             "retry", "done", "end", "release", "close", "wgDone"}

Stages == {"free", "rejected", "failed", "over"} \cup Holding \cup Counting

NoCall == [stage |-> "idle", was |-> FALSE, fn |-> NoRun, target |-> NoRun, seen |-> {}]

Elems(q) == {q[i] : i \in DOMAIN q}

NoRepeats(q) == \A i, j \in DOMAIN q : q[i] = q[j] => i = j

Settle(ms, f) == fate' = [m \in Msgs |-> IF m \in ms THEN f ELSE fate[m]]

Goto(r, from, to) == pc[r] = from /\ pc' = [pc EXCEPT ![r] = to]

\* events <- ev: blocks while the buffer is full, whatever the context says.
Emit(r) == buf[r] < Cap /\ buf' = [buf EXCEPT ![r] = @ + 1]

Close(r) == closes' = [closes EXCEPT ![r] = @ + 1]

\* The slot is taken, or released, in one critical section.
Occupy(r) == streaming' = TRUE /\ cancel' = r /\ eventSink' = r
Vacate == streaming' = FALSE /\ cancel' = NoRun /\ eventSink' = NoRun

\* A step of a run's goroutine that changes nothing but its stage.
Move(r, from, to) ==
  Goto(r, from, to) /\ UNCHANGED <<slot, users, runWg, attempt, chans>>

Init ==
  /\ streaming = FALSE /\ cancel = NoRun /\ eventSink = NoRun
  /\ steerQueue = <<>> /\ followUpQueue = <<>>
  /\ modes \in [{"steer", "followUp"} -> Modes]
  /\ stopAfterTurn = FALSE
  /\ runWg = {}
  /\ pc = [r \in Runs |-> "free"]
  /\ attempt = [r \in Runs |-> 0]
  /\ ctxDone = {}
  /\ buf = [r \in Runs |-> 0]
  /\ closes = [r \in Runs |-> 0]
  /\ call = [c \in Callers |-> NoCall]
  /\ fate = [m \in Msgs |-> "unsent"]

-----------------------------------------------------------------------------
(* Starting a run.                                                         *)

\* Mutant: streaming is looked at in an earlier critical section.
PromptIdleUnchecked(r) ==
  /\ Goto(r, "free", "claimed")
  /\ Occupy(r)
  /\ UNCHANGED <<users, runWg, attempt, chans>>

\* Prompt and ContinueRun on an idle service.
PromptIdle(r) ==
  /\ ~streaming
  /\ Goto(r, "free", "claimed")
  /\ Occupy(r)
  /\ UNCHANGED <<users, runWg, attempt, chans>>

ContinueRun(r) ==
  /\ ~streaming
  /\ Goto(r, "free", "readyContinue")
  /\ Occupy(r)
  /\ UNCHANGED <<users, runWg, attempt, chans>>

\* ExpandAttachments failed: the slot is released, the channel closed next.
PromptFails(r) ==
  /\ Goto(r, "claimed", "failed")
  /\ Vacate
  /\ UNCHANGED <<users, runWg, attempt, chans>>

PromptFailedClose(r) ==
  /\ Goto(r, "failed", "over")
  /\ Close(r)
  /\ UNCHANGED <<slot, users, runWg, attempt, buf>>

PromptPrepared(r) == Move(r, "claimed", "ready")

\* runWg.Add(1) and the go statement: after mu was released.
Launch(r) ==
  /\ \/ Goto(r, "ready", "start")
     \/ Goto(r, "readyContinue", "startContinue")
  /\ runWg' = runWg \cup {r}
  /\ UNCHANGED <<slot, users, attempt, chans>>

\* ContinueRun, or Prompt with no streaming behaviour, while a run is active:
\* ErrStreaming, the caller's own channel is closed.
RejectBusy(r) ==
  /\ streaming
  /\ Goto(r, "free", "rejected")
  /\ Close(r)
  /\ UNCHANGED <<slot, users, runWg, attempt, buf>>

\* The context that the caller passed to Prompt ends, and that of the run with it.
ContextEnds(r) ==
  /\ pc[r] \in Holding
  /\ r \notin ctxDone
  /\ ctxDone' = ctxDone \cup {r}
  /\ UNCHANGED <<slot, inbox, knobs, call, runWg, pc, attempt, chans>>

-----------------------------------------------------------------------------
(* The queues.                                                             *)

Enqueue(m) ==
  /\ streaming
  /\ fate[m] = "unsent"
  /\ \/ steerQueue' = Append(steerQueue, m) /\ UNCHANGED followUpQueue
     \/ followUpQueue' = Append(followUpQueue, m) /\ UNCHANGED steerQueue
  /\ fate' = [fate EXCEPT ![m] = "queued"]
  /\ UNCHANGED <<slot, knobs, runWg, attempt, ctxDone, buf, call>>

\* Steer and FollowUp; on an idle service they return ErrNotStreaming.
Queue(m) == Enqueue(m) /\ UNCHANGED <<pc, closes>>

\* Mutant: the early return forgets the caller's channel.
PromptQueuedOpen(r, m) ==
  /\ Enqueue(m)
  /\ Goto(r, "free", "rejected")
  /\ UNCHANGED closes

\* Prompt with behaviour "steer" or "followUp" while a run is active also
\* closes the caller's channel: no run will ever write to it.
PromptQueued(r, m) ==
  /\ Enqueue(m)
  /\ Goto(r, "free", "rejected")
  /\ Close(r)

\* Mutant: one message is taken, but the whole queue is cleared.
TakeSteerClears(r) ==
  /\ pc[r] = "turn"
  /\ steerQueue # <<>>
  /\ steerQueue' = <<>> /\ Settle({Head(steerQueue)}, "handed")
  /\ UNCHANGED <<slot, followUpQueue, knobs, ctxDone, call, runWg, pc, attempt, chans>>

\* takeSteer, polled by the turn of run r.
TakeSteer(r) ==
  /\ pc[r] = "turn"
  /\ steerQueue # <<>>
  /\ IF modes["steer"] = "one-at-a-time"
       THEN steerQueue' = Tail(steerQueue) /\ Settle({Head(steerQueue)}, "handed")
       ELSE steerQueue' = <<>> /\ Settle(Elems(steerQueue), "handed")
  /\ UNCHANGED <<slot, followUpQueue, knobs, ctxDone, call, runWg, pc, attempt, chans>>

\* Mutant: the newest message first.
TakeFollowUpNewest(r) ==
  /\ pc[r] = "turn"
  /\ followUpQueue # <<>>
  /\ LET n == Len(followUpQueue)
     IN  followUpQueue' = SubSeq(followUpQueue, 1, n - 1) /\ Settle({followUpQueue[n]}, "handed")
  /\ UNCHANGED <<slot, steerQueue, knobs, ctxDone, call, runWg, pc, attempt, chans>>

\* takeFollowUp, polled by the turn of run r.
TakeFollowUp(r) ==
  /\ pc[r] = "turn"
  /\ followUpQueue # <<>>
  /\ IF modes["followUp"] = "one-at-a-time"
       THEN followUpQueue' = Tail(followUpQueue) /\ Settle({Head(followUpQueue)}, "handed")
       ELSE followUpQueue' = <<>> /\ Settle(Elems(followUpQueue), "handed")
  /\ UNCHANGED <<slot, steerQueue, knobs, ctxDone, call, runWg, pc, attempt, chans>>

\* DrainQueues: everything goes back to the editor (Esc, /abort).
DrainQueues ==
  /\ steerQueue \o followUpQueue # <<>>
  /\ steerQueue' = <<>>
  /\ followUpQueue' = <<>>
  /\ Settle(Elems(steerQueue) \cup Elems(followUpQueue), "returned")
  /\ UNCHANGED <<slot, knobs, runWg, pc, attempt, ctxDone, chans, call>>

\* PopQueuedMessage: the oldest follow-up, else the oldest steering message.
PopQueuedMessage ==
  /\ \/ /\ followUpQueue # <<>>
        /\ followUpQueue' = Tail(followUpQueue)
        /\ Settle({Head(followUpQueue)}, "returned")
        /\ UNCHANGED steerQueue
     \/ /\ followUpQueue = <<>> /\ steerQueue # <<>>
        /\ steerQueue' = Tail(steerQueue)
        /\ Settle({Head(steerQueue)}, "returned")
        /\ UNCHANGED followUpQueue
  /\ UNCHANGED <<slot, knobs, runWg, pc, attempt, ctxDone, chans, call>>

\* SetSteeringMode and SetFollowUpMode.
SetMode(q, v) ==
  /\ modes[q] # v
  /\ modes' = [modes EXCEPT ![q] = v]
  /\ UNCHANGED <<slot, inbox, stopAfterTurn, runWg, pc, attempt, ctxDone, chans, call>>

SetStopAfterTurn(v) ==
  /\ stopAfterTurn # v
  /\ stopAfterTurn' = v
  /\ UNCHANGED <<slot, inbox, modes, runWg, pc, attempt, ctxDone, chans, call>>

-----------------------------------------------------------------------------
(* The goroutine of a run (runAgentTurn).                                  *)

\* Up to the loop: an empty prompt skips the loop altogether, a continued run never does.
AgentStart(r) ==
  \/ Move(r, "start", "loop")
  \/ Move(r, "start", "end")
  \/ Move(r, "startContinue", "loop")

\* Mutant: the context is not looked at.
LoopHeadUnchecked(r) == Move(r, "loop", "turn")

LoopHead(r) == Move(r, "loop", IF r \in ctxDone THEN "done" ELSE "turn")

\* An event of the turn, other than its Done, or of the retry delay is passed on.
Forward(r) ==
  /\ pc[r] \in {"turn", "retry"}
  /\ Emit(r)
  /\ UNCHANGED <<slot, users, runWg, pc, attempt, closes>>

\* The turn finds no follow-up left and completes.
TurnCompletes(r) == followUpQueue = <<>> /\ Move(r, "turn", "afterOk")

\* takeStopAfterTurn at the end of a tool turn: the flag is spent even when the
\* run ends; the queues are not polled again.
TurnStops(r) ==
  /\ Goto(r, "turn", "afterOk")
  /\ stopAfterTurn
  /\ stopAfterTurn' = FALSE
  /\ UNCHANGED <<slot, inbox, modes, ctxDone, call, runWg, attempt, chans>>

\* The turn ends on an error or because its context was cancelled.
TurnFails(r) == Move(r, "turn", "afterError")

\* After FlushPendingBash: cancelled, finished, finished without a Done of the turn
\* to pass on, or to be retried.  Whether an error may be retried
\* (shouldRetryAssistantError) is left open here.
AfterTurn(r) ==
  /\ \/ Goto(r, "afterOk", "done")
     \/ r \notin ctxDone /\ Goto(r, "afterOk", "end")
     \/ Goto(r, "afterError", "done")
     \/ r \notin ctxDone /\ attempt[r] < MaxRetries /\ Goto(r, "afterError", "retry")
  /\ attempt' = IF pc'[r] = "retry" THEN [attempt EXCEPT ![r] = @ + 1] ELSE attempt
  /\ UNCHANGED <<slot, users, runWg, chans>>

\* waitAssistantRetry and the Done event with WillRetry; or the retry is given up.
RetryWaited(r) ==
  /\ \/ Goto(r, "retry", "loop") /\ Emit(r)
     \/ Goto(r, "retry", "done") /\ UNCHANGED buf
  /\ UNCHANGED <<slot, users, runWg, attempt, closes>>

FinalDone(r) ==
  /\ Goto(r, "done", "end")
  /\ Emit(r)
  /\ UNCHANGED <<slot, users, runWg, attempt, closes>>

\* The deferred calls, last one first: AgentEnd and AgentSettled hooks, ...
AgentEnd(r) == Move(r, "end", "release")

\* ... the slot is released under mu, ...
Release(r) ==
  /\ Goto(r, "release", "close")
  /\ Vacate
  /\ UNCHANGED <<users, runWg, attempt, chans>>

\* ... the channel is closed, ...
CloseEvents(r) ==
  /\ Goto(r, "close", "wgDone")
  /\ Close(r)
  /\ UNCHANGED <<slot, users, runWg, attempt, buf>>

\* Mutant: the counter goes down and nobody is woken.
WgDoneSilent(r) ==
  /\ Goto(r, "wgDone", "over")
  /\ runWg' = runWg \ {r}
  /\ UNCHANGED <<slot, users, attempt, chans>>

\* ... and runWg.Done wakes the waiters when the counter reaches zero.
WgDone(r) ==
  /\ Goto(r, "wgDone", "over")
  /\ runWg' = runWg \ {r}
  /\ call' = [c \in Callers |->
                IF runWg' = {} /\ call[c].stage = "blocked"
                  THEN [call[c] EXCEPT !.stage = "released"] ELSE call[c]]
  /\ UNCHANGED <<slot, inbox, knobs, ctxDone, attempt, chans>>

\* Steps that bring a run closer to its end.
Progress(r) ==
  \/ PromptFails(r) \/ PromptFailedClose(r) \/ PromptPrepared(r) \/ Launch(r)
  \/ AgentStart(r) \/ LoopHead(r)
  \/ TurnCompletes(r) \/ TurnStops(r) \/ TurnFails(r)
  \/ AfterTurn(r) \/ RetryWaited(r) \/ FinalDone(r)
  \/ AgentEnd(r) \/ Release(r) \/ CloseEvents(r) \/ WgDone(r)

RunStep(r) == Progress(r) \/ Forward(r) \/ TakeSteer(r) \/ TakeFollowUp(r)

\* The reader of the channel takes an event.
Read(r) ==
  /\ buf[r] > 0
  /\ buf' = [buf EXCEPT ![r] = @ - 1]
  /\ UNCHANGED <<slot, users, runWg, pc, attempt, closes>>

-----------------------------------------------------------------------------
(* Abort, and AbortAndWait (used by NewSession and SwitchSession).         *)

\* A step of the call of c.
Step(c, from, to) ==
  /\ call[c].stage = from
  /\ call' = [call EXCEPT ![c] = to]
  /\ UNCHANGED <<slot, inbox, knobs, runWg, pc, attempt, chans>>

\* Abort skips the look at IsStreaming and, at the end, the wait.
AbortBegins(c) ==
  /\ Step(c, "idle", [NoCall EXCEPT !.stage = "begun"])
  /\ UNCHANGED ctxDone

\* target and seen are history: the active run and the counted runs at this moment.
AbortAndWaitBegins(c) ==
  /\ Step(c, "idle", [NoCall EXCEPT !.stage = "begun", !.was = streaming,
                                    !.target = eventSink,
                                    !.seen = IF streaming THEN runWg ELSE {}])
  /\ UNCHANGED ctxDone

\* The cancel function is read under mu ...
ReadCancel(c) ==
  /\ Step(c, "begun", [call[c] EXCEPT !.stage = "read", !.fn = cancel])
  /\ UNCHANGED ctxDone

\* ... and called after mu was released.
CallCancel(c) ==
  /\ Step(c, "read", [call[c] EXCEPT !.stage = IF call[c].was THEN "waiting" ELSE "returned",
                                    !.fn = NoRun])
  /\ ctxDone' = ctxDone \cup ({call[c].fn} \ {NoRun})

\* Mutant: the wait looks at streaming instead of the wait group.
WaitRegistersOnFlag(c) ==
  /\ Step(c, "waiting", [call[c] EXCEPT !.stage = IF ~streaming THEN "released" ELSE "blocked"])
  /\ UNCHANGED ctxDone

\* runWg.Wait: returns at once when the counter is zero, else sleeps until WgDone.
WaitRegisters(c) ==
  /\ Step(c, "waiting", [call[c] EXCEPT !.stage = IF runWg = {} THEN "released" ELSE "blocked"])
  /\ UNCHANGED ctxDone

WaitReturns(c) ==
  /\ Step(c, "released", [call[c] EXCEPT !.stage = "returned"])
  /\ UNCHANGED ctxDone

\* The caller's own context ends first.
WaitExpires(c) ==
  /\ \/ Step(c, "waiting", [NoCall EXCEPT !.stage = "expired"])
     \/ Step(c, "blocked", [NoCall EXCEPT !.stage = "expired"])
  /\ UNCHANGED ctxDone

\* The caller goes on and may call again.
CallEnds(c) ==
  /\ \/ Step(c, "returned", NoCall)
     \/ Step(c, "expired", NoCall)
  /\ UNCHANGED ctxDone

CallStep(c) == ReadCancel(c) \/ CallCancel(c) \/ WaitRegisters(c) \/ WaitReturns(c)

-----------------------------------------------------------------------------
Next ==
  \/ \E r \in Runs : \/ PromptIdle(r) \/ ContinueRun(r) \/ RejectBusy(r)
                     \/ ContextEnds(r) \/ RunStep(r) \/ Read(r)
  \/ \E m \in Msgs : Queue(m)
  \/ \E r \in Runs, m \in Msgs : PromptQueued(r, m)
  \/ DrainQueues
  \/ PopQueuedMessage
  \/ \E q \in {"steer", "followUp"}, v \in Modes : SetMode(q, v)
  \/ \E v \in BOOLEAN : SetStopAfterTurn(v)
  \/ \E c \in Callers : \/ AbortBegins(c) \/ AbortAndWaitBegins(c) \/ CallStep(c)
                        \/ WaitExpires(c) \/ CallEnds(c)

Spec == Init /\ [][Next]_vars

\* The goroutines are scheduled, every turn ends (iterations are limited, provider
\* streams end), and the caller reads its channel, as streamEvents and waitEvent do.
Fairness ==
  /\ \A r \in Runs : WF_vars(Progress(r)) /\ WF_vars(Read(r))
  /\ \A c \in Callers : WF_vars(CallStep(c))

FairSpec == Spec /\ Fairness

-----------------------------------------------------------------------------
(* Properties.                                                             *)

SlotType ==
  /\ streaming \in BOOLEAN
  /\ cancel \in Runs \cup {NoRun}
  /\ eventSink \in Runs \cup {NoRun}

InboxType ==
  /\ steerQueue \in Seq(Msgs)
  /\ followUpQueue \in Seq(Msgs)
  /\ fate \in [Msgs -> {"unsent", "queued", "handed", "returned"}]

KnobType ==
  /\ modes \in [{"steer", "followUp"} -> Modes]
  /\ stopAfterTurn \in BOOLEAN

RunType ==
  /\ pc \in [Runs -> Stages]
  /\ runWg \in SUBSET Runs
  /\ ctxDone \in SUBSET Runs

RetryType == attempt \in [Runs -> 0..MaxRetries]

ChanType ==
  /\ buf \in [Runs -> 0..Cap]
  /\ closes \in [Runs -> Nat]

CallType ==
  call \in [Callers -> [stage : {"idle", "begun", "read", "waiting", "blocked",
                                "released", "returned", "expired"},
                       was : BOOLEAN,
                       fn : Runs \cup {NoRun},
                       target : Runs \cup {NoRun},
                       seen : SUBSET Runs]]

\* Every variable has its type; in particular a channel never holds more than its
\* capacity and a run never retries more often than the settings allow.
TypeOK ==
  SlotType /\ InboxType /\ KnobType /\ RunType /\ RetryType /\ ChanType /\ CallType

\* One run at a time, and the three fields of the slot always tell the same
\* story: while a run is between its claim and its release, Abort and the
\* notices of compaction and retry reach that run and no other; when the
\* service is idle they reach none.
SlotConsistent ==
  /\ \A r \in Runs : pc[r] \in Holding => streaming /\ cancel = r /\ eventSink = r
  /\ streaming => \E r \in Runs : pc[r] \in Holding
  /\ ~streaming => cancel = NoRun /\ eventSink = NoRun

\* Every path of Prompt, ContinueRun and runAgentTurn closes the channel it was
\* given exactly once: a second close would panic, a missing one leaves the
\* reader waiting.
ClosedExactlyOnce ==
  \A r \in Runs : closes[r] = IF pc[r] \in {"rejected", "wgDone", "over"} THEN 1 ELSE 0

\* A message that Steer, FollowUp or Prompt accepted is in exactly one place:
\* once in one of the queues, or handed to a run, or given back to the user.
QueuesAccounted ==
  /\ \A m \in Msgs : fate[m] = "queued" <=> m \in Elems(steerQueue) \cup Elems(followUpQueue)
  /\ Elems(steerQueue) \cap Elems(followUpQueue) = {}
  /\ NoRepeats(steerQueue) /\ NoRepeats(followUpQueue)

\* When AbortAndWait returns, every run that runWg already counted when the call
\* began has released the slot, closed its channel and left runAgentTurn.
WaitCoversCounted ==
  \A c \in Callers : call[c].stage = "returned" /\ call[c].was =>
    \A r \in call[c].seen : pc[r] = "over"

\* service.go:519: AbortAndWait "cancels the active run and waits for it to
\* finish": when it returns, the run that was active at the call is over.
AbortAndWaitCompletes ==
  \A c \in Callers : call[c].stage = "returned" /\ call[c].was
                      /\ call[c].target # NoRun
    => pc[call[c].target] \notin Holding

\* A run whose context is cancelled begins no further turn, neither its first
\* one nor one after a retry delay.
NoTurnAfterCancel ==
  [][\A r \in Runs : r \in ctxDone /\ pc[r] # "turn" => pc'[r] # "turn"]_vars

\* Whatever is aborted, retried or rejected, a run that took the slot ends:
\* it releases the slot, closes its channel and leaves the wait group.
RunsEnd == \A r \in Runs : pc[r] # "free" ~> pc[r] \in {"over", "rejected"}

\* A call of Abort or AbortAndWait comes back.
AbortReturns ==
  \A c \in Callers : call[c].stage = "begun" ~> call[c].stage \in {"returned", "expired"}

\* The promise of RunSlot: the run that receives the events holds the session.
Slot == INSTANCE RunSlot WITH
          holder <- eventSink,
          spent <- {r \in Runs : pc[r] \notin {"free", "rejected"}}

SlotSpec == Slot!Spec

\* Neither a run nor a call that waits for runs goes on for ever.
RunsAndWaitsEnd == RunsEnd /\ AbortReturns
=============================================================================
