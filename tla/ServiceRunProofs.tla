--------------------------- MODULE ServiceRunProofs ---------------------------
(***************************************************************************)
(* Proofs about ServiceRun, for any number of runs, messages and callers,  *)
(* any channel capacity and any bound on retries.                          *)
(***************************************************************************)
EXTENDS ServiceRun, SequenceTheorems, TLAPS

-----------------------------------------------------------------------------
(* Sequences without repetitions.                                          *)

\* Appending a new element adds it to the elements and creates no repetition.
LEMMA AppendElems ==
  ASSUME NEW S, NEW q \in Seq(S), NEW m \in S
  PROVE  /\ Append(q, m) \in Seq(S)
         /\ Elems(Append(q, m)) = Elems(q) \cup {m}
         /\ NoRepeats(q) /\ m \notin Elems(q) => NoRepeats(Append(q, m))
<1> DEFINE a == Append(q, m)
<1>1. /\ a \in Seq(S) /\ DOMAIN a = 1..(Len(q) + 1) /\ DOMAIN q = 1..Len(q)
      /\ Len(q) \in Nat
      /\ \A i \in 1..Len(q) : a[i] = q[i]
      /\ a[Len(q) + 1] = m
  OBVIOUS
<1>2. Elems(a) = Elems(q) \cup {m}
  <2>1. Elems(a) \subseteq Elems(q) \cup {m}
    BY <1>1 DEF Elems
  <2>2. Elems(q) \subseteq Elems(a)
    BY <1>1 DEF Elems
  <2>3. m \in Elems(a)
    BY <1>1 DEF Elems
  <2>4. QED BY <2>1, <2>2, <2>3
<1>3. ASSUME NoRepeats(q), m \notin Elems(q)
      PROVE  NoRepeats(a)
  <2> SUFFICES ASSUME NEW i \in DOMAIN a, NEW j \in DOMAIN a, a[i] = a[j]
               PROVE  i = j
    BY DEF NoRepeats
  <2>1. \A k \in 1..Len(q) : q[k] # m
    BY <1>1, <1>3 DEF Elems
  <2>2. QED BY <1>1, <1>3, <2>1 DEF NoRepeats
<1>4. QED BY <1>1, <1>2, <1>3

\* Without repetitions, Tail removes exactly the head.
LEMMA TailElems ==
  ASSUME NEW S, NEW q \in Seq(S), q # <<>>, NoRepeats(q)
  PROVE  /\ Tail(q) \in Seq(S)
         /\ Head(q) \in Elems(q)
         /\ Elems(Tail(q)) = Elems(q) \ {Head(q)}
         /\ NoRepeats(Tail(q))
<1> DEFINE t == Tail(q)
<1>1. /\ t \in Seq(S) /\ Len(q) \in Nat \ {0} /\ DOMAIN q = 1..Len(q)
      /\ DOMAIN t = 1..(Len(q) - 1)
      /\ \A i \in 1..(Len(q) - 1) : t[i] = q[i + 1]
      /\ Head(q) = q[1]
  BY EmptySeq
<1>2. Head(q) \in Elems(q)
  BY <1>1 DEF Elems
<1>3. Elems(t) = Elems(q) \ {Head(q)}
  <2>1. ASSUME NEW x \in Elems(t) PROVE x \in Elems(q) \ {Head(q)}
    <3>1. PICK i \in DOMAIN t : x = t[i]
      BY DEF Elems
    <3>2. i + 1 \in DOMAIN q /\ q[i + 1] = x /\ i + 1 # 1
      BY <1>1, <3>1
    <3>3. QED BY <1>1, <3>2 DEF Elems, NoRepeats
  <2>2. ASSUME NEW x \in Elems(q), x # Head(q) PROVE x \in Elems(t)
    <3>1. PICK i \in DOMAIN q : x = q[i]
      BY DEF Elems
    <3>2. i # 1
      BY <1>1, <2>2, <3>1
    <3>3. i - 1 \in DOMAIN t /\ t[i - 1] = x
      BY <1>1, <3>1, <3>2
    <3>4. QED BY <3>3 DEF Elems
  <2>3. QED BY <2>1, <2>2
<1>4. NoRepeats(t)
  <2> SUFFICES ASSUME NEW i \in DOMAIN t, NEW j \in DOMAIN t, t[i] = t[j]
               PROVE  i = j
    BY DEF NoRepeats
  <2>1. i + 1 \in DOMAIN q /\ j + 1 \in DOMAIN q /\ q[i + 1] = q[j + 1]
    BY <1>1
  <2>2. i + 1 = j + 1
    BY <2>1 DEF NoRepeats
  <2>3. QED BY <1>1, <2>2
<1>5. QED BY <1>1, <1>2, <1>3, <1>4

-----------------------------------------------------------------------------
(* Typing.                                                                 *)

\* Taking the slot, failing to, and starting the goroutine preserve the types.
LEMMA StartTyped ==
  ASSUME TypeOK, NEW r \in Runs,
         \/ PromptIdle(r) \/ ContinueRun(r) \/ RejectBusy(r)
         \/ PromptFails(r) \/ PromptFailedClose(r) \/ PromptPrepared(r) \/ Launch(r)
         \/ ContextEnds(r)
  PROVE  TypeOK'
<1> USE DEF TypeOK, ContextEnds, PromptIdle, ContinueRun, RejectBusy, PromptFails, PromptFailedClose,
            PromptPrepared, Launch, Goto, Move, Occupy, Vacate, Close,
            slot, inbox, knobs, chans, users
<1>1. SlotType'
  BY DEF SlotType
<1>2. InboxType' /\ KnobType' /\ RetryType'
  BY DEF InboxType, KnobType, RetryType
<1>3. RunType'
  BY DEF RunType, Stages, Holding, Counting
<1>4. ChanType' /\ CallType'
  BY DEF ChanType, CallType
<1>5. QED BY <1>1, <1>2, <1>3, <1>4

\* The goroutine of a run preserves the types up to its final Done, and so does
\* its reader.
LEMMA TurnTyped ==
  ASSUME TypeOK, NEW r \in Runs,
         \/ AgentStart(r) \/ LoopHead(r) \/ Forward(r)
         \/ TurnCompletes(r) \/ TurnStops(r) \/ TurnFails(r)
         \/ AfterTurn(r) \/ RetryWaited(r) \/ FinalDone(r) \/ Read(r)
  PROVE  TypeOK'
<1> USE CapAssumption, MaxRetriesAssumption
<1> USE DEF TypeOK, AgentStart, LoopHead, Forward, TurnCompletes, TurnStops, TurnFails,
            AfterTurn, RetryWaited, FinalDone, Read, Goto, Move, Emit,
            slot, inbox, knobs, chans, users
<1>1. SlotType' /\ InboxType' /\ KnobType'
  BY DEF SlotType, InboxType, KnobType
<1>2. RunType'
  BY DEF RunType, Stages, Holding, Counting
<1>3. RetryType'
  <2>1. CASE AfterTurn(r)
    <3>1. pc'[r] = "retry" => attempt[r] < MaxRetries
      BY <2>1 DEF RunType
    <3>2. QED BY <2>1, <3>1 DEF RetryType
  <2>2. CASE ~AfterTurn(r)
    BY <2>2 DEF RetryType
  <2>3. QED BY <2>1, <2>2
<1>4. ChanType'
  BY DEF ChanType
<1>5. CallType'
  BY DEF CallType
<1>6. QED BY <1>1, <1>2, <1>3, <1>4, <1>5

\* The deferred calls of a run preserve the types.
LEMMA EndTyped ==
  ASSUME TypeOK, NEW r \in Runs,
         AgentEnd(r) \/ Release(r) \/ CloseEvents(r) \/ WgDone(r)
  PROVE  TypeOK'
<1> USE DEF TypeOK, AgentEnd, Release, CloseEvents, WgDone, Goto, Move, Vacate, Close,
            slot, inbox, knobs, chans, users
<1>1. SlotType' /\ InboxType' /\ KnobType' /\ RetryType'
  BY DEF SlotType, InboxType, KnobType, RetryType
<1>2. RunType'
  BY DEF RunType, Stages, Holding, Counting
<1>3. ChanType'
  BY DEF ChanType
<1>4. CallType'
  BY DEF CallType
<1>5. QED BY <1>1, <1>2, <1>3, <1>4

\* The operations on the queues and on the settings preserve the types.
LEMMA QueueTyped ==
  ASSUME TypeOK,
         \/ \E r \in Runs : TakeSteer(r) \/ TakeFollowUp(r)
         \/ \E m \in Msgs : Queue(m)
         \/ \E r \in Runs, m \in Msgs : PromptQueued(r, m)
         \/ DrainQueues \/ PopQueuedMessage
         \/ \E q \in {"steer", "followUp"}, v \in Modes : SetMode(q, v)
         \/ \E v \in BOOLEAN : SetStopAfterTurn(v)
  PROVE  TypeOK'
<1> USE DEF TypeOK, TakeSteer, TakeFollowUp, Queue, Enqueue, PromptQueued, DrainQueues,
            PopQueuedMessage, SetMode, SetStopAfterTurn, Settle, Goto, Close,
            slot, inbox, knobs, chans, users
<1>1. SlotType' /\ RetryType' /\ CallType'
  BY DEF SlotType, RetryType, CallType
<1>2. InboxType'
  <2>1. /\ steerQueue # <<>> => Tail(steerQueue) \in Seq(Msgs)
        /\ followUpQueue # <<>> => Tail(followUpQueue) \in Seq(Msgs)
    BY HeadTailProperties DEF InboxType
  <2>2. \A m \in Msgs : /\ Append(steerQueue, m) \in Seq(Msgs)
                        /\ Append(followUpQueue, m) \in Seq(Msgs)
    BY AppendProperties DEF InboxType
  <2>3. steerQueue' \in Seq(Msgs)
    BY <2>1, <2>2, EmptySeq DEF InboxType
  <2>4. followUpQueue' \in Seq(Msgs)
    BY <2>1, <2>2, EmptySeq DEF InboxType
  <2>5. fate' \in [Msgs -> {"unsent", "queued", "handed", "returned"}]
    BY DEF InboxType
  <2>6. QED BY <2>3, <2>4, <2>5 DEF InboxType
<1>3. KnobType'
  BY DEF KnobType
<1>4. RunType'
  BY DEF RunType, Stages, Holding, Counting
<1>5. ChanType'
  BY DEF ChanType
<1>6. QED BY <1>1, <1>2, <1>3, <1>4, <1>5

\* The steps of Abort and AbortAndWait preserve the types.
LEMMA CallTyped ==
  ASSUME TypeOK, NEW c \in Callers,
         AbortBegins(c) \/ AbortAndWaitBegins(c) \/ CallStep(c) \/ WaitExpires(c) \/ CallEnds(c)
  PROVE  TypeOK'
<1> USE NoRunAssumption
<1> USE DEF TypeOK, AbortBegins, AbortAndWaitBegins, CallStep, ReadCancel, CallCancel,
            WaitRegisters, WaitReturns, WaitExpires, CallEnds, Step,
            slot, inbox, knobs, chans
<1>1. SlotType' /\ InboxType' /\ KnobType' /\ RetryType' /\ ChanType'
  BY DEF SlotType, InboxType, KnobType, RetryType, ChanType
<1>2. RunType'
  BY DEF RunType, CallType
<1>3. CallType'
  <2> DEFINE Calls == [stage : {"idle", "begun", "read", "waiting", "blocked",
                                "released", "returned", "expired"},
                       was : BOOLEAN, fn : Runs \cup {NoRun},
                       target : Runs \cup {NoRun}, seen : SUBSET Runs]
  <2>1. NoCall \in Calls /\ call[c] \in Calls
    BY DEF NoCall, CallType
  <2>2. \E to \in Calls : call' = [call EXCEPT ![c] = to]
    <3>1. CASE AbortBegins(c) \/ AbortAndWaitBegins(c)
      BY <2>1, <3>1 DEF NoCall, SlotType, RunType
    <3>2. CASE ReadCancel(c) \/ CallCancel(c)
      BY <2>1, <3>2 DEF SlotType
    <3>3. CASE WaitRegisters(c) \/ WaitReturns(c)
      BY <2>1, <3>3
    <3>4. CASE WaitExpires(c) \/ CallEnds(c)
      BY <2>1, <3>4 DEF NoCall
    <3>5. QED BY <3>1, <3>2, <3>3, <3>4
  <2>3. QED BY <2>2 DEF CallType
<1>4. QED BY <1>1, <1>2, <1>3

\* Type correctness of the model of Service.
THEOREM TypeCorrect == Spec => []TypeOK
<1>1. Init => TypeOK
  <2> SUFFICES ASSUME Init PROVE TypeOK
    OBVIOUS
  <2> USE NoRunAssumption, CapAssumption, MaxRetriesAssumption DEF Init
  <2>1. SlotType
    BY DEF SlotType
  <2>2. InboxType
    BY DEF InboxType
  <2>3. KnobType
    BY DEF KnobType
  <2>4. RunType
    BY DEF RunType, Stages
  <2>5. RetryType
    BY DEF RetryType
  <2>6. ChanType
    BY DEF ChanType
  <2>7. CallType
    BY DEF CallType, NoCall
  <2>8. QED BY <2>1, <2>2, <2>3, <2>4, <2>5, <2>6, <2>7 DEF TypeOK
<1>2. TypeOK /\ [Next]_vars => TypeOK'
  <2> SUFFICES ASSUME TypeOK, [Next]_vars PROVE TypeOK'
    OBVIOUS
  <2>1. CASE UNCHANGED vars
    BY <2>1 DEF vars, slot, inbox, knobs, chans, users, TypeOK, SlotType, InboxType, KnobType,
                RunType, RetryType, ChanType, CallType
  <2>2. CASE Next
    BY <2>2, StartTyped, TurnTyped, EndTyped, QueueTyped, CallTyped DEF Next, RunStep, Progress
  <2>3. QED BY <2>1, <2>2
<1>3. QED
  BY <1>1, <1>2, PTL DEF Spec
-----------------------------------------------------------------------------
(* The run slot and the channels.                                          *)

\* One run at a time, and Abort, compaction notices and retries reach that run.
THEOREM SlotIsConsistent == Spec => []SlotConsistent
<1>1. Init => SlotConsistent
  BY DEF Init, SlotConsistent, Holding
<1>2. TypeOK /\ SlotConsistent /\ [Next]_vars => SlotConsistent'
  <2> SUFFICES ASSUME TypeOK, SlotConsistent, [Next]_vars PROVE SlotConsistent'
    OBVIOUS
  <2> USE NoRunAssumption DEF TypeOK, SlotType, RunType, SlotConsistent, Holding, Goto, Move,
          slot, inbox, knobs, chans, users
  <2>1. ASSUME NEW r \in Runs, PromptIdle(r) \/ ContinueRun(r)
        PROVE  SlotConsistent'
    BY <2>1 DEF PromptIdle, ContinueRun, Occupy
  <2>2. ASSUME NEW r \in Runs, PromptFails(r) \/ Release(r)
        PROVE  SlotConsistent'
    BY <2>2 DEF PromptFails, Release, Vacate
  <2>3. ASSUME NEW r \in Runs, RejectBusy(r) \/ PromptFailedClose(r) \/ PromptPrepared(r) \/ Launch(r)
        PROVE  SlotConsistent'
    BY <2>3 DEF RejectBusy, PromptFailedClose, PromptPrepared, Launch
  <2>4. ASSUME NEW r \in Runs, AgentStart(r) \/ LoopHead(r) \/ TurnCompletes(r) \/ TurnFails(r)
                                \/ TurnStops(r)
        PROVE  SlotConsistent'
    BY <2>4 DEF AgentStart, LoopHead, TurnCompletes, TurnFails, TurnStops
  <2>5. ASSUME NEW r \in Runs, AfterTurn(r) \/ RetryWaited(r) \/ FinalDone(r) \/ AgentEnd(r)
        PROVE  SlotConsistent'
    BY <2>5 DEF AfterTurn, RetryWaited, FinalDone, AgentEnd
  <2>6. ASSUME NEW r \in Runs, CloseEvents(r) \/ WgDone(r)
        PROVE  SlotConsistent'
    BY <2>6 DEF CloseEvents, WgDone
  <2>7. ASSUME NEW r \in Runs, NEW m \in Msgs, PromptQueued(r, m)
        PROVE  SlotConsistent'
    BY <2>7 DEF PromptQueued, Enqueue
  <2>8. ASSUME UNCHANGED <<slot, pc>>
        PROVE  SlotConsistent'
    BY <2>8
  <2>9. QED
    BY <2>1, <2>2, <2>3, <2>4, <2>5, <2>6, <2>7, <2>8
    DEF Next, RunStep, Progress, ContextEnds, Forward, TakeSteer, TakeFollowUp, Read, Queue, Enqueue, DrainQueues,
        PopQueuedMessage, SetMode, SetStopAfterTurn, AbortBegins, AbortAndWaitBegins, CallStep,
        ReadCancel, CallCancel, WaitRegisters, WaitReturns, WaitExpires, CallEnds, Step, vars
<1>3. QED
  BY <1>1, <1>2, TypeCorrect, PTL DEF Spec

\* Every caller's channel is closed once, on every path.
THEOREM ChannelsClosedOnce == Spec => []ClosedExactlyOnce
<1>1. Init => ClosedExactlyOnce
  BY DEF Init, ClosedExactlyOnce
<1>2. TypeOK /\ ClosedExactlyOnce /\ [Next]_vars => ClosedExactlyOnce'
  <2> SUFFICES ASSUME TypeOK, ClosedExactlyOnce, [Next]_vars PROVE ClosedExactlyOnce'
    OBVIOUS
  <2> USE DEF TypeOK, RunType, ChanType, ClosedExactlyOnce, Goto, Move, Close,
          slot, inbox, knobs, chans, users
  <2>1. ASSUME NEW r \in Runs, \/ RejectBusy(r) \/ PromptFailedClose(r) \/ CloseEvents(r)
                               \/ \E m \in Msgs : PromptQueued(r, m)
        PROVE  ClosedExactlyOnce'
    BY <2>1 DEF RejectBusy, PromptFailedClose, CloseEvents, PromptQueued
  <2>2. ASSUME NEW r \in Runs, PromptIdle(r) \/ ContinueRun(r) \/ PromptFails(r) \/ PromptPrepared(r)
                                \/ Launch(r)
        PROVE  ClosedExactlyOnce'
    BY <2>2 DEF PromptIdle, ContinueRun, PromptFails, PromptPrepared, Launch
  <2>3. ASSUME NEW r \in Runs, AgentStart(r) \/ LoopHead(r) \/ TurnCompletes(r) \/ TurnFails(r)
                                \/ TurnStops(r)
        PROVE  ClosedExactlyOnce'
    BY <2>3 DEF AgentStart, LoopHead, TurnCompletes, TurnFails, TurnStops
  <2>4. ASSUME NEW r \in Runs, AfterTurn(r) \/ RetryWaited(r) \/ FinalDone(r) \/ AgentEnd(r)
                                \/ Release(r) \/ WgDone(r)
        PROVE  ClosedExactlyOnce'
    BY <2>4 DEF AfterTurn, RetryWaited, FinalDone, AgentEnd, Release, WgDone
  <2>5. ASSUME UNCHANGED <<pc, closes>>
        PROVE  ClosedExactlyOnce'
    BY <2>5
  <2>6. QED
    BY <2>1, <2>2, <2>3, <2>4, <2>5
    DEF Next, RunStep, Progress, ContextEnds, Forward, TakeSteer, TakeFollowUp, Read, Queue, Enqueue, DrainQueues,
        PopQueuedMessage, SetMode, SetStopAfterTurn, AbortBegins, AbortAndWaitBegins, CallStep,
        ReadCancel, CallCancel, WaitRegisters, WaitReturns, WaitExpires, CallEnds, Step, vars
<1>3. QED
  BY <1>1, <1>2, TypeCorrect, PTL DEF Spec

-----------------------------------------------------------------------------
(* Cancelling and waiting.                                                 *)

\* A cancelled run begins no further turn.
THEOREM CancelledRunsStop == Spec => NoTurnAfterCancel
<1>1. TypeOK /\ [Next]_vars =>
        [\A r \in Runs : r \in ctxDone /\ pc[r] # "turn" => pc'[r] # "turn"]_vars
  <2> SUFFICES ASSUME TypeOK, Next, NEW s \in Runs, s \in ctxDone, pc[s] # "turn"
               PROVE  pc'[s] # "turn"
    OBVIOUS
  <2> USE DEF TypeOK, RunType, Goto, Move
  <2>1. ASSUME NEW r \in Runs, \/ PromptIdle(r) \/ ContinueRun(r) \/ RejectBusy(r)
                               \/ PromptFails(r) \/ PromptFailedClose(r) \/ PromptPrepared(r)
                               \/ Launch(r) \/ \E m \in Msgs : PromptQueued(r, m)
        PROVE  pc'[s] # "turn"
    BY <2>1 DEF PromptIdle, ContinueRun, RejectBusy, PromptFails, PromptFailedClose,
                PromptPrepared, Launch, PromptQueued
  <2>2. ASSUME NEW r \in Runs, AgentStart(r) \/ LoopHead(r) \/ TurnCompletes(r) \/ TurnFails(r)
                                \/ TurnStops(r)
        PROVE  pc'[s] # "turn"
    BY <2>2 DEF AgentStart, LoopHead, TurnCompletes, TurnFails, TurnStops
  <2>3. ASSUME NEW r \in Runs, \/ AfterTurn(r) \/ RetryWaited(r) \/ FinalDone(r) \/ AgentEnd(r)
                               \/ Release(r) \/ CloseEvents(r) \/ WgDone(r)
        PROVE  pc'[s] # "turn"
    BY <2>3 DEF AfterTurn, RetryWaited, FinalDone, AgentEnd, Release, CloseEvents, WgDone
  <2>4. ASSUME UNCHANGED pc
        PROVE  pc'[s] # "turn"
    BY <2>4
  <2>5. QED
    BY <2>1, <2>2, <2>3, <2>4
    DEF Next, RunStep, Progress, ContextEnds, Forward, TakeSteer, TakeFollowUp, Read, Queue, Enqueue, DrainQueues,
        PopQueuedMessage, SetMode, SetStopAfterTurn, AbortBegins, AbortAndWaitBegins, CallStep,
        ReadCancel, CallCancel, WaitRegisters, WaitReturns, WaitExpires, CallEnds, Step
<1>2. QED
  BY <1>1, TypeCorrect, PTL DEF Spec, NoTurnAfterCancel

\* The wait group counts exactly the goroutines between Add and Done; a run it
\* counted when AbortAndWait began is still counted or over, and once the wait is
\* released none of them is counted.
WaitInv ==
  /\ runWg = {r \in Runs : pc[r] \in Counting}
  /\ \A c \in Callers : \A r \in call[c].seen : pc[r] \in Counting \cup {"over"}
  /\ \A c \in Callers : call[c].stage \in {"released", "returned"} /\ call[c].was
       => call[c].seen \cap runWg = {}

\* AbortAndWait waits for every run that was counted when it began.  What it does
\* not promise, that the active run is among them, is refuted by AbortAndWaitCompletes.
THEOREM CountedRunsAwaited == Spec => []WaitCoversCounted
<1>1. Init => WaitInv
  BY DEF Init, WaitInv, Counting, NoCall
<1>2. TypeOK /\ WaitInv /\ [Next]_vars => WaitInv'
  <2> SUFFICES ASSUME TypeOK, WaitInv, [Next]_vars PROVE WaitInv'
    OBVIOUS
  <2> USE DEF TypeOK, RunType, CallType, WaitInv, Goto, Move, slot, inbox, knobs, chans, users
  <2>1. ASSUME NEW r \in Runs, \/ PromptIdle(r) \/ ContinueRun(r) \/ RejectBusy(r)
                               \/ PromptFails(r) \/ PromptFailedClose(r) \/ PromptPrepared(r)
                               \/ \E m \in Msgs : PromptQueued(r, m)
        PROVE  WaitInv'
    <3>1. UNCHANGED <<runWg, call>>
      BY <2>1 DEF PromptIdle, ContinueRun, RejectBusy, PromptFails, PromptFailedClose,
                  PromptPrepared, PromptQueued, Enqueue
    <3>2. pc[r] \notin Counting \cup {"over"} /\ pc'[r] \notin Counting
      BY <2>1 DEF PromptIdle, ContinueRun, RejectBusy, PromptFails, PromptFailedClose,
                  PromptPrepared, PromptQueued, Counting
    <3>3. \A s \in Runs \ {r} : pc'[s] = pc[s]
      BY <2>1 DEF PromptIdle, ContinueRun, RejectBusy, PromptFails, PromptFailedClose,
                  PromptPrepared, PromptQueued
    <3>4. QED BY <3>1, <3>2, <3>3
  <2>2. ASSUME NEW r \in Runs, Launch(r)
        PROVE  WaitInv'
    <3>1. pc[r] \notin Counting \cup {"over"} /\ pc'[r] \in Counting
      BY <2>2 DEF Launch, Counting
    <3>2. \A s \in Runs \ {r} : pc'[s] = pc[s]
      BY <2>2 DEF Launch
    <3>3. UNCHANGED call /\ runWg' = runWg \cup {r}
      BY <2>2 DEF Launch
    <3>4. QED BY <3>1, <3>2, <3>3
  <2>3. ASSUME NEW r \in Runs, \/ AgentStart(r) \/ LoopHead(r) \/ TurnCompletes(r) \/ TurnFails(r)
                               \/ TurnStops(r) \/ AfterTurn(r) \/ RetryWaited(r) \/ FinalDone(r)
                               \/ AgentEnd(r) \/ Release(r) \/ CloseEvents(r)
        PROVE  WaitInv'
    <3>1. UNCHANGED <<runWg, call>>
      BY <2>3 DEF AgentStart, LoopHead, TurnCompletes, TurnFails, TurnStops, AfterTurn,
                  RetryWaited, FinalDone, AgentEnd, Release, CloseEvents
    <3>2. pc[r] \in Counting /\ pc'[r] \in Counting
      BY <2>3 DEF AgentStart, LoopHead, TurnCompletes, TurnFails, TurnStops, AfterTurn,
                  RetryWaited, FinalDone, AgentEnd, Release, CloseEvents, Counting
    <3>3. \A s \in Runs \ {r} : pc'[s] = pc[s]
      BY <2>3 DEF AgentStart, LoopHead, TurnCompletes, TurnFails, TurnStops, AfterTurn,
                  RetryWaited, FinalDone, AgentEnd, Release, CloseEvents
    <3>4. QED BY <3>1, <3>2, <3>3
  <2>4. ASSUME NEW r \in Runs, WgDone(r)
        PROVE  WaitInv'
    <3>1. pc[r] \in Counting /\ pc'[r] = "over" /\ runWg' = runWg \ {r}
      BY <2>4 DEF WgDone, Counting
    <3>2. \A s \in Runs \ {r} : pc'[s] = pc[s]
      BY <2>4 DEF WgDone
    <3>3. \A c \in Callers : /\ call'[c].seen = call[c].seen /\ call'[c].was = call[c].was
                             /\ \/ call'[c].stage = call[c].stage
                                \/ runWg' = {}
      BY <2>4 DEF WgDone
    <3>4. "over" \notin Counting
      BY DEF Counting
    <3>5. QED BY <3>1, <3>2, <3>3, <3>4
  <2>5. ASSUME NEW c \in Callers, \/ AbortBegins(c) \/ AbortAndWaitBegins(c) \/ CallStep(c)
                                  \/ WaitExpires(c) \/ CallEnds(c)
        PROVE  WaitInv'
    <3>1. UNCHANGED <<pc, runWg>> /\ \A d \in Callers \ {c} : call'[d] = call[d]
      BY <2>5 DEF AbortBegins, AbortAndWaitBegins, CallStep, ReadCancel, CallCancel,
                  WaitRegisters, WaitReturns, WaitExpires, CallEnds, Step
    <3> DEFINE Kept(s) == s \in {{}, call[c].seen, runWg}
               Awaited(d) == d.stage \in {"released", "returned"} /\ d.was => d.seen \cap runWg = {}
    <3>2. CASE AbortBegins(c) \/ AbortAndWaitBegins(c)
      <4>1. ASSUME AbortBegins(c)
            PROVE  call'[c].stage = "begun" /\ Kept(call'[c].seen)
        <5>1. call'[c] = [NoCall EXCEPT !.stage = "begun"]
          BY <4>1 DEF AbortBegins, Step
        <5>2. QED BY <5>1 DEF NoCall
      <4>2. ASSUME AbortAndWaitBegins(c)
            PROVE  call'[c].stage = "begun" /\ Kept(call'[c].seen)
        <5>1. call'[c] = [NoCall EXCEPT !.stage = "begun", !.was = streaming,
                                        !.target = eventSink,
                                        !.seen = IF streaming THEN runWg ELSE {}]
          BY <4>2 DEF AbortAndWaitBegins, Step
        <5>2. QED BY <5>1 DEF NoCall
      <4>3. QED BY <3>1, <3>2, <4>1, <4>2
    <3>3. CASE ReadCancel(c) \/ CallCancel(c)
      <4> DEFINE stage == IF ReadCancel(c) THEN "read"
                          ELSE IF call[c].was THEN "waiting" ELSE "returned"
                 fn == IF ReadCancel(c) THEN cancel ELSE NoRun
      <4>0. call'[c] = [call[c] EXCEPT !.stage = stage, !.fn = fn]
        BY <3>3 DEF ReadCancel, CallCancel, Step
      <4>1. call'[c].seen = call[c].seen /\ call'[c].was = call[c].was
        BY <4>0
      <4>2. Awaited(call'[c])
        BY <4>0
      <4>3. QED BY <3>1, <4>1, <4>2
    <3>4. CASE WaitRegisters(c) \/ WaitReturns(c)
      <4>1. call'[c].seen = call[c].seen /\ call'[c].was = call[c].was
        BY <3>4 DEF WaitRegisters, WaitReturns, Step
      <4>2. Awaited(call'[c])
        BY <3>4 DEF WaitRegisters, WaitReturns, Step
      <4>3. QED BY <3>1, <4>1, <4>2
    <3>5. CASE WaitExpires(c) \/ CallEnds(c)
      <4>1. call'[c].seen = {}
        BY <3>5 DEF WaitExpires, CallEnds, Step, NoCall
      <4>2. QED BY <3>1, <4>1
    <3>6. QED BY <2>5, <3>2, <3>3, <3>4, <3>5 DEF CallStep
  <2>6. ASSUME UNCHANGED <<pc, runWg, call>>
        PROVE  WaitInv'
    BY <2>6
  <2>7. QED
    BY <2>1, <2>2, <2>3, <2>4, <2>5, <2>6
    DEF Next, RunStep, Progress, ContextEnds, Forward, TakeSteer, TakeFollowUp, Read, Queue, Enqueue, DrainQueues,
        PopQueuedMessage, SetMode, SetStopAfterTurn, vars
<1>3. TypeOK /\ WaitInv => WaitCoversCounted
  BY DEF TypeOK, CallType, WaitInv, WaitCoversCounted
<1>4. QED
  BY <1>1, <1>2, <1>3, TypeCorrect, PTL DEF Spec

-----------------------------------------------------------------------------
(* The queues.                                                             *)

\* No message that was accepted is lost or delivered twice.
THEOREM MessagesAccounted == Spec => []QueuesAccounted
<1>1. Init => QueuesAccounted
  BY DEF Init, QueuesAccounted, Elems, NoRepeats
<1>2. TypeOK /\ QueuesAccounted /\ [Next]_vars => QueuesAccounted'
  <2> SUFFICES ASSUME TypeOK, QueuesAccounted, [Next]_vars PROVE QueuesAccounted'
    OBVIOUS
  <2> USE DEF TypeOK, InboxType, QueuesAccounted, inbox, knobs, users
  <2> DEFINE S == Elems(steerQueue)
             F == Elems(followUpQueue)
  <2>a. S \subseteq Msgs /\ F \subseteq Msgs
    BY DEF Elems
  <2>b. Elems(<<>>) = {} /\ NoRepeats(<<>>)
    BY DEF Elems, NoRepeats
  <2>c. steerQueue # <<>> =>
          /\ Head(steerQueue) \in S
          /\ Elems(Tail(steerQueue)) = S \ {Head(steerQueue)}
          /\ NoRepeats(Tail(steerQueue))
    BY TailElems
  <2>d. followUpQueue # <<>> =>
          /\ Head(followUpQueue) \in F
          /\ Elems(Tail(followUpQueue)) = F \ {Head(followUpQueue)}
          /\ NoRepeats(Tail(followUpQueue))
    BY TailElems
  <2>1. ASSUME NEW r \in Runs, TakeSteer(r)
        PROVE  QueuesAccounted'
    BY <2>1, <2>a, <2>b, <2>c DEF TakeSteer, Settle
  <2>2. ASSUME NEW r \in Runs, TakeFollowUp(r)
        PROVE  QueuesAccounted'
    BY <2>2, <2>a, <2>b, <2>d DEF TakeFollowUp, Settle
  <2>3. CASE DrainQueues
    BY <2>3, <2>a, <2>b DEF DrainQueues, Settle
  <2>4. CASE PopQueuedMessage
    BY <2>4, <2>a, <2>b, <2>c, <2>d DEF PopQueuedMessage, Settle
  <2>5. ASSUME NEW m \in Msgs, Enqueue(m)
        PROVE  QueuesAccounted'
    <3>1. m \notin S /\ m \notin F
      BY <2>5 DEF Enqueue
    <3>2. /\ Elems(Append(steerQueue, m)) = S \cup {m} /\ NoRepeats(Append(steerQueue, m))
          /\ Elems(Append(followUpQueue, m)) = F \cup {m} /\ NoRepeats(Append(followUpQueue, m))
      BY <3>1, AppendElems
    <3>3. fate' = [fate EXCEPT ![m] = "queued"]
      BY <2>5 DEF Enqueue
    <3>4. QED BY <2>5, <3>1, <3>2, <3>3 DEF Enqueue
  <2>6. ASSUME UNCHANGED inbox
        PROVE  QueuesAccounted'
    BY <2>6
  <2>7. QED
    BY <2>1, <2>2, <2>3, <2>4, <2>5, <2>6
    DEF Next, RunStep, Progress, ContextEnds, PromptIdle, ContinueRun, RejectBusy, PromptFails, PromptFailedClose,
        PromptPrepared, Launch, AgentStart, LoopHead, Forward, TurnCompletes, TurnStops,
        TurnFails, AfterTurn, RetryWaited, FinalDone, AgentEnd, Release, CloseEvents, WgDone,
        Read, Queue, PromptQueued, SetMode, SetStopAfterTurn, AbortBegins, AbortAndWaitBegins,
        CallStep, ReadCancel, CallCancel, WaitRegisters, WaitReturns, WaitExpires, CallEnds,
        Step, Move, vars
<1>3. QED
  BY <1>1, <1>2, TypeCorrect, PTL DEF Spec

-----------------------------------------------------------------------------
(* Refinement.                                                             *)

\* Service keeps the promise of RunSlot: every step of its goroutines begins or ends
\* the session's run, moves a message, or is invisible.
THEOREM ServiceImplementsSlot == Spec => SlotSpec
<1> DEFINE spent == {r \in Runs : pc[r] \notin {"free", "rejected"}}
<1>1. Init => Slot!Init
  BY DEF Init, Slot!Init
<1>2. TypeOK /\ SlotConsistent /\ [Next]_vars => [Slot!Next]_(Slot!vars)
  <2> SUFFICES ASSUME TypeOK, SlotConsistent, [Next]_vars
               PROVE  Slot!Next \/ UNCHANGED Slot!vars
    OBVIOUS
  <2> USE NoRunAssumption DEF TypeOK, SlotType, RunType, Goto, Move, inbox, knobs, users,
          slot, Slot!vars, Slot!queues
  <2>0. streaming <=> eventSink # NoRun
    BY DEF SlotConsistent
  <2>1. ASSUME NEW r \in Runs, PromptIdle(r) \/ ContinueRun(r)
        PROVE  Slot!Begin(r)
    <3>1. eventSink = NoRun /\ eventSink' = r /\ r \notin spent /\ spent' = spent \cup {r}
      BY <2>0, <2>1 DEF PromptIdle, ContinueRun, Occupy
    <3>2. UNCHANGED inbox
      BY <2>1 DEF PromptIdle, ContinueRun
    <3>3. QED BY <3>1, <3>2 DEF Slot!Begin
  <2>2. ASSUME NEW r \in Runs, PromptFails(r) \/ Release(r)
        PROVE  Slot!End
    <3>1. eventSink # NoRun /\ eventSink' = NoRun
      BY <2>2 DEF PromptFails, Release, Vacate, SlotConsistent, Holding
    <3>2. spent' = spent
      BY <2>2 DEF PromptFails, Release
    <3>3. UNCHANGED inbox
      BY <2>2 DEF PromptFails, Release
    <3>4. QED BY <3>1, <3>2, <3>3 DEF Slot!End
  <2>3. ASSUME NEW m \in Msgs, Enqueue(m), spent' = spent
        PROVE  Slot!Accept(m)
    BY <2>0, <2>3 DEF Enqueue, Slot!Accept
  <2>4. ASSUME NEW r \in Runs, TakeSteer(r) \/ TakeFollowUp(r)
        PROVE  Slot!HandOver
    <3>1. eventSink # NoRun
      BY <2>4 DEF TakeSteer, TakeFollowUp, SlotConsistent, Holding
    <3>2. QED BY <2>4, <3>1 DEF TakeSteer, TakeFollowUp, Settle, Elems,
                                 Slot!HandOver, Slot!Leave, Slot!Elems
  <2>5. CASE DrainQueues
    BY <2>5 DEF DrainQueues, Settle, Elems, Slot!GiveBack, Slot!Leave, Slot!Elems, Slot!Next
  <2>6. CASE PopQueuedMessage
    BY <2>6 DEF PopQueuedMessage, Settle, Slot!GiveBack, Slot!Leave, Slot!Next
  <2>7. ASSUME NEW r \in Runs, RejectBusy(r) \/ \E m \in Msgs : PromptQueued(r, m)
        PROVE  spent' = spent
    BY <2>7 DEF RejectBusy, PromptQueued
  <2>8. ASSUME NEW r \in Runs, \/ PromptFailedClose(r) \/ PromptPrepared(r) \/ Launch(r)
                               \/ AgentStart(r) \/ LoopHead(r)
                               \/ TurnCompletes(r) \/ TurnStops(r) \/ TurnFails(r)
        PROVE  UNCHANGED Slot!vars
    BY <2>8 DEF PromptFailedClose, PromptPrepared, Launch, AgentStart, LoopHead,
                TurnCompletes, TurnStops, TurnFails
  <2>9. ASSUME NEW r \in Runs, \/ AfterTurn(r) \/ RetryWaited(r) \/ FinalDone(r)
                               \/ AgentEnd(r) \/ CloseEvents(r) \/ WgDone(r)
        PROVE  UNCHANGED Slot!vars
    BY <2>9 DEF AfterTurn, RetryWaited, FinalDone, AgentEnd, CloseEvents, WgDone
  <2>10. ASSUME UNCHANGED <<slot, inbox, pc>>
         PROVE  UNCHANGED Slot!vars
    BY <2>10
  <2>11. CASE Next
    BY <2>1, <2>2, <2>3, <2>4, <2>5, <2>6, <2>7, <2>8, <2>9, <2>10, <2>11
    DEF Next, RunStep, Progress, ContextEnds, Slot!Next, RejectBusy, Queue, PromptQueued, Forward, Read, SetMode,
        SetStopAfterTurn, AbortBegins, AbortAndWaitBegins, CallStep, ReadCancel, CallCancel,
        WaitRegisters, WaitReturns, WaitExpires, CallEnds, Step
  <2>12. QED BY <2>10, <2>11 DEF vars
<1>3. QED
  BY <1>1, <1>2, TypeCorrect, SlotIsConsistent, PTL DEF Spec, SlotSpec, Slot!Spec
=============================================================================
