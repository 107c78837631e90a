---------------------------- MODULE TuiRunProofs ----------------------------
(***************************************************************************)
(* Proofs about Terminal: about TuiRun, for any number of runs, messages   *)
(* and events, any capacity of a channel and any number of failing pagers; *)
(* and about TuiChat.  The keys of the terminal are in TuiKeysProofs.      *)
(***************************************************************************)
EXTENDS Terminal, Lists, FiniteSetTheorems, SequenceTheorems, WellFoundedInduction, TLAPS

-----------------------------------------------------------------------------
(* Types.                                                                  *)

\* The variables by what they belong to, as the proofs need them.
RunTypes ==
  /\ slot \in 0..MaxRuns /\ pc \in [Runs -> {"none", "turn", "closing", "closed"}]
  /\ left \in [Runs -> 0..MaxEvents] /\ chan \in [Runs -> 0..Cap]

ThreadTypes ==
  /\ ui \in {"idle", "wait", "gone"} /\ busy \in BOOLEAN /\ events \in 0..MaxRuns
  /\ waiting \in [Runs -> Nat] /\ posted \in [Runs -> Nat] /\ ended \subseteq Runs
  /\ bash \in BOOLEAN /\ overlay \in BOOLEAN /\ failures \in 0..MaxFailures

MessageTypes ==
  /\ steer \in Seq(SUBSET Msgs) /\ followUps \in Seq(SUBSET Msgs)
  /\ given \in SUBSET Msgs /\ composer \in SUBSET Msgs /\ typed \in 0..MaxMsgs

Types == RunTypes /\ ThreadTypes /\ MessageTypes

\* What the queues are made of stays what it is.
LEMMA QueueTyped ==
  ASSUME NEW S, NEW texts \in Seq(S)
  PROVE  /\ <<>> \in Seq(S)
         /\ \A msg \in S : Append(texts, msg) \in Seq(S)
         /\ texts # <<>> => Head(texts) \in S /\ Tail(texts) \in Seq(S)
OBVIOUS

LEMMA QueuesTyped ==
  ASSUME MessageTypes
  PROVE  /\ <<>> \in Seq(SUBSET Msgs)
         /\ \A texts \in {steer, followUps} :
              /\ \A msg \in SUBSET Msgs : Append(texts, msg) \in Seq(SUBSET Msgs)
              /\ texts # <<>> =>
                   Head(texts) \in SUBSET Msgs /\ Tail(texts) \in Seq(SUBSET Msgs)
<1>1. steer \in Seq(SUBSET Msgs) /\ followUps \in Seq(SUBSET Msgs)
  BY DEF MessageTypes
<1> HIDE DEF Msgs
<1>2. QED BY <1>1, QueueTyped

\* What a new run and a prompt change.
LEMMA StartTyped ==
  ASSUME Types, NEW r \in Runs, NEW msg \in SUBSET Msgs, StartRun(r, msg)
  PROVE  RunTypes' /\ given' \in SUBSET Msgs
BY TuiRunAssumption
   DEF TuiRunAssumption, Types, StartRun, RunTypes, MessageTypes, Runs

LEMMA SubmitTyped ==
  ASSUME Types, NEW msg \in SUBSET Msgs, NEW kind \in Queues, Submit(msg, kind),
         UNCHANGED <<ui, layers, failures>>, typed' \in 0..MaxMsgs
  PROVE  Types'
<1> USE DEF Types, layers, readers
<1>1. CASE Prompt(msg)
  <2>1. PICK r \in Runs :
          /\ StartRun(r, msg) /\ busy' = TRUE /\ events' = r
          /\ waiting' = [waiting EXCEPT ![r] = @ + 1]
    BY <1>1 DEF Prompt
  <2>2. RunTypes' /\ given' \in SUBSET Msgs
    BY <2>1, StartTyped
  <2>3. ThreadTypes'
    BY <1>1, <2>1 DEF Prompt, ThreadTypes, Runs
  <2>4. MessageTypes'
    BY <1>1, <2>1, <2>2 DEF Submit, StartRun, queues, MessageTypes
  <2>5. QED BY <2>2, <2>3, <2>4
<1>2. CASE Queue(msg, kind)
  <2>1. ThreadTypes' /\ composer' \in SUBSET Msgs
    BY <1>2 DEF Queue, Submit, ThreadTypes
  <2>2. CASE streaming
    <3>1. RunTypes'
      BY <1>2, <2>2 DEF Queue, RunTypes
    <3>2. steer' \in Seq(SUBSET Msgs) /\ followUps' \in Seq(SUBSET Msgs)
      <4>1. /\ steer' = IF kind = "steer" THEN Append(steer, msg) ELSE steer
            /\ followUps' = IF kind = "steer" THEN followUps ELSE Append(followUps, msg)
        BY <1>2, <2>2 DEF Queue
      <4>2. QED BY <4>1, QueuesTyped DEF MessageTypes
    <3>3. MessageTypes'
      BY <1>2, <2>1, <2>2, <3>2 DEF Queue, MessageTypes
    <3>4. QED BY <2>1, <3>1, <3>3
  <2>3. CASE ~streaming
    <3>1. PICK r \in Runs : StartRun(r, msg)
      BY <1>2, <2>3 DEF Queue
    <3>2. RunTypes' /\ given' \in SUBSET Msgs
      BY <3>1, StartTyped
    <3>3. MessageTypes'
      BY <2>1, <3>1, <3>2 DEF StartRun, queues, MessageTypes
    <3>4. QED BY <2>1, <3>2, <3>3
  <2>4. QED BY <2>2, <2>3
<1>3. QED BY <1>1, <1>2 DEF Submit

\* The messages of a queue are messages.
LEMMA MessagesTyped ==
  ASSUME NEW texts \in Seq(SUBSET Msgs)
  PROVE  Messages(texts) \in SUBSET Msgs
BY DEF Messages

\* Abort leaves at most what was left.
LEMMA AbortTyped == Types /\ Abort => left' \in [Runs -> 0..MaxEvents]
BY TuiRunAssumption DEF TuiRunAssumption, Types, RunTypes, Abort

LEMMA RunStepTyped ==
  ASSUME Types, NEW r \in Runs, RunStep(r)
  PROVE  Types'
<1> USE TuiRunAssumption DEF Types, TuiRunAssumption, readers, service, editor, layers, queues
<1>1. CASE Emit(r)
  <2>1. RunTypes'
    BY <1>1 DEF Emit, RunTypes
  <2>2. ThreadTypes' /\ MessageTypes'
    BY <1>1 DEF Emit, ThreadTypes, MessageTypes
  <2>3. QED BY <2>1, <2>2
<1>2. CASE TakeQueued(r)
  <2>1. RunTypes' /\ ThreadTypes'
    BY <1>2 DEF TakeQueued, RunTypes, ThreadTypes
  <2>2. MessageTypes'
    BY <1>2, QueuesTyped DEF TakeQueued, MessageTypes
  <2>3. QED BY <2>1, <2>2
<1>3. CASE Release(r)
  <2>1. RunTypes'
    BY <1>3 DEF Release, RunTypes
  <2>2. ThreadTypes' /\ MessageTypes'
    BY <1>3 DEF Release, ThreadTypes, MessageTypes
  <2>3. QED BY <2>1, <2>2
<1>4. CASE Close(r)
  <2>1. RunTypes'
    BY <1>4 DEF Close, RunTypes
  <2>2. ThreadTypes' /\ MessageTypes'
    BY <1>4 DEF Close, ThreadTypes, MessageTypes
  <2>3. QED BY <2>1, <2>2
<1>5. QED BY <1>1, <1>2, <1>3, <1>4 DEF RunStep

LEMMA MessageTyped ==
  ASSUME Types, NEW r \in Runs, Message(r)
  PROVE  Types'
<1> USE DEF Types, readers, service, editor, layers, queues
<1>1. CASE WaitEvent(r)
  <2>1. chan' \in [Runs -> 0..Cap]
    BY <1>1, TuiRunAssumption DEF TuiRunAssumption, WaitEvent, RunTypes
  <2>2. RunTypes' /\ MessageTypes'
    BY <1>1, <2>1 DEF WaitEvent, RunTypes, MessageTypes
  <2>3. ThreadTypes'
    BY <1>1 DEF WaitEvent, ThreadTypes
  <2>4. QED BY <2>2, <2>3
<1>2. CASE ApplyEvent(r)
  <2>1. waiting' \in [Runs -> Nat]
    <3>1. waiting \in [Runs -> Nat] /\ waiting' = [waiting EXCEPT ![events] = @ + 1]
      BY <1>2 DEF ApplyEvent, ThreadTypes
    <3>2. CASE events \in Runs
      BY <3>1, <3>2
    <3>3. CASE events \notin Runs
      BY <3>1, <3>3
    <3>4. QED BY <3>2, <3>3
  <2>2. ThreadTypes'
    BY <1>2, <2>1 DEF ApplyEvent, ThreadTypes
  <2>3. RunTypes' /\ MessageTypes'
    BY <1>2 DEF ApplyEvent, RunTypes, MessageTypes
  <2>4. QED BY <2>2, <2>3
<1>3. CASE EventsClosed(r)
  BY <1>3 DEF EventsClosed, RunTypes, ThreadTypes, MessageTypes
<1>4. QED BY <1>1, <1>2, <1>3 DEF Message

LEMMA KeyTyped == Types /\ Key => Types'
<1> SUFFICES ASSUME Types, Key PROVE Types'
  OBVIOUS
<1> USE DEF Types, readers, service, editor, layers, queues
<1>1. CASE Type
  <2>1. typed + 1 \in Msgs /\ typed + 1 \in 0..MaxMsgs
    BY <1>1, TuiRunAssumption DEF TuiRunAssumption, Type, MessageTypes, Msgs
  <2>2. QED BY <1>1, <2>1 DEF Type, RunTypes, ThreadTypes, MessageTypes
<1>2. CASE StartBash \/ ToggleOverlay \/ EscBash \/ EscOverlay \/ CtrlC
  BY <1>2 DEF StartBash, ToggleOverlay, EscBash, EscOverlay, CtrlC,
              RunTypes, ThreadTypes, MessageTypes
<1>3. CASE EscBusy
  <2>1. RunTypes' /\ ThreadTypes'
    BY <1>3, AbortTyped DEF EscBusy, RunTypes, ThreadTypes
  <2>2. Drained \in SUBSET Msgs
    BY MessagesTyped DEF Drained, MessageTypes
  <2>3. MessageTypes'
    BY <1>3, <2>2, QueuesTyped DEF EscBusy, MessageTypes
  <2>4. QED BY <2>1, <2>3
<1>4. CASE SlashAbort \/ NewSession
  <2>1. RunTypes' /\ ThreadTypes'
    BY <1>4, AbortTyped DEF SlashAbort, NewSession, RunTypes, ThreadTypes
  <2>2. MessageTypes'
    BY <1>4, QueuesTyped DEF SlashAbort, NewSession, MessageTypes
  <2>3. QED BY <2>1, <2>2
<1>5. CASE Dequeue
  <2>1. RunTypes' /\ ThreadTypes'
    BY <1>5 DEF Dequeue, RunTypes, ThreadTypes
  <2>2. MessageTypes'
    BY <1>5, QueuesTyped DEF Dequeue, MessageTypes
  <2>3. QED BY <2>1, <2>2
<1>6. ASSUME NEW k \in Queues, Enter(k) PROVE Types'
  <2>1. typed' \in 0..MaxMsgs /\ composer \in SUBSET Msgs
    BY <1>6 DEF Enter, MessageTypes
  <2>2. QED BY <1>6, <2>1, SubmitTyped DEF Enter
<1>7. ASSUME NEW k \in Queues, ExternalPrompt(k) PROVE Types'
  <2>1. typed' \in 0..MaxMsgs /\ {typed + 1} \in SUBSET Msgs
    BY <1>7, TuiRunAssumption DEF TuiRunAssumption, ExternalPrompt, MessageTypes, Msgs
  <2>2. QED BY <1>7, <2>1, SubmitTyped DEF ExternalPrompt
<1>8. QED BY <1>1, <1>2, <1>3, <1>4, <1>5, <1>6, <1>7 DEF Key

LEMMA TypeKept == Types /\ [Next]_vars => Types'
<1> SUFFICES ASSUME Types, [Next]_vars PROVE Types'
  OBVIOUS
<1>1. CASE PagerFails
  <2>1. failures' \in 0..MaxFailures
    BY <1>1, TuiRunAssumption DEF TuiRunAssumption, PagerFails, Types, ThreadTypes
  <2>2. ThreadTypes'
    BY <1>1, <2>1 DEF PagerFails, readers, layers, Types, ThreadTypes
  <2>3. RunTypes' /\ MessageTypes'
    BY <1>1 DEF PagerFails, service, queues, editor, Types, RunTypes, MessageTypes
  <2>4. QED BY <2>2, <2>3 DEF Types
<1>2. CASE BashEnds \/ SessionIsNew
  BY <1>2
     DEF Types, BashEnds, SessionIsNew, readers, service, editor, layers, queues,
         RunTypes, ThreadTypes, MessageTypes
<1>3. CASE UNCHANGED vars
  BY <1>3
     DEF Types, vars, readers, service, editor, layers, queues, RunTypes, ThreadTypes, MessageTypes
<1>4. QED BY <1>1, <1>2, <1>3, RunStepTyped, MessageTyped, KeyTyped DEF Next

LEMMA Typed == Spec => []Types
<1>1. Init => RunTypes
  BY TuiRunAssumption DEF TuiRunAssumption, Init, RunTypes, Runs
<1>2. Init => ThreadTypes
  <2>1. 0 \in 0..MaxRuns /\ 0 \in 0..MaxFailures
    BY TuiRunAssumption DEF TuiRunAssumption
  <2>2. Init => busy \in BOOLEAN /\ bash \in BOOLEAN /\ overlay \in BOOLEAN
    BY DEF Init
  <2>3. Init => waiting \in [Runs -> Nat] /\ posted \in [Runs -> Nat] /\ ended \subseteq Runs
    BY DEF Init
  <2>4. QED BY <2>1, <2>2, <2>3 DEF Init, ThreadTypes
<1>3. Init => MessageTypes
  BY TuiRunAssumption DEF TuiRunAssumption, Init, MessageTypes
<1>4. QED BY <1>1, <1>2, <1>3, TypeKept, PTL DEF Spec, Types

\* Every variable keeps its type: a channel never holds more than its capacity.
THEOREM TypeCorrect == Spec => []TypeOK
<1>1. Types => TypeOK
  BY DEF Types, RunTypes, ThreadTypes, MessageTypes, TypeOK
<1>2. QED BY <1>1, Typed, PTL

-----------------------------------------------------------------------------
(* What the thread believes of a run.                                      *)

\* The channel of Model.events is the one that is read, by one goroutine, until its end is
\* on its way; nothing is on its way to a thread that is not busy.  A failing pager breaks
\* this.
OneReader ==
  failures = 0 =>
    /\ ended \subseteq {events}
    /\ \A r \in Runs : InFlight(r) > 0 => r = events /\ ended = {} /\ InFlight(r) = 1
    /\ ~busy => ended = {} /\ \A r \in Runs : InFlight(r) = 0

\* With or without failures, a busy thread has a channel whose end it will see.
Watched == (busy => events \in Runs) /\ BusyIsWatched /\ OneReader

\* A prompt of an idle thread: its run gets the one goroutine that reads.
LEMMA PromptWatched ==
  ASSUME Types, Watched, NEW msg, Prompt(msg), UNCHANGED failures
  PROVE  Watched'
<1>1. PICK r \in Runs : busy' = TRUE /\ events' = r /\ waiting' = [waiting EXCEPT ![r] = @ + 1]
  BY DEF Prompt
<1>2. ~busy /\ UNCHANGED <<posted, ended>>
  BY DEF Prompt
<1>3. /\ waiting \in [Runs -> Nat] /\ posted \in [Runs -> Nat]
      /\ InFlight(r)' = InFlight(r) + 1
      /\ \A q \in Runs \ {r} : InFlight(q)' = InFlight(q)
  BY <1>1, <1>2 DEF Types, ThreadTypes, InFlight
<1>4. InFlight(r) \in Nat
  BY <1>3 DEF InFlight
<1>5. BusyIsWatched'
  BY <1>1, <1>3, <1>4 DEF BusyIsWatched
<1>6. OneReader'
  BY <1>1, <1>2, <1>3 DEF Watched, OneReader
<1>7. QED BY <1>1, <1>5, <1>6 DEF Watched

LEMMA MessageWatched ==
  ASSUME Types, Watched, NEW r \in Runs, Message(r)
  PROVE  Watched'
<1>1. /\ waiting \in [Runs -> Nat] /\ posted \in [Runs -> Nat] /\ ended \subseteq Runs
      /\ failures \in Nat /\ \A q \in Runs : InFlight(q) \in Nat
  BY TuiRunAssumption DEF TuiRunAssumption, Types, ThreadTypes, InFlight
<1>2. CASE WaitEvent(r)
  <2>1. UNCHANGED <<busy, events, failures>> /\ waiting[r] > 0
    BY <1>2 DEF WaitEvent
  <2>2. \A q \in Runs \ {r} : InFlight(q)' = InFlight(q)
    BY <1>1, <1>2 DEF WaitEvent, InFlight
  <2>3. \/ InFlight(r)' = InFlight(r) /\ UNCHANGED ended
        \/ InFlight(r)' = InFlight(r) - 1 /\ ended' = ended \cup {r}
    BY <1>1, <1>2 DEF WaitEvent, InFlight
  <2>4. InFlight(r) > 0
    BY <1>1, <2>1 DEF InFlight
  <2>5. (busy => events \in Runs)' /\ BusyIsWatched'
    BY <1>1, <2>1, <2>2, <2>3 DEF Watched, BusyIsWatched
  <2>6. OneReader'
    BY <1>1, <2>1, <2>2, <2>3, <2>4 DEF Watched, OneReader
  <2>7. QED BY <2>5, <2>6 DEF Watched
<1>3. CASE ApplyEvent(r)
  <2>1. UNCHANGED <<busy, events, ended, failures>> /\ posted[r] > 0
    BY <1>3 DEF ApplyEvent
  <2>2. InFlight(r) > 0
    BY <1>1, <2>1 DEF InFlight
  <2>3. CASE events = r
    <3>1. \A q \in Runs : InFlight(q)' = InFlight(q)
      BY <1>1, <1>3, <2>1, <2>3 DEF ApplyEvent, InFlight
    <3>2. QED BY <2>1, <3>1 DEF Watched, BusyIsWatched, OneReader
  <2>4. CASE events # r
    <3>1. failures # 0
      BY <2>2, <2>4 DEF Watched, OneReader
    <3>2. events \in Runs => InFlight(events)' > 0
      BY <1>1, <1>3, <2>1, <2>4 DEF ApplyEvent, InFlight
    <3>3. QED BY <2>1, <3>1, <3>2 DEF Watched, BusyIsWatched, OneReader
  <2>5. QED BY <2>3, <2>4
<1>4. CASE EventsClosed(r)
  <2>1. /\ busy' = FALSE /\ ended' = ended \ {r} /\ r \in ended
        /\ UNCHANGED <<waiting, posted, events, failures>>
    BY <1>4 DEF EventsClosed
  <2>2. \A q \in Runs : InFlight(q)' = InFlight(q)
    BY <2>1 DEF InFlight
  <2>3. OneReader'
    BY <1>1, <2>1, <2>2 DEF Watched, OneReader
  <2>4. QED BY <2>1, <2>3 DEF Watched, BusyIsWatched
<1>5. QED BY <1>2, <1>3, <1>4 DEF Message

\* All other steps leave what the thread knows alone.
LEMMA OthersWatched ==
  ASSUME Watched, UNCHANGED <<busy, events, waiting, posted, ended, failures>>
  PROVE  Watched'
BY DEF Watched, BusyIsWatched, OneReader, InFlight

LEMMA WatchedKept == Types /\ Watched /\ [Next]_vars => Watched'
<1> SUFFICES ASSUME Types, Watched, [Next]_vars PROVE Watched'
  OBVIOUS
<1> USE DEF readers
<1>1. ASSUME NEW r \in Runs, RunStep(r) PROVE Watched'
  BY <1>1, OthersWatched DEF RunStep, Emit, TakeQueued, Release, Close
<1>2. ASSUME NEW msg, NEW kind, Submit(msg, kind), UNCHANGED failures PROVE Watched'
  <2>1. CASE Prompt(msg)
    BY <1>2, <2>1, PromptWatched
  <2>2. CASE Queue(msg, kind)
    BY <1>2, <2>2, OthersWatched DEF Queue
  <2>3. QED BY <1>2, <2>1, <2>2 DEF Submit
<1>3. CASE Key
  <2>1. ASSUME NEW k \in Queues, Enter(k) \/ ExternalPrompt(k) PROVE Watched'
    BY <1>2, <2>1 DEF Enter, ExternalPrompt
  <2>2. CASE \/ Type \/ StartBash \/ ToggleOverlay \/ EscBash \/ EscOverlay \/ EscBusy
             \/ SlashAbort \/ Dequeue \/ CtrlC \/ NewSession
    BY <2>2, OthersWatched DEF Type, StartBash, ToggleOverlay, EscBash, EscOverlay, EscBusy,
                                SlashAbort, Dequeue, CtrlC, NewSession
  <2>3. QED BY <1>3, <2>1, <2>2 DEF Key
<1>4. CASE PagerFails
  <2>1. failures' # 0
    BY <1>4, TuiRunAssumption DEF TuiRunAssumption, PagerFails, Types, ThreadTypes
  <2>2. QED BY <1>4, <2>1 DEF PagerFails, Watched, BusyIsWatched, OneReader
<1>5. CASE BashEnds \/ SessionIsNew \/ UNCHANGED vars
  BY <1>5, OthersWatched DEF BashEnds, SessionIsNew, vars
<1>6. QED BY <1>1, <1>3, <1>4, <1>5, MessageWatched DEF Next

\* A run that the thread believes in is watched to its end, by one goroutine, and an idle
\* thread gets nobody's events.
THEOREM RunsAreWatched == Spec => []RunWatched
<1>1. Init => Watched
  BY DEF Init, Watched, BusyIsWatched, OneReader, InFlight
<1>2. Types /\ TypeOK /\ Watched => RunWatched
  <2> SUFFICES ASSUME Types, TypeOK, Watched PROVE RunWatched
    OBVIOUS
  <2>1. \A r \in Runs : InFlight(r) \in Nat
    BY DEF Types, ThreadTypes, InFlight
  <2>2. QED BY <2>1 DEF Watched, OneReader, RunWatched, EventsInOrder, IdleIsQuiet
<1>3. QED BY <1>1, <1>2, WatchedKept, Typed, TypeCorrect, PTL DEF Spec

-----------------------------------------------------------------------------
(* Where the messages of the user are.                                     *)

\* No message is in two texts of a queue.
Apart(texts) == \A i, j \in DOMAIN texts : i # j => texts[i] \cap texts[j] = {}

LEMMA EmptyTexts == Apart(<<>>) /\ Messages(<<>>) = {}
BY DEF Apart, Messages

\* A text comes in at the end ...
LEMMA AppendTexts ==
  ASSUME NEW S, NEW texts \in Seq(SUBSET S), NEW msg \in SUBSET S
  PROVE  /\ Messages(Append(texts, msg)) = Messages(texts) \cup msg
         /\ Apart(texts) /\ Messages(texts) \cap msg = {} => Apart(Append(texts, msg))
<1> DEFINE more == Append(texts, msg)
           n == Len(texts)
<1>1. /\ n \in Nat /\ DOMAIN texts = 1..n /\ DOMAIN more = 1..(n + 1)
      /\ more[n + 1] = msg /\ \A i \in 1..n : more[i] = texts[i]
  OBVIOUS
<1> HIDE DEF more, n
<1>2. \A i \in 1..(n + 1) : i \in 1..n \/ i = n + 1
  BY <1>1
<1>3. 1..n \subseteq 1..(n + 1) /\ n + 1 \in 1..(n + 1)
  BY <1>1
<1>4. Messages(more) = Messages(texts) \cup msg
  <2>1. Messages(more) \subseteq Messages(texts) \cup msg
    BY <1>1, <1>2 DEF Messages
  <2>2. Messages(texts) \subseteq Messages(more)
    BY <1>1, <1>3 DEF Messages
  <2>3. msg \subseteq Messages(more)
    BY <1>1, <1>3 DEF Messages
  <2>4. QED BY <2>1, <2>2, <2>3
<1>5. ASSUME Apart(texts), Messages(texts) \cap msg = {}
      PROVE  Apart(more)
  <2>1. \A i \in 1..n : texts[i] \cap msg = {}
    BY <1>1, <1>5 DEF Messages
  <2>2. QED BY <1>1, <1>2, <1>5, <2>1 DEF Apart
<1>6. QED BY <1>4, <1>5 DEF more

\* ... and goes out at the front.
LEMMA HeadTexts ==
  ASSUME NEW S, NEW texts \in Seq(SUBSET S), texts # <<>>
  PROVE  /\ Messages(texts) = Head(texts) \cup Messages(Tail(texts))
         /\ Apart(texts) => /\ Apart(Tail(texts))
                            /\ Head(texts) \cap Messages(Tail(texts)) = {}
<1> DEFINE rest == Tail(texts)
           n == Len(texts)
<1>1. /\ n \in Nat /\ n >= 1 /\ DOMAIN texts = 1..n /\ DOMAIN rest = 1..(n - 1)
      /\ texts[1] = Head(texts) /\ \A i \in 1..(n - 1) : rest[i] = texts[i + 1]
  OBVIOUS
<1> HIDE DEF rest, n
<1>2. /\ 1 \in 1..n /\ \A i \in 1..(n - 1) : i + 1 \in 1..n /\ i + 1 # 1
      /\ \A i \in 1..n : i = 1 \/ (i - 1 \in 1..(n - 1) /\ texts[i] = rest[i - 1])
  BY <1>1
<1>3. Messages(texts) = Head(texts) \cup Messages(rest)
  <2>1. Messages(texts) \subseteq Head(texts) \cup Messages(rest)
    BY <1>1, <1>2 DEF Messages
  <2>2. Messages(rest) \subseteq Messages(texts)
    BY <1>1, <1>2 DEF Messages
  <2>3. Head(texts) \subseteq Messages(texts)
    BY <1>1, <1>2 DEF Messages
  <2>4. QED BY <2>1, <2>2, <2>3
<1>4. ASSUME Apart(texts)
      PROVE  Apart(rest) /\ Head(texts) \cap Messages(rest) = {}
  <2>1. ASSUME NEW i \in 1..(n - 1), NEW j \in 1..(n - 1), i # j
        PROVE  rest[i] \cap rest[j] = {}
    <3>1. i + 1 # j + 1 /\ i + 1 \in DOMAIN texts /\ j + 1 \in DOMAIN texts
      BY <1>1, <1>2, <2>1
    <3>2. QED BY <1>1, <1>4, <3>1 DEF Apart
  <2>2. \A i \in 1..(n - 1) : Head(texts) \cap rest[i] = {}
    BY <1>1, <1>2, <1>4 DEF Apart
  <2>3. QED BY <1>1, <2>1, <2>2 DEF Apart, Messages
<1>5. QED BY <1>3, <1>4 DEF rest

Queued == Messages(steer) \cup Messages(followUps)

\* No message is in two places, and a message that is somewhere was written before.
PlacesInv ==
  /\ Apart(steer) /\ Apart(followUps) /\ Messages(steer) \cap Messages(followUps) = {}
  /\ given \cap composer = {} /\ (given \cup composer) \cap Queued = {}
  /\ given \cup composer \cup Queued \subseteq 1..typed

\* A text that is nowhere else is queued or given to a new run.
LEMMA SubmitOnce ==
  ASSUME Types, NEW msg \in SUBSET Msgs, NEW kind \in Queues, Submit(msg, kind),
         PlacesInv, msg \cap (given \cup Queued) = {}, msg \subseteq 1..typed',
         1..typed \subseteq 1..typed'
  PROVE  PlacesInv'
<1>1. composer' = {} /\ steer \in Seq(SUBSET Msgs) /\ followUps \in Seq(SUBSET Msgs)
  BY DEF Submit, Types, MessageTypes
<1>2. CASE UNCHANGED queues /\ given' = given \cup msg
  BY <1>1, <1>2 DEF PlacesInv, Queued, queues
<1>3. CASE steer' = Append(steer, msg) /\ UNCHANGED <<followUps, given>>
  <2>1. /\ Messages(Append(steer, msg)) = Messages(steer) \cup msg
        /\ Apart(steer) /\ Messages(steer) \cap msg = {} => Apart(Append(steer, msg))
    BY <1>1, AppendTexts
  <2>2. QED BY <1>1, <1>3, <2>1 DEF PlacesInv, Queued
<1>4. CASE followUps' = Append(followUps, msg) /\ UNCHANGED <<steer, given>>
  <2>1. /\ Messages(Append(followUps, msg)) = Messages(followUps) \cup msg
        /\ Apart(followUps) /\ Messages(followUps) \cap msg = {}
             => Apart(Append(followUps, msg))
    BY <1>1, AppendTexts
  <2>2. QED BY <1>1, <1>4, <2>1 DEF PlacesInv, Queued
<1>5. QED BY <1>2, <1>3, <1>4 DEF Submit, Queue, Prompt, StartRun

\* A queue gives its first text to the agent or to the editor.
LEMMA FirstOut ==
  ASSUME Types, PlacesInv, UNCHANGED typed,
         \/ /\ steer # <<>> /\ steer' = Tail(steer) /\ UNCHANGED followUps
            /\ \/ given' = given \cup Head(steer) /\ UNCHANGED composer
               \/ composer' = Head(steer) /\ UNCHANGED given
         \/ /\ followUps # <<>> /\ followUps' = Tail(followUps) /\ UNCHANGED steer
            /\ \/ given' = given \cup Head(followUps) /\ UNCHANGED composer
               \/ composer' = Head(followUps) /\ UNCHANGED given
  PROVE  PlacesInv'
<1>1. \A texts \in Seq(SUBSET Msgs) :
        texts # <<>> =>
          /\ Messages(texts) = Head(texts) \cup Messages(Tail(texts))
          /\ Apart(texts) => /\ Apart(Tail(texts))
                             /\ Head(texts) \cap Messages(Tail(texts)) = {}
  BY HeadTexts
<1> steer \in Seq(SUBSET Msgs) /\ followUps \in Seq(SUBSET Msgs)
  BY DEF Types, MessageTypes
<1>2. CASE steer # <<>> /\ steer' = Tail(steer) /\ UNCHANGED followUps
  BY <1>1, <1>2 DEF PlacesInv, Queued
<1>3. CASE followUps # <<>> /\ followUps' = Tail(followUps) /\ UNCHANGED steer
  BY <1>1, <1>3 DEF PlacesInv, Queued
<1>4. QED BY <1>2, <1>3

LEMMA PlacesKept == Types /\ PlacesInv /\ [Next]_vars => PlacesInv'
<1> SUFFICES ASSUME Types, PlacesInv, [Next]_vars PROVE PlacesInv'
  OBVIOUS
<1> USE DEF editor, service, queues
<1>1. typed \in Nat /\ typed + 1 \notin 1..typed /\ typed + 1 \in 1..(typed + 1)
      /\ 1..typed \subseteq 1..(typed + 1)
  BY TuiRunAssumption DEF TuiRunAssumption, Types, MessageTypes
<1>2. ASSUME UNCHANGED <<steer, followUps, given, composer, typed>>
      PROVE  PlacesInv'
  BY <1>2 DEF PlacesInv, Queued
<1>3. ASSUME NEW r \in Runs, RunStep(r) PROVE PlacesInv'
  <2>1. CASE TakeQueued(r)
    BY <2>1, FirstOut DEF TakeQueued
  <2>2. CASE Emit(r) \/ Release(r) \/ Close(r)
    BY <1>2, <2>2 DEF Emit, Release, Close
  <2>3. QED BY <1>3, <2>1, <2>2 DEF RunStep
<1>4. ASSUME NEW r \in Runs, Message(r) PROVE PlacesInv'
  BY <1>2, <1>4 DEF Message, WaitEvent, ApplyEvent, EventsClosed
<1>5. CASE Type
  BY <1>1, <1>5 DEF Type, PlacesInv, Queued
<1>6. CASE EscBusy
  <2>1. steer' = <<>> /\ followUps' = <<>> /\ composer' \subseteq composer \cup Queued
        /\ UNCHANGED <<given, typed>>
    BY <1>6 DEF EscBusy, Drained, Queued
  <2>2. QED BY <2>1, EmptyTexts DEF PlacesInv, Queued
<1>7. CASE SlashAbort
  <2>1. steer' = <<>> /\ followUps' = <<>> /\ UNCHANGED <<given, composer, typed>>
    BY <1>7 DEF SlashAbort
  <2>2. QED BY <2>1, EmptyTexts DEF PlacesInv, Queued
<1>8. CASE Dequeue
  BY <1>8, FirstOut DEF Dequeue
<1>9. CASE CtrlC
  BY <1>9 DEF CtrlC, PlacesInv, Queued
<1>10. CASE StartBash \/ ToggleOverlay \/ EscBash \/ EscOverlay \/ NewSession
  BY <1>2, <1>10 DEF StartBash, ToggleOverlay, EscBash, EscOverlay, NewSession
<1>11. ASSUME NEW k \in Queues, Enter(k) PROVE PlacesInv'
  <2>1. composer \in SUBSET Msgs /\ UNCHANGED typed /\ Submit(composer, k)
    BY <1>11 DEF Enter, Types, MessageTypes
  <2>2. composer \cap (given \cup Queued) = {} /\ composer \subseteq 1..typed'
    BY <2>1 DEF PlacesInv
  <2>3. QED BY <2>1, <2>2, SubmitOnce
<1>12. ASSUME NEW k \in Queues, ExternalPrompt(k) PROVE PlacesInv'
  <2>1. typed' = typed + 1 /\ Submit({typed + 1}, k) /\ {typed + 1} \in SUBSET Msgs
    BY <1>1, <1>12, TuiRunAssumption DEF TuiRunAssumption, ExternalPrompt, Msgs
  <2>2. {typed + 1} \cap (given \cup Queued) = {}
    BY <1>1 DEF PlacesInv
  <2>3. QED BY <1>1, <2>1, <2>2, SubmitOnce
<1>13. CASE PagerFails \/ BashEnds \/ SessionIsNew \/ UNCHANGED vars
  BY <1>2, <1>13 DEF PagerFails, BashEnds, SessionIsNew, vars
<1>14. QED
  BY <1>3, <1>4, <1>5, <1>6, <1>7, <1>8, <1>9, <1>10, <1>11, <1>12, <1>13 DEF Next, Key

\* Whatever is sent, queued, restored, aborted or taken by a run, a message is in one place:
\* none is sent twice.
THEOREM MessagesAreOnce == Spec => []MessageOnce
<1>1. Init => PlacesInv
  BY EmptyTexts DEF Init, PlacesInv, Queued
<1>2. PlacesInv => MessageOnce
  BY DEF PlacesInv, MessageOnce, Apart, Queued
<1>3. QED BY <1>1, <1>2, PlacesKept, Typed, PTL DEF Spec

-----------------------------------------------------------------------------
(* Some elements of a sequence in their order (Lists).                     *)

\* The ranks of places are the numbers from 1 on.
LEMMA Ranks ==
  ASSUME NEW n \in Nat, NEW P, P \subseteq 1..n
  PROVE  /\ Cardinality(P) \in Nat
         /\ \A i \in P : Rank(P, i) \in 1..Cardinality(P)
         /\ \A i, j \in P : Rank(P, i) = Rank(P, j) => i = j
         /\ \A m \in 1..Cardinality(P) : \E i \in P : Rank(P, i) = m
<1> DEFINE Below(i) == {j \in P : j <= i}
           N == Cardinality(P)
           f == [i \in P |-> Rank(P, i)]
<1>1. P \subseteq Nat
  OBVIOUS
<1>2. IsFiniteSet(P) /\ N \in Nat
  <2>1. IsFiniteSet(1..n)
    BY FS_Interval
  <2>2. QED BY <2>1, FS_Subset, FS_CardinalityType
<1>3. \A i \in P : IsFiniteSet(Below(i)) /\ Cardinality(Below(i)) \in Nat
                   /\ Cardinality(Below(i)) <= N
  <2>1. \A i \in P : Below(i) \subseteq P
    OBVIOUS
  <2>2. QED BY <1>2, <2>1, FS_Subset, FS_CardinalityType
<1>4. \A i \in P : Rank(P, i) \in 1..N
  <2>1. TAKE i \in P
  <2>2. i \in Below(i)
    BY <1>1
  <2>3. Cardinality(Below(i)) # 0
    BY <1>3, <2>2, FS_EmptySet
  <2>4. Rank(P, i) = Cardinality(Below(i))
    BY DEF Rank
  <2> HIDE DEF Below, N
  <2>5. QED BY <1>2, <1>3, <2>3, <2>4
<1>5. ASSUME NEW i \in P, NEW j \in P, i < j PROVE Rank(P, i) # Rank(P, j)
  <2>1. Below(i) \subseteq Below(j)
    <3>1. \A k \in P : k <= i => k <= j
      BY <1>1, <1>5
    <3>2. QED BY <3>1
  <2>2. j \in Below(j) /\ j \notin Below(i)
    BY <1>1, <1>5
  <2>3. Below(i) # Below(j)
    BY <2>2
  <2>4. Cardinality(Below(i)) # Cardinality(Below(j))
    <3> HIDE DEF Below
    <3>1. QED BY <1>3, <2>1, <2>3, FS_Subset
  <2>5. Rank(P, i) = Cardinality(Below(i)) /\ Rank(P, j) = Cardinality(Below(j))
    BY DEF Rank
  <2>6. QED BY <2>4, <2>5
<1>6. \A i, j \in P : Rank(P, i) = Rank(P, j) => i = j
  BY <1>1, <1>5
<1>7. f \in Injection(P, 1..N)
  BY <1>4, <1>6 DEF Injection, IsInjective
<1>8. f \in Surjection(P, 1..N)
  <2>1. IsFiniteSet(1..N) /\ Cardinality(1..N) = N
    BY <1>2, FS_Interval
  <2> HIDE DEF f
  <2>2. QED BY <1>7, <2>1, FS_Injection
<1>9. \A m \in 1..N : \E i \in P : Rank(P, i) = m
  BY <1>8 DEF Surjection
<1>10. QED BY <1>2, <1>4, <1>6, <1>9

\* The instance takes elements as the module does.
LEMMA SamePlaces == \A s, P : C!AtPlaces(s, P) = AtPlaces(s, P)
BY DEF C!AtPlaces, C!Rank, C!Cardinality, AtPlaces, Rank, Cardinality

-----------------------------------------------------------------------------
(* The cards of the terminal: TuiChat, for any number of responses, calls, *)
(* commands and prompts and any capacity of a command's channel.           *)

CardKinds == {"user", "answer", "thinking", "tool", "bash", "info"}
Cards == [kind : CardKinds, of : Nat, by : Nat, status : {"pending", "done"}]

\* Every card keeps its place, its kind and for whom it was made.
Stay(s, t) ==
  \A i \in DOMAIN s : i \in DOMAIN t /\ t[i].kind = s[i].kind /\ t[i].of = s[i].of

\* The whole text of a response is on a card.
Shown(s, r) == \E i \in DOMAIN s : s[i].kind = "answer" /\ s[i].by = r /\ s[i].status = "done"

\* The text of a card may be shown there.
Own(c, ups) ==
  /\ c.kind = "tool" => c.by = c.of
  /\ c.kind = "bash" /\ c.by \notin ups => c.by = c.of

Owned(s, ups) == \A i \in DOMAIN s : Own(s[i], ups)

\* A command that is disturbed lets more be shown.
LEMMA OwnMore ==
  ASSUME NEW s, NEW U, NEW V, U \subseteq V, Owned(s, U)
  PROVE  Owned(s, V)
BY DEF Owned, Own

LEMMA OwnedCards ==
  ASSUME lines \in Seq(Cards)
  PROVE  (C!ResultOnOwnCard /\ C!BashOnOwnCard) <=> Owned(lines, upset)
BY DEF C!ResultOnOwnCard, C!BashOnOwnCard, Own, Owned

\* A card is added.
Added(s, t, c, ups) ==
  /\ s \in Seq(Cards) /\ c \in Cards /\ t = Append(s, c)
  /\ Owned(s, ups) /\ Own(c, ups)

LEMMA Appending ==
  ASSUME NEW s, NEW t, NEW c, NEW V, Added(s, t, c, V)
  PROVE  /\ t \in Seq(Cards) /\ Len(t) = Len(s) + 1 /\ t # <<>> /\ Stay(s, t)
         /\ Owned(t, V)
         /\ t[Len(t)] = c
         /\ \A r : Shown(s, r) => Shown(t, r)
         /\ c.kind = "answer" /\ c.status = "done" => Shown(t, c.by)
<1>1. s \in Seq(Cards) /\ c \in Cards /\ t = Append(s, c) /\ Owned(s, V) /\ Own(c, V)
  BY DEF Added
<1>2. t \in Seq(Cards) /\ Len(t) = Len(s) + 1 /\ t[Len(t)] = c /\ DOMAIN t = 1..(Len(s) + 1)
      /\ DOMAIN s = 1..Len(s) /\ Len(s) \in Nat
  BY <1>1
<1>3. \A i \in DOMAIN s : t[i] = s[i]
  BY <1>1
<1>4. t # <<>> /\ Stay(s, t)
  BY <1>2, <1>3 DEF Stay
<1>5. Owned(t, V)
  BY <1>1, <1>2, <1>3 DEF Owned, Own
<1>6. \A r : Shown(s, r) => Shown(t, r)
  BY <1>2, <1>3 DEF Shown
<1>7. c.kind = "answer" /\ c.status = "done" => Shown(t, c.by)
  BY <1>2 DEF Shown
<1>8. QED BY <1>2, <1>4, <1>5, <1>6, <1>7

\* A card shows something else.
Rewritten(s, t, i, b, status) ==
  /\ t \in Seq(Cards) /\ Len(t) = Len(s) /\ \A j \in DOMAIN s \ {i} : t[j] = s[j]
  /\ t[i].kind = s[i].kind /\ t[i].of = s[i].of /\ t[i].by = b /\ t[i].status = status

LEMMA Rewrites ==
  ASSUME NEW s \in Seq(Cards), NEW i \in DOMAIN s, NEW b \in Nat
  PROVE  /\ \A status \in {"pending", "done"} :
              Rewritten(s, [s EXCEPT ![i].by = b, ![i].status = status], i, b, status)
         /\ Rewritten(s, [s EXCEPT ![i].by = b], i, b, s[i].status)
<1>1. s[i] \in Cards /\ i \in 1..Len(s) /\ Len(s) \in Nat
  OBVIOUS
<1>2. ASSUME NEW c \in Cards
      PROVE  LET t == [s EXCEPT ![i] = c]
             IN  /\ t \in Seq(Cards) /\ Len(t) = Len(s) /\ \A j \in DOMAIN s \ {i} : t[j] = s[j]
                 /\ t[i] = c
  BY <1>1
<1>3. PICK v \in Cards : v = s[i]
  BY <1>1
<1>4. ASSUME NEW status \in {"pending", "done"}
      PROVE  Rewritten(s, [s EXCEPT ![i].by = b, ![i].status = status], i, b, status)
  <2> DEFINE c == [v EXCEPT !.by = b, !.status = status]
  <2>1. c \in Cards
    BY DEF Cards
  <2>2. c.kind = v.kind /\ c.of = v.of /\ c.by = b /\ c.status = status
    BY DEF Cards
  <2>3. [s EXCEPT ![i].by = b, ![i].status = status] = [s EXCEPT ![i] = c]
    BY <1>1, <1>3
  <2> HIDE DEF c
  <2>4. QED BY <1>2, <1>3, <2>1, <2>2, <2>3 DEF Rewritten
<1>5. Rewritten(s, [s EXCEPT ![i].by = b], i, b, s[i].status)
  <2> DEFINE c == [v EXCEPT !.by = b]
  <2>1. c \in Cards
    BY DEF Cards
  <2>2. c.kind = v.kind /\ c.of = v.of /\ c.by = b /\ c.status = v.status
    BY DEF Cards
  <2>3. [s EXCEPT ![i].by = b] = [s EXCEPT ![i] = c]
    BY <1>1, <1>3
  <2> HIDE DEF c
  <2>4. QED BY <1>2, <1>3, <2>1, <2>2, <2>3 DEF Rewritten
<1>6. QED BY <1>4, <1>5

\* What it shows then belongs there.
Belongs(card, b, ups) ==
  /\ card.kind = "tool" => card.of = b
  /\ card.kind = "bash" /\ b \notin ups => card.of = b

Redrawn(s, t, i, b, status, ups) ==
  /\ s \in Seq(Cards) /\ i \in DOMAIN s /\ Rewritten(s, t, i, b, status)
  /\ Owned(s, ups) /\ Belongs(s[i], b, ups)

LEMMA Rewriting ==
  ASSUME NEW s, NEW t, NEW i, NEW b, NEW status, NEW V, Redrawn(s, t, i, b, status, V)
  PROVE  /\ t \in Seq(Cards) /\ Len(t) = Len(s) /\ Stay(s, t) /\ (s # <<>> => t # <<>>)
         /\ Owned(t, V)
         /\ \A r : Shown(s, r) /\ ~(s[i].kind = "answer" /\ s[i].by = r) => Shown(t, r)
         /\ s[i].kind = "answer" /\ status = "done" => Shown(t, b)
         /\ t[i].by = b
         /\ t[Len(t)].kind = s[Len(s)].kind
         /\ i # Len(s) => t[Len(t)] = s[Len(s)]
<1>1. /\ s \in Seq(Cards) /\ t \in Seq(Cards) /\ Len(t) = Len(s)
      /\ DOMAIN t = DOMAIN s /\ DOMAIN s = 1..Len(s) /\ Len(s) \in Nat /\ i \in 1..Len(s)
      /\ Owned(s, V) /\ Belongs(s[i], b, V)
  BY DEF Redrawn, Rewritten
<1>2. \A j \in DOMAIN s \ {i} : t[j] = s[j]
  BY DEF Redrawn, Rewritten
<1>3. t[i].kind = s[i].kind /\ t[i].of = s[i].of /\ t[i].by = b /\ t[i].status = status
  BY DEF Redrawn, Rewritten
<1>4. Stay(s, t) /\ (s # <<>> => t # <<>>)
  BY <1>1, <1>2, <1>3 DEF Stay
<1>5. Owned(t, V)
  BY <1>1, <1>2, <1>3 DEF Owned, Own, Belongs
<1>6. \A r : Shown(s, r) /\ ~(s[i].kind = "answer" /\ s[i].by = r) => Shown(t, r)
  BY <1>1, <1>2, <1>3 DEF Shown
<1>7. s[i].kind = "answer" /\ status = "done" => Shown(t, b)
  BY <1>1, <1>3 DEF Shown
<1>8. t[Len(t)].kind = s[Len(s)].kind /\ (i # Len(s) => t[Len(t)] = s[Len(s)])
  <2>1. Len(t) = Len(s) /\ Len(s) \in DOMAIN s
    BY <1>1
  <2>2. i # Len(s) => t[Len(s)] = s[Len(s)]
    BY <1>2, <2>1
  <2>3. QED BY <1>3, <2>1, <2>2
<1>9. QED BY <1>1, <1>3, <1>4, <1>5, <1>6, <1>7, <1>8

\* A card of a command is taken away.
LEMMA Removing ==
  ASSUME NEW s \in Seq(Cards), NEW i \in DOMAIN s, s[i].kind # "answer", NEW U,
         Owned(s, U), NEW t, t = C!RemoveAt(s, i)
  PROVE  /\ t \in Seq(Cards)
         /\ Owned(t, U)
         /\ \A r : Shown(s, r) => Shown(t, r)
         /\ \A k \in DOMAIN s \ {i} : \E j \in DOMAIN t : t[j] = s[k]
<1>1. DOMAIN s = 1..Len(s) /\ Len(s) \in Nat /\ i \in 1..Len(s)
  OBVIOUS
<1>2. /\ t \in Seq(Cards) /\ Len(t) = Len(s) - 1
      /\ \A j \in 1..(i - 1) : t[j] = s[j]
      /\ \A j \in i..(Len(s) - 1) : t[j] = s[j + 1]
  <2> DEFINE a == SubSeq(s, 1, i - 1)
             b == SubSeq(s, i + 1, Len(s))
  <2>1. a \in Seq(Cards) /\ Len(a) = i - 1 /\ \A j \in 1..(i - 1) : a[j] = s[j]
    BY <1>1
  <2>2. b \in Seq(Cards) /\ Len(b) = Len(s) - i /\ \A j \in 1..(Len(s) - i) : b[j] = s[i + j]
    BY <1>1
  <2>3. t = a \o b
    BY DEF C!RemoveAt
  <2> HIDE DEF a, b
  <2>4. t \in Seq(Cards) /\ Len(t) = Len(s) - 1
    <3>1. a \o b \in Seq(Cards) /\ Len(a \o b) = Len(a) + Len(b)
      BY <2>1, <2>2, ConcatProperties
    <3>2. QED BY <1>1, <2>1, <2>2, <2>3, <3>1
  <2>5. \A j \in 1..(i - 1) : t[j] = s[j]
    BY <1>1, <2>1, <2>2, <2>3
  <2>6. ASSUME NEW j \in i..(Len(s) - 1) PROVE t[j] = s[j + 1]
    <3>1. t[j] = b[j - (i - 1)]
      BY <1>1, <2>1, <2>2, <2>3
    <3>2. j - (i - 1) \in 1..(Len(s) - i) /\ i + (j - (i - 1)) = j + 1
      BY <1>1
    <3>3. QED BY <2>2, <3>1, <3>2
  <2>7. QED BY <2>4, <2>5, <2>6
<1>3. DOMAIN t = 1..(Len(s) - 1)
  BY <1>1, <1>2
<1>4. Owned(t, U)
  <2>1. \A j \in DOMAIN t : t[j] = s[j] \/ t[j] = s[j + 1]
    BY <1>1, <1>2, <1>3
  <2>2. \A j \in DOMAIN t : j \in DOMAIN s /\ j + 1 \in DOMAIN s
    BY <1>1, <1>3
  <2>3. QED BY <2>1, <2>2 DEF Owned
<1>5. ASSUME NEW k \in DOMAIN s, k # i PROVE \E j \in DOMAIN t : t[j] = s[k]
  <2>1. CASE k < i
    <3>1. k \in DOMAIN t /\ t[k] = s[k]
      BY <1>1, <1>2, <1>3, <2>1
    <3>2. QED BY <3>1
  <2>2. CASE k > i
    <3>1. k - 1 \in DOMAIN t /\ k - 1 \in i..(Len(s) - 1) /\ (k - 1) + 1 = k
      BY <1>1, <1>2, <1>3, <2>2
    <3>2. t[k - 1] = s[k]
      BY <1>2, <3>1
    <3>3. QED BY <3>1, <3>2
  <2>3. QED BY <1>1, <1>5, <2>1, <2>2
<1>6. \A r : Shown(s, r) => Shown(t, r)
  BY <1>5 DEF Shown
<1>7. QED BY <1>2, <1>4, <1>5, <1>6

\* The first of several places is one of them.
LEMMA LeastExists ==
  ASSUME NEW S, S \subseteq Nat, S # {}
  PROVE  C!Min(S) \in S
<1> DEFINE R == OpToRel(<, Nat)
<1>1. R = {ss \in Nat \X Nat : ss[1] < ss[2]}
  BY Zenon DEF OpToRel
<1>2. IsWellFoundedOn(R, Nat)
  BY NatLessThanWellFounded
<1> HIDE DEF R
<1>3. PICK x \in S : \A y \in S : ~(<<y, x>> \in R)
  BY <1>2, WFMin
<1>4. x \in Nat /\ \A y \in S : y \in Nat
  OBVIOUS
<1>5. ASSUME NEW y \in S PROVE x <= y
  <2>1. y < x => <<y, x>> \in R
    BY <1>1, <1>4
  <2>2. ~(y < x)
    BY <1>3, <2>1
  <2>3. QED BY <1>4, <2>2
<1>6. QED BY <1>5 DEF C!Min

-----------------------------------------------------------------------------
(* What is true of the cards, the run and the commands in every state.     *)

BashMessages == {"progress", "ok", "err"}

ChatTypes ==
  /\ streams \in BOOLEAN /\ {buf, answer} \subseteq 0..MaxAnswers /\ thinkIdx \in Nat
  /\ turn \in {"idle", "request", "stream", "tools", "ended"}
  /\ made \in 0..MaxCalls /\ calls \subseteq 1..made /\ text \in BOOLEAN
  /\ told \subseteq 0..answer

BashTypes ==
  /\ bashIdx \in Nat /\ bashCh \in {0} \cup C!Commands
  /\ bashPc \in [C!Commands -> {"none", "run", "done"}]
  /\ inbox \in [C!Commands -> Seq(BashMessages)] /\ waiters \in [C!Commands -> Nat]

\* A call without a result has a card, so that findToolCard never looks for another one; while
\* a response streams, an answer in the last place is its own.
ResponseInv ==
  /\ turn \in {"idle", "request", "ended"} => calls = {}
  /\ \A c \in calls : \E i \in DOMAIN lines : lines[i].kind = "tool" /\ lines[i].of = c
  /\ turn = "stream" =>
       /\ lines # <<>> /\ answer \notin told
       /\ lines[Len(lines)].kind = "answer" => lines[Len(lines)].by = answer

\* A command ends once, after its output.
InboxInv ==
  \A c \in C!Commands :
    /\ bashPc[c] = "none" => inbox[c] = <<>>
    /\ \A i \in DOMAIN inbox[c] :
         inbox[c][i] # "progress" <=> bashPc[c] = "done" /\ i = Len(inbox[c])

\* One that runs undisturbed is the only one, and Model.bashCh is its channel; ...
ShellInv ==
  /\ InboxInv
  /\ bashCh \in C!Commands \ upset => bashCh \in C!Running
  /\ \A c \in C!Running \ upset : C!Running = {c} /\ bashCh = c
  /\ C!OneWaiter

\* ... and Model.bashStreamIdx is the index of its card.
IndexInv ==
  \A c \in C!Running \ upset : C!Holds(bashIdx, "bash") /\ lines[bashIdx].of = c

CardInv ==
  /\ lines \in Seq(Cards) /\ Owned(lines, upset)
  /\ C!AnswersShown

ChatInv == ChatTypes /\ BashTypes /\ ResponseInv /\ ShellInv /\ IndexInv /\ CardInv

LEMMA CardMade ==
  ASSUME NEW kind \in CardKinds, NEW n \in Nat, NEW status \in {"pending", "done"}
  PROVE  /\ C!Card(kind, n, status) \in Cards /\ C!Card(kind, n, status).kind = kind
         /\ C!Card(kind, n, status).of = n /\ C!Card(kind, n, status).by = n
         /\ C!Card(kind, n, status).status = status
         /\ \A V : Own(C!Card(kind, n, status), V)
         /\ C!Info \in Cards /\ C!Info.kind = "info" /\ \A V : Own(C!Info, V)
BY DEF C!Card, C!Info, Cards, CardKinds, Own

\* A card that the end of the lines gets.
LEMMA CardAdded ==
  ASSUME CardInv, NEW c \in Cards, \A V : Own(c, V), lines' = Append(lines, c),
         upset \subseteq upset'
  PROVE  /\ lines' \in Seq(Cards) /\ lines' # <<>> /\ Stay(lines, lines')
         /\ Owned(lines', upset')
         /\ Len(lines') = Len(lines) + 1 /\ lines'[Len(lines')] = c
         /\ \A r : Shown(lines, r) => Shown(lines', r)
         /\ c.kind = "answer" /\ c.status = "done" => Shown(lines', c.by)
<1>1. lines \in Seq(Cards) /\ Owned(lines, upset')
  BY OwnMore DEF CardInv
<1> DEFINE t == lines'
<1>2. t = Append(lines, c)
  OBVIOUS
<1> HIDE DEF t
<1>3. /\ t \in Seq(Cards) /\ Len(t) = Len(lines) + 1 /\ t # <<>> /\ Stay(lines, t)
      /\ Owned(t, upset')
      /\ t[Len(t)] = c
      /\ \A r : Shown(lines, r) => Shown(t, r)
      /\ c.kind = "answer" /\ c.status = "done" => Shown(t, c.by)
  <2>1. Added(lines, t, c, upset')
    BY <1>1, <1>2 DEF Added
  <2>2. QED BY <2>1, Appending
<1>4. QED BY <1>3 DEF t

\* Answers that were told stay shown where all that were shown stay.
LEMMA AnswersKeep ==
  ASSUME CardInv, \A r : Shown(lines, r) => Shown(lines', r),
         told' \ replaced' \subseteq told \ replaced
  PROVE  C!AnswersShown'
<1>1. \A r \in told \ replaced : Shown(lines, r)
  BY DEF CardInv, C!AnswersShown, Shown
<1>2. \A r \in told' \ replaced' : Shown(lines', r)
  BY <1>1
<1>3. QED BY <1>2 DEF C!AnswersShown, Shown

\* Cards that stay where they are leave what is remembered of them true.
LEMMA StayKeeps ==
  ASSUME ResponseInv, IndexInv, CardInv, lines' \in Seq(Cards), Stay(lines, lines')
  PROVE  /\ \A c \in calls : \E i \in DOMAIN lines' : lines'[i].kind = "tool" /\ lines'[i].of = c
         /\ UNCHANGED C!bash => IndexInv'
<1>1. \A c \in calls : \E i \in DOMAIN lines' : lines'[i].kind = "tool" /\ lines'[i].of = c
  BY DEF ResponseInv, Stay
<1>2. ASSUME UNCHANGED C!bash PROVE IndexInv'
  <2>1. C!Running' = C!Running /\ upset' = upset /\ bashIdx' = bashIdx
    BY <1>2 DEF C!bash, C!Running
  <2>2. \A c \in C!Running \ upset :
          bashIdx \in DOMAIN lines' /\ lines'[bashIdx].kind = "bash" /\ lines'[bashIdx].of = c
    BY DEF IndexInv, C!Holds, Stay
  <2>3. QED BY <2>1, <2>2 DEF IndexInv, C!Holds
<1>3. QED BY <1>1, <1>2

LEMMA BashKept ==
  ASSUME BashTypes, ShellInv, UNCHANGED C!bash
  PROVE  BashTypes' /\ ShellInv'
BY DEF BashTypes, ShellInv, InboxInv, C!bash, C!Running, C!OneWaiter

LEMMA ChatKept ==
  ASSUME ChatTypes, UNCHANGED <<streams, buf, thinkIdx, C!runs>>
  PROVE  ChatTypes'
BY DEF ChatTypes, C!runs

-----------------------------------------------------------------------------
(* Events of a run.                                                        *)

\* A step of a run that adds a card, ...
LEMMA AddedKeeps ==
  ASSUME ChatInv, NEW c \in Cards, \A V : Own(c, V), lines' = Append(lines, c), UNCHANGED C!bash,
         told' \ replaced' \subseteq told \ replaced
  PROVE  /\ CardInv' /\ IndexInv' /\ BashTypes' /\ ShellInv' /\ Stay(lines, lines')
         /\ lines' # <<>> /\ Len(lines') = Len(lines) + 1 /\ lines'[Len(lines')] = c
         /\ \A d \in calls : \E i \in DOMAIN lines' : lines'[i].kind = "tool" /\ lines'[i].of = d
<1>1. upset' = upset
  BY DEF C!bash
<1>2. /\ lines' \in Seq(Cards) /\ Stay(lines, lines') /\ Owned(lines', upset')
      /\ lines' # <<>> /\ Len(lines') = Len(lines) + 1 /\ lines'[Len(lines')] = c
      /\ \A r : Shown(lines, r) => Shown(lines', r)
  BY <1>1, CardAdded DEF ChatInv
<1>3. C!AnswersShown'
  BY <1>2, AnswersKeep DEF ChatInv
<1>4. CardInv'
  BY <1>2, <1>3 DEF CardInv
<1>5. /\ IndexInv' /\ BashTypes' /\ ShellInv'
      /\ \A d \in calls : \E i \in DOMAIN lines' : lines'[i].kind = "tool" /\ lines'[i].of = d
  BY <1>2, StayKeeps, BashKept DEF ChatInv
<1>6. QED BY <1>2, <1>4, <1>5

\* ... and one that changes no card.
LEMMA CardsKept ==
  ASSUME ChatInv, UNCHANGED <<lines, C!bash>>, told' \ replaced' \subseteq told \ replaced
  PROVE  CardInv' /\ IndexInv' /\ BashTypes' /\ ShellInv'
<1>1. upset' = upset /\ bashIdx' = bashIdx /\ C!Running' = C!Running
  BY DEF C!bash, C!Running
<1>2. CardInv'
  BY <1>1 DEF ChatInv, CardInv, C!AnswersShown
<1>3. IndexInv'
  BY <1>1 DEF ChatInv, IndexInv, C!Holds
<1>4. QED BY <1>2, <1>3, BashKept DEF ChatInv

LEMMA RunBeginsInv == ASSUME C!ChatAssumption, ChatInv, C!RunBegins PROVE ChatInv'
<1> DEFINE c == C!Card("user", 0, "done")
<1>1. c \in Cards /\ \A V : Own(c, V)
  BY CardMade DEF CardKinds
<1>2. lines' = Append(lines, c) /\ UNCHANGED C!bash /\ told' = told /\ replaced' = replaced
  BY DEF C!RunBegins
<1> HIDE DEF c
<1>3. CardInv' /\ IndexInv' /\ BashTypes' /\ ShellInv'
  BY <1>1, <1>2, AddedKeeps
<1>4. ChatTypes' /\ ResponseInv'
  BY DEF C!RunBegins, ChatInv, ChatTypes, ResponseInv
<1>5. QED BY <1>3, <1>4 DEF ChatInv

\* updateStreamingCard: a card of the response is the last one, and no card of an announced
\* one changes but the last.
LEMMA StreamedCard ==
  ASSUME CardInv, NEW of \in Nat, lines' = C!Streamed(of), upset' = upset
  PROVE  /\ lines' \in Seq(Cards) /\ lines' # <<>> /\ Stay(lines, lines')
         /\ Owned(lines', upset')
         /\ lines'[Len(lines')].kind = "answer" /\ lines'[Len(lines')].by = of
         /\ \A r : Shown(lines, r)
              /\ ~(lines # <<>> /\ lines[Len(lines)].kind = "answer" /\ lines[Len(lines)].by = r)
              => Shown(lines', r)
<1>1. lines \in Seq(Cards) /\ Owned(lines, upset)
  BY DEF CardInv
<1>2. CASE lines # <<>> /\ C!Last(lines).kind = "answer"
  <2> DEFINE n == Len(lines)
             t == lines'
  <2>1. n \in DOMAIN lines /\ lines[n].kind = "answer"
    BY <1>1, <1>2 DEF C!Last
  <2>2. t = [lines EXCEPT ![n].by = of, ![n].status = "pending"]
    BY <1>2 DEF C!Streamed
  <2>3. n = Len(lines)
    OBVIOUS
  <2> HIDE DEF n, t
  <2>4. Rewritten(lines, t, n, of, "pending")
    BY <1>1, <2>1, <2>2, Rewrites
  <2>5. /\ t \in Seq(Cards) /\ Len(t) = Len(lines) /\ Stay(lines, t) /\ (lines # <<>> => t # <<>>)
        /\ Owned(t, upset)
        /\ \A r : Shown(lines, r) /\ ~(lines[n].kind = "answer" /\ lines[n].by = r) => Shown(t, r)
        /\ t[n].by = of
        /\ t[Len(t)].kind = lines[Len(lines)].kind
    <3>1. Redrawn(lines, t, n, of, "pending", upset)
      BY <1>1, <2>1, <2>4 DEF Redrawn, Belongs
    <3>2. QED BY <3>1, Rewriting
  <2>6. QED BY <1>2, <2>1, <2>3, <2>5 DEF t
<1>3. CASE ~(lines # <<>> /\ C!Last(lines).kind = "answer")
  <2> DEFINE c == C!Card("answer", of, "pending")
  <2>1. c \in Cards /\ (\A V : Own(c, V)) /\ c.kind = "answer" /\ c.by = of
    BY CardMade DEF CardKinds
  <2>2. lines' = Append(lines, c)
    BY <1>3 DEF C!Streamed
  <2> HIDE DEF c
  <2>3. QED BY <2>1, <2>2, CardAdded
<1>4. QED BY <1>2, <1>3

LEMMA MessageStartInv == ASSUME C!ChatAssumption, ChatInv, C!MessageStart PROVE ChatInv'
<1>1. answer + 1 \in Nat /\ answer \in 0..MaxAnswers /\ MaxAnswers \in Nat
  BY DEF ChatInv, ChatTypes, C!ChatAssumption
<1>2. lines' = C!Streamed(answer + 1) /\ upset' = upset /\ UNCHANGED C!bash
  BY DEF C!MessageStart, C!bash
<1>3. /\ lines' \in Seq(Cards) /\ lines' # <<>> /\ Stay(lines, lines')
      /\ Owned(lines', upset')
      /\ lines'[Len(lines')].kind = "answer" /\ lines'[Len(lines')].by = answer + 1
      /\ \A r : Shown(lines, r)
           /\ ~(lines # <<>> /\ lines[Len(lines)].kind = "answer" /\ lines[Len(lines)].by = r)
           => Shown(lines', r)
  BY <1>1, <1>2, StreamedCard DEF ChatInv
<1>4. C!AnswersShown'
  <2>1. SUFFICES ASSUME NEW r \in told' \ replaced' PROVE Shown(lines', r)
    BY DEF C!AnswersShown, Shown
  <2>2. r \in told \ replaced
    BY <2>1 DEF C!MessageStart
  <2>3. Shown(lines, r)
    BY <2>2 DEF ChatInv, CardInv, C!AnswersShown, Shown
  <2>4. ~(lines # <<>> /\ lines[Len(lines)].kind = "answer" /\ lines[Len(lines)].by = r)
    BY <2>1 DEF C!MessageStart, C!Last
  <2>5. QED BY <1>3, <2>3, <2>4
<1>5. CardInv'
  BY <1>3, <1>4 DEF CardInv
<1>6. IndexInv' /\ BashTypes' /\ ShellInv'
  BY <1>2, <1>3, StayKeeps, BashKept DEF ChatInv
<1>7. ChatTypes'
  <2>1. answer' = answer + 1 /\ told' = told /\ answer < MaxAnswers
    BY DEF C!MessageStart
  <2>2. told' \subseteq 0..answer' /\ answer' \in 0..MaxAnswers
    BY <1>1, <2>1 DEF ChatInv, ChatTypes
  <2>3. 0 \in 0..MaxAnswers
    BY <1>1
  <2>4. QED BY <2>2, <2>3 DEF C!MessageStart, ChatInv, ChatTypes
<1>8. ResponseInv'
  <2>1. calls' = {} /\ answer' = answer + 1 /\ told' = told /\ told \subseteq 0..answer
    BY DEF C!MessageStart, ChatInv, ResponseInv, ChatTypes
  <2>2. answer' \notin told'
    BY <1>1, <2>1
  <2>3. QED BY <1>3, <2>1, <2>2 DEF ResponseInv
<1>9. QED BY <1>5, <1>6, <1>7, <1>8 DEF ChatInv

LEMMA TokenInv == ASSUME C!ChatAssumption, ChatInv, C!Token PROVE ChatInv'
<1>1. answer \in 0..MaxAnswers /\ MaxAnswers \in Nat /\ answer \in Nat
  BY DEF ChatInv, ChatTypes, C!ChatAssumption
<1>2. lines' = C!Streamed(answer) /\ upset' = upset /\ UNCHANGED C!bash
  BY DEF C!Token, C!bash
<1>3. /\ lines' \in Seq(Cards) /\ lines' # <<>> /\ Stay(lines, lines')
      /\ Owned(lines', upset')
      /\ lines'[Len(lines')].kind = "answer" /\ lines'[Len(lines')].by = answer
      /\ \A r : Shown(lines, r)
           /\ ~(lines # <<>> /\ lines[Len(lines)].kind = "answer" /\ lines[Len(lines)].by = r)
           => Shown(lines', r)
  BY <1>1, <1>2, StreamedCard DEF ChatInv
<1>4. C!AnswersShown'
  <2>1. SUFFICES ASSUME NEW r \in told' \ replaced' PROVE Shown(lines', r)
    BY DEF C!AnswersShown, Shown
  <2>2. r \in told \ replaced
    BY <2>1 DEF C!Token
  <2>3. Shown(lines, r)
    BY <2>2 DEF ChatInv, CardInv, C!AnswersShown, Shown
  <2>4. ~(lines # <<>> /\ lines[Len(lines)].kind = "answer" /\ lines[Len(lines)].by = r)
    BY <2>2 DEF C!Token, ChatInv, ResponseInv
  <2>5. QED BY <1>3, <2>3, <2>4
<1>5. CardInv'
  BY <1>3, <1>4 DEF CardInv
<1>6. /\ IndexInv' /\ BashTypes' /\ ShellInv'
      /\ \A c \in calls : \E i \in DOMAIN lines' : lines'[i].kind = "tool" /\ lines'[i].of = c
  BY <1>2, <1>3, StayKeeps, BashKept DEF ChatInv
<1>7. ChatTypes'
  BY <1>1 DEF C!Token, ChatInv, ChatTypes
<1>8. ResponseInv'
  BY <1>3, <1>6 DEF C!Token, ChatInv, ResponseInv
<1>9. QED BY <1>5, <1>6, <1>7, <1>8 DEF ChatInv

LEMMA ThinkingTokenInv == ASSUME C!ChatAssumption, ChatInv, C!ThinkingToken PROVE ChatInv'
<1>1. answer \in Nat /\ lines \in Seq(Cards) /\ Len(lines) \in Nat /\ Owned(lines, upset)
  BY DEF C!ChatAssumption, ChatInv, ChatTypes, CardInv
<1>2. UNCHANGED <<buf, C!runs, C!count, C!bash>> /\ UNCHANGED C!bash /\ upset' = upset
      /\ told' = told /\ replaced' = replaced /\ calls' = calls /\ turn' = turn
      /\ answer' = answer
  BY DEF C!ThinkingToken, C!bash, C!runs
<1>3. CASE C!Holds(thinkIdx, "thinking")
  <2> DEFINE t == lines'
             n == thinkIdx
             status == lines[n].status
  <2>1. t = [lines EXCEPT ![n].by = answer] /\ UNCHANGED thinkIdx
    BY <1>3 DEF C!ThinkingToken
  <2>2. n \in DOMAIN lines /\ lines[n].kind = "thinking"
    BY <1>3 DEF C!Holds
  <2>3. Rewritten(lines, t, n, answer, status)
    <3> HIDE DEF t, n
    <3>1. QED BY <1>1, <2>1, <2>2, Rewrites
  <2> HIDE DEF t, n, status
  <2>4. lines[n].kind # "answer" /\ Redrawn(lines, t, n, answer, status, upset)
    BY <1>1, <2>2, <2>3 DEF Redrawn, Belongs
  <2>5. /\ t \in Seq(Cards) /\ Stay(lines, t) /\ (lines # <<>> => t # <<>>) /\ Owned(t, upset)
        /\ Len(t) = Len(lines) /\ t[Len(t)].kind = lines[Len(lines)].kind
        /\ n # Len(lines) => t[Len(t)] = lines[Len(lines)]
    BY <2>4, Rewriting
  <2>6. \A r : Shown(lines, r) => Shown(t, r)
    BY <2>4, Rewriting
  <2>7. C!AnswersShown'
    BY <1>2, <2>6, AnswersKeep DEF t, ChatInv
  <2>8. CardInv'
    BY <1>2, <2>5, <2>7 DEF CardInv, t
  <2>9. /\ IndexInv' /\ BashTypes' /\ ShellInv'
        /\ \A d \in calls : \E i \in DOMAIN t : t[i].kind = "tool" /\ t[i].of = d
    BY <1>2, <2>5, StayKeeps, BashKept DEF ChatInv, t
  <2>10. ChatTypes'
    BY <1>2, <2>1 DEF C!ThinkingToken, C!runs, ChatInv, ChatTypes
  <2>11. t[Len(t)].kind = "answer" => t[Len(t)] = lines[Len(lines)]
    BY <2>4, <2>5
  <2>12. ResponseInv'
    BY <1>2, <2>5, <2>9, <2>11 DEF ChatInv, ResponseInv, t
  <2>13. QED BY <2>8, <2>9, <2>10, <2>12 DEF ChatInv
<1>4. CASE ~C!Holds(thinkIdx, "thinking")
  <2> DEFINE c == C!Card("thinking", answer, "done")
  <2>1. c \in Cards /\ (\A V : Own(c, V)) /\ c.kind = "thinking"
    BY <1>1, CardMade DEF CardKinds
  <2>2. lines' = Append(lines, c) /\ thinkIdx' = Len(lines) + 1
    BY <1>4 DEF C!ThinkingToken
  <2> HIDE DEF c
  <2>3. /\ CardInv' /\ IndexInv' /\ BashTypes' /\ ShellInv'
        /\ lines' # <<>> /\ lines'[Len(lines')] = c
        /\ \A d \in calls : \E i \in DOMAIN lines' : lines'[i].kind = "tool" /\ lines'[i].of = d
    BY <1>2, <2>1, <2>2, AddedKeeps
  <2>4. ChatTypes'
    BY <1>1, <1>2, <2>2 DEF C!ThinkingToken, C!runs, ChatInv, ChatTypes
  <2>5. ResponseInv'
    BY <1>2, <2>1, <2>3 DEF ChatInv, ResponseInv
  <2>6. QED BY <2>3, <2>4, <2>5 DEF ChatInv
<1>5. QED BY <1>3, <1>4

LEMMA ToolCallInv == ASSUME C!ChatAssumption, ChatInv, C!ToolCall PROVE ChatInv'
<1> DEFINE c == C!Card("tool", made + 1, "pending")
<1>1. made \in 0..MaxCalls /\ MaxCalls \in Nat /\ made < MaxCalls /\ made + 1 \in Nat
  BY DEF C!ChatAssumption, ChatInv, ChatTypes, C!ToolCall
<1>2. c \in Cards /\ (\A V : Own(c, V)) /\ c.kind = "tool" /\ c.of = made + 1
  BY <1>1, CardMade DEF CardKinds
<1>3. lines' = Append(lines, c) /\ UNCHANGED C!bash /\ told' = told /\ replaced' = replaced
      /\ calls' = calls \cup {made + 1} /\ turn' = "stream" /\ turn = "stream" /\ answer' = answer
      /\ made' = made + 1
  BY DEF C!ToolCall
<1> HIDE DEF c
<1>4. /\ CardInv' /\ IndexInv' /\ BashTypes' /\ ShellInv' /\ Len(lines') = Len(lines) + 1
      /\ lines' # <<>> /\ lines'[Len(lines')] = c
      /\ \A d \in calls : \E i \in DOMAIN lines' : lines'[i].kind = "tool" /\ lines'[i].of = d
  BY <1>2, <1>3, AddedKeeps
<1>5. lines' \in Seq(Cards) /\ Len(lines') \in DOMAIN lines'
  BY <1>4 DEF CardInv
<1>6. ChatTypes'
  <2>1. calls' \subseteq 1..made' /\ made' \in 0..MaxCalls
    BY <1>1, <1>3 DEF ChatInv, ChatTypes
  <2>2. 0 \in 0..MaxAnswers
    BY DEF C!ChatAssumption
  <2>3. QED BY <2>1, <2>2 DEF C!ToolCall, ChatInv, ChatTypes
<1>7. \A d \in calls' : \E i \in DOMAIN lines' : lines'[i].kind = "tool" /\ lines'[i].of = d
  BY <1>2, <1>3, <1>4, <1>5
<1>8. ResponseInv'
  BY <1>2, <1>3, <1>4, <1>7 DEF ChatInv, ResponseInv
<1>9. QED BY <1>4, <1>6, <1>8 DEF ChatInv

LEMMA DoneInv == ASSUME C!ChatAssumption, ChatInv, C!Done PROVE ChatInv'
<1>1. UNCHANGED C!bash /\ told' = told /\ replaced' = replaced /\ calls' = {} /\ turn' = "idle"
  BY DEF C!Done
<1>2. CardInv' /\ IndexInv' /\ BashTypes' /\ ShellInv'
  <2>1. CASE turn = "ended"
    BY <1>1, <2>1, CardsKept DEF C!Done
  <2>2. CASE turn # "ended"
    <3>1. C!Info \in Cards /\ \A V : Own(C!Info, V)
      BY CardMade DEF CardKinds
    <3>2. lines' = Append(lines, C!Info)
      BY <2>2 DEF C!Done
    <3>3. QED BY <1>1, <3>1, <3>2, AddedKeeps
  <2>3. QED BY <2>1, <2>2
<1>3. ChatTypes'
  <2>1. 0 \in 0..MaxAnswers
    BY DEF C!ChatAssumption
  <2>2. QED BY <2>1 DEF C!Done, ChatInv, ChatTypes
<1>4. ResponseInv'
  BY <1>1 DEF ResponseInv
<1>5. QED BY <1>2, <1>3, <1>4 DEF ChatInv

LEMMA AddInfoInv == ASSUME C!ChatAssumption, ChatInv, C!AddInfo PROVE ChatInv'
<1>1. UNCHANGED C!bash /\ told' = told /\ replaced' = replaced /\ calls' = calls /\ turn' = turn
      /\ answer' = answer /\ lines' = Append(lines, C!Info) /\ UNCHANGED C!runs
  BY DEF C!AddInfo, C!runs
<1>2. C!Info \in Cards /\ (\A V : Own(C!Info, V)) /\ C!Info.kind = "info"
  BY CardMade DEF CardKinds
<1>3. /\ CardInv' /\ IndexInv' /\ BashTypes' /\ ShellInv'
      /\ lines' # <<>> /\ lines'[Len(lines')] = C!Info
      /\ \A d \in calls : \E i \in DOMAIN lines' : lines'[i].kind = "tool" /\ lines'[i].of = d
  BY <1>1, <1>2, AddedKeeps
<1>4. ChatTypes'
  BY ChatKept DEF C!AddInfo, ChatInv
<1>5. ResponseInv'
  BY <1>1, <1>2, <1>3 DEF ChatInv, ResponseInv
<1>6. QED BY <1>3, <1>4, <1>5 DEF ChatInv

LEMMA TurnGoesOnInv == ASSUME C!ChatAssumption, ChatInv, C!ToolsEnd \/ C!FollowUp PROVE ChatInv'
<1>1. UNCHANGED <<lines, C!bash>> /\ told' = told /\ replaced' = replaced /\ turn' = "request"
      /\ UNCHANGED calls /\ calls = {}
  BY DEF C!ToolsEnd, C!FollowUp, C!chat, ChatInv, ResponseInv
<1>2. CardInv' /\ IndexInv' /\ BashTypes' /\ ShellInv'
  BY <1>1, CardsKept
<1>3. ChatTypes'
  BY DEF C!ToolsEnd, C!FollowUp, ChatInv, ChatTypes, C!chat
<1>4. ResponseInv'
  BY <1>1 DEF ResponseInv
<1>5. QED BY <1>2, <1>3, <1>4 DEF ChatInv

\* finalizeStreaming: the whole text is on a card, and no other answer changes.
LEMMA MessageInv == ASSUME C!ChatAssumption, ChatInv, C!Message PROVE ChatInv'
<1>1. /\ answer \in Nat /\ lines \in Seq(Cards) /\ Owned(lines, upset) /\ lines # <<>>
      /\ text \in BOOLEAN /\ Len(lines) \in DOMAIN lines /\ answer \notin told
      /\ lines[Len(lines)].kind = "answer" => lines[Len(lines)].by = answer
  BY DEF C!ChatAssumption, ChatInv, ChatTypes, CardInv, C!Message, ResponseInv
<1>2. /\ UNCHANGED <<thinkIdx, answer, calls, made, text, replaced, C!count, C!bash>>
      /\ UNCHANGED C!bash /\ upset' = upset /\ lines' = C!Finalized(answer) /\ turn' # "stream"
  BY DEF C!Message, C!bash
<1>3. /\ lines' \in Seq(Cards) /\ Stay(lines, lines') /\ Owned(lines', upset)
      /\ \A r : Shown(lines, r) /\ r # answer => Shown(lines', r)
      /\ text => Shown(lines', answer)
      /\ ~text => lines' = lines
  <2>1. CASE ~text
    <3>1. lines' = lines
      BY <1>2, <2>1 DEF C!Finalized
    <3>2. QED BY <1>1, <2>1, <3>1 DEF Stay
  <2>2. CASE text /\ streams /\ C!Last(lines).kind = "answer"
    <3> DEFINE n == Len(lines)
               t == lines'
    <3>1. n \in DOMAIN lines /\ lines[n].kind = "answer" /\ lines[n].by = answer
      BY <1>1, <2>2 DEF C!Last
    <3>2. t = [lines EXCEPT ![n].by = answer, ![n].status = "done"]
      BY <1>2, <2>2 DEF C!Finalized
    <3> HIDE DEF n, t
    <3>3. Rewritten(lines, t, n, answer, "done")
      BY <1>1, <3>1, <3>2, Rewrites
    <3>4. Redrawn(lines, t, n, answer, "done", upset)
      BY <1>1, <3>1, <3>3 DEF Redrawn, Belongs
    <3>5. /\ t \in Seq(Cards) /\ Stay(lines, t) /\ Owned(t, upset) /\ Shown(t, answer)
          /\ \A r : Shown(lines, r) /\ ~(lines[n].kind = "answer" /\ lines[n].by = r) => Shown(t, r)
      BY <3>1, <3>4, Rewriting
    <3>6. QED BY <2>2, <3>1, <3>5 DEF t
  <2>3. CASE text /\ ~(streams /\ C!Last(lines).kind = "answer")
    <3> DEFINE c == C!Card("answer", answer, "done")
    <3>1. /\ c \in Cards /\ \A V : Own(c, V)
          /\ c.kind = "answer" /\ c.by = answer /\ c.status = "done"
      BY <1>1, CardMade DEF CardKinds
    <3>2. lines' = Append(lines, c)
      BY <1>2, <2>3 DEF C!Finalized
    <3> HIDE DEF c
    <3>3. /\ lines' \in Seq(Cards) /\ Stay(lines, lines') /\ Owned(lines', upset')
          /\ \A r : Shown(lines, r) => Shown(lines', r)
          /\ Shown(lines', answer)
      BY <1>2, <3>1, <3>2, CardAdded DEF ChatInv
    <3>4. QED BY <1>2, <2>3, <3>3
  <2>4. QED BY <1>1, <2>1, <2>2, <2>3
<1>4. C!AnswersShown'
  <2>1. SUFFICES ASSUME NEW r \in told' \ replaced' PROVE Shown(lines', r)
    BY DEF C!AnswersShown, Shown
  <2>2. CASE r = answer /\ text
    BY <1>3, <2>2
  <2>3. CASE ~(r = answer /\ text)
    <3>1. r \in told \ replaced /\ r # answer
      BY <1>1, <2>1, <2>3 DEF C!Message
    <3>2. Shown(lines, r)
      BY <3>1 DEF ChatInv, CardInv, C!AnswersShown, Shown
    <3>3. QED BY <1>3, <3>1, <3>2
  <2>4. QED BY <2>2, <2>3
<1>5. CardInv'
  BY <1>2, <1>3, <1>4 DEF CardInv
<1>6. /\ IndexInv' /\ BashTypes' /\ ShellInv'
      /\ \A d \in calls : \E i \in DOMAIN lines' : lines'[i].kind = "tool" /\ lines'[i].of = d
  BY <1>2, <1>3, StayKeeps, BashKept DEF ChatInv
<1>7. ChatTypes'
  <2>1. 0 \in 0..MaxAnswers
    BY DEF C!ChatAssumption
  <2>2. answer \in 0..answer
    BY <1>1
  <2>3. told' \subseteq 0..answer'
    BY <1>2, <2>2 DEF C!Message, ChatInv, ChatTypes
  <2>4. QED BY <2>1, <2>3 DEF C!Message, ChatInv, ChatTypes
<1>8. ResponseInv'
  BY <1>2, <1>6 DEF C!Message, ResponseInv
<1>9. QED BY <1>5, <1>6, <1>7, <1>8 DEF ChatInv

\* A result goes to the card of its call.
LEMMA ResultInv ==
  ASSUME C!ChatAssumption, ChatInv, NEW c \in 1..MaxCalls, C!Result(c)
  PROVE  ChatInv'
<1>1. /\ c \in Nat /\ lines \in Seq(Cards) /\ Owned(lines, upset) /\ turn = "tools"
      /\ \E i \in DOMAIN lines : lines[i].kind = "tool" /\ lines[i].of = c
      /\ \A i \in DOMAIN lines : i \in Nat
  <2>1. c \in Nat
    BY DEF C!ChatAssumption
  <2>2. lines \in Seq(Cards) /\ Owned(lines, upset)
    BY DEF ChatInv, CardInv
  <2>3. turn = "tools" /\ \E i \in DOMAIN lines : lines[i].kind = "tool" /\ lines[i].of = c
    BY DEF C!Result, ChatInv, ResponseInv
  <2>4. QED BY <2>1, <2>2, <2>3
<1>2. PICK status \in {"pending", "done"} :
        /\ calls' = IF status = "done" THEN calls \ {c} ELSE calls
        /\ lines' = IF C!ToolCard(c) = 0 THEN Append(lines, C!Card("tool", c, status))
                    ELSE [lines EXCEPT ![C!ToolCard(c)].by = c, ![C!ToolCard(c)].status = status]
  BY DEF C!Result
<1>3. /\ UNCHANGED <<streams, buf, thinkIdx, turn, answer, made, text, told, replaced, C!count>>
      /\ UNCHANGED C!bash /\ upset' = upset
  BY DEF C!Result, C!bash
<1> DEFINE n == C!ToolCard(c)
           t == lines'
<1>4. n \in DOMAIN lines /\ lines[n].kind = "tool" /\ lines[n].of = c /\ n # 0
  <2>1. C!ToolCards(c) # {} /\ C!ToolCards(c) \subseteq Nat
    BY <1>1 DEF C!ToolCards
  <2>2. n = C!Min(C!ToolCards(c))
    BY <2>1 DEF C!ToolCard
  <2>3. n \in C!ToolCards(c)
    BY <2>1, <2>2, LeastExists
  <2>4. QED BY <1>1, <2>3 DEF C!ToolCards
<1>5. t = [lines EXCEPT ![n].by = c, ![n].status = status]
  BY <1>2, <1>4
<1> HIDE DEF n, t
<1>6. Rewritten(lines, t, n, c, status)
  BY <1>1, <1>4, <1>5, Rewrites
<1>7. lines[n].kind # "answer" /\ Redrawn(lines, t, n, c, status, upset)
  BY <1>1, <1>4, <1>6 DEF Redrawn, Belongs
<1>8. /\ t \in Seq(Cards) /\ Stay(lines, t) /\ Owned(t, upset)
      /\ \A r : Shown(lines, r) => Shown(t, r)
  BY <1>7, Rewriting
<1>9. C!AnswersShown'
  BY <1>3, <1>8, AnswersKeep DEF ChatInv, t
<1>10. CardInv'
  BY <1>3, <1>8, <1>9 DEF CardInv, t
<1>11. /\ IndexInv' /\ BashTypes' /\ ShellInv'
       /\ \A d \in calls : \E i \in DOMAIN lines' : lines'[i].kind = "tool" /\ lines'[i].of = d
  BY <1>3, <1>8, StayKeeps, BashKept DEF ChatInv, t
<1>12. calls' \subseteq calls
  BY <1>2
<1>13. ChatTypes' /\ ResponseInv'
  BY <1>1, <1>3, <1>11, <1>12 DEF ChatInv, ChatTypes, ResponseInv
<1>14. QED BY <1>10, <1>11, <1>13 DEF ChatInv

-----------------------------------------------------------------------------
(* Other lines.                                                            *)

\* The lines are replaced: every command that runs is disturbed.
LEMMA Disturbed ==
  ASSUME BashTypes, ShellInv, upset' = upset \cup C!Running,
         UNCHANGED <<bashIdx, bashCh, bashPc, inbox, waiters>>
  PROVE  BashTypes' /\ ShellInv' /\ IndexInv'
<1>1. C!Running' = C!Running /\ C!Running \ upset' = {}
  BY DEF C!Running
<1>2. BashTypes'
  BY DEF BashTypes
<1>3. InboxInv'
  BY DEF ShellInv, InboxInv
<1>4. C!OneWaiter'
  BY DEF ShellInv, C!OneWaiter
<1>5. bashCh' \in C!Commands \ upset' => bashCh' \in C!Running'
  BY <1>1 DEF ShellInv
<1>6. QED BY <1>1, <1>2, <1>3, <1>4, <1>5 DEF ShellInv, IndexInv

LEMMA HydrateInv == ASSUME C!ChatAssumption, ChatInv, C!Hydrate PROVE ChatInv'
<1> DEFINE N == Cardinality(C!Kept)
<1>1. lines \in Seq(Cards) /\ Owned(lines, upset) /\ C!Kept \subseteq DOMAIN lines
  BY DEF ChatInv, CardInv, C!Kept
<1>2. /\ lines' = [n \in 1..N |-> lines[CHOOSE i \in C!Kept : Rank(C!Kept, i) = n]]
      /\ upset' = upset \cup C!Running /\ turn = "idle"
      /\ UNCHANGED <<streams, buf, thinkIdx, C!runs>>
      /\ UNCHANGED <<bashIdx, bashCh, bashPc, inbox, waiters>>
  BY SamePlaces DEF C!Hydrate, AtPlaces
<1>3. /\ N \in Nat /\ \A i \in C!Kept : Rank(C!Kept, i) \in 1..N
      /\ \A i, j \in C!Kept : Rank(C!Kept, i) = Rank(C!Kept, j) => i = j
      /\ \A n \in 1..N : \E i \in C!Kept : Rank(C!Kept, i) = n
  <2>1. Len(lines) \in Nat /\ C!Kept \subseteq 1..Len(lines)
    BY <1>1
  <2>2. QED BY <2>1, Ranks
<1> HIDE DEF N
<1>4. \A n \in 1..N : \E i \in C!Kept : Rank(C!Kept, i) = n /\ lines'[n] = lines[i]
  <2>1. TAKE n \in 1..N
  <2>2. PICK i \in C!Kept : i = CHOOSE j \in C!Kept : Rank(C!Kept, j) = n
    BY <1>3
  <2>3. Rank(C!Kept, i) = n
    BY <1>3, <2>2
  <2>4. lines'[n] = lines[i]
    BY <1>2, <2>2
  <2>5. QED BY <2>3, <2>4
<1>5. \A i \in C!Kept : lines'[Rank(C!Kept, i)] = lines[i]
  BY <1>3, <1>4
<1>6. lines' \in Seq(Cards) /\ DOMAIN lines' = 1..N
  <2>1. \A n \in 1..N : lines'[n] \in Cards
    BY <1>1, <1>4
  <2>2. lines' \in [1..N -> Cards]
    BY <1>2, <2>1
  <2>3. QED BY <1>3, <2>2
<1>7. Owned(lines', upset')
  <2>1. Owned(lines', upset)
    BY <1>1, <1>4, <1>6 DEF Owned
  <2>2. upset \subseteq upset'
    BY <1>2
  <2>3. QED BY <2>1, <2>2, OwnMore
<1>8. \A r : Shown(lines, r) => Shown(lines', r)
  <2>1. SUFFICES ASSUME NEW r, Shown(lines, r) PROVE Shown(lines', r)
    OBVIOUS
  <2>2. PICK i \in DOMAIN lines :
          lines[i].kind = "answer" /\ lines[i].by = r /\ lines[i].status = "done"
    BY <2>1 DEF Shown
  <2>3. i \in C!Kept
    BY <2>2 DEF C!Kept
  <2>4. QED BY <1>3, <1>5, <1>6, <2>2, <2>3 DEF Shown
<1>9. C!AnswersShown'
  BY <1>2, <1>8, AnswersKeep DEF ChatInv, C!runs
<1>10. CardInv'
  BY <1>6, <1>7, <1>9 DEF CardInv
<1>11. BashTypes' /\ ShellInv' /\ IndexInv'
  BY <1>2, Disturbed DEF ChatInv
<1>12. ChatTypes'
  BY <1>2, ChatKept DEF ChatInv
<1>13. ResponseInv'
  BY <1>2 DEF ChatInv, ResponseInv, C!runs
<1>14. QED BY <1>10, <1>11, <1>12, <1>13 DEF ChatInv

LEMMA OtherSessionInv == ASSUME C!ChatAssumption, ChatInv, C!OtherSession PROVE ChatInv'
<1>1. /\ lines' = <<C!Info>> /\ upset' = upset \cup C!Running /\ turn = "idle" /\ turn' = "idle"
      /\ calls' = calls /\ replaced' = told /\ told' = told
      /\ UNCHANGED <<bashIdx, bashCh, bashPc, inbox, waiters>>
  BY DEF C!OtherSession
<1>2. CardInv'
  <2>1. C!Info \in Cards /\ \A V : Own(C!Info, V)
    BY CardMade DEF CardKinds
  <2>2. lines' \in Seq(Cards) /\ Owned(lines', upset')
    BY <1>1, <2>1 DEF Owned
  <2>3. C!AnswersShown'
    BY <1>1 DEF C!AnswersShown
  <2>4. QED BY <2>2, <2>3 DEF CardInv
<1>3. BashTypes' /\ ShellInv' /\ IndexInv'
  BY <1>1, Disturbed DEF ChatInv
<1>4. ChatTypes'
  <2>1. 0 \in 0..MaxAnswers
    BY DEF C!ChatAssumption
  <2>2. QED BY <2>1 DEF C!OtherSession, ChatInv, ChatTypes
<1>5. ResponseInv'
  BY <1>1 DEF ChatInv, ResponseInv
<1>6. QED BY <1>2, <1>3, <1>4, <1>5 DEF ChatInv

-----------------------------------------------------------------------------
(* Commands of the user.                                                   *)

\* A step of a command that leaves all answers and calls on the screen, and an answer in the
\* last place only if it was there.
LEMMA RunUndisturbed ==
  ASSUME ChatInv, UNCHANGED <<streams, buf, thinkIdx, C!runs>>, lines' \in Seq(Cards),
         Owned(lines', upset'), \A r : Shown(lines, r) => Shown(lines', r),
         lines # <<>> => lines' # <<>>,
         \A c \in calls : \E i \in DOMAIN lines' : lines'[i].kind = "tool" /\ lines'[i].of = c,
         lines # <<>> /\ lines'[Len(lines')].kind = "answer"
           => lines'[Len(lines')] = lines[Len(lines)]
  PROVE  ChatTypes' /\ ResponseInv' /\ CardInv'
<1>1. ChatTypes'
  BY ChatKept DEF ChatInv
<1>2. ResponseInv'
  BY DEF ChatInv, ResponseInv, C!runs
<1>3. C!AnswersShown'
  BY AnswersKeep DEF ChatInv, C!runs
<1>4. QED BY <1>1, <1>2, <1>3 DEF CardInv

LEMMA StartUserBashInv ==
  ASSUME C!ChatAssumption, ChatInv, NEW c \in C!Commands, C!StartUserBash(c)
  PROVE  ChatInv'
<1> DEFINE card == C!Card("bash", c, "pending")
<1>1. /\ bashPc[c] = "none" /\ bashIdx' = Len(lines) + 1 /\ bashCh' = c
      /\ bashPc' = [bashPc EXCEPT ![c] = "run"] /\ waiters' = [waiters EXCEPT ![c] = @ + 1]
      /\ upset' = IF C!Running = {} THEN upset ELSE upset \cup C!Running \cup {c}
      /\ UNCHANGED <<streams, buf, thinkIdx, C!runs>> /\ UNCHANGED inbox
  BY DEF C!StartUserBash
<1>2. card \in Cards /\ (\A V : Own(card, V)) /\ card.kind = "bash" /\ card.of = c
  <2>1. c \in Nat
    BY DEF C!Commands, C!ChatAssumption
  <2>2. QED BY <2>1, CardMade DEF CardKinds
<1>3. lines' = Append(lines, card) /\ upset \subseteq upset'
  BY <1>1 DEF C!StartUserBash
<1> HIDE DEF card
<1>4. /\ lines' \in Seq(Cards) /\ lines' # <<>> /\ Stay(lines, lines') /\ Owned(lines', upset')
      /\ Len(lines') = Len(lines) + 1 /\ lines'[Len(lines')] = card
      /\ \A r : Shown(lines, r) => Shown(lines', r)
  BY <1>2, <1>3, CardAdded DEF ChatInv
<1>5. ChatTypes' /\ ResponseInv' /\ CardInv'
  <2>1. \A d \in calls : \E i \in DOMAIN lines' : lines'[i].kind = "tool" /\ lines'[i].of = d
    BY <1>4, StayKeeps DEF ChatInv
  <2>2. QED BY <1>1, <1>2, <1>4, <2>1, RunUndisturbed
<1>6. BashTypes'
  <2>1. Len(lines) + 1 \in Nat
    BY DEF ChatInv, CardInv
  <2>2. QED BY <1>1, <2>1 DEF ChatInv, BashTypes
<1>7. inbox[c] = <<>> /\ c \notin C!Running /\ C!Running' = C!Running \cup {c}
  <2>1. inbox[c] = <<>>
    BY <1>1 DEF ChatInv, ShellInv, InboxInv
  <2>2. QED BY <1>1, <2>1 DEF C!Running, ChatInv, BashTypes
<1>8. InboxInv'
  BY <1>1, <1>7 DEF ChatInv, ShellInv, InboxInv, BashTypes
<1>9. \A d \in C!Running' \ upset' : d = c /\ C!Running = {}
  BY <1>1, <1>7
<1>10. C!OneWaiter'
  <2>1. SUFFICES ASSUME NEW d \in C!Commands \ upset'
                 PROVE  waiters'[d] = IF bashPc'[d] = "none"
                                         \/ (bashPc'[d] = "done" /\ inbox'[d] = <<>>) THEN 0 ELSE 1
    BY DEF C!OneWaiter
  <2>2. waiters[d] = IF bashPc[d] = "none" \/ (bashPc[d] = "done" /\ inbox[d] = <<>>) THEN 0 ELSE 1
    BY <1>3 DEF ChatInv, ShellInv, C!OneWaiter
  <2>3. QED BY <1>1, <2>2 DEF ChatInv, BashTypes
<1>11. ShellInv'
  BY <1>1, <1>7, <1>8, <1>9, <1>10 DEF ShellInv
<1>12. IndexInv'
  <2>1. bashIdx' = Len(lines') /\ Len(lines') \in DOMAIN lines'
    BY <1>1, <1>4
  <2>2. QED BY <1>2, <1>4, <1>9, <2>1 DEF IndexInv, C!Holds
<1>13. QED BY <1>5, <1>6, <1>11, <1>12 DEF ChatInv

LEMMA BashSendsInv ==
  ASSUME C!ChatAssumption, ChatInv, NEW c \in C!Commands, C!BashSends(c)
  PROVE  ChatInv'
<1>1. PICK m \in BashMessages :
        /\ inbox' = [inbox EXCEPT ![c] = Append(@, m)]
        /\ bashPc' = [bashPc EXCEPT ![c] = IF m = "progress" THEN "run" ELSE "done"]
  BY DEF C!BashSends, BashMessages
<1>2. /\ bashPc[c] = "run" /\ UNCHANGED <<C!chat, C!runs>> /\ UNCHANGED lines
      /\ UNCHANGED <<bashIdx, bashCh, waiters, upset>>
  BY DEF C!BashSends, C!chat
<1> DEFINE q == inbox[c]
<1>3. q \in Seq(BashMessages) /\ inbox'[c] = Append(q, m) /\ Len(q) \in Nat
  BY <1>1 DEF ChatInv, BashTypes
<1> HIDE DEF q
<1>4. /\ Append(q, m) \in Seq(BashMessages) /\ Append(q, m) # <<>>
      /\ Len(Append(q, m)) = Len(q) + 1 /\ Append(q, m)[Len(q) + 1] = m
      /\ DOMAIN Append(q, m) = 1..(Len(q) + 1) /\ DOMAIN q = 1..Len(q)
      /\ \A i \in 1..Len(q) : Append(q, m)[i] = q[i]
  BY <1>3
<1>5. BashTypes'
  BY <1>1, <1>2, <1>4 DEF ChatInv, BashTypes, q
<1>6. C!Running' = C!Running
  BY <1>1, <1>2, <1>3, <1>4 DEF C!Running, ChatInv, BashTypes
<1>7. InboxInv'
  <2>1. SUFFICES ASSUME NEW d \in C!Commands
                 PROVE  /\ bashPc'[d] = "none" => inbox'[d] = <<>>
                        /\ \A i \in DOMAIN inbox'[d] :
                             inbox'[d][i] # "progress" <=> bashPc'[d] = "done" /\ i = Len(inbox'[d])
    BY DEF InboxInv
  <2>2. CASE d # c
    <3>1. inbox'[d] = inbox[d] /\ bashPc'[d] = bashPc[d]
      BY <1>1, <2>2 DEF ChatInv, BashTypes
    <3>2. QED BY <3>1 DEF ChatInv, ShellInv, InboxInv
  <2>3. CASE d = c
    <3>1. \A i \in 1..Len(q) : q[i] = "progress"
      BY <1>2, <1>4 DEF ChatInv, ShellInv, InboxInv, q
    <3>2. bashPc'[c] = IF m = "progress" THEN "run" ELSE "done"
      BY <1>1 DEF ChatInv, BashTypes
    <3>3. \A i \in 1..(Len(q) + 1) :
            Append(q, m)[i] # "progress" <=> m # "progress" /\ i = Len(q) + 1
      BY <1>3, <1>4, <3>1
    <3>4. QED BY <1>3, <1>4, <2>3, <3>2, <3>3
  <2>4. QED BY <2>2, <2>3
<1>8. C!OneWaiter'
  <2>1. SUFFICES ASSUME NEW d \in C!Commands \ upset'
                 PROVE  waiters'[d] = IF bashPc'[d] = "none"
                                         \/ (bashPc'[d] = "done" /\ inbox'[d] = <<>>) THEN 0 ELSE 1
    BY DEF C!OneWaiter
  <2>2. waiters[d] = IF bashPc[d] = "none" \/ (bashPc[d] = "done" /\ inbox[d] = <<>>) THEN 0 ELSE 1
    BY <1>2 DEF ChatInv, ShellInv, C!OneWaiter
  <2>3. QED BY <1>1, <1>2, <1>3, <1>4, <2>2 DEF ChatInv, BashTypes
<1>9. ShellInv'
  BY <1>2, <1>6, <1>7, <1>8 DEF ChatInv, ShellInv
<1>10. IndexInv'
  BY <1>2, <1>6 DEF ChatInv, IndexInv, C!Holds
<1>11. ChatTypes' /\ ResponseInv'
  BY <1>2 DEF ChatInv, ChatTypes, ResponseInv, C!chat, C!runs
<1>12. CardInv'
  BY <1>2 DEF ChatInv, CardInv, C!AnswersShown, C!runs
<1>13. QED BY <1>5, <1>9, <1>10, <1>11, <1>12 DEF ChatInv

\* What a message of a command that arrives makes of its channel.
LEMMA Arrival ==
  ASSUME ChatInv, NEW c \in C!Commands, NEW m, C!Arrives(c, m), UNCHANGED bashPc
  PROVE  /\ waiters[c] > 0 /\ inbox'[c] \in Seq(BashMessages) /\ c \in C!Running
         /\ inbox' = [inbox EXCEPT ![c] = inbox'[c]]
         /\ InboxInv'
         /\ m = "progress" => C!Running' = C!Running /\ (bashPc[c] = "done" => inbox'[c] # <<>>)
         /\ m # "progress" => /\ C!Running' = C!Running \ {c}
                              /\ bashPc[c] = "done" /\ inbox'[c] = <<>>
<1> DEFINE q == inbox[c]
           t == Tail(q)
<1>1. /\ waiters[c] > 0 /\ q # <<>> /\ Head(q) = m /\ inbox' = [inbox EXCEPT ![c] = t]
      /\ q \in Seq(BashMessages) /\ inbox'[c] = t
  BY DEF C!Arrives, ChatInv, BashTypes
<1>2. \A i \in DOMAIN q : q[i] # "progress" <=> bashPc[c] = "done" /\ i = Len(q)
  BY DEF ChatInv, ShellInv, InboxInv
<1>3. bashPc[c] = "none" => q = <<>>
  BY DEF ChatInv, ShellInv, InboxInv
<1> HIDE DEF q
<1>4. /\ t \in Seq(BashMessages) /\ Len(q) \in Nat /\ Len(q) > 0 /\ Len(t) = Len(q) - 1
      /\ DOMAIN t = 1..(Len(q) - 1) /\ DOMAIN q = 1..Len(q) /\ q[1] = m
      /\ \A i \in 1..(Len(q) - 1) : t[i] = q[i + 1]
  BY <1>1
<1> HIDE DEF t
<1>5. c \in C!Running
  BY <1>1 DEF C!Running, q
<1>6. \A i \in DOMAIN t : t[i] # "progress" <=> bashPc[c] = "done" /\ i = Len(t)
  <2>1. TAKE i \in DOMAIN t
  <2>2. i + 1 \in DOMAIN q /\ t[i] = q[i + 1] /\ (i + 1 = Len(q) <=> i = Len(t))
    BY <1>4
  <2>3. QED BY <1>2, <2>2
<1>7. InboxInv'
  <2>1. \A d \in C!Commands : d # c => inbox'[d] = inbox[d]
    BY <1>1 DEF ChatInv, BashTypes
  <2>2. bashPc[c] # "none"
    BY <1>1, <1>3
  <2>3. QED BY <1>1, <1>6, <2>1, <2>2 DEF ChatInv, ShellInv, InboxInv
<1>8. m = "progress" /\ bashPc[c] = "done" => t # <<>>
  <2>1. SUFFICES ASSUME m = "progress", bashPc[c] = "done" PROVE t # <<>>
    OBVIOUS
  <2>2. 1 # Len(q)
    BY <1>2, <1>4, <2>1
  <2>3. QED BY <1>4, <2>2
<1>9. m # "progress" => bashPc[c] = "done" /\ t = <<>>
  <2>1. SUFFICES ASSUME m # "progress" PROVE bashPc[c] = "done" /\ t = <<>>
    OBVIOUS
  <2>2. bashPc[c] = "done" /\ 1 = Len(q)
    BY <1>2, <1>4, <2>1
  <2>3. Len(t) = 0
    <3>1. Len(t) = Len(q) - 1 /\ Len(q) = 1
      BY <1>4, <2>2
    <3>2. QED BY <3>1
  <2>4. QED BY <1>4, <2>2, <2>3, EmptySeq
<1>10. \A d \in C!Commands : d # c => (d \in C!Running' <=> d \in C!Running)
  BY <1>1 DEF ChatInv, BashTypes, C!Running
<1>11. c \in C!Running' <=> bashPc[c] = "run" \/ t # <<>>
  BY <1>1 DEF C!Running
<1>12. C!Running' \subseteq C!Commands /\ C!Running \subseteq C!Commands
  BY DEF C!Running
<1>13. bashPc[c] \in {"run", "done"}
  BY <1>1, <1>3 DEF ChatInv, BashTypes
<1>14. m = "progress" => C!Running' = C!Running
  <2>1. m = "progress" => c \in C!Running'
    BY <1>8, <1>11, <1>13
  <2>2. QED BY <1>5, <1>10, <1>12, <2>1
<1>15. m # "progress" => C!Running' = C!Running \ {c}
  BY <1>5, <1>9, <1>10, <1>11, <1>12
<1>16. QED BY <1>1, <1>4, <1>5, <1>7, <1>8, <1>9, <1>14, <1>15

\* What a command shows on the card at Model.bashStreamIdx.
LEMMA OutputShown ==
  ASSUME C!ChatAssumption, ChatInv, NEW c \in C!Running, NEW status \in {"pending", "done"},
         lines' = IF C!Holds(bashIdx, "bash")
                  THEN [lines EXCEPT ![bashIdx].by = c, ![bashIdx].status = status] ELSE lines,
         UNCHANGED <<streams, buf, thinkIdx, C!runs>>, upset' = upset
  PROVE  ChatTypes' /\ ResponseInv' /\ CardInv' /\ lines' \in Seq(Cards) /\ Stay(lines, lines')
<1>1. c \in Nat /\ lines \in Seq(Cards) /\ Owned(lines, upset)
  BY DEF C!Running, C!Commands, C!ChatAssumption, ChatInv, CardInv
<1>2. CASE ~C!Holds(bashIdx, "bash")
  <2>1. lines' = lines
    BY <1>2
  <2>2. C!AnswersShown'
    BY <2>1, AnswersKeep DEF ChatInv, C!runs
  <2>3. CardInv' /\ Stay(lines, lines')
    BY <1>1, <2>1, <2>2 DEF CardInv, Stay
  <2>4. ChatTypes' /\ ResponseInv'
    BY <2>1 DEF ChatInv, ChatTypes, ResponseInv, C!runs
  <2>5. QED BY <1>1, <2>1, <2>3, <2>4
<1>3. CASE C!Holds(bashIdx, "bash")
  <2> DEFINE n == bashIdx
             t == lines'
  <2>1. n \in DOMAIN lines /\ lines[n].kind = "bash"
    BY <1>3 DEF C!Holds
  <2>2. t = [lines EXCEPT ![n].by = c, ![n].status = status]
    BY <1>3
  <2>3. c \notin upset => lines[n].of = c
    BY DEF ChatInv, IndexInv
  <2> HIDE DEF n, t
  <2>4. Rewritten(lines, t, n, c, status)
    BY <1>1, <2>1, <2>2, Rewrites
  <2>5. lines[n].kind # "answer" /\ Redrawn(lines, t, n, c, status, upset)
    BY <1>1, <2>1, <2>3, <2>4 DEF Redrawn, Belongs
  <2>6. /\ t \in Seq(Cards) /\ Stay(lines, t) /\ Owned(t, upset) /\ (lines # <<>> => t # <<>>)
        /\ Len(t) = Len(lines) /\ t[Len(t)].kind = lines[Len(lines)].kind
        /\ n # Len(lines) => t[Len(t)] = lines[Len(lines)]
    BY <2>5, Rewriting
  <2>7. \A r : Shown(lines, r) => Shown(t, r)
    BY <2>5, Rewriting
  <2>8. t[Len(t)].kind = "answer" => t[Len(t)] = lines[Len(lines)]
    BY <2>5, <2>6
  <2>9. \A d \in calls : \E i \in DOMAIN t : t[i].kind = "tool" /\ t[i].of = d
    BY <2>6, StayKeeps DEF ChatInv, t
  <2>10. ChatTypes' /\ ResponseInv' /\ CardInv'
    BY <2>6, <2>7, <2>8, <2>9, RunUndisturbed DEF t
  <2>11. QED BY <2>6, <2>10 DEF t
<1>4. QED BY <1>2, <1>3

LEMMA BashProgressInv ==
  ASSUME C!ChatAssumption, ChatInv, NEW c \in C!Commands, C!BashProgress(c)
  PROVE  ChatInv'
<1>1. /\ C!Arrives(c, "progress") /\ UNCHANGED <<bashIdx, bashCh, bashPc, upset>>
      /\ UNCHANGED <<streams, buf, thinkIdx, C!runs>>
      /\ UNCHANGED bashPc
      /\ lines' = IF C!Holds(bashIdx, "bash")
                  THEN [lines EXCEPT ![bashIdx].by = c, ![bashIdx].status = "pending"] ELSE lines
  BY DEF C!BashProgress
<1>2. /\ waiters[c] > 0 /\ inbox'[c] \in Seq(BashMessages) /\ c \in C!Running
      /\ inbox' = [inbox EXCEPT ![c] = inbox'[c]] /\ InboxInv' /\ C!Running' = C!Running
      /\ bashPc[c] = "done" => inbox'[c] # <<>>
  BY <1>1, Arrival
<1>3. ChatTypes' /\ ResponseInv' /\ CardInv' /\ lines' \in Seq(Cards) /\ Stay(lines, lines')
  BY <1>1, <1>2, OutputShown
<1> DEFINE w == [waiters EXCEPT ![c] = @ - 1]
<1>4. /\ w \in [C!Commands -> Nat] /\ w[c] = waiters[c] - 1
      /\ \A d \in C!Commands \ {c} : w[d] = waiters[d]
  BY <1>2 DEF ChatInv, BashTypes
<1>5. waiters' = IF bashCh = 0 THEN w ELSE [w EXCEPT ![bashCh] = @ + 1]
  BY DEF C!BashProgress
<1> HIDE DEF w
<1>6. bashCh \in {0} \cup C!Commands /\ 0 \notin C!Commands
  BY DEF ChatInv, BashTypes, C!Commands, C!ChatAssumption
<1>7. BashTypes'
  <2>1. waiters' \in [C!Commands -> Nat]
    BY <1>4, <1>5, <1>6
  <2>2. inbox' \in [C!Commands -> Seq(BashMessages)]
    BY <1>2 DEF ChatInv, BashTypes
  <2>3. QED BY <1>1, <2>1, <2>2 DEF ChatInv, BashTypes
<1>8. C!OneWaiter'
  <2>1. SUFFICES ASSUME NEW d \in C!Commands \ upset'
                 PROVE  waiters'[d] = IF bashPc'[d] = "none"
                                         \/ (bashPc'[d] = "done" /\ inbox'[d] = <<>>) THEN 0 ELSE 1
    BY DEF C!OneWaiter
  <2>2. /\ d \in C!Commands \ upset
        /\ waiters[d] = IF bashPc[d] = "none"
                           \/ (bashPc[d] = "done" /\ inbox[d] = <<>>) THEN 0 ELSE 1
    BY <1>1 DEF ChatInv, ShellInv, C!OneWaiter
  <2>3. CASE d = c
    <3>1. bashCh = c
      BY <1>2, <2>2, <2>3 DEF ChatInv, ShellInv
    <3>2. waiters'[c] = waiters[c]
      BY <1>4, <1>5, <1>6, <3>1 DEF ChatInv, BashTypes
    <3>3. waiters[c] = 1
      BY <1>2, <2>2, <2>3
    <3>4. bashPc[c] # "none"
      BY <1>2, <2>2, <2>3
    <3>5. QED BY <1>1, <1>2, <2>3, <3>2, <3>3, <3>4
  <2>4. CASE d # c
    <3>1. bashCh # d
      BY <1>2, <2>2, <2>4 DEF ChatInv, ShellInv
    <3>2. waiters'[d] = waiters[d]
      BY <1>4, <1>5, <1>6, <2>2, <2>4, <3>1
    <3>3. inbox'[d] = inbox[d]
      BY <1>2, <2>2, <2>4 DEF ChatInv, BashTypes
    <3>4. QED BY <1>1, <2>2, <3>2, <3>3
  <2>5. QED BY <2>3, <2>4
<1>9. ShellInv'
  BY <1>1, <1>2, <1>8 DEF ChatInv, ShellInv
<1>10. IndexInv'
  BY <1>1, <1>2, <1>3 DEF ChatInv, IndexInv, C!Holds, Stay
<1>11. QED BY <1>3, <1>7, <1>9, <1>10 DEF ChatInv

\* The end of a command: nobody waits for it any more, and no command that runs is
\* undisturbed but this one.
LEMMA ShellEnds ==
  ASSUME C!ChatAssumption, ChatInv, NEW c \in C!Commands, NEW m \in {"ok", "err"}, C!Arrives(c, m),
         waiters' = [waiters EXCEPT ![c] = @ - 1], bashCh' = 0, bashIdx' = 0,
         UNCHANGED <<bashPc, upset>>
  PROVE  BashTypes' /\ ShellInv' /\ IndexInv' /\ c \in C!Running
<1>1. /\ waiters[c] > 0 /\ inbox'[c] \in Seq(BashMessages) /\ c \in C!Running
      /\ inbox' = [inbox EXCEPT ![c] = inbox'[c]] /\ InboxInv' /\ C!Running' = C!Running \ {c}
      /\ bashPc[c] = "done" /\ inbox'[c] = <<>>
  <2>1. UNCHANGED bashPc /\ m # "progress"
    OBVIOUS
  <2>2. QED BY <2>1, Arrival
<1>2. BashTypes'
  <2>1. waiters' \in [C!Commands -> Nat]
    BY <1>1 DEF ChatInv, BashTypes
  <2>2. inbox' \in [C!Commands -> Seq(BashMessages)]
    BY <1>1 DEF ChatInv, BashTypes
  <2>3. QED BY <2>1, <2>2 DEF ChatInv, BashTypes
<1>3. C!Running' \ upset' = {}
  BY <1>1 DEF ChatInv, ShellInv
<1>4. C!OneWaiter'
  <2>1. SUFFICES ASSUME NEW d \in C!Commands \ upset'
                 PROVE  waiters'[d] = IF bashPc'[d] = "none"
                                         \/ (bashPc'[d] = "done" /\ inbox'[d] = <<>>) THEN 0 ELSE 1
    BY DEF C!OneWaiter
  <2>2. waiters[d] = IF bashPc[d] = "none" \/ (bashPc[d] = "done" /\ inbox[d] = <<>>) THEN 0 ELSE 1
    BY DEF ChatInv, ShellInv, C!OneWaiter
  <2>3. CASE d = c
    <3>1. inbox[c] # <<>>
      BY DEF C!Arrives
    <3>2. waiters'[c] = waiters[c] - 1
      BY DEF ChatInv, BashTypes
    <3>3. QED BY <1>1, <2>2, <2>3, <3>1, <3>2
  <2>4. CASE d # c
    <3>1. waiters'[d] = waiters[d] /\ inbox'[d] = inbox[d]
      BY <1>1, <2>4 DEF ChatInv, BashTypes
    <3>2. QED BY <2>2, <3>1
  <2>5. QED BY <2>3, <2>4
<1>5. 0 \notin C!Commands
  BY DEF C!Commands, C!ChatAssumption
<1>6. ShellInv' /\ IndexInv'
  BY <1>1, <1>3, <1>4, <1>5 DEF ShellInv, IndexInv
<1>7. QED BY <1>1, <1>2, <1>6

LEMMA BashDoneInv ==
  ASSUME C!ChatAssumption, ChatInv, NEW c \in C!Commands, C!BashDone(c)
  PROVE  ChatInv'
<1>1. /\ C!Arrives(c, "ok") /\ waiters' = [waiters EXCEPT ![c] = @ - 1]
      /\ bashCh' = 0 /\ bashIdx' = 0
      /\ UNCHANGED <<bashPc, upset>> /\ UNCHANGED <<streams, buf, thinkIdx, C!runs>>
      /\ lines' = IF C!Holds(bashIdx, "bash")
                  THEN [lines EXCEPT ![bashIdx].by = c, ![bashIdx].status = "done"] ELSE lines
  BY DEF C!BashDone
<1>2. BashTypes' /\ ShellInv' /\ IndexInv' /\ c \in C!Running
  BY <1>1, ShellEnds
<1>3. ChatTypes' /\ ResponseInv' /\ CardInv'
  BY <1>1, <1>2, OutputShown
<1>4. QED BY <1>2, <1>3 DEF ChatInv

LEMMA BashFailsInv ==
  ASSUME C!ChatAssumption, ChatInv, NEW c \in C!Commands, C!BashFails(c)
  PROVE  ChatInv'
<1> DEFINE s == IF C!Holds(bashIdx, "bash") THEN C!RemoveAt(lines, bashIdx) ELSE lines
<1>1. /\ C!Arrives(c, "err") /\ waiters' = [waiters EXCEPT ![c] = @ - 1]
      /\ bashCh' = 0 /\ bashIdx' = 0
      /\ UNCHANGED <<bashPc, upset>> /\ UNCHANGED <<streams, buf, thinkIdx, C!runs>>
      /\ lines' = Append(s, C!Info)
  BY DEF C!BashFails
<1>2. BashTypes' /\ ShellInv' /\ IndexInv'
  BY <1>1, ShellEnds
<1>3. lines \in Seq(Cards) /\ Owned(lines, upset)
  BY DEF ChatInv, CardInv
<1>4. /\ s \in Seq(Cards) /\ Owned(s, upset)
      /\ \A r : Shown(lines, r) => Shown(s, r)
      /\ \A k \in DOMAIN lines : lines[k].kind # "bash" => \E j \in DOMAIN s : s[j] = lines[k]
  <2>1. CASE ~C!Holds(bashIdx, "bash")
    BY <1>3, <2>1
  <2>2. CASE C!Holds(bashIdx, "bash")
    <3>1. /\ bashIdx \in DOMAIN lines /\ lines[bashIdx].kind = "bash"
          /\ lines[bashIdx].kind # "answer" /\ s = C!RemoveAt(lines, bashIdx)
      BY <2>2 DEF C!Holds
    <3> HIDE DEF s
    <3>2. /\ s \in Seq(Cards) /\ Owned(s, upset) /\ \A r : Shown(lines, r) => Shown(s, r)
          /\ \A k \in DOMAIN lines \ {bashIdx} : \E j \in DOMAIN s : s[j] = lines[k]
      BY <1>3, <3>1, Removing
    <3>3. QED BY <3>1, <3>2
  <2>3. QED BY <2>1, <2>2
<1> HIDE DEF s
<1>5. C!Info \in Cards /\ (\A V : Own(C!Info, V)) /\ C!Info.kind = "info"
  BY CardMade DEF CardKinds
<1> DEFINE t == lines'
<1>6. /\ t \in Seq(Cards) /\ t # <<>> /\ Owned(t, upset) /\ Stay(s, t) /\ t[Len(t)] = C!Info
      /\ \A r : Shown(s, r) => Shown(t, r)
  <2>1. t = Append(s, C!Info)
    BY <1>1
  <2> HIDE DEF t
  <2>2. Added(s, t, C!Info, upset)
    BY <1>4, <1>5, <2>1 DEF Added
  <2>3. QED BY <2>2, Appending
<1>7. \A d \in calls : \E i \in DOMAIN t : t[i].kind = "tool" /\ t[i].of = d
  <2>1. TAKE d \in calls
  <2>2. PICK k \in DOMAIN lines : lines[k].kind = "tool" /\ lines[k].of = d
    BY DEF ChatInv, ResponseInv
  <2>3. PICK j \in DOMAIN s : s[j] = lines[k]
    BY <1>4, <2>2
  <2>4. j \in DOMAIN t /\ t[j].kind = "tool" /\ t[j].of = d
    BY <1>6, <2>2, <2>3 DEF Stay
  <2>5. QED BY <2>4
<1>8. ChatTypes' /\ ResponseInv' /\ CardInv'
  <2>1. \A r : Shown(lines, r) => Shown(t, r)
    BY <1>4, <1>6
  <2>2. t[Len(t)].kind # "answer"
    BY <1>5, <1>6
  <2>3. QED BY <1>1, <1>6, <1>7, <2>1, <2>2, RunUndisturbed
<1>9. QED BY <1>2, <1>8 DEF ChatInv

-----------------------------------------------------------------------------
(* The theorem.                                                            *)

\* However answers, calls of tools, results, commands of the user and changes of the session
\* follow each other (tui.go: applyEvent; shell.go: handleBashProgress, handleBashDone;
\* hydrate.go): a result and the output of an undisturbed command are shown with what they
\* belong to, one goroutine waits for that output, and no announced answer leaves the screen.
THEOREM CardsAreShown == C!Spec => []CardsShowOwn
<1>1. C!ChatAssumption
  BY PartsAssumption
<1>2. C!Init => ChatInv
  <2>1. SUFFICES ASSUME C!Init PROVE ChatInv
    OBVIOUS
  <2>2. 0 \in 0..MaxAnswers /\ 0 \in 0..MaxCalls
    BY <1>1 DEF C!ChatAssumption
  <2>3. ChatTypes /\ BashTypes
    <3>1. ChatTypes
      BY <2>1, <2>2 DEF C!Init, ChatTypes
    <3>2. <<>> \in Seq(BashMessages)
      OBVIOUS
    <3>3. BashTypes
      BY <2>1, <3>2 DEF C!Init, BashTypes
    <3>4. QED BY <3>1, <3>3
  <2>4. C!Running = {} /\ 0 \notin C!Commands
    BY <1>1, <2>1 DEF C!Init, C!Running, C!Commands, C!ChatAssumption
  <2>5. ShellInv /\ IndexInv
    BY <2>1, <2>4 DEF C!Init, ShellInv, InboxInv, IndexInv, C!OneWaiter
  <2>6. ResponseInv
    BY <2>1 DEF C!Init, ResponseInv
  <2>7. CardInv
    BY <2>1 DEF C!Init, CardInv, Owned, C!AnswersShown
  <2>8. QED BY <2>3, <2>5, <2>6, <2>7 DEF ChatInv
<1>3. ChatInv /\ [C!Next]_(C!vars) => ChatInv'
  <2>1. SUFFICES ASSUME ChatInv, [C!Next]_(C!vars) PROVE ChatInv'
    OBVIOUS
  <2>2. CASE UNCHANGED C!vars
    <3>1. UNCHANGED <<lines, C!bash>> /\ UNCHANGED <<streams, buf, thinkIdx, C!runs>>
      BY <2>2 DEF C!vars, C!chat
    <3>2. CardInv' /\ IndexInv' /\ BashTypes' /\ ShellInv'
      BY <2>1, <3>1, CardsKept DEF C!runs
    <3>3. ChatTypes' /\ ResponseInv'
      BY <2>1, <3>1 DEF ChatInv, ChatTypes, ResponseInv, C!runs
    <3>4. QED BY <3>2, <3>3 DEF ChatInv
  <2>3. CASE C!RunBegins \/ C!MessageStart \/ C!Token \/ C!ThinkingToken \/ C!ToolCall \/ C!Message
    BY <1>1, <2>1, <2>3, RunBeginsInv, MessageStartInv, TokenInv, ThinkingTokenInv, ToolCallInv,
       MessageInv
  <2>4. CASE C!ToolsEnd \/ C!FollowUp \/ C!Done \/ C!AddInfo \/ C!Hydrate \/ C!OtherSession
    BY <1>1, <2>1, <2>4, TurnGoesOnInv, DoneInv, AddInfoInv, HydrateInv, OtherSessionInv
  <2>5. CASE \E c \in 1..MaxCalls : C!Result(c)
    BY <1>1, <2>1, <2>5, ResultInv
  <2>6. CASE \E c \in C!Commands :
               \/ C!StartUserBash(c) \/ C!BashSends(c) \/ C!BashProgress(c)
               \/ C!BashDone(c) \/ C!BashFails(c)
    BY <1>1, <2>1, <2>6, StartUserBashInv, BashSendsInv, BashProgressInv, BashDoneInv, BashFailsInv
  <2>7. QED BY <2>1, <2>2, <2>3, <2>4, <2>5, <2>6 DEF C!Next
<1>4. ChatInv => C!CardsShowOwn
  <2>1. SUFFICES ASSUME ChatInv PROVE C!CardsShowOwn
    OBVIOUS
  <2>2. lines \in Seq(Cards) /\ \A i \in DOMAIN lines : lines[i] \in Cards
    BY <2>1 DEF ChatInv, CardInv
  <2>3. C!TypeOK
    <3>1. \A i \in DOMAIN lines :
            lines[i].kind \in CardKinds /\ lines[i].status \in {"pending", "done"}
      BY <2>2 DEF Cards
    <3>2. made \in Nat /\ made <= MaxCalls
      BY <1>1, <2>1 DEF ChatInv, ChatTypes, C!ChatAssumption
    <3>3. QED BY <2>1, <3>1, <3>2 DEF ChatInv, ChatTypes, BashTypes, C!TypeOK, CardKinds
  <2>4. C!ResultOnOwnCard /\ C!BashOnOwnCard
    BY <2>1, <2>2, OwnedCards DEF ChatInv, CardInv
  <2>5. C!AnswersShown /\ C!OneWaiter
    BY <2>1 DEF ChatInv, CardInv, ShellInv
  <2>6. QED BY <2>3, <2>4, <2>5 DEF C!CardsShowOwn
<1>5. QED BY <1>2, <1>3, <1>4, PTL DEF C!Spec, CardsShowOwn
=============================================================================
