------------------------------- MODULE TuiRun -------------------------------
(***************************************************************************)
(* The runs of the agent as the terminal UI sees them (src/internal/tui:   *)
(* run.go, tui.go, commands.go, attachments.go, with the queues and the    *)
(* slot of src/internal/agent/service.go).                                 *)
(*                                                                         *)
(* One thread applies messages: keys, and what the goroutines it scheduled *)
(* have posted.  A goroutine of waitEvent takes one event of the channel   *)
(* that was m.events when it was scheduled and posts it; applying that     *)
(* event schedules the next one.  `busy` is what the thread believes: it   *)
(* lags behind the service by the events that are still in the channel.    *)
(* A run counts its events, not their content (TuiChat has that).          *)
(***************************************************************************)
EXTENDS Integers, Sequences, FiniteSets

CONSTANTS Cap,       \* capacity of a channel of events
          MaxEvents, \* bound on the events of a run, Done included
          MaxRuns, MaxMsgs, MaxFailures  \* bounds on runs, messages of the user, failing pagers

ASSUME TuiRunAssumption == {Cap, MaxEvents, MaxRuns, MaxMsgs, MaxFailures} \subseteq Nat

Runs == 1..MaxRuns
Msgs == 1..MaxMsgs

VARIABLES
  ui,        \* "idle", "wait" inside AbortAndWait, "gone"
  busy,      \* Model.busy
  events,    \* the run whose channel is Model.events, 0 for none
  waiting,   \* goroutines of waitEvent on the channel of a run
  posted,    \* events of a run that were taken and not yet applied
  ended,     \* runs whose eventsClosedMsg is posted
  slot,      \* the run that holds the service, 0 for none
  pc,        \* of each run: "none", "turn", "closing", "closed"
  left,      \* events it has yet to send
  chan,      \* events in its channel
  steer, followUps, \* the queues of the service: texts, each the messages it is made of
  given,     \* messages that reached the agent
  composer,  \* the messages in the editor
  typed,     \* messages written so far
  bash,      \* a command of the user is running
  overlay,   \* an overlay takes the keys
  failures   \* pagers that failed to start

queues == <<steer, followUps>>
service == <<slot, pc, left, chan, queues, given>>
readers == <<waiting, posted, ended>>
editor == <<composer, typed>>
layers == <<bash, overlay>>
vars == <<ui, busy, events, readers, service, editor, layers, failures>>

Init ==
  /\ ui = "idle" /\ busy = FALSE /\ events = 0
  /\ waiting = [r \in Runs |-> 0] /\ posted = [r \in Runs |-> 0] /\ ended = {}
  /\ slot = 0 /\ pc = [r \in Runs |-> "none"] /\ left = [r \in Runs |-> 0]
  /\ chan = [r \in Runs |-> 0]
  /\ steer = <<>> /\ followUps = <<>> /\ given = {}
  /\ composer = {} /\ typed = 0
  /\ bash = FALSE /\ overlay = FALSE /\ failures = 0

streaming == slot # 0
SomeQueued == steer # <<>> \/ followUps # <<>>

\* The messages of a queue.
Messages(texts) == UNION {texts[i] : i \in DOMAIN texts}

-----------------------------------------------------------------------------
(* The service and its runs.                                               *)

\* Prompt on a free slot: a new run for the text.
StartRun(r, text) ==
  /\ r = 1 + Cardinality({q \in Runs : pc[q] # "none"})
  /\ slot' = r /\ pc' = [pc EXCEPT ![r] = "turn"]
  /\ \E n \in 1..MaxEvents : left' = [left EXCEPT ![r] = n]
  /\ given' = given \cup text
  /\ UNCHANGED <<chan, queues>>

Emit(r) ==
  /\ pc[r] = "turn" /\ left[r] > 0 /\ chan[r] < Cap
  /\ left' = [left EXCEPT ![r] = @ - 1] /\ chan' = [chan EXCEPT ![r] = @ + 1]
  /\ UNCHANGED <<ui, busy, events, readers, slot, pc, queues, given, editor, layers,
                 failures>>

\* The turn takes steering messages before follow-ups, and goes on for them.
TakeQueued(r) ==
  /\ pc[r] = "turn" /\ left[r] > 0
  /\ \/ /\ steer # <<>>
        /\ given' = given \cup Head(steer) /\ steer' = Tail(steer) /\ UNCHANGED followUps
     \/ /\ steer = <<>> /\ followUps # <<>>
        /\ given' = given \cup Head(followUps) /\ followUps' = Tail(followUps) /\ UNCHANGED steer
  /\ UNCHANGED <<ui, busy, events, readers, slot, pc, left, chan, editor, layers,
                 failures>>

\* The slot is free before the channel is closed.
Release(r) ==
  /\ pc[r] = "turn" /\ left[r] = 0
  /\ pc' = [pc EXCEPT ![r] = "closing"] /\ slot' = 0
  /\ UNCHANGED <<ui, busy, events, readers, left, chan, queues, given, editor, layers,
                 failures>>

Close(r) ==
  /\ pc[r] = "closing"
  /\ pc' = [pc EXCEPT ![r] = "closed"]
  /\ UNCHANGED <<ui, busy, events, readers, slot, left, chan, queues, given, editor,
                 layers, failures>>

\* Abort: a cancelled run has its Done left to send, whatever it meant to do.
Abort == left' = [r \in Runs |-> IF r = slot /\ left[r] > 1 THEN 1 ELSE left[r]]

-----------------------------------------------------------------------------
(* Messages to the thread.                                                 *)

\* A goroutine of waitEvent: it posts an event, or that the channel is closed.
WaitEvent(r) ==
  /\ waiting[r] > 0
  /\ waiting' = [waiting EXCEPT ![r] = @ - 1]
  /\ \/ /\ chan[r] > 0 /\ chan' = [chan EXCEPT ![r] = @ - 1]
        /\ posted' = [posted EXCEPT ![r] = @ + 1] /\ UNCHANGED ended
     \/ /\ chan[r] = 0 /\ pc[r] = "closed" /\ ended' = ended \cup {r}
        /\ UNCHANGED <<chan, posted>>
  /\ UNCHANGED <<ui, busy, events, slot, pc, left, queues, given, editor, layers, failures>>

\* Mutant: applying an event does not wait for the next.
ApplyEventForgets(r) ==
  /\ ui = "idle" /\ posted[r] > 0
  /\ posted' = [posted EXCEPT ![r] = @ - 1]
  /\ UNCHANGED <<ui, busy, events, waiting, ended, service, editor, layers, failures>>

\* agentEventMsg: the next goroutine waits on the channel that is m.events now.
ApplyEvent(r) ==
  /\ ui = "idle" /\ posted[r] > 0
  /\ posted' = [posted EXCEPT ![r] = @ - 1]
  /\ waiting' = [waiting EXCEPT ![events] = @ + 1]
  /\ UNCHANGED <<ui, busy, events, ended, service, editor, layers, failures>>

EventsClosed(r) ==
  /\ ui = "idle" /\ r \in ended
  /\ ended' = ended \ {r}
  /\ busy' = FALSE
  /\ UNCHANGED <<ui, events, waiting, posted, service, editor, layers, failures>>

\* errMsg: only the pager of the Markdown preview sends it.
PagerFails ==
  /\ ui = "idle" /\ failures < MaxFailures
  /\ failures' = failures + 1
  /\ busy' = FALSE
  /\ UNCHANGED <<ui, events, readers, service, editor, layers>>

-----------------------------------------------------------------------------
(* Keys and commands.                                                      *)

Type ==
  /\ ui = "idle" /\ ~overlay /\ typed < MaxMsgs /\ composer = {}
  /\ typed' = typed + 1 /\ composer' = {typed + 1}
  /\ UNCHANGED <<ui, busy, events, readers, service, layers, failures>>

Queues == {"steer", "followUp"}

\* Prompt of a busy thread with a channel of its own that it never reads: the service
\* queues the text and closes the channel, or, when the run has released the slot in the
\* meantime, starts a run on it.
Queue(text, kind) ==
  /\ busy
  /\ IF streaming
     THEN /\ steer' = IF kind = "steer" THEN Append(steer, text) ELSE steer
          /\ followUps' = IF kind = "steer" THEN followUps ELSE Append(followUps, text)
          /\ UNCHANGED <<slot, pc, left, chan, given>>
     ELSE \E r \in Runs : StartRun(r, text)
  /\ UNCHANGED <<busy, events, readers>>

\* Prompt of an idle thread, on a free slot.
Prompt(text) ==
  /\ ~busy /\ ~streaming
  /\ \E r \in Runs :
       /\ StartRun(r, text)
       /\ busy' = TRUE /\ events' = r
       /\ waiting' = [waiting EXCEPT ![r] = @ + 1]
  /\ UNCHANGED <<posted, ended>>

\* submitWithText.  A refused prompt (ErrStreaming) leaves the editor as it is.
Submit(text, kind) == (Queue(text, kind) \/ Prompt(text)) /\ composer' = {}

Enter(kind) ==
  /\ ui = "idle" /\ ~overlay /\ composer # {}
  /\ Submit(composer, kind)
  /\ UNCHANGED <<ui, typed, layers, failures>>

\* A prompt of an extension goes the way of Enter; a draft in the editor is cleared.
ExternalPrompt(kind) ==
  /\ ui = "idle" /\ typed < MaxMsgs
  /\ typed' = typed + 1
  /\ Submit({typed + 1}, kind)
  /\ UNCHANGED <<ui, layers, failures>>

\* DrainQueues: the messages of both queues, which the editor joins.
Drained == Messages(steer) \cup Messages(followUps)

StartBash ==
  /\ ui = "idle" /\ ~overlay /\ ~bash /\ composer = {} /\ bash' = TRUE
  /\ UNCHANGED <<ui, busy, events, readers, service, editor, overlay, failures>>

BashEnds ==
  /\ bash /\ bash' = FALSE
  /\ UNCHANGED <<ui, busy, events, readers, service, editor, overlay, failures>>

ToggleOverlay ==
  /\ ui = "idle" /\ ~overlay /\ overlay' = TRUE
  /\ UNCHANGED <<ui, busy, events, readers, service, editor, bash, failures>>

\* Esc stops the command of the user (which ends on its own), ...
EscBash ==
  /\ ui = "idle" /\ bash
  /\ bash' = FALSE
  /\ UNCHANGED <<ui, busy, events, readers, service, editor, overlay, failures>>

\* ... closes what is open, ...
EscOverlay ==
  /\ ui = "idle" /\ ~bash /\ overlay
  /\ overlay' = FALSE
  /\ UNCHANGED <<ui, busy, events, readers, service, editor, bash, failures>>

\* Mutant: the queued messages are copied to the editor and stay queued.
EscBusySnapshot ==
  /\ ui = "idle" /\ ~bash /\ ~overlay /\ busy
  /\ Abort
  /\ composer' = IF SomeQueued THEN Drained ELSE composer
  /\ UNCHANGED <<ui, busy, events, readers, slot, pc, chan, queues, given, typed, layers,
                 failures>>

\* ... or aborts the run, and the queued messages replace what is in the editor.
EscBusy ==
  /\ ui = "idle" /\ ~bash /\ ~overlay /\ busy
  /\ Abort
  /\ composer' = IF SomeQueued THEN Drained ELSE composer
  /\ steer' = <<>> /\ followUps' = <<>>
  /\ UNCHANGED <<ui, busy, events, readers, slot, pc, chan, given, typed, layers, failures>>

\* "/abort" is typed into the editor, and submitWithText clears the editor after the
\* command has put the queued messages there.
SlashAbort ==
  /\ ui = "idle" /\ ~overlay /\ composer = {}
  /\ Abort
  /\ steer' = <<>> /\ followUps' = <<>>
  /\ UNCHANGED <<ui, busy, events, readers, slot, pc, chan, given, editor, layers, failures>>

\* PopQueuedMessage: follow-ups first; the message replaces what is in the editor.
Dequeue ==
  /\ ui = "idle" /\ ~overlay
  /\ \/ /\ followUps # <<>>
        /\ composer' = Head(followUps) /\ followUps' = Tail(followUps) /\ UNCHANGED steer
     \/ /\ followUps = <<>> /\ steer # <<>>
        /\ composer' = Head(steer) /\ steer' = Tail(steer) /\ UNCHANGED followUps
  /\ UNCHANGED <<ui, busy, events, readers, slot, pc, left, chan, given, typed, layers,
                 failures>>

\* Ctrl-C clears the editor; the second one within half a second quits.
CtrlC ==
  /\ ui = "idle" /\ ~overlay
  /\ \/ composer # {} /\ composer' = {} /\ UNCHANGED ui
     \/ composer = {} /\ ui' = "gone" /\ UNCHANGED composer
  /\ UNCHANGED <<busy, events, readers, service, typed, layers, failures>>

\* "/new" and "/session switch" wait for the run on the thread that reads its events.
NewSession ==
  /\ ui = "idle" /\ ~overlay /\ composer = {} /\ streaming
  /\ ui' = "wait"
  /\ Abort
  /\ UNCHANGED <<busy, events, readers, slot, pc, chan, queues, given, editor, layers, failures>>

\* Mutant: the thread waits until it has seen the end of the run itself.
SessionIsNewWhenIdle ==
  /\ ui = "wait" /\ ~busy /\ \A r \in Runs : pc[r] \in {"none", "closed"}
  /\ ui' = "idle"
  /\ UNCHANGED <<busy, events, readers, service, editor, layers, failures>>

\* The wait group is zero once no run is on its way.
SessionIsNew ==
  /\ ui = "wait" /\ \A r \in Runs : pc[r] \in {"none", "closed"}
  /\ ui' = "idle"
  /\ UNCHANGED <<busy, events, readers, service, editor, layers, failures>>

-----------------------------------------------------------------------------
RunStep(r) == Emit(r) \/ TakeQueued(r) \/ Release(r) \/ Close(r)
Message(r) == WaitEvent(r) \/ ApplyEvent(r) \/ EventsClosed(r)

Key ==
  \/ Type \/ StartBash \/ ToggleOverlay \/ EscBash \/ EscOverlay \/ EscBusy \/ SlashAbort
  \/ Dequeue \/ CtrlC \/ NewSession
  \/ \E k \in Queues : Enter(k) \/ ExternalPrompt(k)

Next ==
  \/ \E r \in Runs : RunStep(r) \/ Message(r)
  \/ Key \/ PagerFails \/ BashEnds \/ SessionIsNew

Spec == Init /\ [][Next]_vars

\* The goroutines of a run go on as long as one of them can, and the thread takes
\* something of what was posted to it.  Nobody has to press a key.
GoesOn(r) == Emit(r) \/ Release(r) \/ Close(r) \/ WaitEvent(r)
Thread == SessionIsNew \/ \E r \in Runs : ApplyEvent(r) \/ EventsClosed(r)

Fairness == WF_vars(Thread) /\ \A r \in Runs : WF_vars(GoesOn(r))

FairSpec == Spec /\ Fairness

-----------------------------------------------------------------------------
(* Properties.                                                             *)

TypeOK ==
  /\ ui \in {"idle", "wait", "gone"} /\ {busy, bash, overlay} \subseteq BOOLEAN
  /\ events \in 0..MaxRuns /\ slot \in 0..MaxRuns
  /\ waiting \in [Runs -> Nat] /\ posted \in [Runs -> Nat] /\ ended \subseteq Runs
  /\ pc \in [Runs -> {"none", "turn", "closing", "closed"}]
  /\ left \in [Runs -> 0..MaxEvents] /\ chan \in [Runs -> 0..Cap]
  /\ {steer, followUps} \subseteq Seq(SUBSET Msgs) /\ {given, composer} \subseteq SUBSET Msgs
  /\ typed \in 0..MaxMsgs /\ failures \in 0..MaxFailures

InFlight(r) == waiting[r] + posted[r]

\* As long as the thread believes in a run, the end of that run is on its way to it: a
\* goroutine waits on the channel, or what it took is posted.  Otherwise the UI would
\* stay busy for ever.
BusyIsWatched == busy => InFlight(events) > 0 \/ ended # {}

\* Two goroutines on one channel would post its events in any order.  The channel of a
\* run has one reader, unless a failing pager made the thread forget that it is busy.
EventsInOrder == failures = 0 => \A r \in Runs : InFlight(r) <= 1

\* A message of the user is in one place: the editor, a queue or the agent.  A restored
\* message that stayed queued would be sent twice.
MessageOnce ==
  /\ \A texts \in {steer, followUps} :
       \A i, j \in DOMAIN texts : i # j => texts[i] \cap texts[j] = {}
  /\ Messages(steer) \cap Messages(followUps) = {}
  /\ given \cap composer = {}
  /\ (given \cup composer) \cap (Messages(steer) \cup Messages(followUps)) = {}

\* While the thread is not busy nobody's events are on their way, so that the next run
\* begins with an empty screen of its own; again but for a failing pager.
IdleIsQuiet == failures = 0 /\ ~busy => \A r \in Runs : InFlight(r) = 0

\* busy comes to an end when the run does, with or without the user, unless the thread
\* waits for a run.
BusyEnds == busy ~> (~busy \/ ui # "idle")

\* A command that waits for the run comes back when what the cancelled run and the
\* others have left to send fits into their channels.
Fits == \A r \in Runs : left[r] + chan[r] <= Cap
WaitReturns == (ui = "wait" /\ Fits) ~> ui = "idle"

\* What the thread believes of a run is on its way to becoming true, and nothing of
\* another run is.
RunWatched == TypeOK /\ BusyIsWatched /\ EventsInOrder /\ IdleIsQuiet

\* The user gets the thread back.
ThreadComesBack == BusyEnds /\ WaitReturns
=============================================================================
