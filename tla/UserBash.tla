------------------------------- MODULE UserBash -------------------------------
(***************************************************************************)
(* User shell commands (src/internal/agent/bash.go): RunBash, AbortBash    *)
(* and FlushPendingBash, with the run of the agent reduced to what they    *)
(* see of it: streaming, and the flush at the end of each turn.            *)
(*                                                                         *)
(* A step is one critical section (bashMu or mu), one hook, one execution  *)
(* of the shell or one write to the session.                               *)
(***************************************************************************)
EXTENDS Naturals, Sequences, FiniteSets

CONSTANTS Calls,    \* calls of RunBash, each with its command
          Aborters, \* goroutines that call AbortBash
          NoCall,   \* nil cancel function
          MaxRuns   \* bound on the runs of the agent

BashAssumption == NoCall \notin Calls /\ MaxRuns \in Nat

VARIABLES
  bashCancel,   \* the call whose cancel function is stored, guarded by bashMu
  pendingBash,  \* calls whose entry waits for the end of the turn, guarded by mu
  entries,      \* history: the calls written to the session, in order
  pc,           \* where each call of RunBash stands
  cancelled,    \* calls whose context is cancelled
  fn,           \* the cancel function that each aborter has read
  run,          \* stage of the agent: "idle", "turn", "flush" or "after"
  batch,        \* what FlushPendingBash took and has not written yet
  runs,         \* runs begun
  beside        \* history: calls that were in progress at the same time as another one

vars == <<bashCancel, pendingBash, entries, pc, cancelled, fn, run, batch, runs, beside>>
agent == <<run, batch, runs>>
abort == <<cancelled, fn>>

\* Between the entry of RunBash and its return.
InCall == {"hook", "armed", "running", "ran", "defer", "write", "leaving"}

Stages == {"new", "refused", "over"} \cup InCall

\* Service.streaming, read under mu.
streaming == run # "idle"

Goto(c, from, to) == pc[c] = from /\ pc' = [pc EXCEPT ![c] = to]

Init ==
  /\ bashCancel = NoCall
  /\ pendingBash = <<>> /\ entries = <<>>
  /\ pc = [c \in Calls |-> "new"]
  /\ cancelled = {}
  /\ fn = [a \in Aborters |-> NoCall]
  /\ run = "idle" /\ batch = <<>> /\ runs = 0
  /\ beside = {}

-----------------------------------------------------------------------------
(* RunBash.                                                                *)

\* The look at bashCancel; ErrBashRunning when a command runs.
Check(c) ==
  /\ Goto(c, "new", IF bashCancel = NoCall THEN "hook" ELSE "refused")
  /\ LET others == {d \in Calls : pc[d] \in InCall}
     IN  beside' = IF bashCancel = NoCall /\ others # {} THEN beside \cup others \cup {c}
                   ELSE beside
  /\ UNCHANGED <<bashCancel, pendingBash, entries, abort, agent>>

\* The user_bash hook of the extensions may fail or veto the command.
Hook(c) ==
  /\ Goto(c, "hook", "armed") \/ Goto(c, "hook", "refused")
  /\ UNCHANGED <<bashCancel, pendingBash, entries, abort, agent, beside>>

\* Mutant: the cancel function is never stored.
SetCancelForgotten(c) ==
  /\ Goto(c, "armed", "running")
  /\ UNCHANGED <<bashCancel, pendingBash, entries, abort, agent, beside>>

\* The cancel function is stored in a critical section of its own.
SetCancel(c) ==
  /\ Goto(c, "armed", "running")
  /\ bashCancel' = c
  /\ UNCHANGED <<pendingBash, entries, abort, agent, beside>>

\* The shell ends by itself or because its context was cancelled; an error of the
\* tool runtime leaves no entry.
Finish(c) ==
  /\ Goto(c, "running", "ran") \/ Goto(c, "running", "leaving")
  /\ UNCHANGED <<bashCancel, pendingBash, entries, abort, agent, beside>>

\* IsStreaming, and what follows from it, are separate critical sections.
LookAtRun(c) ==
  /\ Goto(c, "ran", IF streaming THEN "defer" ELSE "write")
  /\ UNCHANGED <<bashCancel, pendingBash, entries, abort, agent, beside>>

Defer(c) ==
  /\ Goto(c, "defer", "leaving")
  /\ pendingBash' = Append(pendingBash, c)
  /\ UNCHANGED <<bashCancel, entries, abort, agent, beside>>

\* recordBashEntry: the entry is appended to the session, which is saved.
Write(c) ==
  /\ Goto(c, "write", "leaving")
  /\ entries' = Append(entries, c)
  /\ UNCHANGED <<bashCancel, pendingBash, abort, agent, beside>>

\* The deferred function: the cancel function is cleared, whoever stored it.
ClearCancel(c) ==
  /\ Goto(c, "leaving", "over")
  /\ bashCancel' = NoCall
  /\ UNCHANGED <<pendingBash, entries, abort, agent, beside>>

RunBash(c) ==
  \/ Hook(c) \/ SetCancel(c) \/ Finish(c)
  \/ LookAtRun(c) \/ Defer(c) \/ Write(c) \/ ClearCancel(c)

-----------------------------------------------------------------------------
(* AbortBash.                                                              *)

AbortReads(a) ==
  /\ fn[a] = NoCall
  /\ bashCancel # NoCall
  /\ fn' = [fn EXCEPT ![a] = bashCancel]
  /\ UNCHANGED <<bashCancel, pendingBash, entries, pc, cancelled, agent, beside>>

AbortCalls(a) ==
  /\ fn[a] # NoCall
  /\ cancelled' = cancelled \cup {fn[a]}
  /\ fn' = [fn EXCEPT ![a] = NoCall]
  /\ UNCHANGED <<bashCancel, pendingBash, entries, pc, agent, beside>>

-----------------------------------------------------------------------------
(* The run of the agent.                                                   *)

\* A run with an empty prompt skips its loop, one cancelled early its first turn.
RunBegins ==
  /\ run = "idle"
  /\ runs < MaxRuns
  /\ run' \in {"turn", "after"}
  /\ runs' = runs + 1
  /\ UNCHANGED <<bashCancel, pendingBash, entries, pc, abort, batch, beside>>

\* FlushPendingBash takes what is pending at the end of the turn ...
FlushTakes ==
  /\ run = "turn" /\ run' = "flush"
  /\ batch' = pendingBash
  /\ pendingBash' = <<>>
  /\ UNCHANGED <<bashCancel, entries, pc, abort, runs, beside>>

\* Mutant: the newest entry first.
FlushWritesNewest ==
  /\ run = "flush" /\ batch # <<>>
  /\ entries' = Append(entries, batch[Len(batch)])
  /\ batch' = SubSeq(batch, 1, Len(batch) - 1)
  /\ UNCHANGED <<bashCancel, pendingBash, pc, abort, run, runs, beside>>

\* ... and writes it outside the critical section, one entry after the other.
FlushWrites ==
  /\ run = "flush" /\ batch # <<>>
  /\ entries' = Append(entries, Head(batch))
  /\ batch' = Tail(batch)
  /\ UNCHANGED <<bashCancel, pendingBash, pc, abort, run, runs, beside>>

\* The turn is over; a retried error begins another one.
FlushEnds ==
  /\ run = "flush" /\ batch = <<>>
  /\ run' \in {"turn", "after"}
  /\ UNCHANGED <<bashCancel, pendingBash, entries, pc, abort, batch, runs, beside>>

RunReleases ==
  /\ run = "after" /\ run' = "idle"
  /\ UNCHANGED <<bashCancel, pendingBash, entries, pc, abort, batch, runs, beside>>

AgentStep == RunBegins \/ FlushTakes \/ FlushWrites \/ FlushEnds \/ RunReleases

-----------------------------------------------------------------------------
Next ==
  \/ \E c \in Calls : Check(c) \/ RunBash(c)
  \/ \E a \in Aborters : AbortReads(a) \/ AbortCalls(a)
  \/ AgentStep

Spec == Init /\ [][Next]_vars

-----------------------------------------------------------------------------
(* Properties.                                                             *)

Elems(q) == {q[i] : i \in DOMAIN q}

NoRepeats(q) == \A i, j \in DOMAIN q : q[i] = q[j] => i = j

TypeOK ==
  /\ bashCancel \in Calls \cup {NoCall}
  /\ pendingBash \in Seq(Calls)
  /\ entries \in Seq(Calls)
  /\ batch \in Seq(Calls)
  /\ pc \in [Calls -> Stages]
  /\ cancelled \in SUBSET Calls
  /\ fn \in [Aborters -> Calls \cup {NoCall}]
  /\ run \in {"idle", "turn", "flush", "after"}
  /\ runs \in 0..MaxRuns
  /\ beside \in SUBSET Calls

\* The entry of a command is written to the session at most once, and from the
\* moment RunBash gave it away until then it waits in exactly one place.
EntriesAccounted ==
  LET all == entries \o batch \o pendingBash
  IN  /\ NoRepeats(all)
      /\ \A c \in Elems(all) : pc[c] \in {"leaving", "over"}

\* What is deferred is written in the order in which the commands ended: once an
\* entry waits behind another one, it never overtakes it.
DeferredInOrder ==
  [][LET before == batch \o pendingBash
         position(c) == CHOOSE i \in DOMAIN entries' : entries'[i] = c
     IN  \A i, j \in DOMAIN before :
           i < j /\ before[j] \in Elems(entries') =>
             before[i] \in Elems(entries') /\ position(before[i]) < position(before[j])]_vars

\* bash.go:25: IsBashRunning "reports whether a user bash command is being executed";
\* Esc and the refusal of a second command rely on it.
RunningIsReported == (\E c \in Calls : pc[c] = "running") => bashCancel # NoCall

\* While a command runs, the stored cancel function is its own, so AbortBash stops
\* that command and nothing else: unless its call and another one passed the check
\* together.  What earlier calls left behind does no harm.
AbortReachesRunning ==
  \A c \in Calls : pc[c] = "running" /\ c \notin beside => bashCancel = c

\* Each entry is in one place, and those that were deferred are written in their order.
EntriesKept == [](TypeOK /\ EntriesAccounted) /\ DeferredInOrder
=============================================================================
