------------------------------ MODULE AutoRetry ------------------------------
(***************************************************************************)
(* Retries of a provider request (src/internal/agent/retry.go):            *)
(* chatWithRetry, the goroutine of relayWithRetry, the reader of the       *)
(* relayed stream (productProcessStream, finalAnswerWithoutTools) and the  *)
(* abortRetry flag that all of them share.                                 *)
(*                                                                         *)
(* Requests are made one after the other.  The reader leaves a stream on   *)
(* an error or when the context is cancelled; nobody waits for the relay   *)
(* then, so that the relay of an earlier request may still be running.     *)
(***************************************************************************)
EXTENDS Naturals, Sequences

CONSTANTS Requests,   \* number of requests
          MaxRetries, \* Settings.Retry.MaxRetries, negative values mapped to 3
          Cap         \* capacity of the relay's channel (64)

ASSUME RequestsAssumption == Requests \in Nat \ {0}
ASSUME MaxRetriesAssumption == MaxRetries \in Nat
ASSUME CapAssumption == Cap \in Nat \ {0}

VARIABLES
  abortRetry,  \* Service.abortRetry, guarded by mu
  enabled,     \* Service.AutoRetryEnabled()
  ctxDone,     \* requests whose run was cancelled
  pc,          \* where each request stands: chatWithRetry, then its relay
  attempt,     \* retries begun, counted across chatWithRetry and its relay
  retrying,    \* the value of enabled that the request was started with
  buf,         \* what the relay's channel holds
  reader,      \* "waiting" for the stream, "reading" it, or "gone"
  chats,       \* history: calls of prov.Chat
  started,     \* history: AutoRetryStart events
  ended,       \* history: AutoRetryEnd events
  asked        \* history: requests in whose delay AbortRetry was called, alone so far

hist == <<chats, started, ended, asked>>
vars == <<abortRetry, enabled, ctxDone, pc, attempt, retrying, buf, reader, hist>>

Ids == 1..Requests

\* The two delays: that of chatWithRetry and that of its relay.
Delays == {"delay", "relayDelay"}

Stages == {"new", "top", "call", "resume", "failed", "plain", "relay", "relayAbort",
           "relayHook", "relayResume", "relayCall", "relayFails", "closed"} \cup Delays

\* Where a request may no longer call the provider.
Finished == {"failed", "plain", "closed"}

Goto(k, from, to) == pc[k] = from /\ pc' = [pc EXCEPT ![k] = to]

Counted(h, k) == [h EXCEPT ![k] = @ + 1]

\* out <- ev: blocks while the channel is full.
Send(k, ev) ==
  /\ Len(buf[k]) < Cap
  /\ buf' = [buf EXCEPT ![k] = Append(@, ev)]

Init ==
  /\ abortRetry = FALSE /\ enabled \in BOOLEAN /\ ctxDone = {}
  /\ pc = [k \in Ids |-> "new"]
  /\ attempt = [k \in Ids |-> 0]
  /\ retrying = [k \in Ids |-> FALSE]
  /\ buf = [k \in Ids |-> <<>>]
  /\ reader = [k \in Ids |-> "waiting"]
  /\ chats = [k \in Ids |-> 0] /\ started = [k \in Ids |-> 0] /\ ended = [k \in Ids |-> 0]
  /\ asked = {}

-----------------------------------------------------------------------------
(* The flag.                                                               *)

\* No other request could take the flag.
Alone(k) == \A j \in Ids \ {k} : pc[j] \in Finished \cup {"new"}

\* AbortRetry, whether or not anything is being retried.
AbortRetry ==
  /\ abortRetry' = TRUE
  /\ asked' = asked \cup {k \in Ids : pc[k] \in Delays /\ Alone(k)}
  /\ UNCHANGED <<enabled, ctxDone, pc, attempt, retrying, buf, reader, chats, started, ended>>

SetAutoRetry ==
  /\ enabled' = ~enabled
  /\ UNCHANGED <<abortRetry, ctxDone, pc, attempt, retrying, buf, reader, hist>>

\* TakeAbortRetry: reads and clears the flag; the request goes one way or the other.
TakeAbortRetry(k, from, aborted, goesOn) ==
  /\ Goto(k, from, IF abortRetry THEN aborted ELSE goesOn)
  /\ abortRetry' = FALSE
  /\ UNCHANGED <<enabled, ctxDone, retrying, buf, reader, chats>>

-----------------------------------------------------------------------------
(* chatWithRetry.                                                          *)

\* The next request of the run; retryControl reads the settings.
Request(k) ==
  /\ \A j \in 1..(k - 1) : reader[j] = "gone"
  /\ Goto(k, "new", "top")
  /\ retrying' = [retrying EXCEPT ![k] = enabled]
  /\ asked' = {}
  /\ UNCHANGED <<abortRetry, enabled, ctxDone, attempt, buf, reader, chats, started, ended>>

\* Also before the very first attempt.
LoopTop(k) ==
  /\ TakeAbortRetry(k, "top", "failed", "call")
  /\ UNCHANGED <<attempt, started, ended, asked>>

\* prov.Chat: a stream, relayed when retries are enabled; or an error that ends the
\* request or is announced and waited for.
Chat(k) ==
  /\ \/ /\ Goto(k, "call", IF retrying[k] THEN "relay" ELSE "plain")
        /\ UNCHANGED started
     \/ /\ Goto(k, "call", "failed")
        /\ UNCHANGED started
     \/ /\ retrying[k] /\ attempt[k] < MaxRetries
        /\ Goto(k, "call", "delay")
        /\ started' = Counted(started, k)
  /\ chats' = Counted(chats, k)
  /\ UNCHANGED <<abortRetry, enabled, ctxDone, attempt, retrying, buf, reader, ended, asked>>

DelayEnds(k) ==
  /\ \/ Goto(k, "delay", "resume")
     \/ k \in ctxDone /\ Goto(k, "delay", "failed")
  /\ UNCHANGED <<abortRetry, enabled, ctxDone, attempt, retrying, buf, reader, hist>>

Resume(k) ==
  /\ TakeAbortRetry(k, "resume", "failed", "top")
  /\ IF abortRetry THEN UNCHANGED <<attempt, ended>>
     ELSE attempt' = Counted(attempt, k) /\ ended' = Counted(ended, k)
  /\ UNCHANGED <<started, asked>>

-----------------------------------------------------------------------------
(* The relay.                                                              *)

\* An event of the provider's stream, or an error that is not to be retried; the
\* relay goes on reading after either.
Relay(k) ==
  /\ pc[k] = "relay"
  /\ \E ev \in {"event", "error"} : Send(k, ev)
  /\ UNCHANGED <<abortRetry, enabled, ctxDone, pc, attempt, retrying, reader, hist>>

\* Mutant: the goroutine ends and leaves its channel open.
RelayEndsOpen(k) ==
  /\ Goto(k, "relay", "failed")
  /\ UNCHANGED <<abortRetry, enabled, ctxDone, attempt, retrying, buf, reader, hist>>

\* The provider's stream ends: the deferred close(out).
RelayEnds(k) ==
  /\ Goto(k, "relay", "closed")
  /\ UNCHANGED <<abortRetry, enabled, ctxDone, attempt, retrying, buf, reader, hist>>

\* Mutant: the relay starts with a fresh count.
RelayErrorUnbounded(k) ==
  /\ Goto(k, "relay", "relayAbort")
  /\ UNCHANGED <<abortRetry, enabled, ctxDone, attempt, retrying, buf, reader, hist>>

\* A retryable error in the middle of the stream.
RelayError(k) ==
  /\ Goto(k, "relay", IF attempt[k] >= MaxRetries THEN "relayFails" ELSE "relayAbort")
  /\ UNCHANGED <<abortRetry, enabled, ctxDone, attempt, retrying, buf, reader, hist>>

RelayAbort(k) ==
  /\ TakeAbortRetry(k, "relayAbort", "relayFails", "relayHook")
  /\ UNCHANGED <<attempt, started, ended, asked>>

\* hook(true, ...): the event goes to whatever channel the service holds now.
RelayHook(k) ==
  /\ Goto(k, "relayHook", "relayDelay")
  /\ started' = Counted(started, k)
  /\ UNCHANGED <<abortRetry, enabled, ctxDone, attempt, retrying, buf, reader, chats, ended, asked>>

RelayDelayEnds(k) ==
  /\ \/ Goto(k, "relayDelay", "relayResume")
     \/ k \in ctxDone /\ Goto(k, "relayDelay", "relayFails")
  /\ UNCHANGED <<abortRetry, enabled, ctxDone, attempt, retrying, buf, reader, hist>>

\* Mutant: the flag is not looked at after the delay.
RelayResumeAnyway(k) ==
  /\ Goto(k, "relayResume", "relayCall")
  /\ attempt' = Counted(attempt, k) /\ ended' = Counted(ended, k)
  /\ UNCHANGED <<abortRetry, enabled, ctxDone, retrying, buf, reader, chats, started, asked>>

RelayResume(k) ==
  /\ TakeAbortRetry(k, "relayResume", "relayFails", "relayCall")
  /\ IF abortRetry THEN UNCHANGED <<attempt, ended>>
     ELSE attempt' = Counted(attempt, k) /\ ended' = Counted(ended, k)
  /\ UNCHANGED <<started, asked>>

RelayCall(k) ==
  /\ Goto(k, "relayCall", "relay") \/ Goto(k, "relayCall", "relayFails")
  /\ chats' = Counted(chats, k)
  /\ UNCHANGED <<abortRetry, enabled, ctxDone, attempt, retrying, buf, reader, started, ended, asked>>

\* The error is passed on and the channel closed.
RelayFails(k) ==
  /\ Goto(k, "relayFails", "closed")
  /\ Send(k, "error")
  /\ UNCHANGED <<abortRetry, enabled, ctxDone, attempt, retrying, reader, hist>>

-----------------------------------------------------------------------------
(* The reader, and the run it belongs to.                                  *)

\* chatWithRetry returned a stream, or an error that ends the turn; without retries
\* the reader has the provider's own stream.
ReaderBegins(k) ==
  /\ reader[k] = "waiting"
  /\ pc[k] \notin {"new", "top", "call", "delay", "resume"}
  /\ reader' = [reader EXCEPT ![k] = IF pc[k] \in {"failed", "plain"} THEN "gone" ELSE "reading"]
  /\ UNCHANGED <<abortRetry, enabled, ctxDone, pc, attempt, retrying, buf, hist>>

\* An event is taken; the reader leaves on an error and when the context is cancelled.
ReaderTakes(k) ==
  /\ reader[k] = "reading"
  /\ buf[k] # <<>>
  /\ buf' = [buf EXCEPT ![k] = Tail(@)]
  /\ reader' = [reader EXCEPT ![k] =
                  IF k \in ctxDone \/ Head(buf[k]) = "error" THEN "gone" ELSE "reading"]
  /\ UNCHANGED <<abortRetry, enabled, ctxDone, pc, attempt, retrying, hist>>

\* The channel is closed and empty.
ReaderEnds(k) ==
  /\ reader[k] = "reading"
  /\ pc[k] = "closed" /\ buf[k] = <<>>
  /\ reader' = [reader EXCEPT ![k] = "gone"]
  /\ UNCHANGED <<abortRetry, enabled, ctxDone, pc, attempt, retrying, buf, hist>>

\* Abort, or the end of the caller's context.
Cancel(k) ==
  /\ pc[k] # "new"
  /\ k \notin ctxDone
  /\ ctxDone' = ctxDone \cup {k}
  /\ UNCHANGED <<abortRetry, enabled, pc, attempt, retrying, buf, reader, hist>>

RelayStep(k) ==
  \/ RelayAbort(k) \/ RelayHook(k) \/ RelayDelayEnds(k) \/ RelayResume(k)
  \/ RelayCall(k) \/ RelayFails(k)

ChatStep(k) == LoopTop(k) \/ Chat(k) \/ DelayEnds(k) \/ Resume(k)

ReaderStep(k) == ReaderBegins(k) \/ ReaderTakes(k) \/ ReaderEnds(k)

Next ==
  \/ AbortRetry \/ SetAutoRetry
  \/ \E k \in Ids : \/ Request(k) \/ Cancel(k) \/ ChatStep(k)
                    \/ Relay(k) \/ RelayEnds(k) \/ RelayError(k) \/ RelayStep(k)
                    \/ ReaderStep(k)

Spec == Init /\ [][Next]_vars

\* Timers fire, the provider answers and its streams end, the goroutines are scheduled.
Fairness ==
  \A k \in Ids : /\ WF_vars(ChatStep(k)) /\ WF_vars(RelayStep(k)) /\ WF_vars(ReaderStep(k))
                 /\ SF_vars(RelayEnds(k))

FairSpec == Spec /\ Fairness

-----------------------------------------------------------------------------
(* Properties.                                                             *)

TypeOK ==
  /\ abortRetry \in BOOLEAN /\ enabled \in BOOLEAN /\ ctxDone \in SUBSET Ids
  /\ pc \in [Ids -> Stages]
  /\ attempt \in [Ids -> 0..MaxRetries]
  /\ retrying \in [Ids -> BOOLEAN]
  /\ buf \in [Ids -> Seq({"event", "error"})]
  /\ \A k \in Ids : Len(buf[k]) <= Cap
  /\ reader \in [Ids -> {"waiting", "reading", "gone"}]
  /\ chats \in [Ids -> Nat] /\ started \in [Ids -> Nat] /\ ended \in [Ids -> Nat]
  /\ asked \in SUBSET Ids

\* One budget for both places that retry: however errors fall before and during the
\* stream, a request reaches the provider at most MaxRetries + 1 times.
ChatsBounded == \A k \in Ids : chats[k] <= MaxRetries + 1

\* When AbortRetry comes during a delay, the request does not reach the provider again.
\* A relay left over from an earlier request, or a request begun since, may take the
\* flag instead: the promise is only for the request that is alone with it.
AbortHonoured ==
  [][\A k \in Ids : k \in asked => chats'[k] = chats[k]]_vars

\* Every further attempt was announced, and the end of its delay too: when the
\* provider is reached for the n-th time, n - 1 starts and n - 1 ends were sent.
RetriesAnnounced ==
  [][\A k \in Ids : chats'[k] > chats[k] => started[k] = chats[k] /\ ended[k] = chats[k]]_vars

\* Whatever fails, is cancelled or aborted, the turn that made the request goes on.
RequestEnds == \A k \in Ids : pc[k] # "new" ~> reader[k] = "gone"

\* An aborted retry is not made, and those that are made are announced.
RetriesKept == []TypeOK /\ AbortHonoured /\ RetriesAnnounced
=============================================================================
