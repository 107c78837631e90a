---------------------------- MODULE AutoRetryProofs ----------------------------
(***************************************************************************)
(* Proofs about AutoRetry, for any number of requests, any retry limit and *)
(* any capacity of the relay's channel.                                    *)
(***************************************************************************)
EXTENDS AutoRetry, TLAPS

-----------------------------------------------------------------------------
(* The counters of one request.                                            *)

\* What is counted at each place of chatWithRetry and its relay: how often the provider
\* was reached is the number of retries begun, and one more from the call until the next
\* retry begins; a retry waits only while the limit allows it.
Budget(k) ==
  /\ chats[k] <= attempt[k] + 1 /\ attempt[k] <= MaxRetries
  /\ pc[k] \in {"new", "top", "call", "relayCall"} =>
       chats[k] = attempt[k] /\ started[k] = attempt[k] /\ ended[k] = attempt[k]
  /\ pc[k] \in {"relay", "relayAbort", "relayHook"} =>
       chats[k] = attempt[k] + 1 /\ started[k] = attempt[k] /\ ended[k] = attempt[k]
  /\ pc[k] \in {"delay", "resume", "relayDelay", "relayResume"} =>
       chats[k] = attempt[k] + 1 /\ started[k] = attempt[k] + 1 /\ ended[k] = attempt[k]
  /\ pc[k] \in {"delay", "resume", "relayAbort", "relayHook", "relayDelay", "relayResume"} =>
       attempt[k] < MaxRetries

\* The place and the counters of every request.
Counters ==
  /\ pc \in [Ids -> Stages] /\ attempt \in [Ids -> Nat]
  /\ chats \in [Ids -> Nat] /\ started \in [Ids -> Nat] /\ ended \in [Ids -> Nat]

BudgetInv == Counters /\ \A k \in Ids : Budget(k)

\* A step of request k leaves the place and the counters of the others alone.
Only(k) ==
  \A j \in Ids \ {k} :
    /\ pc'[j] = pc[j] /\ attempt'[j] = attempt[j]
    /\ chats'[j] = chats[j] /\ started'[j] = started[j] /\ ended'[j] = ended[j]

\* The steps of request k that move it.
Moves(k) == Request(k) \/ ChatStep(k) \/ RelayEnds(k) \/ RelayError(k) \/ RelayStep(k)

\* All other steps but AbortRetry leave places, counters and the flag alone.
Quiet == UNCHANGED <<pc, attempt, chats, started, ended, asked, abortRetry>>

LEMMA StepKinds == [Next]_vars => AbortRetry \/ (\E k \in Ids : Moves(k)) \/ Quiet
BY DEF Next, vars, hist, Moves, Quiet, SetAutoRetry, Cancel, Relay, ReaderStep, ReaderBegins,
       ReaderTakes, ReaderEnds

\* Each step of a request keeps its own budget and that of the others.
LEMMA MoveCounts ==
  ASSUME BudgetInv, NEW k \in Ids, Moves(k)
  PROVE  Counters' /\ Budget(k)' /\ Only(k)
<1> USE MaxRetriesAssumption
    DEF BudgetInv, Counters, Budget, Only, Goto, Counted, hist, Stages, Delays
<1>1. CASE Request(k)
  BY <1>1 DEF Request
<1>2. CASE LoopTop(k)
  BY <1>2 DEF LoopTop, TakeAbortRetry
<1>3. CASE Chat(k)
  BY <1>3 DEF Chat
<1>4. CASE DelayEnds(k)
  BY <1>4 DEF DelayEnds
<1>5. CASE Resume(k)
  BY <1>5 DEF Resume, TakeAbortRetry
<1>6. CASE RelayEnds(k)
  BY <1>6 DEF RelayEnds
<1>7. CASE RelayError(k)
  BY <1>7 DEF RelayError
<1>8. CASE RelayAbort(k)
  BY <1>8 DEF RelayAbort, TakeAbortRetry
<1>9. CASE RelayHook(k)
  BY <1>9 DEF RelayHook
<1>10. CASE RelayDelayEnds(k)
  BY <1>10 DEF RelayDelayEnds
<1>11. CASE RelayResume(k)
  BY <1>11 DEF RelayResume, TakeAbortRetry
<1>12. CASE RelayCall(k)
  BY <1>12 DEF RelayCall
<1>13. CASE RelayFails(k)
  BY <1>13 DEF RelayFails
<1>14. QED
  BY <1>1, <1>2, <1>3, <1>4, <1>5, <1>6, <1>7, <1>8, <1>9, <1>10, <1>11, <1>12, <1>13 DEF Moves, ChatStep, RelayStep

LEMMA BudgetKept == BudgetInv /\ [Next]_vars => BudgetInv'
<1> SUFFICES ASSUME BudgetInv, [Next]_vars PROVE BudgetInv'
  OBVIOUS
<1>1. CASE AbortRetry \/ Quiet
  BY <1>1 DEF AbortRetry, Quiet, BudgetInv, Counters, Budget
<1>2. ASSUME NEW k \in Ids, Moves(k) PROVE BudgetInv'
  <2>1. Counters' /\ Budget(k)' /\ Only(k)
    BY <1>2, MoveCounts
  <2>2. \A j \in Ids \ {k} : Budget(j)'
    BY <2>1 DEF BudgetInv, Budget, Only
  <2>3. QED BY <2>1, <2>2 DEF BudgetInv
<1>3. QED BY <1>1, <1>2, StepKinds

LEMMA BudgetInvariant == Spec => []BudgetInv
<1>1. Init => BudgetInv
  BY MaxRetriesAssumption DEF Init, BudgetInv, Counters, Budget, Stages
<1>2. QED BY <1>1, BudgetKept, PTL DEF Spec

\* However errors fall before and during the stream, a request reaches the provider at
\* most MaxRetries + 1 times (the count shared by chatWithRetry and relayWithRetry).
THEOREM ChatsAreBounded == Spec => []ChatsBounded
<1>1. BudgetInv => ChatsBounded
  BY MaxRetriesAssumption DEF BudgetInv, Counters, Budget, ChatsBounded
<1>2. QED BY <1>1, BudgetInvariant, PTL

\* The provider is reached for the n-th time only after n - 1 announcements of a retry
\* and n - 1 of the end of its delay (hook, AutoRetryStart and AutoRetryEnd).
THEOREM RetriesAreAnnounced == Spec => RetriesAnnounced
<1> DEFINE Announced ==
      \A k \in Ids : chats'[k] > chats[k] => started[k] = chats[k] /\ ended[k] = chats[k]
<1>1. BudgetInv /\ [Next]_vars => Announced
  <2> SUFFICES ASSUME BudgetInv, [Next]_vars, NEW k \in Ids, chats'[k] > chats[k]
               PROVE  started[k] = chats[k] /\ ended[k] = chats[k]
    OBVIOUS
  <2>1. chats[k] \in Nat
    BY DEF BudgetInv, Counters
  <2>2. Moves(k)
    <3>1. ASSUME NEW j \in Ids \ {k}, Moves(j) PROVE chats'[k] = chats[k]
      BY <3>1, MoveCounts DEF Only
    <3>2. QED BY <2>1, <3>1, StepKinds DEF AbortRetry, Quiet
  <2>3. Chat(k) \/ RelayCall(k)
    BY <2>1, <2>2
    DEF Moves, ChatStep, RelayStep, Request, LoopTop, DelayEnds, Resume, RelayEnds, RelayError,
        RelayAbort, RelayHook, RelayDelayEnds, RelayResume, RelayFails, TakeAbortRetry, hist
  <2>4. pc[k] \in {"call", "relayCall"}
    BY <2>3 DEF Chat, RelayCall, Goto
  <2>5. QED BY <2>4 DEF BudgetInv, Budget
<1>2. BudgetInv /\ [Next]_vars => [Announced]_vars
  BY <1>1
<1>3. QED BY <1>2, BudgetInvariant, PTL DEF Spec, RetriesAnnounced

-----------------------------------------------------------------------------
(* Aborts.                                                                 *)

\* A request that was asked to stop in its delay finds the flag when it looks, since no
\* other one can take it before; from then on it is over.
AbortInv ==
  /\ asked \subseteq Ids
  /\ \A k \in asked :
       \/ pc[k] \in {"delay", "resume", "relayDelay", "relayResume"} /\ abortRetry /\ Alone(k)
       \/ pc[k] \in {"failed", "relayFails", "closed"}

LEMMA AbortInvKept == BudgetInv /\ AbortInv /\ [Next]_vars => AbortInv'
<1> SUFFICES ASSUME Counters, AbortInv, [Next]_vars PROVE AbortInv'
  BY DEF BudgetInv
<1>1. CASE AbortRetry
  BY <1>1 DEF AbortRetry, AbortInv, Alone, Delays, Finished
<1>2. CASE Quiet
  BY <1>2 DEF Quiet, AbortInv, Alone
<1>3. ASSUME NEW k \in Ids, Request(k) PROVE AbortInv'
  BY <1>3 DEF Request, AbortInv
<1>4. ASSUME NEW k \in Ids, Moves(k), ~Request(k) PROVE AbortInv'
  <2>1. /\ asked' = asked /\ pc[k] \notin Finished \cup {"new"}
        /\ \A j \in Ids \ {k} : pc'[j] = pc[j]
    BY <1>4
    DEF Moves, ChatStep, RelayStep, LoopTop, Chat, DelayEnds, Resume, RelayEnds, RelayError,
        RelayAbort, RelayHook, RelayDelayEnds, RelayResume, RelayCall, RelayFails,
        TakeAbortRetry, Goto, Finished, hist, Counters
  <2>2. \A j \in asked \ {k} : ~Alone(j)
    BY <2>1 DEF Alone
  <2>3. \A j \in asked \ {k} : pc'[j] \in {"failed", "relayFails", "closed"}
    BY <2>1, <2>2 DEF AbortInv
  <2>4. ASSUME k \in asked, pc[k] = "relayFails" PROVE pc'[k] = "closed"
    BY <1>4, <2>4
    DEF Moves, ChatStep, RelayStep, LoopTop, Chat, DelayEnds, Resume, RelayEnds, RelayError,
        RelayAbort, RelayHook, RelayDelayEnds, RelayResume, RelayCall, RelayFails,
        TakeAbortRetry, Goto, Counters
  <2>5. ASSUME k \in asked, pc[k] \in {"delay", "relayDelay"}, abortRetry, Alone(k)
        PROVE  \/ pc'[k] \in {"resume", "relayResume"} /\ abortRetry' /\ Alone(k)'
               \/ pc'[k] \in {"failed", "relayFails"}
    BY <1>4, <2>1, <2>5
    DEF Moves, ChatStep, RelayStep, LoopTop, Chat, DelayEnds, Resume, RelayEnds, RelayError,
        RelayAbort, RelayHook, RelayDelayEnds, RelayResume, RelayCall, RelayFails,
        TakeAbortRetry, Goto, Counters, Alone
  <2>6. ASSUME k \in asked, pc[k] \in {"resume", "relayResume"}, abortRetry
        PROVE  pc'[k] \in {"failed", "relayFails"}
    BY <1>4, <2>6
    DEF Moves, ChatStep, RelayStep, LoopTop, Chat, DelayEnds, Resume, RelayEnds, RelayError,
        RelayAbort, RelayHook, RelayDelayEnds, RelayResume, RelayCall, RelayFails,
        TakeAbortRetry, Goto, Counters
  <2>7. QED BY <2>1, <2>3, <2>4, <2>5, <2>6 DEF AbortInv, Finished
<1>5. QED BY <1>1, <1>2, <1>3, <1>4, StepKinds

LEMMA AbortInvariant == Spec => []AbortInv
<1>1. Init => AbortInv
  BY DEF Init, AbortInv
<1>2. QED BY <1>1, AbortInvKept, BudgetInvariant, PTL DEF Spec

\* When AbortRetry comes during a delay of a request that is alone with the flag, the
\* request does not reach the provider again (TakeAbortRetry after the delay).
THEOREM AbortsAreHonoured == Spec => AbortHonoured
<1> DEFINE Honoured == \A k \in Ids : k \in asked => chats'[k] = chats[k]
<1>1. BudgetInv /\ AbortInv /\ [Next]_vars => Honoured
  <2> SUFFICES ASSUME BudgetInv, AbortInv, [Next]_vars, NEW k \in Ids, k \in asked
               PROVE  chats'[k] = chats[k]
    OBVIOUS
  <2>1. pc[k] \notin {"call", "relayCall"}
    BY DEF AbortInv
  <2>2. ASSUME Moves(k) PROVE chats'[k] = chats[k]
    BY <2>1, <2>2
    DEF Moves, ChatStep, RelayStep, Request, LoopTop, Chat, DelayEnds, Resume, RelayEnds,
        RelayError, RelayAbort, RelayHook, RelayDelayEnds, RelayResume, RelayCall, RelayFails,
        TakeAbortRetry, Goto, hist
  <2>3. ASSUME NEW j \in Ids \ {k}, Moves(j) PROVE chats'[k] = chats[k]
    BY <2>3, MoveCounts DEF Only
  <2>4. QED BY <2>2, <2>3, StepKinds DEF AbortRetry, Quiet
<1>2. BudgetInv /\ AbortInv /\ [Next]_vars => [Honoured]_vars
  BY <1>1
<1>3. QED BY <1>2, BudgetInvariant, AbortInvariant, PTL DEF Spec, AbortHonoured

-----------------------------------------------------------------------------
(* Types.                                                                  *)

\* The variables that the counters do not depend on.
Rest ==
  /\ abortRetry \in BOOLEAN /\ enabled \in BOOLEAN /\ ctxDone \in SUBSET Ids
  /\ retrying \in [Ids -> BOOLEAN]
  /\ buf \in [Ids -> Seq({"event", "error"})]
  /\ \A k \in Ids : Len(buf[k]) <= Cap
  /\ reader \in [Ids -> {"waiting", "reading", "gone"}]

\* A send keeps the channel within its capacity.
LEMMA SendFits ==
  ASSUME Rest, NEW k \in Ids, NEW ev \in {"event", "error"}, Send(k, ev)
  PROVE  /\ buf' \in [Ids -> Seq({"event", "error"})]
         /\ \A j \in Ids : Len(buf'[j]) <= Cap
<1>1. /\ Append(buf[k], ev) \in Seq({"event", "error"})
      /\ Len(Append(buf[k], ev)) = Len(buf[k]) + 1 /\ Len(buf[k]) \in Nat
  BY DEF Rest
<1>2. QED BY <1>1, CapAssumption DEF Rest, Send

LEMMA RestKept == Rest /\ [Next]_vars => Rest'
<1> SUFFICES ASSUME Rest, [Next]_vars PROVE Rest'
  OBVIOUS
<1>1. CASE AbortRetry \/ SetAutoRetry
  BY <1>1 DEF AbortRetry, SetAutoRetry, Rest
<1>2. ASSUME NEW k \in Ids, Request(k) \/ Cancel(k) PROVE Rest'
  BY <1>2 DEF Request, Cancel, Rest
<1>3. ASSUME NEW k \in Ids,
             ChatStep(k) \/ RelayEnds(k) \/ RelayError(k) \/ (RelayStep(k) /\ ~RelayFails(k))
      PROVE  Rest'
  BY <1>3
  DEF ChatStep, RelayStep, LoopTop, Chat, DelayEnds, Resume, RelayEnds, RelayError, RelayAbort,
      RelayHook, RelayDelayEnds, RelayResume, RelayCall, TakeAbortRetry, Rest
<1>4. ASSUME NEW k \in Ids, Relay(k) \/ RelayFails(k) PROVE Rest'
  <2>1. /\ buf' \in [Ids -> Seq({"event", "error"})] /\ \A j \in Ids : Len(buf'[j]) <= Cap
    BY <1>4, SendFits DEF Relay, RelayFails
  <2>2. QED BY <1>4, <2>1 DEF Relay, RelayFails, Rest
<1>5. ASSUME NEW k \in Ids, ReaderBegins(k) \/ ReaderEnds(k) PROVE Rest'
  BY <1>5 DEF ReaderBegins, ReaderEnds, Rest
<1>6. ASSUME NEW k \in Ids, ReaderTakes(k) PROVE Rest'
  <2>1. /\ Tail(buf[k]) \in Seq({"event", "error"})
        /\ Len(Tail(buf[k])) <= Cap
    BY <1>6, CapAssumption DEF ReaderTakes, Rest
  <2>2. QED BY <1>6, <2>1 DEF ReaderTakes, Rest
<1>7. CASE UNCHANGED vars
  BY <1>7 DEF vars, Rest
<1>8. QED
  BY <1>1, <1>2, <1>3, <1>4, <1>5, <1>6, <1>7 DEF Next, ReaderStep, RelayStep

\* Every variable of AutoRetry keeps its type: no channel of a relay holds more than its
\* capacity, and no request retries more often than the limit.
THEOREM TypeCorrect == Spec => []TypeOK
<1>1. Init => Rest
  <2> SUFFICES ASSUME Init PROVE Rest
    OBVIOUS
  <2>1. buf = [k \in Ids |-> <<>>]
    BY DEF Init
  <2>2. \A k \in Ids : buf[k] = <<>> /\ Len(buf[k]) = 0
    BY <2>1
  <2>3. buf \in [Ids -> Seq({"event", "error"})] /\ \A k \in Ids : Len(buf[k]) <= Cap
    BY <2>1, <2>2, CapAssumption
  <2>4. QED BY <2>3 DEF Init, Rest
<1>2. Rest /\ BudgetInv /\ AbortInv => TypeOK
  BY MaxRetriesAssumption DEF Rest, BudgetInv, Counters, Budget, AbortInv, TypeOK
<1>3. QED BY <1>1, <1>2, RestKept, BudgetInvariant, AbortInvariant, PTL DEF Spec

\* Retries are announced, and none is made that was aborted in its delay.
THEOREM RetriesAreKept == Spec => RetriesKept
BY TypeCorrect, AbortsAreHonoured, RetriesAreAnnounced, PTL DEF RetriesKept
=============================================================================
