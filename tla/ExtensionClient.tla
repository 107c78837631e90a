--------------------------- MODULE ExtensionClient ---------------------------
(***************************************************************************)
(* The JSON-RPC client of one extension process (src/internal/extensions:  *)
(* client.go, process_unix.go): calls of the program, requests of the      *)
(* extension, the goroutine that reads both, and the end of the process.   *)
(*                                                                         *)
(* External: the extension itself, which reads its input, answers calls    *)
(* in any order, may answer twice and asks one thing at a time; and the    *)
(* two pipes, which hold Cap messages.                                     *)
(***************************************************************************)
EXTENDS Naturals, Sequences

CONSTANTS Calls,    \* calls of the program
          Notices,  \* those of them that SendNotify sends, without an answer
          Cap,      \* messages in a pipe
          MaxAsks,  \* bound on the requests of the extension
          MaxNoise  \* bound on its answers that nobody asked for

ClientAssumption ==
  /\ Notices \subseteq Calls /\ {"", "reader"} \cap Calls = {}
  /\ Cap \in Nat \ {0} /\ {MaxAsks, MaxNoise} \subseteq Nat

VARIABLES
  toExt, fromExt, \* stdin and stdout of the process
  mu,        \* who holds c.mu: a call, "reader" or ""
  pending,   \* calls in the table c.pending
  chan,      \* answers in the channel of each call
  pc,        \* where each call stands
  result,    \* what each call returned
  ended,     \* calls whose context has ended
  reader,    \* readLoop: where it stands, and the call it is about
  wired,     \* Notify and HostRequest are set
  proc,      \* the process: "alive", "exited", or "waited" when c.done is closed
  closing,   \* Close was called
  ext        \* the extension: calls to answer, waiting for an answer, counts

vars == <<toExt, fromExt, mu, pending, chan, pc, result, ended, reader, wired, proc,
          closing, ext>>
pipes == <<toExt, fromExt>>
calls == <<pending, chan, pc, result, ended>>
life == <<wired, proc, closing>>

NoCall == "none"
Message(kind, k) == [kind |-> kind, call |-> k]
Reader(at, k) == [at |-> at, call |-> k]

Init ==
  /\ toExt = <<>> /\ fromExt = <<>> /\ mu = ""
  /\ pending = {} /\ chan = [k \in Calls |-> 0]
  /\ pc = [k \in Calls |-> "idle"] /\ result = [k \in Calls |-> ""]
  /\ ended = {}
  /\ reader = Reader("read", NoCall)
  /\ wired = FALSE /\ proc = "alive" /\ closing = FALSE
  /\ ext = [todo |-> {}, asking |-> FALSE, asks |-> 0, noise |-> 0, dropped |-> FALSE]

Alive == proc = "alive"
Write(pipe, m) == Len(pipe) < Cap /\ pipe' = Append(pipe, m)
Goto(k, from, to) == pc[k] = from /\ pc' = [pc EXCEPT ![k] = to]
Returns(k, res) == result' = [result EXCEPT ![k] = res]

-----------------------------------------------------------------------------
(* Call and SendNotify.                                                    *)

Begin(k) ==
  /\ Goto(k, "idle", "lock")
  /\ UNCHANGED <<pipes, mu, pending, chan, result, ended, reader, life, ext>>

Lock(k) ==
  /\ Goto(k, "lock", "encode") /\ mu = ""
  /\ mu' = k
  /\ pending' = IF k \in Notices THEN pending ELSE pending \cup {k}
  /\ UNCHANGED <<pipes, chan, result, ended, reader, life, ext>>

\* The write waits for room in the pipe, with the lock held.
Encode(k) ==
  /\ Goto(k, "encode", IF k \in Notices THEN "returned" ELSE "wait") /\ Alive
  /\ Write(toExt, Message("call", k))
  /\ mu' = ""
  /\ UNCHANGED <<fromExt, pending, chan, result, ended, reader, life, ext>>

EncodeFails(k) ==
  /\ Goto(k, "encode", "returned") /\ ~Alive
  /\ Returns(k, "unsent")
  /\ pending' = pending \ {k} /\ mu' = ""
  /\ UNCHANGED <<pipes, chan, ended, reader, life, ext>>

\* The answer, the end of the context and the end of the process: whichever comes first,
\* and any of those that have come.
Returned(k) ==
  /\ Goto(k, "wait", "returned")
  /\ \/ chan[k] > 0 /\ chan' = [chan EXCEPT ![k] = @ - 1] /\ Returns(k, "answer")
     \/ k \in ended /\ Returns(k, "cancelled") /\ UNCHANGED chan
     \/ proc = "waited" /\ Returns(k, "exited") /\ UNCHANGED chan
  /\ UNCHANGED <<pipes, mu, pending, ended, reader, life, ext>>

\* The caller's context; calls of a handler have one that never ends.
ContextEnds(k) ==
  /\ pc[k] # "idle" /\ k \notin ended /\ reader # Reader("nested", k)
  /\ ended' = ended \cup {k}
  /\ UNCHANGED <<pipes, mu, pending, chan, pc, result, reader, life, ext>>

-----------------------------------------------------------------------------
(* readLoop.                                                               *)

\* StartProcess returns a client whose reader runs already; its handlers come after.
Wire ==
  /\ ~wired /\ wired' = TRUE
  /\ UNCHANGED <<pipes, mu, calls, reader, proc, closing, ext>>

Read ==
  /\ reader.at = "read" /\ fromExt # <<>>
  /\ reader' = Reader(Head(fromExt).kind, Head(fromExt).call)
  /\ fromExt' = Tail(fromExt)
  /\ UNCHANGED <<toExt, mu, calls, life, ext>>

\* Mutant: the entry stays in the table.
TakeAnswerKeeping ==
  /\ reader.at = "answer" /\ mu = ""
  /\ reader' = IF reader.call \in pending THEN Reader("deliver", reader.call)
               ELSE Reader("read", NoCall)
  /\ UNCHANGED <<pipes, mu, calls, life, ext>>

\* The entry is taken out of the table with its answer.
TakeAnswer ==
  /\ reader.at = "answer" /\ mu = ""
  /\ pending' = pending \ {reader.call}
  /\ reader' = IF reader.call \in pending THEN Reader("deliver", reader.call)
               ELSE Reader("read", NoCall)
  /\ UNCHANGED <<pipes, mu, chan, pc, result, ended, life, ext>>

\* A channel holds one answer.
Deliver ==
  /\ reader.at = "deliver" /\ chan[reader.call] = 0
  /\ chan' = [chan EXCEPT ![reader.call] = 1]
  /\ reader' = Reader("read", NoCall)
  /\ UNCHANGED <<pipes, mu, pending, pc, result, ended, life, ext>>

\* A request is handled on this goroutine, if there is a handler yet; without one it is
\* dropped.
TakeRequest ==
  /\ reader.at = "request" /\ mu = ""
  /\ IF wired THEN reader' = Reader("handler", NoCall) /\ UNCHANGED ext
     ELSE reader' = Reader("read", NoCall) /\ ext' = [ext EXCEPT !.dropped = TRUE]
  /\ UNCHANGED <<pipes, mu, calls, life>>

\* Most handlers change something of the program and return, ...
HandlerReturns ==
  /\ reader.at = "handler"
  /\ reader' = Reader("reply", NoCall)
  /\ UNCHANGED <<pipes, mu, calls, life, ext>>

\* ... host/agent/set_model emits the hook model_select, which calls an extension that
\* subscribed to it, this one too.
HandlerCalls(k) ==
  /\ reader.at = "handler" /\ k \notin Notices
  /\ Goto(k, "idle", "lock")
  /\ reader' = Reader("nested", k)
  /\ UNCHANGED <<pipes, mu, pending, chan, result, ended, life, ext>>

NestedReturns ==
  /\ reader.at = "nested" /\ pc[reader.call] = "returned"
  /\ reader' = Reader("reply", NoCall)
  /\ UNCHANGED <<pipes, mu, calls, life, ext>>

ReplyLock ==
  /\ reader.at = "reply" /\ mu = ""
  /\ mu' = "reader"
  /\ reader' = Reader("replying", NoCall)
  /\ UNCHANGED <<pipes, calls, life, ext>>

\* Mutant: a reply that cannot be written keeps the lock.
ReplyLocked ==
  /\ reader.at = "replying" /\ Alive
  /\ Write(toExt, Message("reply", NoCall))
  /\ mu' = ""
  /\ reader' = Reader("read", NoCall)
  /\ UNCHANGED <<fromExt, calls, life, ext>>

Reply ==
  /\ reader.at = "replying"
  /\ IF Alive THEN Write(toExt, Message("reply", NoCall)) ELSE UNCHANGED toExt
  /\ mu' = ""
  /\ reader' = Reader("read", NoCall)
  /\ UNCHANGED <<fromExt, calls, life, ext>>

-----------------------------------------------------------------------------
(* The extension, as far as it does what the protocol says.                *)

ExtReads ==
  /\ Alive /\ toExt # <<>>
  /\ LET m == Head(toExt) IN
       ext' = IF m.kind = "reply" THEN [ext EXCEPT !.asking = FALSE]
              ELSE IF m.call \in Notices THEN ext
              ELSE [ext EXCEPT !.todo = @ \cup {m.call}]
  /\ toExt' = Tail(toExt)
  /\ UNCHANGED <<fromExt, mu, calls, reader, life>>

ExtAnswers(k) ==
  /\ Alive /\ k \in ext.todo
  /\ Write(fromExt, Message("answer", k))
  /\ ext' = [ext EXCEPT !.todo = @ \ {k}]
  /\ UNCHANGED <<toExt, mu, calls, reader, life>>

ExtRepeats(k) ==
  /\ Alive /\ ext.noise < MaxNoise
  /\ Write(fromExt, Message("answer", k))
  /\ ext' = [ext EXCEPT !.noise = @ + 1]
  /\ UNCHANGED <<toExt, mu, calls, reader, life>>

ExtAsks ==
  /\ Alive /\ ~ext.asking /\ ext.asks < MaxAsks
  /\ Write(fromExt, Message("request", NoCall))
  /\ ext' = [ext EXCEPT !.asking = TRUE, !.asks = @ + 1]
  /\ UNCHANGED <<toExt, mu, calls, reader, life>>

Close ==
  /\ ~closing /\ closing' = TRUE
  /\ UNCHANGED <<pipes, mu, calls, reader, wired, proc, ext>>

\* On its own, by SIGTERM, or by Kill two seconds later.
Exit ==
  /\ Alive /\ proc' = "exited"
  /\ UNCHANGED <<pipes, mu, calls, reader, wired, closing, ext>>

\* cmd.Wait closes the pipe whether or not all of it was read.
Waited ==
  /\ proc = "exited" /\ proc' = "waited"
  /\ fromExt' \in {fromExt, <<>>}
  /\ UNCHANGED <<toExt, mu, calls, reader, wired, closing, ext>>

-----------------------------------------------------------------------------
Caller(k) == Lock(k) \/ Encode(k) \/ EncodeFails(k) \/ Returned(k)

ReadLoop ==
  \/ Read \/ TakeAnswer \/ Deliver \/ TakeRequest \/ HandlerReturns
  \/ (\E k \in Calls : HandlerCalls(k)) \/ NestedReturns \/ ReplyLock \/ Reply

Extension ==
  \/ ExtReads \/ ExtAsks
  \/ \E k \in Calls : ExtAnswers(k) \/ ExtRepeats(k)

Next ==
  \/ \E k \in Calls : Begin(k) \/ Caller(k) \/ ContextEnds(k)
  \/ Wire \/ ReadLoop \/ Extension \/ Close \/ Exit \/ Waited

Spec == Init /\ [][Next]_vars

\* The goroutines run, the extension reads its input and answers, and SIGTERM or Kill ends
\* a process.  Whoever wants the lock or room in a pipe gets it in the end: there are
\* finitely many others.
Fairness ==
  /\ \A k \in Calls : WF_vars(Caller(k))
  /\ \A k \in Calls \ Notices : WF_vars(ExtAnswers(k))
  /\ WF_vars(ReadLoop) /\ WF_vars(ExtReads)
  /\ WF_vars(Waited \/ (closing /\ Exit))

FairSpec == Spec /\ Fairness

-----------------------------------------------------------------------------
(* Properties.                                                             *)

TypeOK ==
  /\ {m.kind : m \in {toExt[i] : i \in DOMAIN toExt}} \subseteq {"call", "reply"}
  /\ {m.kind : m \in {fromExt[i] : i \in DOMAIN fromExt}} \subseteq {"answer", "request"}
  /\ Len(toExt) <= Cap /\ Len(fromExt) <= Cap
  /\ mu \in Calls \cup {"", "reader"}
  /\ mu = "reader" <=> reader.at = "replying"
  /\ pending \subseteq Calls \ Notices
  /\ chan \in [Calls -> 0..1] /\ ended \subseteq Calls
  /\ pc \in [Calls -> {"idle", "lock", "encode", "wait", "returned"}]
  /\ result \in [Calls -> {"", "answer", "cancelled", "exited", "unsent"}]
  /\ proc \in {"alive", "exited", "waited"}

\* The reader never waits for a caller to take an answer: the table hands out each
\* channel once, even when the extension answers twice or nobody waits any more.
ReaderNeverStuck == reader.at = "deliver" => chan[reader.call] = 0

\* What is left in the table belongs to a call in progress or to one that its context or
\* the process ended: those entries are never taken out unless the answer comes late.
PendingAccounted ==
  \A k \in pending : pc[k] \in {"encode", "wait"} \/ result[k] \in {"cancelled", "exited"}

\* A call comes back, and a request is answered, although callers, the reader and the
\* extension wait for each other's pipe and lock - unless the reader's own handler calls
\* the extension: nobody is left to read the answer.  Close frees also that call, and with
\* it the reader.
Nested == reader.at = "nested"
CallsReturn ==
  \A k \in Calls : pc[k] \notin {"idle", "returned"} ~> pc[k] = "returned" \/ (Nested /\ ~closing)
AsksAnswered == ext.asking ~> (~ext.asking \/ ~Alive \/ ext.dropped \/ Nested)

\* Nobody waits for ever for the other side of the pipes.
NobodyWaits == CallsReturn /\ AsksAnswered

\* The table of calls leads every answer to at most one caller who takes it.
AnswersDelivered == TypeOK /\ ReaderNeverStuck /\ PendingAccounted
=============================================================================
