------------------------------- MODULE RunSlot -------------------------------
(***************************************************************************)
(* What agent.Service promises its callers (TUI, RPC server, SDK,          *)
(* extensions), with none of its goroutines, locks or channels:            *)
(*   - at most one run holds the session, and a run identity holds it at   *)
(*     most once;                                                          *)
(*   - a message is accepted into a queue only while a run holds the       *)
(*     session, and leaves its queue exactly once: handed to the run in    *)
(*     arrival order, or given back to the user.                           *)
(* ServiceRun implements this specification.                               *)
(***************************************************************************)
EXTENDS Sequences

CONSTANTS Runs,   \* identities of runs
          Msgs,   \* identities of queued user messages
          NoRun   \* the session is free, not a run

VARIABLES holder,        \* the run that holds the session, or NoRun
          spent,         \* runs that have held the session
          steerQueue,    \* accepted steering messages, oldest first
          followUpQueue, \* accepted follow-up messages, oldest first
          fate           \* what became of every message

vars == <<holder, spent, steerQueue, followUpQueue, fate>>
queues == <<steerQueue, followUpQueue, fate>>

Elems(q) == {q[i] : i \in DOMAIN q}

\* The messages of ms leave their queue for f.
Leave(ms, f) == fate' = [m \in Msgs |-> IF m \in ms THEN f ELSE fate[m]]

Init == /\ holder = NoRun
        /\ spent = {}
        /\ steerQueue = <<>>
        /\ followUpQueue = <<>>
        /\ fate = [m \in Msgs |-> "unsent"]

Begin(r) == /\ holder = NoRun
            /\ r \notin spent
            /\ holder' = r
            /\ spent' = spent \cup {r}
            /\ UNCHANGED queues

End == /\ holder # NoRun
       /\ holder' = NoRun
       /\ UNCHANGED <<spent, queues>>

Accept(m) == /\ holder # NoRun
             /\ fate[m] = "unsent"
             /\ \/ /\ steerQueue' = Append(steerQueue, m)
                   /\ UNCHANGED followUpQueue
                \/ /\ followUpQueue' = Append(followUpQueue, m)
                   /\ UNCHANGED steerQueue
             /\ fate' = [fate EXCEPT ![m] = "queued"]
             /\ UNCHANGED <<holder, spent>>

\* The oldest message of a queue, or all of them, go to the run.
HandOver == /\ holder # NoRun
            /\ \/ /\ steerQueue # <<>>
                  /\ UNCHANGED followUpQueue
                  /\ \/ steerQueue' = Tail(steerQueue) /\ Leave({Head(steerQueue)}, "handed")
                     \/ steerQueue' = <<>> /\ Leave(Elems(steerQueue), "handed")
               \/ /\ followUpQueue # <<>>
                  /\ UNCHANGED steerQueue
                  /\ \/ followUpQueue' = Tail(followUpQueue) /\ Leave({Head(followUpQueue)}, "handed")
                     \/ followUpQueue' = <<>> /\ Leave(Elems(followUpQueue), "handed")
            /\ UNCHANGED <<holder, spent>>

\* The user takes back one queued message, or all of them.
GiveBack == /\ \/ /\ followUpQueue # <<>>
                  /\ followUpQueue' = Tail(followUpQueue)
                  /\ Leave({Head(followUpQueue)}, "returned")
                  /\ UNCHANGED steerQueue
               \/ /\ steerQueue # <<>>
                  /\ steerQueue' = Tail(steerQueue)
                  /\ Leave({Head(steerQueue)}, "returned")
                  /\ UNCHANGED followUpQueue
               \/ /\ steerQueue' = <<>>
                  /\ followUpQueue' = <<>>
                  /\ Leave(Elems(steerQueue) \cup Elems(followUpQueue), "returned")
            /\ UNCHANGED <<holder, spent>>

Next == \/ \E r \in Runs : Begin(r)
        \/ End
        \/ \E m \in Msgs : Accept(m)
        \/ HandOver
        \/ GiveBack

Spec == Init /\ [][Next]_vars
=============================================================================
