-------------------------------- MODULE Turns --------------------------------
(***************************************************************************)
(* What the agent does with the session, side by side: the turns of a run  *)
(* (AgentTurn), the commands of the user (UserBash) and the session bound  *)
(* to the service (SessionBinding).  The modules share no state here; each *)
(* property has one name for those who check it and those who prove it.    *)
(***************************************************************************)
EXTENDS AgentTurn

CONSTANTS Calls, Aborters, NoCall, MaxRuns, MaxSessions, MaxOps

VARIABLES
  bashCancel, pendingBash, entries, bashPc, bashCancelled, fn, bashRun, batch, bashRuns, beside,
  Sessions, SessPath, made, file, moved, sessionRun, op, runs, ops, strayed, deleted, overlapped

B == INSTANCE UserBash
       WITH pc <- bashPc, cancelled <- bashCancelled, run <- bashRun, runs <- bashRuns

SB == INSTANCE SessionBinding WITH run <- sessionRun

ASSUME PartsAssumption == TurnAssumption /\ B!BashAssumption /\ SB!BoundsAssumption

bashVars == <<bashCancel, pendingBash, entries, bashPc, bashCancelled, fn, bashRun, batch,
              bashRuns, beside>>
sessionVars == <<Sessions, SessPath, made, file, moved, sessionRun, op, runs, ops, strayed,
                 deleted, overlapped>>

\* The properties of UserBash and SessionBinding, stated there.
EntriesKept == B!EntriesKept
AbortReachesRunning == B!AbortReachesRunning
SessionsKept == SB!SessionsKept
=============================================================================
