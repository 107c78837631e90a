------------------------------ MODULE MCChannels ------------------------------
(***************************************************************************)
(* One instance for the goroutines that wait for each other's channels,    *)
(* pipes and locks: the retries of a request (AutoRetry), the client of an *)
(* extension (ExtensionClient), the server for a client of the program     *)
(* (RpcServer), the questions of extensions to the user (ExtensionUI) and  *)
(* the thread of the UI that waits for its runs (TuiRun).  They share no   *)
(* state here: a behaviour is one of the module that `part` names, and the *)
(* variables of the others stay as they were initially, where none of      *)
(* their fair actions is enabled.                                          *)
(***************************************************************************)
EXTENDS AutoRetry

CONSTANTS Calls, Notices, PipeCap, MaxAsks, MaxNoise, MaxCommands, MaxRuns, MaxTokens,
          Exts, Reqs, Kinds, Grants, None, GrantCap, Depth,
          MaxEvents, MaxMsgs, MaxFailures

VARIABLES
  part,  \* the module whose behaviour this is
  toExt, fromExt, mu, pending, answers, callPc, result, endedCalls, readLoop, wired, proc,
  closing, ext,
  loop, commands, input, streaming, run, chan, closed, relay, images, taken, refused,
  kind, owner, stage, questions, answered, readers, sessions, uiCh, asker, gstage, gpending,
  ganswer, grantCh, uiThread, screen, stack, grantReq, replaced, yes,
  ui, busy, events, waiting, posted, closings, slot, runPc, left, eventChans, steer, followUps,
  given, composer, typed, bash, overlay, failures

C == INSTANCE ExtensionClient
       WITH chan <- answers, pc <- callPc, ended <- endedCalls, reader <- readLoop, Cap <- PipeCap

R == INSTANCE RpcServer

U == INSTANCE ExtensionUI WITH pending <- questions, reader <- readers

T == INSTANCE TuiRun WITH ended <- closings, pc <- runPc, chan <- eventChans

ASSUME PartsAssumption == C!ClientAssumption /\ R!RpcAssumption

clientVars == <<toExt, fromExt, mu, pending, answers, callPc, result, endedCalls, readLoop,
                wired, proc, closing, ext>>
rpcVars == <<loop, commands, input, streaming, run, chan, closed, relay, images, taken, refused>>
uiVars == <<kind, owner, stage, questions, answered, readers, sessions, uiCh, asker, gstage,
            gpending, ganswer, grantCh, uiThread, screen, stack, grantReq, replaced, yes>>
tuiVars == <<ui, busy, events, waiting, posted, closings, slot, runPc, left, eventChans, steer,
             followUps, given, composer, typed, bash, overlay, failures>>

InitParts ==
  /\ Init /\ C!Init /\ R!Init /\ U!Init /\ T!Init
  /\ \/ part = "retry"
     \/ part \in {"client", "rpc", "ui", "tui"} /\ enabled

NextParts ==
  \/ part = "retry" /\ Next /\ UNCHANGED <<part, clientVars, rpcVars, uiVars, tuiVars>>
  \/ part = "client" /\ C!Next /\ UNCHANGED <<part, vars, rpcVars, uiVars, tuiVars>>
  \/ part = "rpc" /\ R!Next /\ UNCHANGED <<part, vars, clientVars, uiVars, tuiVars>>
  \/ part = "ui" /\ U!Next /\ UNCHANGED <<part, vars, clientVars, rpcVars, tuiVars>>
  \/ part = "tui" /\ T!Next /\ UNCHANGED <<part, vars, clientVars, rpcVars, uiVars>>

SpecParts ==
  /\ InitParts /\ [][NextParts]_<<part, vars, clientVars, rpcVars, uiVars, tuiVars>>
  /\ Fairness /\ C!Fairness /\ R!Fairness /\ U!Fairness /\ T!Fairness

\* The properties of ExtensionClient, RpcServer, ExtensionUI and TuiRun, stated there.
NobodyWaits == C!NobodyWaits
ServerGoesOn == R!ServerGoesOn
AskersReturn == U!AskersReturn
ThreadComesBack == T!ThreadComesBack
=============================================================================
