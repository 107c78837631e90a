------------------------------ MODULE Processes ------------------------------
(***************************************************************************)
(* The processes around the program, side by side: the supervisor of the   *)
(* extensions (ExtensionHost), the client of one of them                   *)
(* (ExtensionClient), the models they bring (ModelChoice) and the server   *)
(* for a client of the program (RpcServer).  The modules share no state    *)
(* here; each property has one name for those who check it and those who   *)
(* prove it.                                                               *)
(***************************************************************************)
EXTENDS ExtensionHost

CONSTANTS Calls, Notices, Cap, MaxNoise, MaxCommands, MaxRuns, MaxTokens, ModelFiles, Enabled,
          Offers, LevelMaps, MaxFileEdits, MaxRegistrations

VARIABLES
  toExt, fromExt, mu, pending, answers, callPc, result, endedCalls, readLoop, wired, proc,
  closing, ext,
  loop, commands, input, streaming, run, chan, closed, relay, images, taken, refused,
  file, snapshot, known, enabled, registry, brought, model, record, level, pc, tmp, edited,
  registered, drift, outdated, lastList, unbuilt, mingled, cycled

C == INSTANCE ExtensionClient
       WITH chan <- answers, pc <- callPc, ended <- endedCalls, reader <- readLoop

R == INSTANCE RpcServer

H == INSTANCE ModelChoice
       WITH Extensions <- Exts, base <- snapshot, models <- known, overrides <- brought,
            mixed <- mingled

ASSUME PartsAssumption ==
  C!ClientAssumption /\ R!RpcAssumption /\ H!ModelChoiceAssumption

clientVars == <<toExt, fromExt, mu, pending, answers, callPc, result, endedCalls, readLoop,
                wired, proc, closing, ext>>
rpcVars == <<loop, commands, input, streaming, run, chan, closed, relay, images, taken, refused>>
choiceVars == <<file, snapshot, known, enabled, registry, brought, model, record, level, pc, tmp,
                edited, registered, drift, outdated, lastList, unbuilt, mingled, cycled>>

\* The properties of ExtensionClient, RpcServer and ModelChoice, stated there.
AnswersDelivered == C!AnswersDelivered
ClientServed == R!ClientServed
ListsAgree == H!ListsAgree
CyclingComesRound == H!CyclingComesRound
=============================================================================
