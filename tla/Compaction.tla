----------------------------- MODULE Compaction -----------------------------
(***************************************************************************)
(* The size of a conversation: the estimate of its tokens and the budget   *)
(* of package agent (context_budget.go), the compaction that replaces old  *)
(* messages by a summary when the budget is exceeded or the user asks for  *)
(* it (compact.go), and the budget for thinking of a request (package      *)
(* config, thinking.go).                                                   *)
(*                                                                         *)
(* A message is its estimate of tokens, the overhead included.  What       *)
(* harness.PrepareCompaction and Manager.CompactLinear of stell-agent do   *)
(* is modelled from their use: the first proposes any number of messages   *)
(* to keep, the second keeps that many behind a summary.                   *)
(***************************************************************************)
EXTENDS Integers, Sequences, SequencesExt, FiniteSetsExt, TLC

CONSTANTS
  Sizes,      \* the estimates of messages, EstimateTokens
  Summaries,  \* those of a summary
  Configs,    \* models and settings, see Config
  MaxLen,     \* bound of the conversation
  Floor, DefaultReserve, DefaultMaxOut, LocalWindow, RemoteWindow, DefaultKeep,
  MaxCap, MinOutput, Levels

Config == [window : Nat, local : BOOLEAN, reserve : Int, maxOut : Nat, keep : Int,
           system : Nat,  \* the system prompt and the definitions of tools
           auto : BOOLEAN]

CompactionAssumption ==
  /\ Sizes \subseteq Nat \ {0} /\ Summaries \subseteq Nat \ {0} /\ Configs \subseteq Config
  /\ {DefaultReserve, DefaultMaxOut, LocalWindow, RemoteWindow, DefaultKeep} \subseteq Nat \ {0}
  /\ Floor \in Nat \ {0, 1} /\ {MaxCap, MinOutput} \subseteq Nat \ {0} /\ Levels \subseteq Nat

VARIABLES
  config,
  history,  \* Sessions.BuildMessages
  phase,    \* of the turn: "idle", "asked", where maybeAutoCompact looks, and "running"
  removed   \* CompactInfo.RemovedMessages of the compaction of this turn, -1 without one

vars == <<config, history, phase, removed>>

Init == config \in Configs /\ history = <<>> /\ phase = "idle" /\ removed = -1

-----------------------------------------------------------------------------
(* Estimates and budgets.                                                  *)

\* EstimateMessagesTokens, and the same for the first messages.
Tokens(msgs) ==
  LET first[n \in 0..Len(msgs)] == IF n = 0 THEN 0 ELSE first[n - 1] + msgs[n]
  IN first[Len(msgs)]

Recent(msgs, n) == SubSeq(msgs, Len(msgs) - n + 1, Len(msgs))

\* config.ModelMaxTokens.
ModelMaxTokens(c) == IF c.maxOut > 0 THEN c.maxOut ELSE DefaultMaxOut

\* What a prompt may take: the window without a reserve and the answer.
ContextBudget(c) ==
  LET window == CASE c.window > 0 -> c.window
                  [] c.window = 0 /\ c.local -> LocalWindow
                  [] OTHER -> RemoteWindow
      reserve == IF c.reserve <= 0 THEN DefaultReserve ELSE c.reserve
      free == window - Min({reserve, window \div 4}) - Min({ModelMaxTokens(c), window \div 4})
  IN Max({Floor, free})

NeedsAutoCompact(c, msgs) == c.auto /\ c.system + Tokens(msgs) > ContextBudget(c)

\* keepRecentCount, from the last message on.
KeepRecentCount(msgs, keep) ==
  LET limit == IF keep <= 0 THEN DefaultKeep ELSE keep
      from[n \in 0..Len(msgs)] ==  \* n messages are kept already
        IF n = Len(msgs) \/ (Tokens(Recent(msgs, n + 1)) > limit /\ n >= 2) THEN n ELSE from[n + 1]
  IN from[0]

\* Mutant: the setting as it is.
KeepTokensUncapped(c) == c.keep

\* The tokens to keep, half of the budget at most.
KeepTokens(c) ==
  LET half == ContextBudget(c) \div 2
  IN IF c.keep <= 0 \/ c.keep > half THEN half ELSE c.keep

\* How many messages CompactWithInstructions keeps when the harness proposes some or, with
\* 0, none; the length of the conversation when it does nothing.
Keep(c, msgs, proposed) ==
  LET count == KeepRecentCount(msgs, KeepTokens(c))
      recent == IF proposed > 0 THEN Min({count, proposed}) ELSE count
  IN CASE recent < Len(msgs) -> recent
       [] recent >= Len(msgs) /\ Len(msgs) <= 4 -> Len(msgs)
       [] OTHER -> Max({2, Len(msgs) \div 2})

-----------------------------------------------------------------------------
(* A conversation.                                                         *)

\* CompactLinear: a summary in place of all but the last messages.
Compact(keep, summary) ==
  history' = IF keep = Len(history) THEN history ELSE <<summary>> \o Recent(history, keep)

Prompt(size) ==
  /\ phase = "idle" /\ Len(history) < MaxLen
  /\ history' = Append(history, size)
  /\ phase' = "asked" /\ removed' = -1
  /\ UNCHANGED config

\* maybeAutoCompact has nothing to do, ...
Fits ==
  /\ phase = "asked" /\ ~NeedsAutoCompact(config, history)
  /\ phase' = "running"
  /\ UNCHANGED <<config, history, removed>>

\* ... or compacts, ...
AutoCompact ==
  /\ phase = "asked" /\ NeedsAutoCompact(config, history)
  /\ \E proposed \in 0..Len(history), summary \in Summaries :
       LET keep == Keep(config, history, proposed)
       IN Compact(keep, summary) /\ removed' = Len(history) - keep
  /\ phase' = "running"
  /\ UNCHANGED config

\* ... and without a summary the turn is over.
AutoCompactFails ==
  /\ phase = "asked" /\ NeedsAutoCompact(config, history)
  /\ phase' = "idle"
  /\ UNCHANGED <<config, history, removed>>

\* Answers and results of tools.
Answer(size) ==
  /\ phase = "running" /\ Len(history) < MaxLen
  /\ history' = Append(history, size)
  /\ phase' \in {"running", "idle"}
  /\ UNCHANGED <<config, removed>>

\* The turn ends with an error or for the bound.
TurnEnds == phase = "running" /\ phase' = "idle" /\ UNCHANGED <<config, history, removed>>

\* /compact and the command of RPC, refused while a turn runs.
ManualCompact ==
  /\ phase = "idle" /\ history # <<>>
  /\ \E proposed \in 0..Len(history), summary \in Summaries :
       Compact(Keep(config, history, proposed), summary)
  /\ UNCHANGED <<config, phase, removed>>

Next ==
  \/ \E size \in Sizes : Prompt(size) \/ Answer(size)
  \/ Fits \/ AutoCompact \/ AutoCompactFails \/ TurnEnds \/ ManualCompact

Spec == Init /\ [][Next]_vars

-----------------------------------------------------------------------------
(* The budget of a request.                                                *)

\* AdjustMaxTokensForThinking: room for thinking is added to that of the answer as far as
\* the model allows it, else taken from it.
AdjustMaxTokens(base, model, thinking) ==
  LET max == Min({Min({base, MaxCap}) + thinking, model})
  IN [max |-> max, thinking |-> IF max <= thinking THEN Max({0, max - MinOutput}) ELSE thinking]

-----------------------------------------------------------------------------
(* Properties.                                                             *)

\* keepRecentCount keeps as many of the last messages as fit, and two anyway.
KeepIsLargest ==
  \A keep \in {-1, 1, KeepTokens(config)} :
    KeepRecentCount(history, keep) =
      Max({n \in 0..Len(history) :
             n <= 2 \/ Tokens(Recent(history, n)) <= IF keep <= 0 THEN DefaultKeep ELSE keep})

\* The prompt of the user and what came last stay as they are behind a summary.
LastKept ==
  [][history' # history /\ Len(history') <= Len(history) => Last(history') = Last(history)]_vars

\* A conversation that exceeds the budget by itself gets shorter, unless it is two messages.
CompactionHelps ==
  [][phase = "asked" /\ phase' = "running" /\ Len(history) > 2 /\ config.auto
       /\ Tokens(history) > ContextBudget(config)
     => removed' > 0]_vars

\* A request asks for no more than the model gives, and thinking leaves some for the answer.
ThinkingFits ==
  \A thinking \in Levels :
    LET model == ModelMaxTokens(config)
        budget == AdjustMaxTokens(model, model, thinking)
    IN budget.max <= model /\ budget.thinking \in 0..budget.max /\ budget.thinking < budget.max

\* A compaction keeps the end, as much of it as fits, and makes the conversation shorter.
CompactionSound == [](KeepIsLargest /\ ThinkingFits) /\ LastKept /\ CompactionHelps
=============================================================================
