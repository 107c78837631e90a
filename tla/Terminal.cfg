\* Two runs with channels of two events and one failing pager; two answers with two calls
\* of tools, or two commands of the user; trees of four entries; two models and sessions with
\* one overlay below another.
SPECIFICATION SpecParts
CONSTANTS
  Cap = 2
  MaxEvents = 3
  MaxRuns = 2
  MaxMsgs = 3
  MaxFailures = 1
  MaxAnswers = 2
  MaxCalls = 2
  MaxCommands = 2
  MaxPrompts = 2
  MaxInfos = 1
  BashCap = 1
  MaxCards = 6
  MaxEntries = 4
  Grown = {"toolResult"}
  MaxFolded = 1
  Models <- ModelList
  Provider <- ProviderOf
  Others <- OtherList
  Files <- FileList
  Named = {"s1"}
  MaxFrames = 1
  Matches <- CommandMatches
  Found <- FileMatches
  Plain = {"p"}
  CommandSets <- CommandLists
  Indexes <- FileLists
  Completions <- Proposals
  Rows = 2
CHECK_DEADLOCK FALSE
INVARIANTS RunWatched MessageOnce 
PROPERTIES RowsOfTree 
