\* Two extensions that share the name of a tool, two that reload them, three processes;
\* a call and a notification over pipes of one message; three commands of the client.
SPECIFICATION SpecParts
CONSTANTS
  Exts = {"e1", "e2"}
  Tools = {"t1", "t2"}
  Declares <- Declared
  Reloaders = {r1, r2}
  MaxClients = 3
  MaxAsks = 1
  MaxHooks = 1
  None = None
  Calls = {"c1", "n1"}
  Notices = {"n1"}
  Cap = 1
  MaxNoise = 1
  MaxCommands = 3
  MaxRuns = 2
  MaxTokens = 1
  ModelFiles <- FilesTried
  Enabled = {{"x"}}
  Offers <- Offering
  LevelMaps <- Maps
  MaxFileEdits = 1
  MaxRegistrations = 2
CHECK_DEADLOCK FALSE
INVARIANTS
  NoOrphans RegistriesOwned 
  AnswersDelivered
  ClientServed
   CyclingComesRound
