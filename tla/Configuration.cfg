\* Two programs, two sources and names of packages, three jobs, or two with a change or a failure;
\* two edits of settings; two runs of `stell models add`; conversations of six messages.
SPECIFICATION SpecParts
CONSTANTS
  Programs = {p1, p2}
  Names = {a, b}
  Kind <- Kinds
  Configs <- Configured
  MaxChanges = 1
  MaxJobs = 3
  MaxFaults = 1
  Keys = {"k1"}
  MaxEdits = 2
  None = None
  Order <- ProviderNames
  Ids = {"m1", "m2", "m3"}
  OtherNames = {"n"}
  Adders = {a1, a2}
  GlobalFiles <- GlobalTried
  ProjectFiles <- ProjectTried
  Sizes = {1, 3, 6}
  Summaries = {1, 3}
  Conversations <- Tried
  MaxLen = 6
  Floor = 4
  DefaultReserve = 8
  DefaultMaxOut = 8
  LocalWindow = 16
  RemoteWindow = 32
  DefaultKeep = 10
  MaxCap = 10
  MinOutput = 2
  Levels = {1, 2, 4, 8, 12}
CHECK_DEADLOCK FALSE
SYMMETRY Symmetry
 
PROPERTIES JobsTakeEffect   CompactionSound
