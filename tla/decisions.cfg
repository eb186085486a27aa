CONSTANTS
  None = None
  MinPairs <- MCMinPairs
  PScale <- MCPScale
  MinCeiling <- MCMinCeiling
  Alpha <- MCAlpha
  GateSets <- MCGateSets
  Scorings <- MCScorings
  Baselines <- MCBaselines
  Ladders <- MCLadders
  Raters <- MCRaters
  Requirements <- MCRequirements
  Scales <- MCScales
  Ballots <- MCBallots
  Grain <- MCGrain
  Traces <- MCTraces
  Policy <- MCPolicy
  Offloaded <- MCOffloaded
  Dropped = Dropped
  Conditions <- MCConditions
  Complete <- MCComplete
  Partial <- MCPartial
  Private <- MCPrivate
  Methods <- MCMethods
  Index <- MCIndex
  Segments <- MCSegments
  Fold <- MCFold
  Blank = 3
  Punctuation <- MCPunctuation
  Checks <- MCChecks
  Contexts <- MCContexts
  Corpora <- MCCorpora
  Labels <- MCLabels
  Rankings <- MCRankings
  Cutoffs <- MCCutoffs
  PointSets <- MCPointSets
  Discount <- MCDiscount
  Forests <- MCForests
  Tasks <- MCTasks
  Cap = 2
  MaxTraces = 2
  MaxSpans = 3
  MaxDepth = 3
  MaxBlocks = 3
  MaxNoops = 1
  MaxHurt = 1
  Exports <- MCExports
  SpanLimit = 4
  Starts <- MCStarts
  PageSize = 2
SPECIFICATION Spec
INVARIANTS
  GatesSound
  WorseNeverPasses
  CalibrationSound
  PoliciesSound
  StatisticsSound
  RecordingKept
  DashboardComplete
