SPECIFICATION Spec
CONSTANTS
  Targets <- ThreeTargets
  TargetOf <- FourSlots
  SiteOf <- TwoSites
  NoSite = "none"
  Models <- TwoModels
  NoModel = "any"
  Fits <- ModelFits
  Allowed <- OnlyBrowsers
  Cap = 1
  LatencyScore <- TwoLevels
  MinSamples = 2
  Exploration = 800
  FailurePenalty = 5000
  UnknownPenalty = 8500
  MaxAttempts = 2
INVARIANTS
  RightWorker
  FairDraw
