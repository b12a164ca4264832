SPECIFICATION StacksSpec
CONSTANTS
  OverlayOrder <- MCOverlayOrder
  Stacks <- MCStackKinds
  MaxRuns = 2
  MaxLapses = 1
  MaxSelected = 2
  MaxScripts = 3
  MaxRecreated = 1
  Names = {n, m}
  Projects = {n, m}
  MaxHarness = 2
  Components = {x, y}
  MaxBuilds = 2
  MaxLosses = 1
  Items <- MCItems
  Formats <- MCFormats
  Templates <- MCTemplates
  Goals <- MCGoals
  CartOf <- MCCartOf
  Default <- MCItems
  CompleteCarts <- MCCompleteCarts
  CartIds <- MCCartIds
  Category <- MCCategory
  CompatibleWith <- MCCompatibleWith
  Required <- MCRequired
  Recommended <- MCRecommended
  Locks <- MCLocks
  RecommendedSets <- MCRecommendedSets
  Details <- MCDetails
  MaxRequests = 3
  MaxFlying = 2
SYMMETRY Symmetry
INVARIANTS
  DirectoryIsWhole SelectionIsSound BuildsAreWhole
  CompleteMeansSmoke HarnessIsTrue CheckersAgree SettledOnTheCart
PROPERTIES CartStepsAreSound
CHECK_DEADLOCK FALSE
