SPECIFICATION ProvisionFairSpec
CONSTANTS Viewers = {v, w}
INVARIANTS DoneMeansInstalled
CHECK_DEADLOCK FALSE
