\* Two replicas race for one row through a mishap: does it settle, and safely?
SPECIFICATION OneMishapSpec
CONSTANTS
    Replicas = {p1, p2}
    Rows = {r1}
    MaxAttempts = 2
    BatchSize = 1
    MaxFaults = 1
    MaxOutlived = 1
INVARIANTS
    LatestAnswerCounts
    OnlyOutlivedSendsOverlap
    KickedPushesAreTaken
    RechecksSeeReleases
PROPERTY
    EveryPushSettles
