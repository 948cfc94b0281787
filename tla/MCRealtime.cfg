\* Two replicas, a change of the screens, one of a call, two faults of any kind.
SPECIFICATION RTFairSpec
CONSTANTS
    Replicas = {p1, p2}
    MaxVersion = 2
    CallChanges = {2}
    MaxFaults = 2
    Kinds = {"rollback", "answer", "boot", "listener", "read", "stream",
             "crash"}
INVARIANTS
    OnlyCommittedIsShown
PROPERTY
    ServedStreamsCatchUp
\* All changes made and all clients told, the replicas rest.
CHECK_DEADLOCK FALSE
