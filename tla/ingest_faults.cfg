SPECIFICATION FairSpec
CONSTANTS
    u1 = u1
    u2 = u2
    u3 = u3
    None = None
    Uploads <- MCUploads
    TitleOf <- MCTitleOf
    Target <- MCTarget
    NumBatches = 2
    HierarchyMode = "fail_closed"
    Faults = {"external", "timeout", "database"}
CHECK_DEADLOCK FALSE
INVARIANTS
    VersionNumbersSequential
    DocumentStatusAgrees
    CurrentIsLatestReady
    ReadyIsIndexed
    FlagsFollowHistory
PROPERTIES
    ActivationsInVersionOrder
    UploadsTerminate
    FlagsConverge
