SPECIFICATION AllSpec
CONSTANTS
    Names = {"a"}
    Refreshes = {"f"}
    StaleAfter = 1
    MaxQueue = 2
    Sessions = {"s", "t"}
    Hybrid = {"s"}
    MaxJournal = 2
    Attempts = {"x", "y"}
    MaxLog = 3
    Ike = {"i"}
    Peers = {"p"}
    NotPqc = {"unknown"}
    Rejections = {"r1", "r2"}
    Newest = 1
    Collectors = {"c1", "c2"}
    Lengths = {2, 3}
    MaxLines = 2
INVARIANTS
    MonitorsTypeOK
    DownOnlyUnseen DownReportedOnce TimelineCurrent
    EvidenceIsOwn
    StoredOnce ReasonIsOwn
    CollectorTypeOK Traceable NothingSkipped
PROPERTIES
    RowsFollowSas
    RowsFollowSessions
    EveryAttemptStored
    StandingIsAlerted
    CopiesTheLog
CHECK_DEADLOCK FALSE
