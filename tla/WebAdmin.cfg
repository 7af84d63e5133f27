SPECIFICATION Spec
CONSTANTS
    AcRequests = {"other", "user", "disable"}
    AcCommands = {"c1"}
    AcMoves = 2
    NsGenerations = 2
    NsFaults = 1
    AvItems = {"a", "b"}
    AvFirst <- MCFirst
    AvTexts = {"x", "y"}
    AvVersions = 3
    AvFaults = 1
    RdValues = {"a", "c"}
    RdStart = "c"
    RdCandidates = 2
    RdPreviews = 2
    RdFaults = 1
    McTitles <- MCMasterTitles
    McRows <- MCMasterRows
    McKeys <- MCMasterKeys
    McMoves = 2
    McFaults = 1
    ExSeasons <- MCExportSeasons
    ExEvents <- MCExportEvents
    ExGhosts = {"no"}
    ExTrails <- MCExportTrails
    ExMoves = 2
    ExFaults = 1
INVARIANTS
    WebAdminTypeOK
    OwnChangeIsNotUndone
    ConfirmedRowsStay
PROPERTIES
    RevokedWorkStaysRevoked
    OthersChangesSurvive
    AppliesWhatIsShown
    DownloadsFollowConditions
\* A session ends when its bounds are used up.
CHECK_DEADLOCK FALSE
