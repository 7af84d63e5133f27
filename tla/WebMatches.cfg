SPECIFICATION Spec
CONSTANTS
    KindOrder <- MCKindOrder
    MaxImages = 2
    MaxPlans = 2
    MaxSubs = 2
    Outcomes = {"failed"}
    MaxFaults = 1
    OsTitles = {"t1", "t2"}
    OsSeasons <- MCSetupSeasons
    OsEvents = {"e1", "e2"}
    OsStart = "e1"
    OsNumbers = 2
    OsMoves = 2
    OsFaults = 1
    MaxStarts = 3
    MaxShots = 2
    MaxToggles = 1
    WsModes = {"create", "review", "edit"}
    WsMaps = {m1, m2}
    MaxText = 1
    MaxElsewhere = 1
    MaxKeys = 2
    m1 = m1
    m2 = m2
    RvMembers <- MCMembers
    RvNumbers = {1, 2}
    RvPayloads <- MCPayloads
    RvEditable = {"incident", "revenue"}
    MaxRvEdits = 4
    SiKinds <- MCImageKinds
    SiMoves = 2
    SiFaults = 1
    MnTexts = {"a"}
    MnVersions = 2
    MnFaults = 1
    AcMatches = {"fits", "not"}
    AcFitting = {"fits"}
    AcMinutes = {7}
    AcMoves = 2
    AcFaults = 1
    DlDrafts = {"a", "b"}
    DlMoves = 3
    DlFaults = 1
SYMMETRY WsSymmetry
INVARIANTS
    WebMatchesTypeOK
    ReadingsFitTheCapture
    UnreadIsNeverConfirmed
PROPERTIES
    LateAnswersActNowhere
    InputRecordedOnce
    SavesOverWhatWasShown
\* A session ends when its bounds are used up.
CHECK_DEADLOCK FALSE
