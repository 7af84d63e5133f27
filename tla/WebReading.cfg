SPECIFICATION Spec
CONSTANTS
    OcSteps = 2
    OcGrid = 2
    OcGames = 2
    OcFar = 14
    OcRecent <- MCRecent
    OcCumulatives <- MCTotals
    OcTables <- MCTables
    OwKeys = {"pq", "pr"}
    OwStart = "pq"
    OwFacts <- MCFacts
    OwArtifacts = 2
    OwExamples <- MCExamples
    OwTyped <- MCTyped
    OwHorizons = {1, 2}
    OwHistory = 2
    OwMoves = 2
    SsTitles <- MCTitles
    SsSeasons = {"s1"}
    SsMatches = {"m1"}
    SsMembers <- MCPair
    SsDirectories <- MCDirectories
    SsUrls <- MCUrls
    SsDepth = 3
    SsMoves = 2
    SsAnswers = 2
    SdScopes = {"all", "map"}
    SdMapped = {"map"}
    SdWhole = "all"
    SdMatches = {"m1", "m2"}
    SdArtifacts = 2
    SdMoves = 2
    SdTwists = 1
    TitleOf <- MCTitleOf
    HeEvents = {1, 2, 3}
    HeTraits <- MCEventTraits
    HeUsed = {2}
    HeSizes = {1, 2}
    HeStarts <- MCEventSearches
    HeMoves = 2
    HeFaults = 1
    HbEvents = {1, 2, 3}
    HbStart = {1, 2}
    HbMoves = 3
    HbFaults = 1
    MlMatches = {1, 2, 3}
    MlTraits <- MCMatchTraits
    MlHeld = {"e1"}
    MlSizes = {1, 2}
    MlStarts <- MCMatchSearches
    MlMoves = 2
    MlFaults = 1
INVARIANTS
    WebReadingTypeOK
    ChoicesSurvive
    ShownMatchesSelection
    AnswersAreExact
    UndoTakesBackOneChange
PROPERTIES
    GoalIsReached
    ListsFollowChoices
    ListedIsCurrent
\* A session ends when its bounds are used up.
CHECK_DEADLOCK FALSE
