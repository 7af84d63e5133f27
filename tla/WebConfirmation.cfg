\* The readings of one draft and one edited number.
SPECIFICATION ReviewSpec
CONSTANTS
    RvMembers <- MCMembers
    RvNumbers = {1, 2}
    RvPayloads <- MCPayloads
    RvEditable = {"incident", "revenue"}
    MaxRvEdits = 4
INVARIANTS
    ConfirmationShowsWhatIsSent
CHECK_DEADLOCK FALSE
