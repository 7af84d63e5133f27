\* One tab: a form, the masters trip and the browser's Back; the others rest.
SPECIFICATION WorkspaceSpec
CONSTANTS
    WsModes = {"create"}
    WsMaps = {"m1", "m2"}
    MaxText = 1
    MaxElsewhere = 0
    MaxKeys = 1
PROPERTIES
    BackRestoresInput
CHECK_DEADLOCK FALSE
