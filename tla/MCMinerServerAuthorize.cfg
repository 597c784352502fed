SPECIFICATION Spec
CONSTANTS
    MaxClients = 1
INVARIANT AuthorizedIsSeen
CHECK_DEADLOCK FALSE
