SPECIFICATION Spec
CONSTANTS
    Files <- DocFiles
    Rewrites <- DocFiles
    Inputs <- MCInputs
    Characters <- MCCharacters
    PortNumbers = {"80"}
    Places <- MCPlaces
    Fields <- MCFields
    Depth <- MCDepth
    MaxDepth = 3
    StackLimit = 14
    MaxMsgs = 1
CHECK_DEADLOCK FALSE
INVARIANTS
    EveryHostLabelled
