CONSTANTS
    AnnotationKeys = {"pfp"}
    ForeignPaths = {"labels"}
    Values = {"v1", "v2", "a", "a+tm"}
    Absent = "absent"
    NoObject = NoObject
    Infos <- MCInfos
    ArgsChoices <- MCPatchArgs
    PatchResync = 2
    TMAppend <- MCTMAppend
    NodeReference = "node"
    OtherPaths = {}
    OtherValues = {}
SPECIFICATION Spec
PROPERTY EverySuccessIsFaithful
