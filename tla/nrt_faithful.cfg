CONSTANTS
    AnnotationKeys = {"pfp"}
    ForeignPaths = {"labels"}
    Values = {"v1", "v2", "a", "a+tm"}
    Absent = "absent"
    NoObject = NoObject
    Infos <- MCInfos
    ArgsChoices <- MCArgs
    PatchResync = 2
    TMAppend <- MCTMAppend
    NodeReference = "node"
    OtherPaths = {"zones", "labels"}
    OtherValues = {"x"}
SPECIFICATION Spec
INVARIANTS TypeOK PatchBaseIsCurrent ResyncBound
PROPERTIES SuccessIsFaithful OnlyOwnPaths ImplementsPublisher
