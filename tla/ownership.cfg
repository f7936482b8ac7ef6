SPECIFICATION FairSpec
CONSTANTS
    Pipeline <- SomeObjects
    Memoized <- Cached
    Unstructured <- Dynamic
    MaxUid = 2
    Limit <- Misfortunes
INVARIANTS
    TypeOK
    SyncedIsOwned
PROPERTIES
    OwnersMoveForward
    OperandFollowsCr
    OperandLeavesWithCr
