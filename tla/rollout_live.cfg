SPECIFICATION FairHistorySpec
CONSTANTS
    Touchable <- Meddled
    MaxLag = 1
    ResyncEnabled = TRUE
    MaxDisturbances = 2
    Limit <- Meddling
INVARIANTS
    SkipsAreSound
PROPERTIES
    EverythingApplied
    ImplementsRollout
