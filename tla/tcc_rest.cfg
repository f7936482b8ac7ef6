SPECIFICATION FairSpec
CONSTANTS
    Configs = {c1}
    ManagementStates = {"Managed", "Unmanaged"}
    AssetReplicas = 2
    ScaleTargets = {1}
    MaxLag = 4
    MaxDisturbances = 4
    Limit <- Edits
    ResyncEnabled = FALSE
PROPERTIES
    ComesToRest
CHECK_DEADLOCK FALSE
