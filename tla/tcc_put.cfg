SPECIFICATION Spec
CONSTANTS
    Configs = {c1, c2}
    ManagementStates = {"Managed", "Unmanaged"}
    AssetReplicas = 2
    ScaleTargets = {1}
    MaxLag = 1
    MaxDisturbances = 4
    Limit <- Edits
    ResyncEnabled = FALSE
PROPERTIES
    PutAssumesGivenVersion
CHECK_DEADLOCK FALSE
