SPECIFICATION Spec
CONSTANTS
    Configs = {c1, c2}
    ManagementStates = {"Managed", "Unmanaged"}
    AssetReplicas = 2
    ScaleTargets = {1}
    MaxLag = 1
    MaxDisturbances = 4
    Limit <- Deletions
    ResyncEnabled = FALSE
PROPERTIES
    DriftIsDetected
CHECK_DEADLOCK FALSE
