SPECIFICATION FairSpec
CONSTANTS
    Configs = {c1}
    ManagementStates = {"Managed", "Unmanaged"}
    AssetReplicas = 2
    ScaleTargets = {1}
    MaxLag = 1
    MaxDisturbances = 4
    Limit <- Weather
    ResyncEnabled = TRUE
PROPERTIES
    Converges
    MissingDependencyReported
