SPECIFICATION Spec
CONSTANTS
    Configs = {c1, c2}
    ManagementStates = {"Managed", "Unmanaged"}
    AssetReplicas = 2
    ScaleTargets = {1}
    MaxLag = 1
    MaxDisturbances = 3
    Limit <- Storm
    ResyncEnabled = FALSE
INVARIANTS
    TypeOK
    GenerationSound
    AtMostOneLateWrite
    SettledIsRight
    SettledReportsSuccess
PROPERTIES
    KeptDeploymentIsRequired
    ImplementsContract
    RightIsLeftAlone
CHECK_DEADLOCK FALSE
