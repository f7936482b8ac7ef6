SPECIFICATION Spec
CONSTANTS
    Touchable <- ConfigMapOnly
    MaxLag = 1
    ResyncEnabled = TRUE
    MaxDisturbances = 3
    Limit <- Storm
INVARIANTS
    TypeOK
    RolledOut
    RolloutsHaveCause
    DeploymentComesLast
