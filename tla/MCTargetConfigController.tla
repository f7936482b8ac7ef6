---------------------- MODULE MCTargetConfigController ----------------------
(***************************************************************************)
(* Instances of TargetConfigController for TLC: two configurations, an     *)
(* asset with two replicas that people scale to one, and a budget of       *)
(* environment steps per run.                                              *)
(***************************************************************************)
EXTENDS TargetConfigController

Budget(edit, scale, delete, podFailure, dependency, apiFailure, crash) ==
    [k \in Kinds |-> CASE k = "edit" -> edit
                       [] k = "scale" -> scale
                       [] k = "delete" -> delete
                       [] k = "podFailure" -> podFailure
                       [] k = "dependency" -> dependency
                       [] k = "apiFailure" -> apiFailure
                       [] k = "crash" -> crash]

Storm == Budget(1, 1, 0, 0, 1, 1, 1)
Edits == Budget(1, 0, 0, 0, 0, 0, 0)
Deletions == Budget(1, 1, 1, 0, 0, 1, 0)
Weather == Budget(1, 0, 1, 1, 1, 0, 0)

=============================================================================
