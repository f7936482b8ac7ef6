-------------------------- MODULE MCOperandRollout --------------------------
(***************************************************************************)
(* Instances of OperandRollout for TLC: the whole pipeline, a few objects  *)
(* that people touch and a budget of environment steps per run.            *)
(***************************************************************************)
EXTENDS OperandRollout

Budget(touch, rotate, loseSecret, apiFailure, crash) ==
    [k \in EnvironmentSteps |-> CASE k = "touch" -> touch
                                  [] k = "rotate" -> rotate
                                  [] k = "loseSecret" -> loseSecret
                                  [] k = "apiFailure" -> apiFailure
                                  [] k = "crash" -> crash]

Storm == Budget(1, 1, 1, 1, 1)
Meddling == Budget(2, 1, 0, 1, 0)

ConfigMapOnly == {"Configmap"}
Meddled == {"RoleBinding", "ServiceWebhook", "IssuerCR", "Configmap", "CustomResourceDefinition"}

=============================================================================
