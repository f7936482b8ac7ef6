--------------------------- MODULE OperandContract ---------------------------
(***************************************************************************)
(* What TargetConfigReconciler promises about the operand Deployment's     *)
(* spec, without informers, API calls, status or work queue: it is only    *)
(* ever the manifest rendered for a configuration the CR had when a sync   *)
(* looked at the API server, or such a spec that somebody scaled.          *)
(* TargetConfigController is shown to implement it.                        *)
(***************************************************************************)
EXTENDS Integers

CONSTANTS
    Configs,        \* what a CR's spec says of the operand
    AssetReplicas,  \* spec.replicas of the embedded Deployment manifest
    ScaleTargets    \* replica counts people scale the operand to

VARIABLES
    config,   \* the configuration the CR asks for
    operand,  \* the Deployment's spec: a set of one, or empty without Deployment
    plan      \* the configuration the sync under way renders: a set of one, or empty

vars == <<config, operand, plan>>

Init ==
    /\ config \in Configs
    /\ operand = {}
    /\ plan = {}

\* A sync reads the CR from the API server.
PickUp ==
    /\ plan = {}
    /\ plan' = {config}
    /\ UNCHANGED <<config, operand>>

\* It writes the Deployment, whatever it is by then, and is done with its plan.
Apply ==
    /\ \E c \in plan : operand' = {[config |-> c, replicas |-> AssetReplicas]}
    /\ plan' = {}
    /\ UNCHANGED config

\* It finds nothing to write, fails, or is cut off by a crash.
Abandon ==
    /\ plan' = {}
    /\ UNCHANGED <<config, operand>>

Edit ==
    /\ config' \in Configs
    /\ UNCHANGED <<operand, plan>>

Scale ==
    /\ \E d \in operand, r \in ScaleTargets : operand' = {[d EXCEPT !.replicas = r]}
    /\ UNCHANGED <<config, plan>>

Delete ==
    /\ operand' = {}
    /\ UNCHANGED <<config, plan>>

Next == PickUp \/ Apply \/ Abandon \/ Edit \/ Scale \/ Delete

Spec == Init /\ [][Next]_vars

=============================================================================
