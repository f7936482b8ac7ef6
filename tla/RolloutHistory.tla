--------------------------- MODULE RolloutHistory ---------------------------
(***************************************************************************)
(* OperandRollout with a history: which versions of the Secrets and of the *)
(* ConfigMap were ever fit for the operand.  The API server forgets them   *)
(* with the next write; the promise of RolloutContract is about them,      *)
(* because the pipeline reads Secrets from a lister that trails behind.    *)
(***************************************************************************)
EXTENDS OperandRollout

VARIABLE fit  \* fit[a]: the versions of a that were ever fit to run with

historyVars == <<vars, fit>>

\* A Secret with both of its keys; the ConfigMap of the manifest.
Fit(a) == IF a = "Configmap" THEN object[a].content = "required" ELSE Live(a).data = "keys"

FitVersions(a) == IF Fit(a) THEN {CurrentVersions[a]} ELSE {}

HistoryInit ==
    /\ Init
    /\ fit = [a \in Annotated |-> {}]

HistoryNext ==
    /\ Next
    /\ fit' = [a \in Annotated |-> fit[a] \cup FitVersions(a)']

HistorySpec == HistoryInit /\ [][HistoryNext]_historyVars
FairHistorySpec == HistorySpec /\ Fairness

Contract == INSTANCE RolloutContract

\* The pod template keeps the contract of RolloutContract: no rollout names a Secret
\* without its keys, a version of the ConfigMap somebody else wrote or anything older than
\* what the operand runs with, although the pipeline collects the versions call by call,
\* from a stale lister and from replies, over syncs that fail half-way and are repeated.
ImplementsRollout == Contract!Spec

=============================================================================
