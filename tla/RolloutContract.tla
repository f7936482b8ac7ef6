--------------------------- MODULE RolloutContract ---------------------------
(***************************************************************************)
(* What the pipeline of sync() promises about the operand's pod template,  *)
(* without calls, informers, failures or crashes: each rollout names, for  *)
(* both Secrets and the ConfigMap at once, a version that was fit to run   *)
(* with (a Secret with both keys, the manifest's ConfigMap), and never an  *)
(* older one than the operand runs with already.                           *)
(* OperandRollout, with the history kept in RolloutHistory, implements it. *)
(***************************************************************************)
EXTENDS Integers

CONSTANT Annotated  \* what the pod template's annotations name

VARIABLES
    fit,       \* fit[a]: the versions of a that were ever fit to run with
    template   \* the annotated versions; 0 until the first rollout

vars == <<fit, template>>

Init ==
    /\ fit = [a \in Annotated |-> {}]
    /\ template = [a \in Annotated |-> 0]

\* The API server stores versions; the fit ones among them are newer than those before.
Offer ==
    /\ \A a \in Annotated :
        /\ fit[a] \subseteq fit'[a]
        /\ \A old \in fit[a], new \in fit'[a] \ fit[a] : old < new
    /\ UNCHANGED template

Rollout ==
    /\ template' \in [Annotated -> Nat]
    /\ \A a \in Annotated : template'[a] \in fit[a] /\ template'[a] >= template[a]
    /\ UNCHANGED fit

Next == Offer \/ Rollout

Spec == Init /\ [][Next]_vars

=============================================================================
