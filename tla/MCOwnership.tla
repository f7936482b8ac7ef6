----------------------------- MODULE MCOwnership -----------------------------
(***************************************************************************)
(* One object of each kind of apply, in the order of sync(), and two CRs.  *)
(***************************************************************************)
EXTENDS Ownership

SomeObjects == <<"IssuerCR", "MutatingWebhook", "Deployments">>
Cached == {"IssuerCR", "MutatingWebhook"}
Dynamic == {"IssuerCR"}

Misfortunes == [k \in EnvironmentSteps |-> IF k = "delete" THEN 2 ELSE 1]

=============================================================================
