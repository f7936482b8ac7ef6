-------------------------- MODULE MCConversionCRD --------------------------
(***************************************************************************)
(* Instances of ConversionCRD for TLC: the CRD with the conversion webhook *)
(* followed by one without.                                                *)
(***************************************************************************)
EXTENDS ConversionCRD

Files == <<"leaderworkersets", "disaggregatedsets">>

Budget(edit, delete, rotate, apiFailure, crash) ==
    [k \in Kinds |-> CASE k = "edit" -> edit
                       [] k = "delete" -> delete
                       [] k = "rotate" -> rotate
                       [] k = "apiFailure" -> apiFailure
                       [] k = "crash" -> crash]

Everything == Budget(1, 1, 1, 1, 1)
Nothing == Budget(0, 0, 0, 0, 0)

=============================================================================
