--------------------------- MODULE MCJobPipeline ---------------------------
(* Instances of JobPipeline for TLC.                                       *)
EXTENDS JobPipeline, TLC

\* Every request body.
AllRequests == RequestType

\* One request that passes through every task.
OneRequest == [swReq : {TRUE}, profile : {TRUE}, scripts : {TRUE}]

Slots == Permutations(Messages)
=============================================================================
