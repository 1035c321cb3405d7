------------------------------ MODULE S3Transfer ------------------------------
(***************************************************************************)
(* What a parallel transfer of artifacts promises to its caller            *)
(* (create_s3_artifacts and download_s3_artifacts of s3_helper.py): when   *)
(* it returns, everything was transferred; when it raises an exception,    *)
(* some of it was; and after either, nothing is transferred any more.      *)
(***************************************************************************)
CONSTANT Requests

VARIABLES moved, outcome

transferVars == <<moved, outcome>>

TransferInit == moved = {} /\ outcome = "running"

Move == /\ outcome = "running"
        /\ \E r \in Requests : moved' = moved \cup {r}
        /\ UNCHANGED outcome

Return == /\ outcome = "running" /\ moved = Requests
          /\ outcome' = "ok"
          /\ UNCHANGED moved

Raise == /\ outcome = "running"
         /\ outcome' = "error"
         /\ UNCHANGED moved

TransferNext == Move \/ Return \/ Raise

TransferSpec == TransferInit /\ [][TransferNext]_transferVars
===============================================================================
