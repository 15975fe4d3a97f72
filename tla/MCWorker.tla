------------------------------ MODULE MCWorker ------------------------------
(* Values for the constants of Worker. *)
EXTENDS Worker, TLC

CONSTANTS i1, i2, i3

\* One instance with a retry, one without, and one with MaxRetries -1.
Retries == i1 :> 2 @@ i2 :> 1 @@ i3 :> 0
=============================================================================
