--------------------------- MODULE MCWorkerHealth ---------------------------
(* One worker: the workers share nothing but the cycle of the probe. *)
EXTENDS WorkerHealth

CONSTANT w1

OneWorker == {w1}
=============================================================================
