--------------------------- MODULE MCDeployAttempt ---------------------------
(* DeployAttempt on small instances. *)
EXTENDS DeployAttempt

=============================================================================
