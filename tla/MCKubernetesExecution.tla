----------------------- MODULE MCKubernetesExecution -----------------------
(* Small instances of KubernetesExecution for TLC. *)
EXTENDS KubernetesExecution
=============================================================================
