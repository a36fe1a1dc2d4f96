----------------------------- MODULE MCRemediation -----------------------------
EXTENDS RemediationProperties, TLC

(* The checkout deployment with the response failure, and with both faults. *)
MCFailing == {[failMode |-> TRUE, leakMode |-> FALSE, replicas |-> 1]}
MCFaulty  == {[failMode |-> TRUE, leakMode |-> TRUE, replicas |-> 1]}

MCRestore == {[type |-> "restore_response_mode", replicas |-> 0]}
MCRestoreOrRestart == MCRestore \cup {[type |-> "restart", replicas |-> 0]}
MCEveryAction ==
  {[type |-> "restore_response_mode", replicas |-> 0],
   [type |-> "restore_memory_mode", replicas |-> 0],
   [type |-> "restart", replicas |-> 0],
   [type |-> "restart", replicas |-> 2],
   [type |-> "scale", replicas |-> 0],
   [type |-> "scale", replicas |-> 1],
   [type |-> "scale", replicas |-> 2]}

Symmetry ==
  Permutations(Plans) \cup Permutations(Callers) \cup Permutations(Incidents)

================================================================================
