------------------------------ MODULE MCRecovery ------------------------------
EXTENDS Recovery

MCScale == {"scale"}
MCRestart == {"restart"}

(* Memory and restart actions share every rule. *)
MCOneOfEach == {"restore_response_mode", "restore_memory_mode", "scale"}

================================================================================
