------------------------------ MODULE Deployment ------------------------------
(***************************************************************************)
(* The controlled deployment as the remediation adapter sees it: the three *)
(* settings its patches can write, what each allowlisted action writes,    *)
(* and the comparison the preview makes before it asks for a dry run.      *)
(***************************************************************************)
EXTENDS Naturals

ActionType ==
  {"restore_response_mode", "restore_memory_mode", "restart", "scale"}

(* target_replicas is optional; 0 stands for "not given". *)
NotGiven == 0

(* The pydantic field bound on target_replicas: ge=1, le=3. *)
ActionRequest == [type: ActionType, replicas: 0 .. 3]

(* failMode and leakMode say whether the environment variable differs from
   the "false" the restore actions write.  The restart annotation is left
   out: every restart stamps a fresh time, so it always changes. *)
DeploymentSpec == [failMode: BOOLEAN, leakMode: BOOLEAN, replicas: 0 .. 3]

(* Scale, and only scale, carries a bounded replica count. *)
WellFormed(action) == action.type = "scale" <=> action.replicas # NotGiven

(* The deployment after the patch of an action is applied to it. *)
Patched(spec, action) ==
  CASE action.type = "restore_response_mode" -> [spec EXCEPT !.failMode = FALSE]
    [] action.type = "restore_memory_mode"   -> [spec EXCEPT !.leakMode = FALSE]
    [] action.type = "restart"               -> spec
    [] action.type = "scale"  -> [spec EXCEPT !.replicas = action.replicas]

(* Does the preview's before/after comparison find a controlled change? *)
WouldChange(spec, action) ==
  action.type = "restart" \/ Patched(spec, action) # spec

===============================================================================
