------------------------------ MODULE Lifecycle ------------------------------
(***************************************************************************)
(* The incident lifecycle: the states an incident record can be in and the *)
(* transition table every store transition is validated against.          *)
(***************************************************************************)

LifecycleState ==
  {"Received", "Classified", "Enriched", "Triaging", "ActionProposed",
   "Executing", "Monitoring", "Resolved", "RCA", "RCAPublished"}

(* The pairs validate_transition lets through. *)
AllowedTransitions ==
  {<<"Received", "Classified">>,
   <<"Classified", "Enriched">>,
   <<"Enriched", "Triaging">>,
   <<"Triaging", "ActionProposed">>,
   <<"ActionProposed", "Triaging">>,
   <<"ActionProposed", "Executing">>,
   <<"Executing", "Monitoring">>,
   <<"Executing", "Triaging">>,
   <<"Monitoring", "Triaging">>,
   <<"Monitoring", "Resolved">>,
   <<"Resolved", "RCA">>,
   <<"RCA", "RCAPublished">>}

CanMove(current, goal) == <<current, goal>> \in AllowedTransitions

(* Variant: the public endpoint no longer refuses protected targets. *)
UnprotectedTargets == LifecycleState

(* The targets the public lifecycle endpoint accepts. *)
PublicTargets == {"Classified", "Enriched", "Triaging"}

(* What recovery verification leaves behind, and the RCA states after it. *)
ClosedStates == {"Resolved", "RCA", "RCAPublished"}

==============================================================================
