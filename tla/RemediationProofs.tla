--------------------------- MODULE RemediationProofs ---------------------------
(***************************************************************************)
(* The remediation workflow is well typed, has one executor per plan,      *)
(* keeps a truthful audit, writes only what was approved, and closes only  *)
(* incidents that were patched, and a call that claimed a plan leaves it   *)
(* with its outcome, for any number of incidents, plans, callers, requests *)
(* and deployment versions.                                                *)
(*                                                                         *)
(* Inductive is the strengthening.  Its conjuncts fall in three groups:    *)
(* what calls know (CallsWellFormed, ClaimsHeld, CallsPatched), what the   *)
(* records say (PlansWellFormed, AuditTruthful, WritesInHistory,           *)
(* PatchedAsApproved), and what lifecycle states rest on (BackedByPatch).  *)
(* A step that leaves the variables of a group alone keeps the group: the  *)
(* first lemmas say so, and the lemma of each action argues only the rest. *)
(***************************************************************************)
EXTENDS RemediationProperties, TLAPS

RecordsGroup == PlansWellFormed /\ AuditTruthful /\ WritesInHistory /\ PatchedAsApproved
CallsGroup == CallsWellFormed /\ ClaimsHeld /\ CallsPatched

--------------------------------------------------------------------------------
(* Facts about the data.                                                    *)

(* A patch turns a deployment specification into one. *)
LEMMA PatchedType ==
  ASSUME NEW s \in DeploymentSpec, NEW a \in Requests
  PROVE  Patched(s, a) \in DeploymentSpec
BY RequestsAssumption DEF Patched, ActionRequest, ActionType, DeploymentSpec

(* The API server's history of the deployment only grows. *)
LEMMA HistoryKept ==
  ASSUME NEW c \in Seq(DeploymentSpec), NEW s \in DeploymentSpec
  PROVE  /\ Append(c, s) \in Seq(DeploymentSpec)
         /\ Append(c, s) # <<>>
         /\ Len(Append(c, s)) = Len(c) + 1
         /\ \A v \in 1 .. Len(c) : v \in 1 .. Len(c) + 1 /\ Append(c, s)[v] = c[v]
         /\ Append(c, s)[Len(c) + 1] = s
OBVIOUS

(* What the transition table says of the states after an execution. *)
LEMMA LateMoves ==
  ASSUME NEW s \in LifecycleState, NEW goal, CanMove(s, goal)
  PROVE  /\ goal \in LifecycleState
         /\ goal = "Monitoring" => s = "Executing"
         /\ goal = "Resolved" => s = "Monitoring"
         /\ goal = "RCA" => s = "Resolved"
         /\ goal = "RCAPublished" => s = "RCA"
BY DEF CanMove, AllowedTransitions, LifecycleState

--------------------------------------------------------------------------------
(* What a step keeps by leaving variables alone.                            *)

LEMMA RecordsKept ==
  ASSUME Inductive, UNCHANGED <<status, proposal, approved, cluster, writes>>
  PROVE  RecordsGroup'
BY DEF Inductive, RecordsGroup, PlansWellFormed, Bound, Version, AuditTruthful,
       WritesInHistory, PatchedAsApproved, PatchedPlans

LEMMA BackingKept ==
  ASSUME Inductive, UNCHANGED <<state, proposal, writes>>
  PROVE  BackedByPatch'
BY DEF Inductive, BackedByPatch, PatchedPlans, IncidentOf

(* A lifecycle move keeps closed incidents backed if it does not itself enter *)
(* Monitoring or Resolved without a patch.                                    *)
LEMMA BackingMoves ==
  ASSUME Inductive, NEW i \in Incidents, NEW goal, CanMove(state[i], goal),
         state' = [state EXCEPT ![i] = goal], UNCHANGED <<proposal, writes>>,
         goal \in {"Monitoring", "Resolved"} => \E p \in PatchedPlans : IncidentOf(p) = i
  PROVE  BackedByPatch'
<1>1. state[i] \in LifecycleState /\ state \in [Incidents -> LifecycleState]
  BY DEF Inductive, TypeOK
<1>2. goal \in ClosedStates \cup {"Monitoring"} => \E p \in PatchedPlans : IncidentOf(p) = i
  BY <1>1, LateMoves DEF Inductive, BackedByPatch, ClosedStates
<1> QED
  BY <1>1, <1>2 DEF Inductive, BackedByPatch, PatchedPlans, IncidentOf

(* A plan that has a row has a proposal, of a known incident. *)
LEMMA PlanKnown ==
  ASSUME Inductive, NEW p \in Plans, status[p] # "Absent"
  PROVE  proposal[p] \in Proposal /\ proposal[p].incident \in Incidents
BY DEF Inductive, TypeOK, PlansWellFormed, Proposal

LEMMA CallsPlan ==
  ASSUME Inductive, NEW t \in Callers, pc[t] \in PlanSteps
  PROVE  /\ target[t] \in Plans
         /\ status[target[t]] # "Absent"
         /\ proposal[target[t]] \in Proposal
         /\ proposal[target[t]].incident \in Incidents
BY PlanKnown DEF Inductive, CallsWellFormed

(* A call that returns knows nothing any more. *)
LEMMA CallsReturn ==
  ASSUME Inductive, NEW t \in Callers, Return(t), UNCHANGED <<status, cluster, writes>>
  PROVE  CallsGroup'
BY DEF Inductive, TypeOK, Return, CallsGroup, CallsWellFormed, PlanSteps, DraftSteps,
       Bound, Version, ClaimsHeld, OneExecutor, ExecutorSteps, CallsPatched, PatchedPlans

--------------------------------------------------------------------------------
(* Steps that change no record and not the cluster. *)

LEMMA ProposeBeginStep ==
  ASSUME Inductive, NEW t \in Callers, NEW i \in Incidents, NEW a \in Requests,
         ProposeBegin(t, i, a)
  PROVE  Inductive'
<1>1. UNCHANGED <<status, proposal, approved, cluster, writes>> /\ state' = state
  BY DEF ProposeBegin, records, calls
<1>2. TypeOK'
  BY DEF Inductive, TypeOK, ProposeBegin, records, Steps, PlanSteps, DraftSteps, Proposal
<1>3. CallsGroup'
  BY <1>1
     DEF Inductive, TypeOK, ProposeBegin, Steps, CallsGroup, CallsWellFormed,
         PlanSteps, DraftSteps, Bound, Version,
         ClaimsHeld, OneExecutor, ExecutorSteps, CallsPatched, PatchedPlans, Proposal
<1>4. RecordsGroup'
  BY <1>1, RecordsKept
<1>5. BackedByPatch'
  BY <1>1, BackingKept
<1> QED
  BY <1>1, <1>2, <1>3, <1>4, <1>5 DEF Inductive, CallsGroup, RecordsGroup

LEMMA ProposePreviewStep ==
  ASSUME Inductive, NEW t \in Callers, ProposePreview(t)
  PROVE  Inductive'
<1>1. UNCHANGED <<status, proposal, approved, cluster, writes>> /\ state' = state
  BY DEF ProposePreview, records, calls
<1>2. TypeOK'
  BY DEF Inductive, TypeOK, ProposePreview, records, Steps, PlanSteps, DraftSteps,
         Proposal, Current, CallsWellFormed, Version
<1>3. CallsGroup'
  BY <1>1
     DEF Inductive, TypeOK, ProposePreview, Steps, CallsGroup, CallsWellFormed,
         PlanSteps, DraftSteps, Bound, Version, ClaimsHeld, OneExecutor, ExecutorSteps,
         CallsPatched, PatchedPlans, Proposal, Current
<1>4. RecordsGroup'
  BY <1>1, RecordsKept
<1>5. BackedByPatch'
  BY <1>1, BackingKept
<1> QED
  BY <1>1, <1>2, <1>3, <1>4, <1>5 DEF Inductive, CallsGroup, RecordsGroup

LEMMA ApproveBeginStep ==
  ASSUME Inductive, NEW t \in Callers, NEW p \in Plans, ApproveBegin(t, p)
  PROVE  Inductive'
<1>1. UNCHANGED <<status, proposal, approved, cluster, writes>> /\ state' = state
  BY DEF ApproveBegin, DecisionPending, Take, records, calls
<1>2. TypeOK'
  BY DEF Inductive, TypeOK, ApproveBegin, DecisionPending, Take, records, Steps,
         PlanSteps, DraftSteps
<1>3. CallsGroup'
  BY <1>1
     DEF Inductive, TypeOK, ApproveBegin, DecisionPending, Take, Steps, CallsGroup,
         CallsWellFormed, PlanSteps, DraftSteps, Bound, Version,
         ClaimsHeld, OneExecutor, ExecutorSteps, CallsPatched, PatchedPlans
<1>4. RecordsGroup'
  BY <1>1, RecordsKept
<1>5. BackedByPatch'
  BY <1>1, BackingKept
<1> QED
  BY <1>1, <1>2, <1>3, <1>4, <1>5 DEF Inductive, CallsGroup, RecordsGroup

LEMMA RejectBeginStep ==
  ASSUME Inductive, NEW t \in Callers, NEW p \in Plans, RejectBegin(t, p)
  PROVE  Inductive'
<1>1. UNCHANGED <<status, proposal, approved, cluster, writes>> /\ state' = state
  BY DEF RejectBegin, DecisionPending, Take, records, calls
<1>2. TypeOK'
  BY DEF Inductive, TypeOK, RejectBegin, DecisionPending, Take, records, Steps,
         PlanSteps, DraftSteps
<1>3. CallsGroup'
  BY <1>1
     DEF Inductive, TypeOK, RejectBegin, DecisionPending, Take, Steps, CallsGroup,
         CallsWellFormed, PlanSteps, DraftSteps, Bound, Version,
         ClaimsHeld, OneExecutor, ExecutorSteps, CallsPatched, PatchedPlans
<1>4. RecordsGroup'
  BY <1>1, RecordsKept
<1>5. BackedByPatch'
  BY <1>1, BackingKept
<1> QED
  BY <1>1, <1>2, <1>3, <1>4, <1>5 DEF Inductive, CallsGroup, RecordsGroup

LEMMA ExecuteBeginStep ==
  ASSUME Inductive, NEW t \in Callers, NEW p \in Plans, ExecuteBegin(t, p)
  PROVE  Inductive'
<1>1. UNCHANGED <<status, proposal, approved, cluster, writes>> /\ state' = state
  BY DEF ExecuteBegin, Take, records, calls
<1>2. TypeOK'
  BY DEF Inductive, TypeOK, ExecuteBegin, Take, records, Steps, PlanSteps, DraftSteps
<1>3. CallsGroup'
  BY <1>1
     DEF Inductive, TypeOK, ExecuteBegin, Take, Steps, CallsGroup, CallsWellFormed,
         PlanSteps, DraftSteps, Bound, Version,
         ClaimsHeld, OneExecutor, ExecutorSteps, CallsPatched, PatchedPlans
<1>4. RecordsGroup'
  BY <1>1, RecordsKept
<1>5. BackedByPatch'
  BY <1>1, BackingKept
<1> QED
  BY <1>1, <1>2, <1>3, <1>4, <1>5 DEF Inductive, CallsGroup, RecordsGroup

LEMMA ExecutePatchFailsStep ==
  ASSUME Inductive, NEW t \in Callers, ExecutePatchFails(t)
  PROVE  Inductive'
<1>1. UNCHANGED <<status, proposal, approved, cluster, writes>> /\ state' = state
  BY DEF ExecutePatchFails, Continue, records, calls
<1>2. TypeOK'
  BY DEF Inductive, TypeOK, ExecutePatchFails, Continue, records, Steps, PlanSteps,
         DraftSteps
<1>3. CallsGroup'
  BY <1>1
     DEF Inductive, TypeOK, ExecutePatchFails, Continue, Steps, CallsGroup,
         CallsWellFormed, PlanSteps, DraftSteps, Bound, Version,
         ClaimsHeld, OneExecutor, ExecutorSteps, CallsPatched, PatchedPlans
<1>4. RecordsGroup'
  BY <1>1, RecordsKept
<1>5. BackedByPatch'
  BY <1>1, BackingKept
<1> QED
  BY <1>1, <1>2, <1>3, <1>4, <1>5 DEF Inductive, CallsGroup, RecordsGroup

LEMMA VerifyBeginStep ==
  ASSUME Inductive, NEW t \in Callers, NEW p \in Plans, VerifyBegin(t, p)
  PROVE  Inductive'
<1>1. UNCHANGED <<status, proposal, approved, cluster, writes>> /\ state' = state
  BY DEF VerifyBegin, Take, AuditTruthful, records, calls
<1>2. TypeOK'
  BY DEF Inductive, TypeOK, VerifyBegin, Take, AuditTruthful, records, Steps,
         PlanSteps, DraftSteps
<1>3. CallsGroup'
  BY <1>1
     DEF Inductive, TypeOK, VerifyBegin, Take, AuditTruthful, Steps, CallsGroup,
         CallsWellFormed, PlanSteps, DraftSteps, Bound, Version,
         ClaimsHeld, OneExecutor, ExecutorSteps, CallsPatched, PatchedPlans
<1>4. RecordsGroup'
  BY <1>1, RecordsKept
<1>5. BackedByPatch'
  BY <1>1, BackingKept
<1> QED
  BY <1>1, <1>2, <1>3, <1>4, <1>5 DEF Inductive, CallsGroup, RecordsGroup

LEMMA ProposeRefusedStep ==
  ASSUME Inductive, NEW t \in Callers, ProposeRefused(t)
  PROVE  Inductive'
<1>1. UNCHANGED <<status, proposal, approved, cluster, writes>> /\ state' = state
  BY DEF ProposeRefused, Return, records, calls
<1>2. TypeOK'
  BY DEF Inductive, TypeOK, ProposeRefused, Return, records, Steps, PlanSteps, DraftSteps
<1>3. CallsGroup'
  BY <1>1
     DEF Inductive, TypeOK, ProposeRefused, Return, Steps, CallsGroup,
         CallsWellFormed, PlanSteps, DraftSteps, Bound, Version,
         ClaimsHeld, OneExecutor, ExecutorSteps, CallsPatched, PatchedPlans
<1>4. RecordsGroup'
  BY <1>1, RecordsKept
<1>5. BackedByPatch'
  BY <1>1, BackingKept
<1> QED
  BY <1>1, <1>2, <1>3, <1>4, <1>5 DEF Inductive, CallsGroup, RecordsGroup

LEMMA CrashStep ==
  ASSUME Inductive, Crash
  PROVE  Inductive'
<1>1. UNCHANGED <<status, proposal, approved, cluster, writes>> /\ state' = state
  BY DEF Crash, records, calls
<1>2. TypeOK'
  BY DEF Inductive, TypeOK, Crash, records, Steps, PlanSteps, DraftSteps
<1>3. CallsGroup'
  BY <1>1
     DEF Inductive, TypeOK, Crash, Steps, CallsGroup, CallsWellFormed, PlanSteps,
         DraftSteps, Bound, Version,
         ClaimsHeld, OneExecutor, ExecutorSteps, CallsPatched, PatchedPlans
<1>4. RecordsGroup'
  BY <1>1, RecordsKept
<1>5. BackedByPatch'
  BY <1>1, BackingKept
<1> QED
  BY <1>1, <1>2, <1>3, <1>4, <1>5 DEF Inductive, CallsGroup, RecordsGroup

LEMMA ExpireStep ==
  ASSUME Inductive, NEW p \in Plans, Expire(p)
  PROVE  Inductive'
<1>1. UNCHANGED <<status, proposal, approved, cluster, writes>> /\ state' = state
  BY DEF Expire, calls, records
<1>2. TypeOK'
  BY DEF Inductive, TypeOK, Expire, calls, records, Steps, PlanSteps, DraftSteps
<1>3. CallsGroup'
  BY <1>1
     DEF Inductive, TypeOK, Expire, calls, Steps, CallsGroup, CallsWellFormed,
         PlanSteps, DraftSteps, Bound, Version,
         ClaimsHeld, OneExecutor, ExecutorSteps, CallsPatched, PatchedPlans
<1>4. RecordsGroup'
  BY <1>1, RecordsKept
<1>5. BackedByPatch'
  BY <1>1, BackingKept
<1> QED
  BY <1>1, <1>2, <1>3, <1>4, <1>5 DEF Inductive, CallsGroup, RecordsGroup

LEMMA ReleaseReadStep ==
  ASSUME Inductive, NEW t \in Callers, ReleaseRead(t)
  PROVE  Inductive'
<1>1. UNCHANGED <<status, proposal, approved, cluster, writes>> /\ state' = state
  BY DEF ReleaseRead, records
<1>2. TypeOK'
  BY DEF Inductive, TypeOK, ReleaseRead, Continue, Return, records, Steps, PlanSteps,
         DraftSteps
<1>3. CallsGroup'
  <2>1. CASE Return(t)
    BY <1>1, <2>1, CallsReturn
  <2>2. CASE Continue(t, "releasing")
    BY <1>1, <2>2
       DEF Inductive, TypeOK, ReleaseRead, Continue, CallsGroup, CallsWellFormed,
           PlanSteps, DraftSteps, Bound, Version,
            ClaimsHeld, OneExecutor, ExecutorSteps, CallsPatched, PatchedPlans
  <2> QED
    BY <2>1, <2>2 DEF ReleaseRead
<1>4. RecordsGroup'
  BY <1>1, RecordsKept
<1>5. BackedByPatch'
  BY <1>1, BackingKept
<1> QED
  BY <1>2, <1>3, <1>4, <1>5 DEF Inductive, CallsGroup, RecordsGroup

--------------------------------------------------------------------------------
(* Steps that move an incident.                                             *)

LEMMA FinishWithMoveStep ==
  ASSUME Inductive, NEW t \in Callers, pc[t] \in PlanSteps, NEW goal,
         FinishWithMove(t, goal),
         goal \in {"Monitoring", "Resolved"} => target[t] \in PatchedPlans
  PROVE  Inductive'
<1> DEFINE i == IncidentOf(target[t])
<1>1. target[t] \in Plans /\ i \in Incidents
  BY CallsPlan DEF IncidentOf
<1>2. UNCHANGED <<status, proposal, approved, cluster, writes>>
  BY DEF FinishWithMove
<1>3. \/ state' = state
      \/ CanMove(state[i], goal) /\ state' = [state EXCEPT ![i] = goal]
  BY DEF FinishWithMove
<1>4. TypeOK'
  BY <1>1, <1>2, <1>3, LateMoves
     DEF Inductive, TypeOK, FinishWithMove, Return, Steps
<1>5. CallsGroup'
  BY <1>2, CallsReturn DEF FinishWithMove
<1>6. RecordsGroup'
  BY <1>2, RecordsKept
<1>7. BackedByPatch'
  BY <1>1, <1>2, <1>3, BackingKept, BackingMoves
<1> QED
  BY <1>4, <1>5, <1>6, <1>7 DEF Inductive, CallsGroup, RecordsGroup

LEMMA ProposeTransitionStep ==
  ASSUME Inductive, NEW t \in Callers, ProposeTransition(t)
  PROVE  Inductive'
BY FinishWithMoveStep DEF ProposeTransition, PlanSteps

LEMMA ReleaseStep ==
  ASSUME Inductive, NEW t \in Callers, Release(t)
  PROVE  Inductive'
BY FinishWithMoveStep DEF Release, PlanSteps

LEMMA ExecuteMonitorStep ==
  ASSUME Inductive, NEW t \in Callers, ExecuteMonitor(t)
  PROVE  Inductive'
BY FinishWithMoveStep DEF ExecuteMonitor, PlanSteps, Inductive, CallsPatched

LEMMA VerifyResolveStep ==
  ASSUME Inductive, NEW t \in Callers, VerifyResolve(t)
  PROVE  Inductive'
BY FinishWithMoveStep DEF VerifyResolve, PlanSteps, Inductive, CallsPatched

LEMMA ExecuteStartStep ==
  ASSUME Inductive, NEW t \in Callers, ExecuteStart(t)
  PROVE  Inductive'
<1> DEFINE i == IncidentOf(target[t])
<1>1. target[t] \in Plans /\ i \in Incidents
  BY CallsPlan DEF ExecuteStart, PlanSteps, IncidentOf
<1>2. UNCHANGED <<status, proposal, approved, cluster, writes>>
  BY DEF ExecuteStart
<1>3. \/ Return(t) /\ state' = state
      \/ /\ Continue(t, "claiming")
         /\ CanMove(state[i], "Executing") /\ state' = [state EXCEPT ![i] = "Executing"]
  BY DEF ExecuteStart
<1>4. TypeOK'
  <2>1. state' \in [Incidents -> LifecycleState]
    BY <1>1, <1>3, LateMoves DEF Inductive, TypeOK
  <2> QED
    BY <2>1, <1>2, <1>3 DEF Inductive, TypeOK, ExecuteStart, Return, Continue, Steps,
                            PlanSteps
<1>5. CallsGroup'
  <2>1. CASE Return(t)
    BY <1>2, <2>1, CallsReturn
  <2>2. CASE Continue(t, "claiming")
    BY <1>1, <1>2, <2>2
       DEF Inductive, TypeOK, ExecuteStart, Continue, CallsGroup, CallsWellFormed,
           PlanSteps, DraftSteps, Bound, Version,
            ClaimsHeld, OneExecutor, ExecutorSteps, CallsPatched, PatchedPlans
  <2> QED
    BY <1>3, <2>1, <2>2
<1>6. RecordsGroup'
  BY <1>2, RecordsKept
<1>7. BackedByPatch'
  BY <1>1, <1>2, <1>3, BackingKept, BackingMoves
<1> QED
  BY <1>4, <1>5, <1>6, <1>7 DEF Inductive, CallsGroup, RecordsGroup

LEMMA ExecuteFailReleaseStep ==
  ASSUME Inductive, NEW t \in Callers, ExecuteFailRelease(t)
  PROVE  Inductive'
<1> DEFINE i == IncidentOf(target[t])
<1>1. target[t] \in Plans /\ i \in Incidents
  BY CallsPlan DEF ExecuteFailRelease, PlanSteps, IncidentOf
<1>2. UNCHANGED <<status, proposal, approved, cluster, writes>>
  BY DEF ExecuteFailRelease
<1>3. \/ Return(t) /\ state' = state
      \/ /\ Continue(t, "failRecord")
         /\ CanMove(state[i], "Triaging") /\ state' = [state EXCEPT ![i] = "Triaging"]
  BY DEF ExecuteFailRelease
<1>4. TypeOK'
  <2>1. state' \in [Incidents -> LifecycleState]
    BY <1>1, <1>3, LateMoves DEF Inductive, TypeOK
  <2> QED
    BY <2>1, <1>2, <1>3 DEF Inductive, TypeOK, ExecuteFailRelease, Return, Continue,
                            Steps, PlanSteps
<1>5. CallsGroup'
  <2>1. CASE Return(t)
    BY <1>2, <2>1, CallsReturn
  <2>2. CASE Continue(t, "failRecord")
    BY <1>1, <1>2, <2>2
       DEF Inductive, TypeOK, ExecuteFailRelease, Continue, CallsGroup,
           CallsWellFormed, PlanSteps, DraftSteps, Bound, Version,
            ClaimsHeld, OneExecutor, ExecutorSteps, CallsPatched, PatchedPlans
  <2> QED
    BY <1>3, <2>1, <2>2
<1>6. RecordsGroup'
  BY <1>2, RecordsKept
<1>7. BackedByPatch'
  BY <1>1, <1>2, <1>3, BackingKept, BackingMoves
<1> QED
  BY <1>4, <1>5, <1>6, <1>7 DEF Inductive, CallsGroup, RecordsGroup

(* The one-transaction requests; none of them enters Monitoring or Resolved. *)
LEMMA MoveOnlyStep ==
  ASSUME Inductive, NEW t \in Callers, NEW i \in Incidents, NEW goal,
         goal \notin {"Monitoring", "Resolved"}, MoveOnly(t, i, goal)
  PROVE  Inductive'
<1>1. UNCHANGED <<status, proposal, approved, cluster, writes>>
  BY DEF MoveOnly
<1>2. CanMove(state[i], goal) /\ state' = [state EXCEPT ![i] = goal]
  BY DEF MoveOnly
<1>3. TypeOK'
  BY <1>2, LateMoves DEF Inductive, TypeOK, MoveOnly, calls
<1>4. CallsGroup'
  BY <1>1
     DEF Inductive, MoveOnly, calls, CallsGroup, CallsWellFormed, PlanSteps,
         DraftSteps, Bound, Version,
            ClaimsHeld, OneExecutor, ExecutorSteps, CallsPatched, PatchedPlans
<1>5. RecordsGroup'
  BY <1>1, RecordsKept
<1>6. BackedByPatch'
  BY <1>1, <1>2, BackingMoves
<1> QED
  BY <1>3, <1>4, <1>5, <1>6 DEF Inductive, CallsGroup, RecordsGroup

--------------------------------------------------------------------------------
(* Steps that change the status of a plan.                                  *)

(* The records after a plan that has a row gets a new status. *)
LEMMA RecordsRestated ==
  ASSUME Inductive, NEW p \in Plans, NEW s,
         status[p] # "Absent", status' = [status EXCEPT ![p] = s],
         approved' = approved \/ approved' = approved \cup {p},
         UNCHANGED <<proposal, cluster, writes>>,
         s # "Absent",
         s \in {"Approved", "Executing", "Executed", "Verified", "Failed", "Stale"}
           => p \in approved',
         s \in {"Executed", "Verified"} => p \in PatchedPlans,
         s \in {"Previewed", "Approved", "Rejected", "Expired", "Stale"}
           => p \notin PatchedPlans
  PROVE  RecordsGroup'
<1>1. PlansWellFormed'
  BY DEF Inductive, TypeOK, PlansWellFormed, Bound, Version
<1>2. AuditTruthful'
  BY DEF Inductive, TypeOK, AuditTruthful, PatchedPlans
<1>3. WritesInHistory' /\ PatchedAsApproved'
  BY DEF Inductive, WritesInHistory, PatchedAsApproved, Version
<1> QED
  BY <1>1, <1>2, <1>3 DEF RecordsGroup

LEMMA ExpirePlanStep ==
  ASSUME Inductive, NEW t \in Callers, NEW p \in Plans, ExpirePlan(t, p)
  PROVE  Inductive'
<1>1. /\ status[p] = "Previewed" /\ p \notin PatchedPlans
      /\ status' = [status EXCEPT ![p] = "Expired"]
      /\ UNCHANGED <<state, proposal, approved, cluster, writes>>
  BY DEF Inductive, AuditTruthful, ExpirePlan, SetStatus
<1>2. TypeOK'
  BY <1>1 DEF Inductive, TypeOK, PlanStatus, ExpirePlan, Take, Steps, PlanSteps
<1>3. CallsGroup'
  BY <1>1
     DEF Inductive, TypeOK, ExpirePlan, Take, CallsGroup, CallsWellFormed, PlanSteps,
         DraftSteps, Bound, Version,
            ClaimsHeld, OneExecutor, ExecutorSteps, CallsPatched, PatchedPlans
<1>4. RecordsGroup'
  BY <1>1, RecordsRestated DEF Inductive, PlansWellFormed
<1>5. BackedByPatch'
  BY <1>1, BackingKept
<1> QED
  BY <1>2, <1>3, <1>4, <1>5 DEF Inductive, CallsGroup, RecordsGroup

LEMMA InvalidatePlanStep ==
  ASSUME Inductive, NEW t \in Callers, NEW p \in Plans, InvalidatePlan(t, p)
  PROVE  Inductive'
<1>1. /\ status[p] = "Approved" /\ p \notin PatchedPlans
      /\ status' = [status EXCEPT ![p] = "Stale"]
      /\ UNCHANGED <<state, proposal, approved, cluster, writes>>
  BY DEF Inductive, AuditTruthful, InvalidatePlan, SetStatus
<1>2. TypeOK'
  BY <1>1 DEF Inductive, TypeOK, PlanStatus, InvalidatePlan, Take, Steps, PlanSteps
<1>3. CallsGroup'
  BY <1>1
     DEF Inductive, TypeOK, InvalidatePlan, Take, CallsGroup, CallsWellFormed,
         PlanSteps, DraftSteps, Bound, Version,
            ClaimsHeld, OneExecutor, ExecutorSteps, CallsPatched, PatchedPlans
<1>4. RecordsGroup'
  BY <1>1, RecordsRestated DEF Inductive, PlansWellFormed
<1>5. BackedByPatch'
  BY <1>1, BackingKept
<1> QED
  BY <1>2, <1>3, <1>4, <1>5 DEF Inductive, CallsGroup, RecordsGroup

(* A handler that raises changes nothing but its own call. *)
LEMMA NothingButReturn ==
  ASSUME Inductive, NEW t \in Callers, Return(t),
         UNCHANGED <<state, status, proposal, approved, expired, cluster, writes>>
  PROVE  Inductive'
<1>1. TypeOK'
  BY DEF Inductive, TypeOK, Return, Steps
<1> QED
  BY <1>1, CallsReturn, RecordsKept, BackingKept DEF Inductive, CallsGroup, RecordsGroup

LEMMA ApproveCommitStep ==
  ASSUME Inductive, NEW t \in Callers, ApproveCommit(t)
  PROVE  Inductive'
<1>1. target[t] \in Plans /\ status[target[t]] # "Absent"
  BY CallsPlan DEF ApproveCommit, PlanSteps
<1>2. UNCHANGED <<state, proposal, cluster, writes>>
  BY DEF ApproveCommit, CompareAndFinish
<1>3. CASE status[target[t]] # "Previewed"
  <2>1. Return(t) /\ UNCHANGED <<status, approved, expired>>
    BY <1>3 DEF ApproveCommit, CompareAndFinish, SetStatus
  <2> QED
    BY <1>2, <2>1, NothingButReturn
<1>4. CASE status[target[t]] = "Previewed"
  <2>1. /\ Return(t) /\ expired' = expired
        /\ status' = [status EXCEPT ![target[t]] = "Approved"]
        /\ approved' = approved \cup {target[t]}
    BY <1>4 DEF ApproveCommit, CompareAndFinish, SetStatus
  <2>2. TypeOK'
    BY <1>1, <1>2, <2>1
       DEF Inductive, TypeOK, PlanStatus, Return, Continue, Steps, PlanSteps
  <2>3. CallsGroup'
    BY <1>1, <1>2, <1>4, <2>1
       DEF Inductive, TypeOK, AuditTruthful, ApproveCommit, Return, Continue,
           CallsGroup, CallsWellFormed, PlanSteps, DraftSteps, Bound, Version,
            ClaimsHeld, OneExecutor, ExecutorSteps, CallsPatched, PatchedPlans
  <2>4. RecordsGroup'
    BY <1>1, <1>2, <1>4, <2>1, RecordsRestated
       DEF Inductive, PlansWellFormed, AuditTruthful, CallsPatched, ApproveCommit
  <2>5. BackedByPatch'
    BY <1>2, BackingKept
  <2> QED
    BY <2>2, <2>3, <2>4, <2>5 DEF Inductive, CallsGroup, RecordsGroup
<1> QED
  BY <1>3, <1>4

LEMMA RejectCommitStep ==
  ASSUME Inductive, NEW t \in Callers, RejectCommit(t)
  PROVE  Inductive'
<1>1. target[t] \in Plans /\ status[target[t]] # "Absent"
  BY CallsPlan DEF RejectCommit, PlanSteps
<1>2. UNCHANGED <<state, proposal, cluster, writes>>
  BY DEF RejectCommit, CompareAndSet
<1>3. CASE status[target[t]] # "Previewed"
  <2>1. Return(t) /\ UNCHANGED <<status, approved, expired>>
    BY <1>3 DEF RejectCommit, CompareAndSet, SetStatus
  <2> QED
    BY <1>2, <2>1, NothingButReturn
<1>4. CASE status[target[t]] = "Previewed"
  <2>1. /\ Continue(t, "releasing") /\ expired' = expired
        /\ status' = [status EXCEPT ![target[t]] = "Rejected"]
        /\ approved' = approved
    BY <1>4 DEF RejectCommit, CompareAndSet, SetStatus
  <2>2. TypeOK'
    BY <1>1, <1>2, <2>1
       DEF Inductive, TypeOK, PlanStatus, Return, Continue, Steps, PlanSteps
  <2>3. CallsGroup'
    BY <1>1, <1>2, <1>4, <2>1
       DEF Inductive, TypeOK, AuditTruthful, RejectCommit, Return, Continue,
           CallsGroup, CallsWellFormed, PlanSteps, DraftSteps, Bound, Version,
            ClaimsHeld, OneExecutor, ExecutorSteps, CallsPatched, PatchedPlans
  <2>4. RecordsGroup'
    BY <1>1, <1>2, <1>4, <2>1, RecordsRestated
       DEF Inductive, PlansWellFormed, AuditTruthful, CallsPatched, RejectCommit
  <2>5. BackedByPatch'
    BY <1>2, BackingKept
  <2> QED
    BY <2>2, <2>3, <2>4, <2>5 DEF Inductive, CallsGroup, RecordsGroup
<1> QED
  BY <1>3, <1>4

LEMMA ExecuteClaimStep ==
  ASSUME Inductive, NEW t \in Callers, ExecuteClaim(t)
  PROVE  Inductive'
<1>1. target[t] \in Plans /\ status[target[t]] # "Absent"
  BY CallsPlan DEF ExecuteClaim, PlanSteps
<1>2. UNCHANGED <<state, proposal, cluster, writes>>
  BY DEF ExecuteClaim, CompareAndSet
<1>3. CASE status[target[t]] # "Approved"
  <2>1. Return(t) /\ UNCHANGED <<status, approved, expired>>
    BY <1>3 DEF ExecuteClaim, CompareAndSet, SetStatus
  <2> QED
    BY <1>2, <2>1, NothingButReturn
<1>4. CASE status[target[t]] = "Approved"
  <2>1. /\ Continue(t, "patching") /\ expired' = expired
        /\ status' = [status EXCEPT ![target[t]] = "Executing"]
        /\ approved' = approved
    BY <1>4 DEF ExecuteClaim, CompareAndSet, SetStatus
  <2>2. TypeOK'
    BY <1>1, <1>2, <2>1
       DEF Inductive, TypeOK, PlanStatus, Return, Continue, Steps, PlanSteps
  <2>3. CallsGroup'
    BY <1>1, <1>2, <1>4, <2>1
       DEF Inductive, TypeOK, AuditTruthful, ExecuteClaim, Return, Continue,
           CallsGroup, CallsWellFormed, PlanSteps, DraftSteps, Bound, Version,
            ClaimsHeld, OneExecutor, ExecutorSteps, CallsPatched, PatchedPlans
  <2>4. RecordsGroup'
    BY <1>1, <1>2, <1>4, <2>1, RecordsRestated
       DEF Inductive, PlansWellFormed, AuditTruthful, CallsPatched, ExecuteClaim
  <2>5. BackedByPatch'
    BY <1>2, BackingKept
  <2> QED
    BY <2>2, <2>3, <2>4, <2>5 DEF Inductive, CallsGroup, RecordsGroup
<1> QED
  BY <1>3, <1>4

LEMMA ExecuteRecordStep ==
  ASSUME Inductive, NEW t \in Callers, ExecuteRecord(t)
  PROVE  Inductive'
<1>1. target[t] \in Plans /\ status[target[t]] # "Absent"
  BY CallsPlan DEF ExecuteRecord, PlanSteps
<1>2. UNCHANGED <<state, proposal, cluster, writes>>
  BY DEF ExecuteRecord, CompareAndSet
<1>3. CASE status[target[t]] # "Executing"
  <2>1. Return(t) /\ UNCHANGED <<status, approved, expired>>
    BY <1>3 DEF ExecuteRecord, CompareAndSet, SetStatus
  <2> QED
    BY <1>2, <2>1, NothingButReturn
<1>4. CASE status[target[t]] = "Executing"
  <2>1. /\ Continue(t, "monitoring") /\ expired' = expired
        /\ status' = [status EXCEPT ![target[t]] = "Executed"]
        /\ approved' = approved
    BY <1>4 DEF ExecuteRecord, CompareAndSet, SetStatus
  <2>2. TypeOK'
    BY <1>1, <1>2, <2>1
       DEF Inductive, TypeOK, PlanStatus, Return, Continue, Steps, PlanSteps
  <2>3. CallsGroup'
    BY <1>1, <1>2, <1>4, <2>1
       DEF Inductive, TypeOK, AuditTruthful, ExecuteRecord, Return, Continue,
           CallsGroup, CallsWellFormed, PlanSteps, DraftSteps, Bound, Version,
            ClaimsHeld, OneExecutor, ExecutorSteps, CallsPatched, PatchedPlans
  <2>4. RecordsGroup'
    BY <1>1, <1>2, <1>4, <2>1, RecordsRestated
       DEF Inductive, PlansWellFormed, AuditTruthful, CallsPatched, ExecuteRecord
  <2>5. BackedByPatch'
    BY <1>2, BackingKept
  <2> QED
    BY <2>2, <2>3, <2>4, <2>5 DEF Inductive, CallsGroup, RecordsGroup
<1> QED
  BY <1>3, <1>4

LEMMA ExecuteFailRecordStep ==
  ASSUME Inductive, NEW t \in Callers, ExecuteFailRecord(t)
  PROVE  Inductive'
<1>1. target[t] \in Plans /\ status[target[t]] # "Absent"
  BY CallsPlan DEF ExecuteFailRecord, PlanSteps
<1>2. UNCHANGED <<state, proposal, cluster, writes>>
  BY DEF ExecuteFailRecord, CompareAndFinish
<1>3. CASE status[target[t]] # "Executing"
  <2>1. Return(t) /\ UNCHANGED <<status, approved, expired>>
    BY <1>3 DEF ExecuteFailRecord, CompareAndFinish, SetStatus
  <2> QED
    BY <1>2, <2>1, NothingButReturn
<1>4. CASE status[target[t]] = "Executing"
  <2>1. /\ Return(t) /\ expired' = expired
        /\ status' = [status EXCEPT ![target[t]] = "Failed"]
        /\ approved' = approved
    BY <1>4 DEF ExecuteFailRecord, CompareAndFinish, SetStatus
  <2>2. TypeOK'
    BY <1>1, <1>2, <2>1
       DEF Inductive, TypeOK, PlanStatus, Return, Continue, Steps, PlanSteps
  <2>3. CallsGroup'
    BY <1>1, <1>2, <1>4, <2>1
       DEF Inductive, TypeOK, AuditTruthful, ExecuteFailRecord, Return, Continue,
           CallsGroup, CallsWellFormed, PlanSteps, DraftSteps, Bound, Version,
            ClaimsHeld, OneExecutor, ExecutorSteps, CallsPatched, PatchedPlans
  <2>4. RecordsGroup'
    BY <1>1, <1>2, <1>4, <2>1, RecordsRestated
       DEF Inductive, PlansWellFormed, AuditTruthful, CallsPatched, ExecuteFailRecord
  <2>5. BackedByPatch'
    BY <1>2, BackingKept
  <2> QED
    BY <2>2, <2>3, <2>4, <2>5 DEF Inductive, CallsGroup, RecordsGroup
<1> QED
  BY <1>3, <1>4

(* The verdict overwrites whatever the status is, and that is one of the three *)
(* a patched plan can have.                                                    *)
LEMMA VerifyRecordStep ==
  ASSUME Inductive, NEW t \in Callers, VerifyRecord(t)
  PROVE  Inductive'
<1>1. /\ target[t] \in Plans /\ target[t] \in PatchedPlans
      /\ status[target[t]] \in {"Executed", "Verified", "Failed"}
  BY CallsPlan DEF VerifyRecord, PlanSteps, Inductive, CallsPatched
<1>2. UNCHANGED <<state, proposal, approved, cluster, writes>>
  BY DEF VerifyRecord
<1>3. \E s \in {"Verified", "Failed"}, next \in {"resolving", "releasing"} :
         /\ status' = [status EXCEPT ![target[t]] = s]
         /\ Continue(t, next)
  BY DEF VerifyRecord, SetStatus
<1>4. TypeOK'
  BY <1>1, <1>3
     DEF Inductive, TypeOK, PlanStatus, VerifyRecord, Continue, Steps, PlanSteps
<1>5. CallsGroup'
  BY <1>1, <1>2, <1>3
     DEF Inductive, TypeOK, Continue, CallsGroup, CallsWellFormed, PlanSteps,
         DraftSteps, Bound, Version,
            ClaimsHeld, OneExecutor, ExecutorSteps, CallsPatched, PatchedPlans
<1>6. RecordsGroup'
  BY <1>1, <1>2, <1>3, RecordsRestated DEF Inductive, PlansWellFormed
<1>7. BackedByPatch'
  BY <1>2, BackingKept
<1> QED
  BY <1>4, <1>5, <1>6, <1>7 DEF Inductive, CallsGroup, RecordsGroup

--------------------------------------------------------------------------------
(* The insert of a plan, and the two steps that write to the cluster.       *)

LEMMA ProposeCreateStep ==
  ASSUME Inductive, NEW t \in Callers, NEW p \in Plans, ProposeCreate(t, p)
  PROVE  Inductive'
<1>1. /\ status[p] = "Absent" /\ p \notin PatchedPlans
      /\ draft[t] \in Proposal /\ draft[t] # NoProposal /\ Bound(draft[t])
  BY NoProposalAssumption
     DEF Inductive, AuditTruthful, CallsWellFormed, DraftSteps, ProposeCreate
<1>2. /\ status' = [status EXCEPT ![p] = "Previewed"]
      /\ proposal' = [proposal EXCEPT ![p] = draft[t]]
      /\ UNCHANGED <<state, approved, expired, cluster, writes>>
  BY DEF ProposeCreate, SetStatus
<1>3. TypeOK'
  BY <1>1, <1>2
     DEF Inductive, TypeOK, PlanStatus, ProposeCreate, Steps, PlanSteps
<1>4. CallsGroup'
  BY <1>1, <1>2
     DEF Inductive, TypeOK, ProposeCreate, CallsGroup, CallsWellFormed, PlanSteps,
         DraftSteps, Bound, Version,
            ClaimsHeld, OneExecutor, ExecutorSteps, CallsPatched, PatchedPlans
<1>5. RecordsGroup'
  <2>1. PlansWellFormed'
    BY <1>1, <1>2 DEF Inductive, TypeOK, PlansWellFormed, Bound, Version
  <2>2. AuditTruthful'
    BY <1>1, <1>2 DEF Inductive, TypeOK, AuditTruthful, PatchedPlans
  <2>3. WritesInHistory' /\ PatchedAsApproved'
    BY <1>1, <1>2
       DEF Inductive, TypeOK, WritesInHistory, PatchedAsApproved, PatchedPlans, Version
  <2> QED
    BY <2>1, <2>2, <2>3 DEF RecordsGroup
<1>6. BackedByPatch'
  BY <1>1, <1>2 DEF Inductive, TypeOK, BackedByPatch, PatchedPlans, IncidentOf
<1> QED
  BY <1>3, <1>4, <1>5, <1>6 DEF Inductive, CallsGroup, RecordsGroup

(* What is bound to the history stays bound when the deployment is written. *)
LEMMA BoundKept ==
  ASSUME Inductive, NEW s \in DeploymentSpec, cluster' = Append(cluster, s)
  PROVE  /\ cluster' \in Seq(DeploymentSpec) /\ cluster' # <<>>
         /\ Version \in Nat \ {0} /\ Version' = Version + 1
         /\ cluster'[Version + 1] = s
         /\ \A v \in 1 .. Version : v \in 1 .. Version' /\ cluster'[v] = cluster[v]
<1>1. cluster \in Seq(DeploymentSpec) /\ Len(cluster) \in Nat \ {0}
  BY DEF Inductive, TypeOK
<1> QED
  BY <1>1, HistoryKept DEF Version

(* The writes so far, seen against the longer history. *)
LEMMA WritesKept ==
  ASSUME Inductive, NEW s \in DeploymentSpec, cluster' = Append(cluster, s),
         UNCHANGED <<proposal, approved>>
  PROVE  \A x \in writes :
           /\ x.version \in 1 .. Version' - 1
           /\ x.plan \in approved'
           /\ x.version = proposal'[x.plan].version
           /\ WouldChange(cluster'[x.version], proposal'[x.plan].action)
           /\ cluster'[x.version + 1] =
               Patched(cluster'[x.version], proposal'[x.plan].action)
<1> SUFFICES ASSUME NEW x \in writes
             PROVE  /\ x.version \in 1 .. Version' - 1
                    /\ x.plan \in approved'
                    /\ x.version = proposal'[x.plan].version
                    /\ WouldChange(cluster'[x.version], proposal'[x.plan].action)
                    /\ cluster'[x.version + 1]
                         = Patched(cluster'[x.version], proposal'[x.plan].action)
  OBVIOUS
<1>1. /\ x.version \in 1 .. Version /\ x.version + 1 \in 1 .. Version
      /\ x.version \in 1 .. Version' - 1
  BY BoundKept DEF Inductive, WritesInHistory
<1>2. cluster'[x.version] = cluster[x.version] /\ cluster'[x.version + 1] = cluster[x.version + 1]
  BY <1>1, BoundKept
<1> QED
  BY <1>1, <1>2 DEF Inductive, PatchedAsApproved

LEMMA ClusterDriftStep ==
  ASSUME Inductive, ClusterDrift
  PROVE  Inductive'
<1>1. PICK s \in DeploymentSpec : cluster' = Append(cluster, s)
  <2>1. Current \in DeploymentSpec
    BY DEF Inductive, TypeOK, Current, Version
  <2> QED
    BY <2>1, SpecsAssumption DEF ClusterDrift
<1>2. UNCHANGED <<state, status, proposal, approved, expired, writes, pc, target, draft>>
  BY DEF ClusterDrift, records, calls
<1>3. TypeOK'
  BY <1>1, <1>2, BoundKept DEF Inductive, TypeOK
<1>4. CallsGroup'
  BY <1>1, <1>2, BoundKept
     DEF Inductive, CallsGroup, CallsWellFormed, Bound,
         ClaimsHeld, OneExecutor, ExecutorSteps, CallsPatched, PatchedPlans
<1>5. RecordsGroup'
  <2>1. PlansWellFormed'
    BY <1>1, <1>2, BoundKept DEF Inductive, PlansWellFormed, Bound
  <2>2. AuditTruthful'
    BY <1>2 DEF Inductive, AuditTruthful, PatchedPlans
  <2>3. WritesInHistory' /\ PatchedAsApproved'
    BY <1>1, <1>2, WritesKept DEF WritesInHistory, PatchedAsApproved
  <2> QED
    BY <2>1, <2>2, <2>3 DEF RecordsGroup
<1>6. BackedByPatch'
  BY <1>2, BackingKept
<1> QED
  BY <1>3, <1>4, <1>5, <1>6 DEF Inductive, CallsGroup, RecordsGroup

LEMMA ExecutePatchStep ==
  ASSUME Inductive, NEW t \in Callers, ExecutePatch(t)
  PROVE  Inductive'
<1> DEFINE p == target[t]
           a == proposal[p].action
           w == [plan |-> p, version |-> Version]
<1>1. /\ p \in Plans /\ p \notin PatchedPlans /\ p \in approved
      /\ status[p] = "Executing" /\ proposal[p] \in Proposal /\ Bound(proposal[p])
      /\ proposal[p].version = Version
  BY CallsPlan
     DEF ExecutePatch, PlanSteps, Inductive, ClaimsHeld, ExecutorSteps, CallsPatched,
         PlansWellFormed
<1>2. /\ cluster' = Append(cluster, Patched(Current, a))
      /\ writes' = writes \cup {w}
      /\ UNCHANGED <<state, status, proposal, approved, expired, target, draft>>
  BY DEF ExecutePatch, records, Continue
<1>3. PICK next \in {"recording", "failRelease"} : pc' = [pc EXCEPT ![t] = next]
  BY DEF ExecutePatch, Continue
<1>4. Current \in DeploymentSpec /\ Patched(Current, a) \in DeploymentSpec
  <2>1. Current \in DeploymentSpec
    BY DEF Inductive, TypeOK, Current, Version
  <2>2. a \in Requests
    BY <1>1 DEF Proposal
  <2> QED
    BY <2>1, <2>2, PatchedType
<1>5. TypeOK'
  <2>1. w \in [plan: Plans, version: Nat]
    BY <1>1, <1>2, <1>4, BoundKept
  <2> QED
    BY <2>1, <1>2, <1>3, <1>4, BoundKept DEF Inductive, TypeOK, Steps, PlanSteps
<1>6. CallsGroup'
  <2>1. \A q : q \in PatchedPlans' <=> q \in PatchedPlans \/ q = p
    <3>1. w.plan = p
      OBVIOUS
    <3> HIDE DEF w
    <3> QED
      BY <1>2, <3>1 DEF PatchedPlans
  <2>2. CallsWellFormed'
    BY <1>1, <1>2, <1>3, <1>4, BoundKept
       DEF Inductive, TypeOK, CallsWellFormed, Bound, PlanSteps, DraftSteps
  <2>3. ClaimsHeld'
    BY <1>1, <1>2, <1>3
       DEF Inductive, TypeOK, ClaimsHeld, OneExecutor, ExecutorSteps, ExecutePatch
  <2>4. CallsPatched'
    BY <1>1, <1>2, <1>3, <2>1
       DEF Inductive, TypeOK, CallsPatched, ClaimsHeld, OneExecutor, ExecutorSteps,
           ExecutePatch
  <2> QED
    BY <2>2, <2>3, <2>4 DEF CallsGroup
<1>7. RecordsGroup'
  <2>1. PlansWellFormed'
    BY <1>2, <1>4, BoundKept DEF Inductive, PlansWellFormed, Bound
  <2>2. AuditTruthful'
    BY <1>1, <1>2 DEF Inductive, AuditTruthful, PatchedPlans
  <2>3. WritesInHistory' /\ PatchedAsApproved'
    <3>1. \A x \in writes :
            /\ x.version \in 1 .. Version' - 1
            /\ x.plan \in approved'
            /\ x.version = proposal'[x.plan].version
            /\ WouldChange(cluster'[x.version], proposal'[x.plan].action)
            /\ cluster'[x.version + 1] =
                Patched(cluster'[x.version], proposal'[x.plan].action)
      BY <1>2, <1>4, WritesKept
    <3>2. /\ w.version \in 1 .. Version' - 1
          /\ w.plan \in approved'
          /\ w.version = proposal'[w.plan].version
          /\ WouldChange(cluster'[w.version], proposal'[w.plan].action)
          /\ cluster'[w.version + 1] =
              Patched(cluster'[w.version], proposal'[w.plan].action)
      <4>1. w.plan = p /\ w.version = Version
        OBVIOUS
      <4> HIDE DEF w
      <4>2. /\ Version \in Nat \ {0} /\ Version' = Version + 1
            /\ cluster'[Version + 1] = Patched(Current, a)
            /\ \A v \in 1 .. Version : cluster'[v] = cluster[v]
        BY <1>2, <1>4, BoundKept
      <4>3. Version \in 1 .. Version' - 1 /\ cluster'[Version] = Current
        BY <4>2 DEF Current
      <4> QED
        BY <1>1, <1>2, <4>1, <4>2, <4>3 DEF Bound, Current
    <3> QED
      BY <3>1, <3>2, <1>2 DEF WritesInHistory, PatchedAsApproved
  <2> QED
    BY <2>1, <2>2, <2>3 DEF RecordsGroup
<1>8. BackedByPatch'
  BY <1>2 DEF Inductive, BackedByPatch, PatchedPlans, IncidentOf
<1> QED
  BY <1>5, <1>6, <1>7, <1>8 DEF Inductive, CallsGroup, RecordsGroup

--------------------------------------------------------------------------------
(* The invariant and the theorems that follow from it.                      *)

LEMMA InitInductive == Init => Inductive
<1> SUFFICES ASSUME Init PROVE Inductive
  OBVIOUS
<1>1. PICK s \in DeploymentSpec : cluster = <<s>>
  BY SpecsAssumption DEF Init
<1>2. TypeOK
  BY <1>1 DEF Init, TypeOK, LifecycleState, Steps
<1>3. CallsWellFormed /\ ClaimsHeld /\ CallsPatched
  BY DEF Init, CallsWellFormed, PlanSteps, DraftSteps, ClaimsHeld, OneExecutor,
         ExecutorSteps, CallsPatched
<1>4. PlansWellFormed /\ AuditTruthful
  BY DEF Init, PlansWellFormed, AuditTruthful, PatchedPlans
<1>5. WritesInHistory /\ PatchedAsApproved /\ BackedByPatch
  BY DEF Init, WritesInHistory, PatchedAsApproved, BackedByPatch, ClosedStates
<1> QED
  BY <1>2, <1>3, <1>4, <1>5 DEF Inductive

LEMMA RequestStep ==
  ASSUME Inductive, NEW t \in Callers, Request(t)
  PROVE  Inductive'
<1>1. CASE \E i \in Incidents, a \in Requests : ProposeBegin(t, i, a)
  BY <1>1, ProposeBeginStep
<1>2. CASE \E p \in Plans : ExpirePlan(t, p)
  BY <1>2, ExpirePlanStep
<1>3. CASE \E p \in Plans : InvalidatePlan(t, p)
  BY <1>3, InvalidatePlanStep
<1>4. CASE \E p \in Plans : ApproveBegin(t, p)
  BY <1>4, ApproveBeginStep
<1>5. CASE \E p \in Plans : RejectBegin(t, p)
  BY <1>5, RejectBeginStep
<1>6. CASE \E p \in Plans : ExecuteBegin(t, p)
  BY <1>6, ExecuteBeginStep
<1>7. CASE \E p \in Plans : VerifyBegin(t, p)
  BY <1>7, VerifyBeginStep
<1>8. CASE \E i \in Incidents : PublicLifecycle(t, i)
  BY <1>8, MoveOnlyStep DEF PublicLifecycle, PublicTargets
<1>9. CASE \E i \in Incidents : DraftPostmortem(t, i)
  BY <1>9, MoveOnlyStep DEF DraftPostmortem
<1>10. CASE \E i \in Incidents : PublishPostmortem(t, i)
  BY <1>10, MoveOnlyStep DEF PublishPostmortem
<1> QED
  BY <1>1, <1>2, <1>3, <1>4, <1>5, <1>6, <1>7, <1>8, <1>9, <1>10 DEF Request

LEMMA HandlerStepStep ==
  ASSUME Inductive, NEW t \in Callers, HandlerStep(t)
  PROVE  Inductive'
<1>1. CASE ProposePreview(t) \/ ProposeRefused(t)
  BY <1>1, ProposePreviewStep, ProposeRefusedStep
<1>2. CASE \E p \in Plans : ProposeCreate(t, p)
  BY <1>2, ProposeCreateStep
<1>3. CASE ProposeTransition(t) \/ ReleaseRead(t) \/ Release(t)
  BY <1>3, ProposeTransitionStep, ReleaseReadStep, ReleaseStep
<1>4. CASE ApproveCommit(t) \/ RejectCommit(t)
  BY <1>4, ApproveCommitStep, RejectCommitStep
<1>5. CASE ExecuteStart(t) \/ ExecuteClaim(t) \/ ExecutePatch(t) \/ ExecutePatchFails(t)
  BY <1>5, ExecuteStartStep, ExecuteClaimStep, ExecutePatchStep, ExecutePatchFailsStep
<1>6. CASE ExecuteRecord(t) \/ ExecuteMonitor(t)
  BY <1>6, ExecuteRecordStep, ExecuteMonitorStep
<1>7. CASE ExecuteFailRelease(t) \/ ExecuteFailRecord(t)
  BY <1>7, ExecuteFailReleaseStep, ExecuteFailRecordStep
<1>8. CASE VerifyRecord(t) \/ VerifyResolve(t)
  BY <1>8, VerifyRecordStep, VerifyResolveStep
<1> QED
  BY <1>1, <1>2, <1>3, <1>4, <1>5, <1>6, <1>7, <1>8 DEF HandlerStep

LEMMA StutterStep ==
  ASSUME Inductive, UNCHANGED vars
  PROVE  Inductive'
<1>1. TypeOK'
  BY DEF Inductive, TypeOK, vars, records, calls
<1>2. CallsGroup'
  BY DEF Inductive, vars, records, calls, CallsGroup, CallsWellFormed, PlanSteps,
         DraftSteps, Bound, Version,
            ClaimsHeld, OneExecutor, ExecutorSteps, CallsPatched, PatchedPlans
<1> QED
  BY <1>1, <1>2, RecordsKept, BackingKept
     DEF Inductive, CallsGroup, RecordsGroup, vars, records, calls

(* The invariant holds in every reachable state: calls, records, deployment *)
(* and lifecycle stay consistent under any interleaving, with crashes.      *)
THEOREM Invariance == Spec => []Inductive
<1>1. Inductive /\ [Next]_vars => Inductive'
  <2> SUFFICES ASSUME Inductive, [Next]_vars PROVE Inductive'
    OBVIOUS
  <2>1. CASE \E t \in Callers : Request(t)
    BY <2>1, RequestStep
  <2>2. CASE \E t \in Callers : HandlerStep(t)
    BY <2>2, HandlerStepStep
  <2>3. CASE ClusterDrift
    BY <2>3, ClusterDriftStep
  <2>4. CASE \E p \in Plans : Expire(p)
    BY <2>4, ExpireStep
  <2>5. CASE Crash
    BY <2>5, CrashStep
  <2>6. CASE UNCHANGED vars
    BY <2>6, StutterStep
  <2> QED
    BY <2>1, <2>2, <2>3, <2>4, <2>5, <2>6 DEF Next
<1> QED
  BY InitInductive, <1>1, PTL DEF Spec

(* Every variable keeps its type. *)
THEOREM TypeCorrect == Spec => []TypeOK
<1>1. Inductive => TypeOK
  BY DEF Inductive
<1> QED
  BY Invariance, <1>1, PTL

(* A plan has one executor at a time (the claim in execute). *)
THEOREM OneExecutorAlways == Spec => []OneExecutor
<1>1. Inductive => OneExecutor
  BY DEF Inductive, ClaimsHeld
<1> QED
  BY Invariance, <1>1, PTL

(* A plan's recorded status does not misstate what reached the cluster. *)
THEOREM AuditTruthfulAlways == Spec => []AuditTruthful
<1>1. Inductive => AuditTruthful
  BY DEF Inductive
<1> QED
  BY Invariance, <1>1, PTL

(* Every patch in the cluster is one that was previewed and approved. *)
THEOREM PatchedAsApprovedAlways == Spec => []PatchedAsApproved
<1>1. Inductive => PatchedAsApproved
  BY DEF Inductive
<1> QED
  BY Invariance, <1>1, PTL

(* No incident is resolved, drafted or published without a patch made for it. *)
THEOREM ClosedAfterPatchAlways == Spec => []ClosedAfterPatch
<1>1. Inductive => ClosedAfterPatch
  BY DEF Inductive, BackedByPatch, ClosedAfterPatch
<1> QED
  BY Invariance, <1>1, PTL

--------------------------------------------------------------------------------
(* The outcome of an execution.                                              *)

(* A step of another call leaves a call where it is. *)
LEMMA OthersStay ==
  ASSUME TypeOK, NEW t \in Callers, NEW u \in Callers \ {t}, Request(u) \/ HandlerStep(u)
  PROVE  pc'[t] = pc[t]
<1> USE DEF TypeOK, Return, Take, Continue, FinishWithMove, CompareAndSet, CompareAndFinish, calls
<1>1. CASE Request(u)
  BY <1>1
  DEF Request, ProposeBegin, ExpirePlan, InvalidatePlan, ApproveBegin, RejectBegin, ExecuteBegin,
      VerifyBegin, PublicLifecycle, DraftPostmortem, PublishPostmortem, MoveOnly
<1>2. CASE ProposePreview(u) \/ ProposeRefused(u) \/ (\E p \in Plans : ProposeCreate(u, p))
           \/ ProposeTransition(u) \/ ReleaseRead(u) \/ Release(u) \/ ApproveCommit(u)
           \/ RejectCommit(u)
  BY <1>2
  DEF ProposePreview, ProposeRefused, ProposeCreate, ProposeTransition, ReleaseRead, Release,
      ApproveCommit, RejectCommit
<1>3. CASE ExecuteStart(u) \/ ExecuteClaim(u) \/ ExecutePatch(u) \/ ExecutePatchFails(u)
           \/ ExecuteRecord(u) \/ ExecuteMonitor(u) \/ ExecuteFailRelease(u)
           \/ ExecuteFailRecord(u) \/ VerifyRecord(u) \/ VerifyResolve(u)
  BY <1>3
  DEF ExecuteStart, ExecuteClaim, ExecutePatch, ExecutePatchFails, ExecuteRecord, ExecuteMonitor,
      ExecuteFailRelease, ExecuteFailRecord, VerifyRecord, VerifyResolve
<1> QED
  BY <1>1, <1>2, <1>3 DEF HandlerStep

(* The executor itself ends with the record of its outcome, which finds the  *)
(* plan Executing because nobody else holds or changes a claimed plan.       *)
LEMMA OutcomeStep ==
  ASSUME Inductive, Next, NEW t \in Callers, LeavesExecution(t)
  PROVE  status'[target[t]] \in {"Executed", "Failed"} \/ FailureRefused(t) \/ Crash
<1>1. /\ pc[t] \in ExecutorSteps /\ pc'[t] \notin ExecutorSteps
      /\ target[t] \in Plans /\ status[target[t]] = "Executing" /\ TypeOK
  BY CallsPlan DEF LeavesExecution, Inductive, ClaimsHeld, ExecutorSteps, PlanSteps
<1>2. pc'[t] # pc[t]
  BY <1>1
<1>3. CASE ClusterDrift \/ \E p \in Plans : Expire(p)
  BY <1>2, <1>3 DEF ClusterDrift, Expire, calls
<1>4. ASSUME NEW u \in Callers, u # t, Request(u) \/ HandlerStep(u) PROVE FALSE
  BY <1>1, <1>2, <1>4, OthersStay
<1>5. ASSUME Request(t) PROVE FALSE
  BY <1>1, <1>5
  DEF ExecutorSteps, Request, ProposeBegin, ExpirePlan, InvalidatePlan, ApproveBegin, RejectBegin,
      ExecuteBegin, VerifyBegin, PublicLifecycle, DraftPostmortem, PublishPostmortem, MoveOnly,
      Take
<1>6. CASE HandlerStep(t)
  <2>1. CASE ExecutePatch(t) \/ ExecutePatchFails(t)
    BY <1>1, <2>1 DEF ExecutePatch, ExecutePatchFails, Continue, ExecutorSteps, TypeOK
  <2>2. CASE ExecuteRecord(t)
    BY <1>1, <2>2 DEF ExecuteRecord, CompareAndSet, SetStatus, TypeOK
  <2>3. CASE ExecuteFailRelease(t)
    BY <1>1, <2>3 DEF ExecuteFailRelease, Continue, ExecutorSteps, FailureRefused, TypeOK
  <2>4. CASE ExecuteFailRecord(t)
    BY <1>1, <2>4 DEF ExecuteFailRecord, CompareAndFinish, SetStatus, TypeOK
  <2>5. pc[t] \in {"patching", "recording", "failRelease", "failRecord"}
    BY <1>1 DEF ExecutorSteps
  <2>6. ~(\/ ProposePreview(t) \/ ProposeRefused(t) \/ (\E p \in Plans : ProposeCreate(t, p))
          \/ ProposeTransition(t) \/ ReleaseRead(t) \/ Release(t) \/ ApproveCommit(t)
          \/ RejectCommit(t) \/ ExecuteStart(t) \/ ExecuteClaim(t) \/ ExecuteMonitor(t)
          \/ VerifyRecord(t) \/ VerifyResolve(t))
    BY <2>5
    DEF ProposePreview, ProposeRefused, DraftSteps, ProposeCreate, ProposeTransition, ReleaseRead,
        Release, ApproveCommit, RejectCommit, ExecuteStart, ExecuteClaim, ExecuteMonitor,
        VerifyRecord, VerifyResolve
  <2> QED
    BY <1>6, <2>1, <2>2, <2>3, <2>4, <2>6 DEF HandlerStep
<1> QED
  BY <1>3, <1>4, <1>5, <1>6 DEF Next

(* A claimed execution leaves an outcome, for any number of plans, incidents *)
(* and callers, unless the process dies or the handler of a failed patch     *)
(* finds the incident moved away.                                            *)
THEOREM OutcomeRecordedAlways == Spec => OutcomeRecorded
<1>1. Inductive /\ [Next]_vars =>
        [\A t \in Callers : LeavesExecution(t) =>
           status'[target[t]] \in {"Executed", "Failed"} \/ FailureRefused(t) \/ Crash]_vars
  BY OutcomeStep
<1> QED
  BY <1>1, Invariance, PTL DEF Spec, OutcomeRecorded

================================================================================
