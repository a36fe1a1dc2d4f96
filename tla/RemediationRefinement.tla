------------------------- MODULE RemediationRefinement -------------------------
(***************************************************************************)
(* The remediation workflow implements the approval gate: every step of a  *)
(* handler, of the deployment or of the clock is one step of ApprovalGate  *)
(* or leaves the gate alone.                                               *)
(***************************************************************************)
EXTENDS RemediationProofs

(* The version a plan's preview is bound to, as the mapping reads it. *)
BoundTo == [q \in Plans |-> IF proposal[q] = NoProposal THEN 0 ELSE proposal[q].version]

(* The gate of a plan, now and after the step. *)
LEMMA GateValues ==
  ASSUME NEW p \in Plans
  PROVE  /\ p \in PatchedPlans => GateOf(p) = "written"
         /\ p \notin PatchedPlans /\ status[p] = "Absent" => GateOf(p) = "none"
         /\ p \notin PatchedPlans /\ status[p] = "Previewed" => GateOf(p) = "previewed"
         /\ p \notin PatchedPlans /\ status[p] \in {"Approved", "Executing", "Executed", "Verified"}
              => GateOf(p) = "approved"
         /\ p \notin PatchedPlans /\ status[p] \in {"Rejected", "Failed", "Expired", "Stale"}
              => GateOf(p) = "void"
BY DEF GateOf

LEMMA GateValuesNext ==
  ASSUME NEW p \in Plans
  PROVE  /\ p \in PatchedPlans' => GateOf(p)' = "written"
         /\ p \notin PatchedPlans' /\ status'[p] = "Absent" => GateOf(p)' = "none"
         /\ p \notin PatchedPlans' /\ status'[p] = "Previewed" => GateOf(p)' = "previewed"
         /\ p \notin PatchedPlans' /\ status'[p] \in {"Approved", "Executing", "Executed", "Verified"}
              => GateOf(p)' = "approved"
         /\ p \notin PatchedPlans' /\ status'[p] \in {"Rejected", "Failed", "Expired", "Stale"}
              => GateOf(p)' = "void"
BY DEF GateOf

(* A step that changes no plan and no deployment leaves the gate alone. *)
LEMMA GateFrame ==
  ASSUME UNCHANGED <<status, writes, proposal, cluster>>
  PROVE  UNCHANGED Gate!gateVars
BY DEF Gate!gateVars, GateOf, PatchedPlans, Version

(* A plan that changes alone changes its gate alone. *)
LEMMA GateOfOne ==
  ASSUME Inductive, NEW p \in Plans,
         \A q \in Plans \ {p} : status'[q] = status[q] /\ (q \in PatchedPlans' <=> q \in PatchedPlans)
  PROVE  [q \in Plans |-> GateOf(q)]' = [[q \in Plans |-> GateOf(q)] EXCEPT ![p] = GateOf(p)']
<1>1. \A q \in Plans \ {p} : GateOf(q)' = GateOf(q)
  <2> TAKE q \in Plans \ {p}
  <2>1. status[q] \in PlanStatus \cup {"Absent"}
    BY DEF Inductive, TypeOK
  <2> QED
    BY <2>1, GateValues, GateValuesNext DEF PlanStatus
<1> DEFINE before == [q \in Plans |-> GateOf(q)]
           after == [q \in Plans |-> GateOf(q)']
<1>2. \A q \in Plans : after[q] = [before EXCEPT ![p] = GateOf(p)'][q]
  BY <1>1
<1>3. after = [before EXCEPT ![p] = GateOf(p)']
  BY <1>2
<1> QED
  BY <1>3

(* The gate after a status change that writes nothing. *)
LEMMA GateRestated ==
  ASSUME Inductive, NEW p \in Plans, NEW s, status' = [status EXCEPT ![p] = s],
         UNCHANGED <<proposal, cluster, writes>>
  PROVE  /\ [q \in Plans |-> GateOf(q)]' = [[q \in Plans |-> GateOf(q)] EXCEPT ![p] = GateOf(p)']
         /\ UNCHANGED <<BoundTo, Version>>
         /\ PatchedPlans' = PatchedPlans
         /\ status'[p] = s
<1>1. PatchedPlans' = PatchedPlans /\ BoundTo' = BoundTo
  BY DEF PatchedPlans, BoundTo
<1>2. status'[p] = s /\ \A q \in Plans \ {p} : status'[q] = status[q]
  BY DEF Inductive, TypeOK
<1>3. [q \in Plans |-> GateOf(q)]' = [[q \in Plans |-> GateOf(q)] EXCEPT ![p] = GateOf(p)']
  BY <1>1, <1>2, GateOfOne
<1> QED
  BY <1>1, <1>2, <1>3 DEF Version

(* A status change that keeps the gate where it was. *)
LEMMA GateUnmoved ==
  ASSUME Inductive, NEW p \in Plans, NEW s, status' = [status EXCEPT ![p] = s],
         UNCHANGED <<proposal, cluster, writes>>, GateOf(p)' = GateOf(p)
  PROVE  UNCHANGED Gate!gateVars
<1>1. [q \in Plans |-> GateOf(q)]' = [q \in Plans |-> GateOf(q)]
  BY GateRestated
<1> QED
  BY <1>1, GateRestated DEF Gate!gateVars, BoundTo

(* One that voids the plan. *)
LEMMA GateVoided ==
  ASSUME Inductive, NEW p \in Plans, NEW s, status' = [status EXCEPT ![p] = s],
         UNCHANGED <<proposal, cluster, writes>>,
         p \notin PatchedPlans, status[p] \in {"Previewed", "Approved", "Executing"},
         s \in {"Rejected", "Failed", "Expired", "Stale"}
  PROVE  Gate!Void(p)
<1>1. GateOf(p) \in {"previewed", "approved"} /\ GateOf(p)' = "void"
  BY GateRestated, GateValues, GateValuesNext
<1> QED
  BY <1>1, GateRestated DEF Gate!Void, BoundTo

(* The decision to approve. *)
LEMMA GateApproved ==
  ASSUME Inductive, NEW p \in Plans, status' = [status EXCEPT ![p] = "Approved"],
         UNCHANGED <<proposal, cluster, writes>>, status[p] = "Previewed"
  PROVE  Gate!Approve(p)
<1>1. p \notin PatchedPlans
  BY DEF Inductive, AuditTruthful
<1>2. GateOf(p) = "previewed" /\ GateOf(p)' = "approved"
  BY <1>1, GateRestated, GateValues, GateValuesNext
<1> QED
  BY <1>2, GateRestated DEF Gate!Approve, BoundTo

--------------------------------------------------------------------------------
(* The actions that move a gate.                                            *)

GateStep == Gate!GateNext \/ UNCHANGED Gate!gateVars

LEMMA LapseGate ==
  ASSUME Inductive, NEW t \in Callers, NEW p \in Plans,
         ExpirePlan(t, p) \/ InvalidatePlan(t, p)
  PROVE  GateStep
<1>1. p \notin PatchedPlans /\ status[p] \in {"Previewed", "Approved"}
  BY DEF ExpirePlan, InvalidatePlan, Inductive, AuditTruthful
<1>2. /\ \E s \in {"Expired", "Stale"} : status' = [status EXCEPT ![p] = s]
      /\ UNCHANGED <<proposal, cluster, writes>>
  BY DEF ExpirePlan, InvalidatePlan, SetStatus
<1>3. Gate!Void(p)
  BY <1>1, <1>2, GateVoided
<1> QED
  BY <1>3 DEF GateStep, Gate!GateNext

LEMMA DecisionGate ==
  ASSUME Inductive, NEW t \in Callers, ApproveCommit(t) \/ RejectCommit(t)
  PROVE  GateStep
<1> DEFINE p == target[t]
<1>1. p \in Plans /\ (status[p] = "Previewed" => p \notin PatchedPlans)
  BY CallsPlan DEF ApproveCommit, RejectCommit, PlanSteps, Inductive, AuditTruthful
<1>2. UNCHANGED <<proposal, cluster, writes>>
  BY DEF ApproveCommit, RejectCommit, CompareAndFinish, CompareAndSet
<1>3. \/ status' = status
      \/ status[p] = "Previewed" /\ status' = [status EXCEPT ![p] = "Approved"]
      \/ status[p] = "Previewed" /\ status' = [status EXCEPT ![p] = "Rejected"]
  BY DEF ApproveCommit, RejectCommit, CompareAndFinish, CompareAndSet, SetStatus
<1>4. UNCHANGED Gate!gateVars \/ Gate!Approve(p) \/ Gate!Void(p)
  BY <1>1, <1>2, <1>3, GateFrame, GateApproved, GateVoided
<1> QED
  BY <1>1, <1>4 DEF GateStep, Gate!GateNext

(* The claim and the records of an outcome; a failure recorded after a patch *)
(* whose answer was lost keeps the gate written.                             *)
LEMMA OutcomeGate ==
  ASSUME Inductive, NEW t \in Callers,
         ExecuteClaim(t) \/ ExecuteRecord(t) \/ ExecuteFailRecord(t) \/ VerifyRecord(t)
  PROVE  GateStep
<1>1. PICK p \in Plans : p = target[t]
  BY CallsPlan
     DEF ExecuteClaim, ExecuteRecord, ExecuteFailRecord, VerifyRecord, PlanSteps
<1>2. UNCHANGED <<proposal, cluster, writes>>
  BY DEF ExecuteClaim, ExecuteRecord, ExecuteFailRecord, VerifyRecord,
         CompareAndFinish, CompareAndSet
<1>3. CASE status' = status
  BY <1>2, <1>3, GateFrame DEF GateStep
<1>4. CASE /\ p \in PatchedPlans
           /\ \E s \in {"Executed", "Verified", "Failed"} : status' = [status EXCEPT ![p] = s]
  <2>1. GateOf(p) = "written" /\ GateOf(p)' = "written"
    BY <1>1, <1>2, <1>4, GateRestated, GateValues, GateValuesNext
  <2> QED
    BY <1>1, <1>2, <1>4, <2>1, GateUnmoved DEF GateStep
<1>5. CASE /\ p \notin PatchedPlans /\ status[p] = "Approved"
           /\ status' = [status EXCEPT ![p] = "Executing"]
  <2>1. GateOf(p) = "approved" /\ GateOf(p)' = "approved"
    BY <1>1, <1>2, <1>5, GateRestated, GateValues, GateValuesNext
  <2> QED
    BY <1>1, <1>2, <1>5, <2>1, GateUnmoved DEF GateStep
<1>6. CASE /\ p \notin PatchedPlans /\ status[p] = "Executing"
           /\ status' = [status EXCEPT ![p] = "Failed"]
  BY <1>1, <1>2, <1>6, GateVoided DEF GateStep, Gate!GateNext
<1>7. CASE ExecuteClaim(t)
  <2>1. status[p] = "Approved" => p \notin PatchedPlans
    BY <1>1 DEF Inductive, AuditTruthful
  <2> QED
    BY <1>1, <1>7, <2>1, <1>3, <1>5 DEF ExecuteClaim, CompareAndSet, SetStatus
<1>8. CASE ExecuteRecord(t)
  BY <1>1, <1>8, <1>3, <1>4 DEF ExecuteRecord, CompareAndSet, SetStatus, Inductive, CallsPatched
<1>9. CASE ExecuteFailRecord(t)
  BY <1>1, <1>9, <1>3, <1>4, <1>6 DEF ExecuteFailRecord, CompareAndFinish, SetStatus
<1>10. CASE VerifyRecord(t)
  BY <1>1, <1>10, <1>4 DEF VerifyRecord, SetStatus, Inductive, CallsPatched
<1> QED
  BY <1>7, <1>8, <1>9, <1>10

LEMMA CreateGate ==
  ASSUME Inductive, NEW t \in Callers, NEW p \in Plans, ProposeCreate(t, p)
  PROVE  GateStep
<1>1. /\ status[p] = "Absent" /\ p \notin PatchedPlans
      /\ draft[t] \in Proposal /\ draft[t] # NoProposal /\ Bound(draft[t])
  BY NoProposalAssumption
     DEF Inductive, AuditTruthful, CallsWellFormed, DraftSteps, ProposeCreate
<1>2. /\ status' = [status EXCEPT ![p] = "Previewed"]
      /\ proposal' = [proposal EXCEPT ![p] = draft[t]]
      /\ UNCHANGED <<cluster, writes>>
  BY DEF ProposeCreate, SetStatus
<1>3. /\ status'[p] = "Previewed" /\ PatchedPlans' = PatchedPlans
      /\ \A q \in Plans \ {p} : status'[q] = status[q]
  BY <1>2 DEF Inductive, TypeOK, PatchedPlans
<1>4. GateOf(p) = "none" /\ GateOf(p)' = "previewed"
  BY <1>1, <1>3, GateValues, GateValuesNext
<1>5. [q \in Plans |-> GateOf(q)]' = [[q \in Plans |-> GateOf(q)] EXCEPT ![p] = "previewed"]
  BY <1>3, <1>4, GateOfOne
<1>6. BoundTo' = [BoundTo EXCEPT ![p] = draft[t].version]
  BY <1>1, <1>2 DEF Inductive, TypeOK, BoundTo
<1>7. draft[t].version \in 1 .. Version /\ Version' = Version
  BY <1>1, <1>2 DEF Bound, Version
<1>8. Gate!Preview(p)
  BY <1>4, <1>5, <1>6, <1>7 DEF Gate!Preview, BoundTo
<1> QED
  BY <1>8 DEF GateStep, Gate!GateNext

LEMMA PatchGate ==
  ASSUME Inductive, NEW t \in Callers, ExecutePatch(t)
  PROVE  GateStep
<1>0. PICK p \in Plans : p = target[t]
  BY CallsPlan DEF ExecutePatch, PlanSteps, Inductive
<1>1. /\ p \notin PatchedPlans /\ status[p] = "Executing"
      /\ proposal[p] # NoProposal /\ proposal[p].version = Version
  BY <1>0, CallsPlan, NoProposalAssumption
     DEF ExecutePatch, PlanSteps, Inductive, ClaimsHeld, ExecutorSteps, CallsPatched
<1>2. /\ cluster' = Append(cluster, Patched(Current, proposal[p].action))
      /\ writes' = writes \cup {[plan |-> p, version |-> Version]}
      /\ UNCHANGED <<status, proposal>>
  BY <1>0 DEF ExecutePatch, records
<1>3. \A q \in Plans : q \in PatchedPlans' <=> q \in PatchedPlans \/ q = p
  <2>1. PICK w : w = [plan |-> p, version |-> Version]
    OBVIOUS
  <2>2. w.plan = p /\ writes' = writes \cup {w}
    BY <1>2, <2>1
  <2>3. PatchedPlans' = {x.plan : x \in writes'}
    BY DEF PatchedPlans
  <2>4. {x.plan : x \in writes \cup {w}} = {x.plan : x \in writes} \cup {w.plan}
    OBVIOUS
  <2> QED
    BY <2>2, <2>3, <2>4 DEF PatchedPlans
<1>4. GateOf(p) = "approved" /\ GateOf(p)' = "written"
  BY <1>1, <1>3, GateValues, GateValuesNext
<1>5. [q \in Plans |-> GateOf(q)]' = [[q \in Plans |-> GateOf(q)] EXCEPT ![p] = "written"]
  BY <1>1, <1>2, <1>3, <1>4, GateOfOne
<1>6. BoundTo' = BoundTo /\ BoundTo[p] = Version
  BY <1>1, <1>2 DEF BoundTo
<1>7. Version' = Version + 1
  BY <1>2 DEF Version, Inductive, TypeOK
<1>8. Gate!Write(p)
  BY <1>1, <1>4, <1>5, <1>6, <1>7 DEF Gate!Write, BoundTo
<1> QED
  BY <1>1, <1>8 DEF GateStep, Gate!GateNext

LEMMA DriftGate ==
  ASSUME Inductive, ClusterDrift
  PROVE  GateStep
<1>1. /\ \E s : cluster' = Append(cluster, s)
      /\ UNCHANGED <<status, proposal, writes>>
  BY DEF ClusterDrift, records
<1>2. Version' = Version + 1
  BY <1>1 DEF Version, Inductive, TypeOK
<1>3. [q \in Plans |-> GateOf(q)]' = [q \in Plans |-> GateOf(q)] /\ BoundTo' = BoundTo
  BY <1>1 DEF GateOf, PatchedPlans, BoundTo
<1> QED
  BY <1>2, <1>3 DEF GateStep, Gate!GateNext, Gate!Drift, BoundTo

(* Every other action leaves plans, writes and the deployment alone. *)
LEMMA OtherGate ==
  ASSUME NEW t \in Callers,
         \/ \E i \in Incidents, a \in Requests : ProposeBegin(t, i, a)
         \/ \E p \in Plans : ApproveBegin(t, p) \/ RejectBegin(t, p)
         \/ \E p \in Plans : ExecuteBegin(t, p) \/ VerifyBegin(t, p)
         \/ \E i \in Incidents :
              PublicLifecycle(t, i) \/ DraftPostmortem(t, i) \/ PublishPostmortem(t, i)
         \/ ProposePreview(t) \/ ProposeRefused(t) \/ ProposeTransition(t)
         \/ ReleaseRead(t) \/ Release(t)
         \/ ExecuteStart(t) \/ ExecutePatchFails(t) \/ ExecuteMonitor(t)
         \/ ExecuteFailRelease(t) \/ VerifyResolve(t)
  PROVE  GateStep
<1>1. UNCHANGED <<status, writes, proposal, cluster>>
  BY DEF ProposeBegin, ApproveBegin, RejectBegin, ExecuteBegin, VerifyBegin,
         PublicLifecycle, DraftPostmortem, PublishPostmortem, MoveOnly,
         ProposePreview, ProposeRefused, ProposeTransition, ReleaseRead, Release,
         FinishWithMove, ExecuteStart, ExecutePatchFails, ExecuteMonitor,
         ExecuteFailRelease, VerifyResolve, records
<1> QED
  BY <1>1, GateFrame DEF GateStep

LEMMA GateSteps ==
  ASSUME Inductive, [Next]_vars
  PROVE  GateStep
<1>1. CASE \E t \in Callers : Request(t)
  BY <1>1, LapseGate, OtherGate DEF Request
<1>2. CASE \E t \in Callers : HandlerStep(t)
  BY <1>2, CreateGate, DecisionGate, OutcomeGate, PatchGate, OtherGate DEF HandlerStep
<1>3. CASE ClusterDrift
  BY <1>3, DriftGate
<1>4. CASE (\E p \in Plans : Expire(p)) \/ Crash \/ UNCHANGED vars
  <2>1. UNCHANGED <<status, writes, proposal, cluster>>
    BY <1>4 DEF Expire, Crash, vars, records
  <2> QED
    BY <2>1, GateFrame DEF GateStep
<1> QED
  BY <1>1, <1>2, <1>3, <1>4 DEF Next

LEMMA GateStarts == Init => Gate!GateInit
<1> SUFFICES ASSUME Init PROVE Gate!GateInit
  OBVIOUS
<1>1. \A p \in Plans : GateOf(p) = "none"
  BY GateValues DEF Init, PatchedPlans
<1>2. Version = 1
  BY DEF Init, Version
<1> QED
  BY <1>1, <1>2 DEF Gate!GateInit, Init

(* The workflow implements the approval gate: nothing is written twice,     *)
(* after it was voided, without approval or over another version than the   *)
(* previewed one.                                                           *)
THEOREM GateImplemented == Spec => ImplementsGate
<1>1. Inductive /\ [Next]_vars => [Gate!GateNext]_(Gate!gateVars)
  BY GateSteps DEF GateStep
<1> QED
  BY GateStarts, Invariance, <1>1, PTL DEF Spec, ImplementsGate, Gate!GateSpec

================================================================================
