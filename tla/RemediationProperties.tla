------------------------- MODULE RemediationProperties -------------------------
(***************************************************************************)
(* What the remediation workflow must guarantee.  The first group holds    *)
(* under any interleaving of callers and crashes; the second describes the *)
(* records between calls, and holds only when calls run one at a time.     *)
(***************************************************************************)
EXTENDS Remediation

PatchedPlans == {w.plan : w \in writes}

(* Whatever reaches the cluster is what a person approved: the plan was     *)
(* approved, the patch went in over exactly the version that was previewed, *)
(* it changed something, and the object stored next is the previewed one.   *)
(* remediation.py preview, approve, execute and the patch precondition.     *)
PatchedAsApproved ==
  \A w \in writes :
    LET a == proposal[w.plan].action
    IN  /\ w.plan \in approved
        /\ w.version = proposal[w.plan].version
        /\ WouldChange(cluster[w.version], a)
        /\ cluster[w.version + 1] = Patched(cluster[w.version], a)

(* The plan's recorded status never misstates what happened to the cluster: *)
(* a plan shown as executed or verified was patched in, and a plan that is  *)
(* undecided, rejected, expired or stale was not.  Only Executing and       *)
(* Failed leave it open (an answer lost on the way).                        *)
AuditTruthful ==
  \A p \in Plans :
    /\ status[p] \in {"Executed", "Verified"} => p \in PatchedPlans
    /\ status[p] \in {"Absent", "Previewed", "Approved", "Rejected", "Expired", "Stale"}
         => p \notin PatchedPlans

(* The claim by compare-and-set makes one caller the executor of a plan:    *)
(* no two calls are ever between the claim and the record of its outcome.   *)
ExecutorSteps == {"patching", "recording", "failRelease", "failRecord"}
OneExecutor ==
  \A t, u \in Callers :
    pc[t] \in ExecutorSteps /\ pc[u] \in ExecutorSteps /\ target[t] = target[u] => t = u

(* A claimed execution leaves its outcome behind: when the call that claimed *)
(* a plan is done with it, the plan is Executed or Failed, whatever other    *)
(* callers did to the plan and its incident meanwhile.  Two things alone     *)
(* leave it Executing: the process dies, or a patch fails after the incident *)
(* has left Executing, whose handler then raises before it marks the plan.   *)
LeavesExecution(t) == pc[t] \in ExecutorSteps /\ pc'[t] \notin ExecutorSteps
FailureRefused(t) ==
  pc[t] = "failRelease" /\ ~CanMove(state[IncidentOf(target[t])], "Triaging")
OutcomeRecorded ==
  [][\A t \in Callers : LeavesExecution(t) =>
       status'[target[t]] \in {"Executed", "Failed"} \/ FailureRefused(t) \/ Crash]_vars

(* No incident is closed on words alone: before it is Resolved, drafted or  *)
(* published, an approved change made for it has reached the cluster.       *)
ClosedAfterPatch ==
  \A i \in Incidents :
    state[i] \in ClosedStates => \E p \in PatchedPlans : IncidentOf(p) = i

(* The workflow implements the approval gate.  The gate of a plan is read   *)
(* off its status and the history of writes; the target's current version   *)
(* is the resourceVersion.                                                  *)
GateOf(p) ==
  CASE p \in PatchedPlans -> "written"
    [] p \notin PatchedPlans /\ status[p] = "Absent" -> "none"
    [] p \notin PatchedPlans /\ status[p] = "Previewed" -> "previewed"
    [] p \notin PatchedPlans /\ status[p] \in {"Approved", "Executing", "Executed", "Verified"}
         -> "approved"
    [] p \notin PatchedPlans /\ status[p] \in {"Rejected", "Failed", "Expired", "Stale"}
         -> "void"

Gate == INSTANCE ApprovalGate WITH
          gate <- [p \in Plans |-> GateOf(p)],
          bound <- [p \in Plans |-> IF proposal[p] = NoProposal THEN 0 ELSE proposal[p].version],
          current <- Version

(* No plan is written twice, after it was voided, without approval, or over *)
(* a version other than the one its preview was bound to.                   *)
ImplementsGate == Gate!GateSpec

(* The workflow implements the verdict's contract, which the verifier in    *)
(* module Recovery implements as well.  A pending check is no check here.   *)
DecisionOf(p) ==
  CASE status[p] \in {"Absent", "Previewed", "Approved", "Executing", "Rejected", "Expired", "Stale"}
         -> "before"
    [] status[p] = "Executed" -> "open"
    [] status[p] = "Verified" -> "verified"
    [] status[p] = "Failed"   -> "failed"

Refutable == {p \in Plans : proposal[p] # NoProposal /\ proposal[p].action.type = "restore_response_mode"}

Contract == INSTANCE Verification WITH
              Subjects <- Plans, Checkers <- Callers, Nobody <- NoPlan,
              decision <- [p \in Plans |-> DecisionOf(p)],
              refutable <- Refutable,
              checking <- [t \in Callers |->
                             IF pc[t] \in {"recovered", "refuted"} THEN target[t] ELSE NoPlan]

(* A plan is verified, or failed by a verification, only after it was       *)
(* executed and by a request that found it undecided, and only the response *)
(* action by a refutation; no other request changes a plan once executed.   *)
ImplementsContract == Contract!VerificationSpec

(* What overlapping verifications leave of ResolvedIsVerified: a closed      *)
(* incident has a plan whose change is in the cluster and which is Verified, *)
(* or a response action that failed since.  The rows do not tell a verdict   *)
(* that a second verification overwrote from a plan whose patch went in and  *)
(* whose answer was lost.  Crashes take nothing from it.                     *)
ClosedOnVerdict ==
  \A i \in Incidents : state[i] \in ClosedStates =>
    \E p \in PatchedPlans :
      /\ IncidentOf(p) = i
      /\ status[p] = "Verified" \/ (status[p] = "Failed" /\ p \in Refutable)

--------------------------------------------------------------------------------
(* Between calls.                                                           *)

Quiet == \A t \in Callers : pc[t] = "idle"
PlansOf(i) == {p \in Plans : proposal[p] # NoProposal /\ IncidentOf(p) = i}

(* An incident shown as ActionProposed has a plan somebody can still        *)
(* approve, reject or execute ("explicitly approve or reject that exact     *)
(* plan", dashboard.py): expiry, rejection and invalidation all put the     *)
(* incident back in Triaging.                                               *)
ProposalDecidable ==
  Quiet => \A i \in Incidents : state[i] = "ActionProposed" =>
             \E p \in PlansOf(i) : status[p] \in {"Previewed", "Approved"}

(* An incident in Monitoring has an executed plan the verifier can be run   *)
(* on: only that run can take the incident forward.                         *)
MonitoringVerifiable ==
  Quiet => \A i \in Incidents : state[i] = "Monitoring" =>
             \E p \in PlansOf(i) : status[p] = "Executed"

(* "Recovery is verified" (dashboard.py): an incident that is resolved, or  *)
(* in its RCA, has a plan whose stored verdict is Verified.                 *)
ResolvedIsVerified ==
  Quiet => \A i \in Incidents : state[i] \in ClosedStates =>
             \E p \in PlansOf(i) : status[p] = "Verified"

(* An execution completes: neither a claimed plan nor its incident stays    *)
(* Executing ("wait for the approved controlled action to complete").       *)
ExecutionFinishes ==
  /\ \A p \in Plans : status[p] = "Executing" ~> status[p] \in {"Executed", "Failed"}
  /\ \A i \in Incidents : state[i] = "Executing" ~> state[i] # "Executing"

--------------------------------------------------------------------------------
(* The inductive invariant behind the first group: what the locals of a     *)
(* call, the records, the deployment and the writes say of each other.      *)

(* A proposal is bound to a version the deployment has had, which its patch *)
(* changes.                                                                 *)
Bound(a) ==
  /\ a.version \in 1 .. Version
  /\ WouldChange(cluster[a.version], a.action)

CallsWellFormed ==
  \A t \in Callers :
    /\ pc[t] \in PlanSteps => target[t] \in Plans /\ status[target[t]] # "Absent"
    /\ pc[t] \in DraftSteps => draft[t] \in Proposal
    /\ pc[t] = "creating" => Bound(draft[t])

PlansWellFormed ==
  \A p \in Plans :
    /\ status[p] = "Absent" <=> proposal[p] = NoProposal
    /\ status[p] # "Absent" => Bound(proposal[p])
    /\ status[p] \in {"Approved", "Executing", "Executed", "Verified", "Failed", "Stale"}
         => p \in approved

(* The status Executing belongs to the one call that claimed the plan. *)
ClaimsHeld ==
  /\ OneExecutor
  /\ \A t \in Callers : pc[t] \in ExecutorSteps => status[target[t]] = "Executing"

(* What a call has done to the cluster shows in where it is. *)
CallsPatched ==
  \A t \in Callers :
    /\ pc[t] = "patching" => target[t] \notin PatchedPlans
    /\ pc[t] \in {"recording", "monitoring"} => target[t] \in PatchedPlans
    /\ pc[t] \in {"recovered", "refuted", "resolving"}
         => /\ target[t] \in PatchedPlans
            /\ status[target[t]] \in {"Executed", "Verified", "Failed"}

WritesInHistory == \A w \in writes : w.version \in 1 .. Version - 1

(* Monitoring, as every closed state, rests on a patch. *)
BackedByPatch ==
  \A i \in Incidents :
    state[i] \in ClosedStates \cup {"Monitoring"} =>
      \E p \in PatchedPlans : IncidentOf(p) = i

(* All of it together; every one of the safety invariants follows, and the  *)
(* single-call handlers rely on it between their steps.                     *)
Inductive ==
  /\ TypeOK
  /\ CallsWellFormed
  /\ PlansWellFormed
  /\ ClaimsHeld
  /\ CallsPatched
  /\ AuditTruthful
  /\ WritesInHistory
  /\ PatchedAsApproved
  /\ BackedByPatch

================================================================================
